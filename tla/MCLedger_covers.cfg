SPECIFICATION Spec
CONSTANTS
  Item <- MCThree
  Size <- MCUneven
  Volume <- MCDisks
  Home <- MCHome
  Archive = None
  None = None
  Recycle <- MCWindows
  Stale = 9
  SettleGrace = 1
  HeldCredit = 9
  Disturbance = {}
  MaxTime = 2
  MaxEvents = 1
INVARIANTS CreditCovers
CHECK_DEADLOCK FALSE
