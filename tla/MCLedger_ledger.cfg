SPECIFICATION Spec
CONSTANTS
  Item <- MCOne
  Size <- MCSize
  Volume <- MCArchived
  Home <- MCHome
  Archive = "d2"
  None = None
  Recycle <- MCRecycle
  Stale = 4
  SettleGrace = 1
  HeldCredit = 2
  Disturbance = {"import", "redownload", "outside", "loss", "unlocated"}
  MaxTime = 6
  MaxEvents = 1
INVARIANTS CreditEnds
PROPERTIES CreditKept
CHECK_DEADLOCK FALSE
