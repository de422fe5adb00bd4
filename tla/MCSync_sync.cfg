SPECIFICATION Spec
CONSTANTS
  Item <- MCItem
  Key <- MCKeys
  Above <- MCOneShow
  Collection <- MCCollections
  Titles <- MCTitles
  Bound <- MCBound
  Home <- MCHome
  Bytes <- MCBytes
  MaxItems = 1
  MaxBytes = 1
  None = None
  Start <- MCStart
  Races = FALSE
  MaxEvents <- MCBudget
INVARIANTS
  UnfinishedWaits
  KeptAreCovered
  NoShieldOutlives
  MembershipsWanted
  OnePlanner
PROPERTIES
  OperatorRowsStay
