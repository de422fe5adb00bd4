SPECIFICATION UpkeepSpec
CONSTANTS
  Parts = {"duplicates"}
  Volume = {"v", "w"}
  Archive = "w"
  Kinds <- MCKinds
  Forecasts <- MCForecasts
  Quantum = 2
  MoveCost = 1
  MaxUnits = 3
  Nothing = Nothing
  Movie = {"movie"}
  Series = {"series"}
  Card = {"film", "first", "second"}
  ItemOf <- MCItemOf
  Key <- MCKey
  Likelihood <- MCLikelihood
  Growth <- MCGrowth
  MaxMoves = 2
  MaxSearches = 2
  MoveKeep = 2
  MoveWindow = 1
  GuardKeep = 2
  SearchRetry = 1
  SearchWindow = 1
  SearchKeep = 2
  Settings <- MCSettings
  LastDay = 2
  Bustle = 1
  Guide = {"one", "two"}
  Order <- MCOrder
  Synced = Synced
  Own = Own
  NoRun = NoRun
  Upsets = 1
  LastId = 5
  Media = {"m1", "m2", "m3"}
  File = {"f1", "f2", "f3"}
  Radarr = {ra, rb}
  NoFile = NoFile
  NoDecision = NoDecision
  NoCleanup = NoCleanup
  FileOf <- MCTwoMounts
  PathOf <- MCPath
  Renamed = {}
  Listing <- MCListing
  MaxPerRun = 1
  MaxTurns = 1
  MaxCleanups = 2
  List = {l1, l2}
  Show = {s1}
  NoInflow = NoInflow
  MaxSwitches = 4
PROPERTIES KeptFileStays
CHECK_DEADLOCK FALSE
