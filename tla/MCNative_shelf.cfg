SPECIFICATION Spec
CONSTANTS
  Item <- MCItem
  Show <- MCOneShow
  Season <- MCSeason
  Bytes <- MCBytes
  Section <- MCSection
  Place = {p1}
  Marked = {}
  JellyfinPlaces = {}
  NoPlace = NoPlace
  MaxItems = 2
  MaxBytes = 2
  MaxDeletes = 1
  Window = 1
  UndoWindow = 1
  DryRun = {TRUE, FALSE}
  MaxTime = 2
  MaxEvents = 2
INVARIANTS
  TypeOK
  DecisionsStand
PROPERTIES
  NoWarningNoDeletion
  KeptStays
  SeasonsWait
  PromiseKept
