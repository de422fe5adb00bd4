SPECIFICATION FairSpec
CONSTANTS
  Item <- MCOneItem
  Show <- MCOneShow
  Season <- MCSeason
  Bytes <- MCBytes
  Section <- MCSection
  Place = {p1, p2}
  Marked = {}
  JellyfinPlaces = {p2}
  NoPlace = NoPlace
  MaxItems = 2
  MaxBytes = 2
  MaxDeletes = 2
  Window = 1
  UndoWindow = 2
  DryRun = {FALSE}
  MaxTime = 3
  MaxEvents = 2
PROPERTIES
  ClaimsAreHeard
  DatesStand
  ExpiredEnds
  UndoAnswered
