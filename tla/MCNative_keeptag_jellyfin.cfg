SPECIFICATION Spec
CONSTANTS
  Item <- MCItem
  Show <- MCOneShow
  Season <- MCSeason
  Bytes <- MCBytes
  Section <- MCSection
  Place = {p1}
  Marked = {1}
  JellyfinPlaces = {p1}
  NoPlace = NoPlace
  MaxItems = 2
  MaxBytes = 2
  MaxDeletes = 2
  Window = 1
  UndoWindow = 2
  DryRun = {FALSE}
  MaxTime = 1
  MaxEvents = 1
PROPERTIES
  MarkedStays
