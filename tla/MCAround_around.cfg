SPECIFICATION AroundSpec
CONSTANTS
  Parts = {"torrents", "rules", "fleet"}
  Title = {"s1", "s2"}
  Torrent = {"t1", "t2"}
  NoPass = NoPass
  ClientOf <- MCClient
  FolderOf <- MCFolder
  SavedIn <- MCSaved
  TorrentRules <- MCTorrentRules
  MaxHappenings = 1
  MaxPasses = 2
  Season = {0, 1, 2, 3}
  RuleKinds <- MCRuleKinds
  Shows <- MCShows
  MaxRules = 2
  Download = {"d"}
  Unlisted = Unlisted
  NotRead = NotRead
  SizeLeft = 2
  StalledAfter = 2
  LastHour = 4
  MaxMishaps = 1
PROPERTIES DeletesFree GoalsAreKept MissingFactsKeep OnlyHopelessGo StalledForLong
CHECK_DEADLOCK FALSE
