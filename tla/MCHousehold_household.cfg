SPECIFICATION HouseholdSpec
CONSTANTS
  Parts = {"requests", "sessions", "outbox", "grace"}
  Card = {a}
  Person = {p}
  Handler = {g, h}
  Day = 2
  KeepTimes = {1, 2}
  LinkTime = 2
  MaxLinkTime = 2
  ResolvedTtl = 2
  MaxRequests = 2
  LeaveTimes = {0}
  Horizon = 3
  Patience = 1
  MaxCalls = 4
  MaxUpsets = 1
  None = None
  Browser = {x, y}
  Task = {g, h}
  SessionIds = {s1, s2, s3}
  States = {f1, f2}
  SessionTtl = 3
  SessionRefresh = 1
  MaxSessions = 2
  ThrottleAfter = 1
  ThrottleFirst = 1
  ThrottleMax = 2
  FlowTtl = 2
  MaxPending = 1
  EndOfTime = 4
  MaxArrivals = 3
  Nobody = Nobody
  Channel = {chat}
  Address = {mail}
  Webhook = {}
  Item = {i}
  Problem = {"cycle", "disk"}
  Subscribed <- MCSubscribed
  PersistCycles = 2
  MaxPerHour = 1
  Hour = 2
  SentTtl = 3
  GoneNews = 2
  Period = 3
  Due = 2
  LastTick = 3
  MaxCycles = 3
  MaxMoves = 1
  MaxFaults = 1
  Title = {x, y}
  GraceRuns = {1, 2}
  Interval = 1
  MaxMovesPerRun = 1
  LastClock = 2
  MaxRuns = 4
  MaxMishaps = 1
INVARIANTS KeepIsKept ToldAfterPersisting
PROPERTIES SpentOnce ForcedIsApproved PausesHold SessionsOutliveUse OneSessionPerSignIn ToldOnce GraceIsEarned
SYMMETRY MCAlike
CHECK_DEADLOCK FALSE
