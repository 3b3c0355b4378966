SPECIFICATION SpecParts
CONSTANTS
  c1 = c1 c2 = c2 r1 = r1 r2 = r2 r3 = r3 u1 = u1 u2 = u2
  Parts = {"throttle"}
  Clients = {c1, c2}
  RateLimit = 3
  Window = 2
  Submissions = {r1, r2, r3}
  Submitters = {u1, u2}
  NoSubmitter = NoSubmitter
  MaxJobsPerIP = 1
  MaxQueueDepth = 2
  MaxRevivals = 1
  Limits = {30}
  Second = 100
  MinWait = 1
  Size = 80
  Buffer = 8
  MaxGap = 36
  MaxClock = 36
  Downloads = {"p", "q"}
  Nobody = Nobody
  Paths <- AllPaths
  NoPath = NoPath
  Output <- OutputOf
  WorkOf <- WorkFiles
  CutOf <- CutName
  Matched <- MatchedBy
  Place <- PlaceOf
  Trimmed = {"p"}
  MaxAttempts <- Twice
  RawFormats <- ManyFormats
  MaxListed = 3
INVARIANT ThroughputLimited
CHECK_DEADLOCK FALSE
