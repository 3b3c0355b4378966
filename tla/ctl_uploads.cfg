SPECIFICATION Spec
CONSTANTS
  w1 = w1 w2 = w2 n1 = n1 n2 = n2 u1 = u1 s1 = s1 s2 = s2
  Jobs <- OneJob
  NoJob = 0
  Workers = {w1}
  NoWorker = NoWorker
  Names = {n1}
  NoFile = NoFile
  MaxRetries = 2
  Slots = {s1, s2}
  IPs = {u1}
  SubmitterOf <- OneSubmitter
  NoArg = NoArg
  MaxJobsPerIP = 1
  MaxQueueDepth = 1
  Requests = {"submit", "poll", "failed", "upload", "cancel", "status"}
  Sources = {"separate"}
  Choices = {"video"}
  MaxFailures = 1
  Timers = {"ttl"}
  Faults = {"database", "transfer", "restart"}
SYMMETRY Symmetry
INVARIANTS DoneFileWhole
PROPERTIES DeletedStaysDeleted ImplementsJobStore
