SPECIFICATION SpecSystem
CONSTANTS
  w1 = w1 w2 = w2 t1 = t1 t2 = t2 u1 = u1
  Jobs <- OneJob
  NoJob = 0
  Workers = {w1}
  NoWorker = NoWorker
  Names = {n1}
  NoFile = NoFile
  MaxRetries = 2
  Slots <- AllSlots
  Tasks = {t1}
  WorkerOf <- OneTask
  User = User
  Strays = {x1}
  IPs = {u1}
  SubmitterOf <- OneSubmitter
  NoArg = NoArg
  MaxJobsPerIP = 1
  MaxQueueDepth = 1
  Requests = {"submit"}
  Sources = {"muxed"}
  Choices = {"video"}
  MaxFailures = 1
  Timers = {}
  Faults = {"loss", "crash", "transfer"}
CHECK_DEADLOCK FALSE
INVARIANTS DoneFileWhole
PROPERTIES SettledStaysSettled
