SPECIFICATION SpecSystem
CONSTANTS
  w1 = w1 w2 = w2 t1 = t1 t2 = t2 u1 = u1
  Jobs <- OneJob
  NoJob = 0
  Workers = {w1, w2}
  NoWorker = NoWorker
  Names = {n1}
  NoFile = NoFile
  MaxRetries = 2
  Slots <- AllSlots
  Tasks = {t1, t2}
  WorkerOf <- OnePerWorker
  User = User
  Strays = {}
  IPs = {u1}
  SubmitterOf <- OneSubmitter
  NoArg = NoArg
  MaxJobsPerIP = 1
  MaxQueueDepth = 1
  Requests = {"submit", "select"}
  Sources = {"separate"}
  Choices = {"video"}
  MaxFailures = 1
  Timers = {}
  Faults = {"transfer"}
CHECK_DEADLOCK FALSE
INVARIANTS RunningIsAttended
PROPERTIES SettledStaysSettled
