-------------------------------- MODULE Youdl --------------------------------
(***************************************************************************)
(* The whole system: workers and one user as the controller's clients.     *)
(*                                                                         *)
(* Every client has one request under way at a time, in a slot of its own. *)
(* A request whose client no longer waits goes on in a stray slot, or in   *)
(* its client's slot if the client died.                                   *)
(***************************************************************************)
EXTENDS Controller, Worker

CONSTANTS
  User,   \* the user's browser
  Strays  \* bound: requests that outlive their client's patience

\* A slot is its client's.
ASSUME SlotAssumption ==
  /\ Slots = Workers \cup Tasks \cup Strays \cup {User}
  /\ Workers \cap Tasks = {} /\ (Workers \cup Tasks) \cap Strays = {}
  /\ User \notin Workers \cup Tasks \cup Strays

systemVars == <<vars, workerVars>>

InitSystem == Init /\ InitWorker

Send(s, op, j, w, a) == Receive(s, op, j, w, a)

Answered(s) == calls[s].pc \in {"ok", "error"}
Accepted(s) == calls[s].pc = "ok"

-----------------------------------------------------------------------------
(* The poll loop. *)

Start(w) == Starts(w) /\ UNCHANGED vars

\* Bound: a poll that finds nothing changes nothing, so a worker polls only
\* when there is a job to find.  Another worker may still be given it first.
Poll(w) ==
  /\ AssignableJobs(w) # {}
  /\ Polls(w)
  /\ Send(w, "poll", NoJob, w, NoArg)

PollAnswered(w) ==
  /\ Answered(w)
  /\ IF Accepted(w) /\ calls[w].job # NoJob
     THEN \E t \in Tasks : GetsJob(w, t, calls[w].job, calls[w].row.status)
     ELSE GetsNothing(w)
  /\ Reply(w)

-----------------------------------------------------------------------------
(* A goroutine's requests. *)

\* Local work may fail, within the bound on failures.
Fails(t) ==
  /\ CannotFetch(t) \/ CannotDownload(t) \/ CannotTrim(t)
  /\ MayFail(tasks[t].job)

\* Every report, whatever the reason.
Send_failed(t) == Send(t, "failed", tasks[t].job, WorkerOf[t], NoArg)

LocalWork(t) ==
  LET j == tasks[t].job IN
  \/ \E kind \in Sources : FetchesMetadata(t) /\ Send(t, "metadata", j, NoWorker, kind)
  \/ Announces(t) /\ Send(t, "running", j, NoWorker, NoArg)
  \/ Downloads(t) /\ Send(t, "status", j, NoWorker, NoArg)
  \/ \E n \in Names : Uploads(t) /\ Send(t, "upload", j, NoWorker, n)
  \/ GivesUpUpload(t) /\ Send_failed(t)
  \/ Fails(t) /\ Send_failed(t)

TaskAnswered(t) ==
  /\ Answered(t)
  /\ \/ MetadataAnswered(t)
     \/ ReportAnswered(t)
     \/ CheckAnswered(t, Accepted(t) /\ calls[t].row.status = "canceled")
     \/ UploadAnswered(t, Accepted(t))
     \/ FailureAnswered(t)
  /\ Reply(t)

-----------------------------------------------------------------------------
(* The user. *)

UserSends ==
  /\ \E op \in Requests \cap {"submit", "select", "cancel"} :
       /\ op = "submit" => Jobs \ Known # {}
       /\ \E a \in Arguments(op) : Send(User, op, a[1], a[2], a[3])
  /\ UNCHANGED workerVars

-----------------------------------------------------------------------------
(* The network, and processes that stop. *)

Awaits(s) ==
  \/ s \in Workers /\ loop[s] = "polling"
  \/ s \in Tasks /\ tasks[s].pc \in Awaiting

\* Nobody takes the answer but a browser, or a connection long closed.
AnswerDropped(s) ==
  /\ ~Awaits(s)
  /\ Reply(s)
  /\ UNCHANGED workerVars

\* The bound on failures also bounds what the network does to a job.
MayLose(s) == s \in Tasks => MayFail(tasks[s].job)

\* A request or its answer is lost on the way.
Lost(s) ==
  /\ "loss" \in Faults
  /\ Awaits(s)
  /\ calls[s].pc \in {"start", "ok"}
  /\ MayLose(s)
  /\ Answer(s, "error")
  /\ UNCHANGED <<table, disk, cleaner, cooling, history, workerVars>>

\* The client's timeout strikes while the handler goes on.
TimesOut(s, x) ==
  /\ "loss" \in Faults
  /\ Awaits(s)
  /\ calls[s].pc \notin {"idle", "ok", "error"}
  /\ calls[s].op # "status"
  /\ MayLose(s)
  /\ calls[x].pc = "idle"
  /\ calls' = [calls EXCEPT ![x] = calls[s], ![s] = [NoCall EXCEPT !.pc = "error"]]
  /\ UNCHANGED <<table, disk, cleaner, cooling, history, workerVars>>

Crash(w) == "crash" \in Faults /\ Crashes(w) /\ UNCHANGED vars

-----------------------------------------------------------------------------
WorkerStep(w) == Start(w) \/ Poll(w) \/ PollAnswered(w)
TaskStep(t) == LocalWork(t) \/ TaskAnswered(t)

Served(s) ==
  /\ calls[s].pc \notin {"idle", "ok", "error"}
  /\ Serve(s)
  /\ UNCHANGED workerVars

Meanwhile == Background /\ UNCHANGED workerVars

Network ==
  \E s \in Slots : AnswerDropped(s) \/ Lost(s) \/ \E x \in Strays : TimesOut(s, x)

NextSystem ==
  \/ \E w \in Workers : WorkerStep(w) \/ Crash(w)
  \/ \E t \in Tasks : TaskStep(t)
  \/ \E s \in Slots : Served(s)
  \/ UserSends
  \/ Network
  \/ Meanwhile

SpecSystem == InitSystem /\ [][NextSystem]_systemVars

-----------------------------------------------------------------------------
(* Fairness: the Go runtime and the network serve every request in the end, *)
(* a ticker fires again, yt-dlp and ffmpeg terminate.  No job need expire:  *)
(* what is promised of jobs must not rest on their being deleted.           *)

Cleaning ==
  /\ Scan \/ \E e \in sweep : RemoveFile(e) \/ DeleteJob(e)
  /\ UNCHANGED workerVars

Fairness ==
  /\ \A w \in Workers : WF_systemVars(WorkerStep(w))
  /\ \A t \in Tasks : WF_systemVars(TaskStep(t))
  /\ \A s \in Slots : WF_systemVars(Served(s)) /\ WF_systemVars(AnswerDropped(s))
  /\ WF_systemVars(Cleaning)

FairSystem == SpecSystem /\ Fairness

-----------------------------------------------------------------------------
(* Properties. *)

\* The controller's and the workers' variables have their types.
TypeOKSystem == TypeOK /\ TypeOKWorker

\* This goroutine has yet to tell the controller how the download ended.
StillReports(t) ==
  \/ tasks[t].pc \in {"announce", "report", "download", "trim", "giveup"}
  \/ tasks[t].pc = "check" /\ ~(Accepted(t) /\ calls[t].row.status = "canceled")
  \/ tasks[t].pc = "upload" /\ ~Accepted(t)
  \/ tasks[t].pc = "fail" /\ ~Answered(t)

\* Somebody downloads job j, or is just being told to.
Attended(j) ==
  \/ \E t \in Tasks : tasks[t].job = j /\ StillReports(t)
  \/ \E w \in Workers : /\ loop[w] = "polling"
                        /\ Accepted(w)
                        /\ calls[w].job = j
                        /\ calls[w].row.status = "running"

\* "running: worker is downloading" (model.go:10).  However polls, reports and
\* stale rows cross, no job is left running with nobody at work on it, as long
\* as no process dies, no message is lost and no statement fails.
RunningIsAttended ==
  \A j \in live : rows[j].status = "running" => Attended(j)

\* A goroutine, or a request on its way or past its checks, may still act on j.
Pending(s, j) ==
  /\ calls[s].job = j
  /\ \/ calls[s].op \in {"poll", "running", "failed", "metadata", "upload"}
     \/ calls[s].pc \in Holding

Busy(j) ==
  \/ \E t \in Tasks : tasks[t].job = j
  \/ \E s \in Slots : Pending(s, j)

Settled(j) == j \in live /\ rows[j].status \in Terminal /\ ~Busy(j)

\* A done, failed or canceled job that nobody works on any more stays as it is
\* until the cleaner deletes it: no poll finds it, no user request revives it.
SettledStaysSettled ==
  [][\A j \in Jobs : Settled(j) =>
       \/ Settled(j)' /\ rows'[j] = rows[j]
       \/ j \in gone']_systemVars

\* A job that runs comes to an end, or back to the queue.
RunningEnds ==
  \A j \in Jobs : rows[j].status = "running" ~> rows[j].status # "running"

\* A submitted job is described, given up or deleted in the end.
PendingEnds ==
  \A j \in Jobs : (j \in live /\ rows[j].status = "pending")
                   ~> ~(j \in live /\ rows[j].status = "pending")

\* A job past its time is deleted in the end, whatever is still done to it.
ExpiredIsDeleted == \A j \in Jobs : j \in old ~> j \in gone

\* AssignJob "finds the next assignable job for a worker and claims it"
\* (queue.go:15): no two workers are being handed the same job.
ClaimIsExclusive ==
  \A v, w \in Workers :
    v # w /\ Accepted(v) /\ Accepted(w) /\ calls[v].job # NoJob =>
      calls[v].job # calls[w].job

\* "done: download complete, file available" (model.go:11).
DoneMeansFileAvailable ==
  \A j \in live \ old :
    rows[j].status = "done" => files[j][rows[j].file] = "whole"

\* The cleaner "deletes expired jobs and their files" (server.go:126): once no
\* request names the job, nothing of it is left in the storage directory.
NoFileOutlivesItsJob ==
  \A j \in gone :
    (\A s \in Slots : calls[s].job # j) => \A n \in Names : files[j][n] = "absent"

=============================================================================
