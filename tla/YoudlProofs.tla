----------------------------- MODULE YoudlProofs -----------------------------
(***************************************************************************)
(* The whole system, for any number of workers, goroutines, jobs and       *)
(* requests that outlive their clients.                                    *)
(*                                                                         *)
(* To the controller the workers, the user and the network are but another *)
(* client: whatever they send has arguments that fit, so its inductive     *)
(* invariant IInv carries over.  To it are added, in two stages, what the  *)
(* clients keep: whatever goes wrong (SystemInv), and that a call and the  *)
(* process that awaits its answer agree as long as neither is lost         *)
(* (AttendedInv).                                                          *)
(*                                                                         *)
(* A step of the system is one of the controller's, one of a client that   *)
(* leaves rows, files and cleaner alone, or a request that outlives its    *)
(* client: then another slot goes on with it.  So what is proved of the    *)
(* controller - rows, files, the abstract table - holds of the system.     *)
(***************************************************************************)
EXTENDS Youdl, UploadProofs, StoreProofs

\* A goroutine at work has a job.
TasksHaveJobs == \A t \in Tasks : tasks[t].pc # "free" => tasks[t].job \in Jobs

\* An answer without content names no job, and is all that has no request.
NothingAsked == \A s \in Slots :
  calls[s].op = "none" => calls[s].job = NoJob /\ calls[s].pc \in {"idle", "ok", "error"}

\* A worker's own slot serves its polls only.
WorkersPoll == \A w \in Workers : calls[w].op \in {"none", "poll"}

WorkersInv == TypeOKWorker /\ TasksHaveJobs

SystemInv == IInv /\ WorkersInv /\ NothingAsked /\ WorkersPoll

\* What a goroutine asks when it awaits an answer.
Asked == [describe |-> "metadata", report |-> "running", check |-> "status",
          upload |-> "upload", fail |-> "failed"]

\* Every request is awaited by the client that sent it.
Awaited(s) ==
  \/ calls[s].op = "none"
  \/ s \in Workers /\ loop[s] = "polling" /\ calls[s].op = "poll"
  \/ /\ s \in Tasks
     /\ tasks[s].pc \in Awaiting
     /\ calls[s].op = Asked[tasks[s].pc]
     /\ calls[s].job = tasks[s].job
  \/ s = User /\ calls[s].op \in {"submit", "select", "cancel"}

\* Only a poll or a running report is about to set a job running.
RunningIsMeant ==
  \A s \in Slots : Holds(s) /\ calls[s].row.status = "running" =>
                     calls[s].op \in {"poll", "running"}

AllAwaited == \A s \in Slots : Awaited(s)

\* What the requests under way say of their clients.
Coupling == SystemInv /\ AllAwaited /\ RunningIsMeant

AttendedInv == Coupling /\ RunningIsAttended

-----------------------------------------------------------------------------
(* The workers' part of a step. *)

\* A goroutine moves on, or ends.
LEMMA MovesKeeps ==
  ASSUME WorkersInv, NEW t \in Tasks, NEW from, NEW to, Moves(t, from, to),
         from # "free", to \in {"free"} \cup Working \cup Awaiting
  PROVE  WorkersInv'
<1> DEFINE k == IF to = "free" THEN NoTask ELSE [tasks[t] EXCEPT !.pc = to]
<1>1. tasks' = [tasks EXCEPT ![t] = k] /\ tasks[t].pc = from /\ loop' = loop
  BY Zenon DEF Moves
<1>2. tasks \in [Tasks -> Task] /\ tasks[t] \in Task /\ tasks[t].job \in Jobs
  BY <1>1 DEF WorkersInv, TypeOKWorker, TasksHaveJobs
<1>3. k \in Task /\ (k.pc # "free" => k.job \in Jobs)
  BY <1>2 DEF Task, NoTask
<1> HIDE DEF k
<1>4. TypeOKWorker'
  BY <1>1, <1>2, <1>3 DEF WorkersInv, TypeOKWorker
<1>5. TasksHaveJobs'
  BY <1>1, <1>2, <1>3 DEF WorkersInv, TasksHaveJobs
<1> QED
  BY <1>4, <1>5 DEF WorkersInv

\* The poll loop goes on.
LEMMA SetsKeeps ==
  ASSUME WorkersInv, NEW w \in Workers, NEW from, NEW to, Sets(w, from, to),
         to \in {"down", "idle", "polling"}, UNCHANGED tasks
  PROVE  WorkersInv'
BY DEF Sets, WorkersInv, TypeOKWorker, TasksHaveJobs

\* A new goroutine has the job that the poll found.
LEMMA GetsJobKeeps ==
  ASSUME WorkersInv, NEW w \in Workers, NEW t \in Tasks, NEW j \in Jobs,
         NEW status, GetsJob(w, t, j, status)
  PROVE  WorkersInv'
<1> DEFINE k == IF FirstPC(status) = "free" THEN NoTask
                ELSE [pc |-> FirstPC(status), job |-> j]
<1>1. /\ loop' = [loop EXCEPT ![w] = "idle"]
      /\ tasks' = [tasks EXCEPT ![t] = k]
  BY Zenon DEF GetsJob, Sets
<1>2. FirstPC(status) \in {"free", "fetch", "announce"}
  BY DEF FirstPC
<1>3. k \in Task /\ (k.pc # "free" => k.job \in Jobs)
  BY <1>2 DEF Task, NoTask, Working
<1> HIDE DEF k
<1>4. TypeOKWorker'
  BY <1>1, <1>3 DEF WorkersInv, TypeOKWorker
<1>5. TasksHaveJobs'
  BY <1>1, <1>3 DEF WorkersInv, TypeOKWorker, TasksHaveJobs
<1> QED
  BY <1>4, <1>5 DEF WorkersInv

\* Goroutines die with their worker.
LEMMA CrashesKeeps ==
  ASSUME WorkersInv, NEW w \in Workers, Crashes(w)
  PROVE  WorkersInv'
<1>1. /\ loop' = [loop EXCEPT ![w] = "down"]
      /\ tasks' = [t \in Tasks |-> IF WorkerOf[t] = w THEN NoTask ELSE tasks[t]]
  BY DEF Crashes
<1>2. NoTask \in Task /\ NoTask.pc = "free"
  BY DEF NoTask, Task
<1> QED
  BY <1>1, <1>2 DEF WorkersInv, TypeOKWorker, TasksHaveJobs

-----------------------------------------------------------------------------
(* The controller's part of a step. *)

\* What a read leaves in its call: the row it found, changed, of the job that
\* was named or, where the client names none or the status decides, of an
\* active one.
Takes(s) ==
  \E pc \in PCs, j \in live, r \in Row :
    /\ Hold(s, pc, j, r)
    /\ \/ calls[s].op \in {"poll", "select", "cancel"} /\ rows[j].status \in Active
       \/ /\ calls[s].op \in {"running", "failed", "metadata", "upload"}
          /\ calls[s].job = j
       \/ calls[s].op = "status" /\ calls[s].job = j /\ pc = "ok" /\ r = rows[j]
    /\ pc \in Holding /\ r.status = "running" => calls[s].op \in {"poll", "running"}

\* A handler that goes on writes, at most, the row that it holds already.
GoesOn(s) ==
  \E pc \in PCs :
    /\ Advance(s, pc)
    /\ pc \in Holding => calls[s].pc \in Holding
    /\ pc \notin {"idle", "error"}
    /\ pc = "ok" => calls[s].op = "poll" /\ calls[s].pc = "write"

Answers(s) == \E pc \in {"ok", "error"} : Answer(s, pc)

\* No handler but a poll and a running report makes a job run.
LEMMA WhatRuns ==
  ASSUME NEW r \in Row
  PROVE  /\ AfterFailure(r).status # "running"
         /\ \A kind \in Kinds : Described(r, kind).status # "running"
         /\ \A mode \in UserModes : Selected(r, mode).status # "running"
         /\ \A n \in Names : Uploaded(r, n).status # "running"
         /\ Canceled(r).status # "running"
<1>1. AfterFailure(r).status # "running"
  <2> DEFINE st == IF r.mode # NoMode THEN "queued" ELSE "pending"
             n == r.retries + 1
  <2>1. st # "running"
    OBVIOUS
  <2>2. \/ AfterFailure(r) = [r EXCEPT !.retries = n, !.status = "failed"]
        \/ AfterFailure(r) = [r EXCEPT !.retries = n, !.worker = NoWorker, !.status = st]
    BY Zenon DEF AfterFailure, Abandoned, Requeued
  <2> HIDE DEF st, n
  <2> QED
    BY <2>1, <2>2 DEF Row
<1>2. /\ \A kind \in Kinds : Described(r, kind).status # "running"
      /\ \A mode \in UserModes : Selected(r, mode).status # "running"
      /\ \A n \in Names : Uploaded(r, n).status # "running"
      /\ Canceled(r).status # "running"
  BY DEF Described, Selected, Uploaded, Canceled, Row
<1> QED
  BY <1>1, <1>2

\* Each statement of a handler answers, goes on, or reads a row and holds it.
LEMMA StatementKinds ==
  ASSUME IInv, NEW s \in Slots, Serve(s)
  PROVE  Answers(s) \/ GoesOn(s) \/ Takes(s)
<1> USE DEF At, Found
<1>0. CallInv(calls[s], failures) /\ calls[s] \in Call
  BY DEF IInv, CallsInv
<1>1. ASSUME NEW j \in live
      PROVE  /\ j \in Jobs /\ rows[j] \in Row /\ Legal(rows[j])
             /\ rows[j].retries <= failures[j]
  BY FoundRow
<1>2. CASE \/ \E op \in Ops \ {"submit", "poll", "failed"} : NotFound(s, op)
           \/ SubmitRefused(s) \/ SubmitInsert(s) \/ FailGone(s)
           \/ UploadNotCreated(s) \/ UploadBroken(s) \/ DatabaseError(s)
  BY <1>2 DEF Answers, NotFound, SubmitRefused, SubmitInsert, FailGone,
              UploadNotCreated, UploadBroken, DatabaseError
<1>3. CASE SubmitCountIP(s) \/ SubmitCountAll(s)
  BY <1>3 DEF Answers, GoesOn, SubmitCountIP, SubmitCountAll, PCs, Holding
<1>4. CASE CooldownWorker(s) \/ SaveFormats(s) \/ UploadCreate(s) \/ UploadCopied(s)
  BY <1>4 DEF GoesOn, CooldownWorker, SaveFormats, UploadCreate, UploadCopied,
              PCs, Holding
<1>5. CASE SelectFormats(s)
  BY <1>5 DEF Answers, GoesOn, SelectFormats, PCs, Holding
<1>6. CASE UpdateJob(s)
  BY <1>6 DEF Answers, GoesOn, UpdateJob, PCs, Holding
<1>7. CASE PollRead(s)
  <2>1. CASE Answer(s, "ok")
    BY <2>1 DEF Answers
  <2>2. CASE \E j \in AssignableJobs(calls[s].worker) :
               Hold(s, "write", j, Assigned(rows[j], calls[s].worker))
    <3>1. PICK j \in AssignableJobs(calls[s].worker) :
                 Hold(s, "write", j, Assigned(rows[j], calls[s].worker))
      BY <2>2
    <3>2. j \in live /\ Assignable(rows[j], calls[s].worker)
      BY <3>1 DEF AssignableJobs
    <3>3. calls[s].op = "poll" /\ calls[s].worker \in Workers
      BY <1>0, <1>7 DEF PollRead, CallInv, ArgumentsFit
    <3>4. Assigned(rows[j], calls[s].worker) \in Row
      BY <1>1, <3>2, <3>3, AssignedFits
    <3>5. rows[j].status \in Active
      BY <3>2 DEF Assignable, Active
    <3> QED
      BY <3>1, <3>2, <3>3, <3>4, <3>5 DEF Takes, PCs
  <2> QED
    BY <1>7, <2>1, <2>2 DEF PollRead
<1>8. CASE UpdateRead(s)
  <2>1. Reported(rows[calls[s].job]) \in Row
    BY <1>1, <1>8, ReportedFits DEF UpdateRead
  <2> QED
    BY <1>8, <2>1 DEF Takes, UpdateRead, PCs
<1>9. CASE FailRead(s)
  <2> DEFINE j == calls[s].job
             pc == IF GivesUp(rows[j]) THEN "write" ELSE "cool"
             r == AfterFailure(rows[j])
  <2>1. r \in Row /\ r.status # "running"
    BY <1>1, <1>9, AfterFailureFits, WhatRuns DEF FailRead
  <2>2. calls[s].op = "failed" /\ j \in live /\ Hold(s, pc, j, r)
    BY <1>9 DEF FailRead
  <2>3. pc \in PCs
    BY DEF PCs
  <2> HIDE DEF j, pc, r
  <2>4. calls[s].job = j
    BY DEF j
  <2> QED
    BY <2>1, <2>2, <2>3, <2>4 DEF Takes
<1>10. CASE MetadataRead(s)
  <2>1. calls[s].arg \in Kinds
    BY <1>0, <1>10 DEF MetadataRead, CallInv, ArgumentsFit
  <2>2. /\ Described(rows[calls[s].job], calls[s].arg) \in Row
        /\ Described(rows[calls[s].job], calls[s].arg).status # "running"
    BY <1>1, <1>10, <2>1, DescribedFits, WhatRuns DEF MetadataRead
  <2> QED
    BY <1>10, <2>2 DEF Takes, MetadataRead, PCs
<1>11. CASE UploadRead(s)
  <2>1. calls[s].arg \in Names
    BY <1>0, <1>11 DEF UploadRead, CallInv, ArgumentsFit
  <2>2. /\ Uploaded(rows[calls[s].job], calls[s].arg) \in Row
        /\ Uploaded(rows[calls[s].job], calls[s].arg).status # "running"
    BY <1>1, <1>11, <2>1, UploadedFits, WhatRuns DEF UploadRead
  <2> QED
    BY <1>11, <2>2 DEF Takes, UploadRead, PCs
<1>12. CASE SelectRead(s)
  <2>1. calls[s].arg \in UserModes
    BY <1>0, <1>12 DEF SelectRead, CallInv, ArgumentsFit
  <2>2. /\ Selected(rows[calls[s].job], calls[s].arg) \in Row
        /\ Selected(rows[calls[s].job], calls[s].arg).status # "running"
    BY <1>1, <1>12, <2>1, SelectedFits, WhatRuns DEF SelectRead
  <2> QED
    BY <1>12, <2>2 DEF Answers, Takes, SelectRead, PCs, Active
<1>13. CASE CancelRead(s)
  <2>1. /\ Canceled(rows[calls[s].job]) \in Row
        /\ Canceled(rows[calls[s].job]).status # "running"
    BY <1>1, <1>13, CanceledFits, WhatRuns DEF CancelRead
  <2> QED
    BY <1>13, <2>1 DEF Answers, Takes, CancelRead, PCs
<1>14. CASE StatusRead(s)
  BY <1>1, <1>14 DEF Takes, StatusRead, PCs, Holding
<1> QED
  BY <1>2, <1>3, <1>4, <1>5, <1>6, <1>7, <1>8, <1>9, <1>10, <1>11, <1>12, <1>13,
     <1>14 DEF Serve

\* A statement changes its own request and no other.
LEMMA OwnCallOnly ==
  ASSUME IInv, NEW s \in Slots, Serve(s)
  PROVE  /\ \A x \in Slots \ {s} : calls'[x] = calls[x]
         /\ \/ /\ calls'[s].op = "none" /\ calls'[s].job = NoJob
               /\ calls'[s].pc \in {"ok", "error"}
            \/ calls'[s].op = calls[s].op
<1>1. calls \in [Slots -> Call]
  BY DEF IInv, CallsInv
<1>2. CASE Answers(s)
  BY <1>1, <1>2 DEF Answers, Answer, NoCall
<1>3. CASE GoesOn(s)
  BY <1>1, <1>3 DEF GoesOn, Advance, Call
<1>4. CASE Takes(s)
  <2>1. PICK pc \in PCs, j \in live, r \in Row : Hold(s, pc, j, r)
    BY <1>4 DEF Takes
  <2> QED
    BY <1>1, <2>1 DEF Hold, Call
<1> QED
  BY <1>2, <1>3, <1>4, StatementKinds

-----------------------------------------------------------------------------
(* Every step of the system keeps its invariant. *)

\* A slot of the controller for every client.
LEMMA ClientsHaveSlots ==
  /\ Workers \subseteq Slots /\ Tasks \subseteq Slots /\ Strays \subseteq Slots
  /\ User \in Slots
BY SlotAssumption

\* What any client sends, the controller can handle.
LEMMA SendKeeps ==
  ASSUME SystemInv, NEW s \in Slots, NEW op, NEW j, NEW w, NEW a,
         Send(s, op, j, w, a), ArgumentsGiven(op, j, w, a),
         s \in Workers => op = "poll"
  PROVE  IInv' /\ NothingAsked' /\ WorkersPoll'
<1>1. IInv'
  BY ReceiveKeeps DEF SystemInv, Send
<1> DEFINE c == Request(op, j, w, a)
<1>2. calls \in [Slots -> Call] /\ calls' = [calls EXCEPT ![s] = c]
  BY DEF SystemInv, IInv, CallsInv, Send, Receive
<1>3. c.op = op
  BY DEF Request, NoCall
<1> HIDE DEF c
<1>4. op # "none"
  BY DEF ArgumentsGiven, Ops
<1>5. NothingAsked' /\ WorkersPoll'
  BY <1>2, <1>3, <1>4, ClientsHaveSlots DEF SystemInv, NothingAsked, WorkersPoll
<1> QED
  BY <1>1, <1>5

\* Nor do an answer taken, and an answer that gets lost.
LEMMA EmptiedKeeps ==
  ASSUME SystemInv, NEW s \in Slots, NEW pc \in {"idle", "ok", "error"},
         Answer(s, pc), UNCHANGED <<table, disk, cleaner, cooling, history>>
  PROVE  IInv' /\ NothingAsked' /\ WorkersPoll'
<1>1. CallsInv'
  BY AnswerKeeps DEF SystemInv, IInv, history
<1>2. IInv'
  BY <1>1, CallsOnly DEF SystemInv
<1> DEFINE c == [NoCall EXCEPT !.pc = pc]
<1>3. calls \in [Slots -> Call] /\ calls' = [calls EXCEPT ![s] = c]
  BY DEF SystemInv, IInv, CallsInv, Answer
<1>4. c.op = "none" /\ c.job = NoJob /\ c.pc = pc
  BY DEF NoCall
<1> HIDE DEF c
<1>5. NothingAsked' /\ WorkersPoll'
  BY <1>3, <1>4, ClientsHaveSlots DEF SystemInv, NothingAsked, WorkersPoll
<1> QED
  BY <1>2, <1>5

\* A reply is an answer taken.
LEMMA ReplyEmpties ==
  ASSUME NEW s \in Slots, Reply(s)
  PROVE  Answer(s, "idle") /\ UNCHANGED <<table, disk, cleaner, cooling, history>>
BY DEF Reply, Answer, NoCall
\* A statement of a handler.
LEMMA ServedKeeps ==
  ASSUME SystemInv, NEW s \in Slots, Served(s)
  PROVE  SystemInv'
<1>1. Serve(s) /\ calls[s].pc \notin {"idle", "ok", "error"} /\ UNCHANGED workerVars
  BY DEF Served
<1>2. IInv'
  BY <1>1, ServeKeeps DEF SystemInv
<1>3. WorkersInv'
  BY <1>1 DEF SystemInv, WorkersInv, TypeOKWorker, TasksHaveJobs, workerVars
<1>4. calls[s].op # "none"
  BY <1>1 DEF SystemInv, NothingAsked
<1>5. NothingAsked' /\ WorkersPoll'
  BY <1>1, <1>4, OwnCallOnly, ClientsHaveSlots DEF SystemInv, NothingAsked, WorkersPoll
<1> QED
  BY <1>2, <1>3, <1>5 DEF SystemInv

\* The cleaner, the timers and a restart.
LEMMA MeanwhileKeeps ==
  ASSUME SystemInv, Meanwhile
  PROVE  SystemInv'
<1>1. Background /\ UNCHANGED workerVars
  BY DEF Meanwhile
<1>2. IInv'
  BY <1>1, BackgroundKeeps DEF SystemInv
<1>3. WorkersInv'
  BY <1>1 DEF SystemInv, WorkersInv, TypeOKWorker, TasksHaveJobs, workerVars
<1>4. ASSUME Restart
      PROVE  NothingAsked' /\ WorkersPoll'
  BY <1>4, ClientsHaveSlots DEF Restart, NoCall, SystemInv, NothingAsked, WorkersPoll
<1>5. ASSUME UNCHANGED calls
      PROVE  NothingAsked' /\ WorkersPoll'
  BY <1>5 DEF SystemInv, NothingAsked, WorkersPoll
<1>6. NothingAsked' /\ WorkersPoll'
  BY <1>1, <1>4, <1>5
  DEF Background, CoolingEnds, Expire, Scan, RemoveFile, DeleteJob
<1> QED
  BY <1>2, <1>3, <1>6 DEF SystemInv

\* A request whose client gives up goes on elsewhere as it was.
LEMMA TimesOutKeeps ==
  ASSUME SystemInv, NEW s \in Slots, NEW x \in Strays, TimesOut(s, x)
  PROVE  SystemInv'
<1> DEFINE e == [NoCall EXCEPT !.pc = "error"]
<1>1. /\ calls' = [calls EXCEPT ![x] = calls[s], ![s] = e]
      /\ x \in Slots /\ x # s /\ x \notin Workers
      /\ UNCHANGED <<table, disk, cleaner, cooling, history, workerVars>>
  BY SlotAssumption DEF TimesOut
<1>2. calls \in [Slots -> Call]
  BY DEF SystemInv, IInv, CallsInv
<1>3. /\ CallInv(e, failures')
      /\ e.op = "none" /\ e.job = NoJob /\ e.pc = "error"
  BY NewRowFits
  DEF CallInv, ArgumentsFit, Workable, NoCall, Call, Ops, PCs, Holding
<1> HIDE DEF e
<1>4. /\ calls'[x] = calls[s] /\ calls'[s] = e
      /\ \A y \in Slots \ {x, s} : calls'[y] = calls[y]
  BY <1>1, <1>2
<1>5. CallsInv'
  <2>1. failures' = failures /\ \A y \in Slots : CallInv(calls[y], failures)
    BY <1>1 DEF history, SystemInv, IInv, CallsInv
  <2>2. \A y \in Slots : CallInv(calls'[y], failures')
    BY <1>3, <1>4, <2>1
  <2>3. calls' \in [Slots -> Call]
    BY <1>1, <1>2, <1>3 DEF CallInv
  <2> QED
    BY <2>2, <2>3 DEF CallsInv
<1>6. IInv'
  BY <1>1, <1>5, CallsOnly DEF SystemInv
<1>7. NothingAsked'
  BY <1>3, <1>4 DEF SystemInv, NothingAsked
<1>8. WorkersPoll'
  BY <1>1, <1>3, <1>4, ClientsHaveSlots DEF SystemInv, WorkersPoll
<1>9. WorkersInv'
  BY <1>1 DEF SystemInv, WorkersInv, TypeOKWorker, TasksHaveJobs, workerVars
<1> QED
  BY <1>6, <1>7, <1>8, <1>9 DEF SystemInv

\* A worker's loop: it polls, and starts a goroutine for what it is given.
LEMMA WorkerStepKeeps ==
  ASSUME SystemInv, NEW w \in Workers, WorkerStep(w) \/ Crash(w)
  PROVE  SystemInv'
<1>0. w \in Slots
  BY ClientsHaveSlots
<1>1. CASE Start(w) \/ Crash(w)
  <2>1. UNCHANGED vars
    BY <1>1 DEF Start, Crash
  <2>2. IInv'
    BY <2>1, StepKeeps DEF SystemInv
  <2>3. NothingAsked' /\ WorkersPoll'
    BY <2>1 DEF SystemInv, NothingAsked, WorkersPoll, vars
  <2>4. WorkersInv'
    BY <1>1, SetsKeeps, CrashesKeeps DEF Start, Starts, Crash, SystemInv
  <2> QED
    BY <2>2, <2>3, <2>4 DEF SystemInv
<1>2. CASE Poll(w)
  <2>1. ArgumentsGiven("poll", NoJob, w, NoArg) /\ Send(w, "poll", NoJob, w, NoArg)
    BY <1>2 DEF Poll, ArgumentsGiven, Ops
  <2>2. IInv' /\ NothingAsked' /\ WorkersPoll'
    BY <1>0, <2>1, SendKeeps
  <2>3. WorkersInv'
    BY <1>2, SetsKeeps DEF Poll, Polls, SystemInv
  <2> QED
    BY <2>2, <2>3 DEF SystemInv
<1>3. CASE PollAnswered(w)
  <2>1. Reply(w)
    BY <1>3 DEF PollAnswered
  <2>2. IInv' /\ NothingAsked' /\ WorkersPoll'
    BY <1>0, <2>1, ReplyEmpties, EmptiedKeeps
  <2>3. calls[w].job \in Jobs \cup {NoJob}
    BY <1>0 DEF SystemInv, IInv, CallsInv, Call
  <2>4. WorkersInv'
    BY <1>3, <2>3, SetsKeeps, GetsJobKeeps DEF PollAnswered, GetsNothing, SystemInv
  <2> QED
    BY <2>2, <2>4 DEF SystemInv
<1> QED
  BY <1>1, <1>2, <1>3 DEF WorkerStep

\* A goroutine: what it asks, and what it does with the answer.
LEMMA TaskStepKeeps ==
  ASSUME SystemInv, NEW t \in Tasks, TaskStep(t)
  PROVE  SystemInv'
<1>0. t \in Slots /\ t \notin Workers
  BY SlotAssumption
<1>1. CASE LocalWork(t)
  <2>1. tasks[t].pc # "free" /\ WorkersInv'
    BY <1>1, MovesKeeps
    DEF LocalWork, Fails, FetchesMetadata, CannotFetch, Announces, Downloads,
        CannotDownload, Uploads, CannotTrim, GivesUpUpload, Moves, Working,
        Awaiting, SystemInv
  <2>2. tasks[t].job \in Jobs /\ WorkerOf[t] \in Workers
    BY <2>1, TaskAssumption DEF SystemInv, WorkersInv, TasksHaveJobs
  <2> DEFINE j == tasks[t].job
  <2>3. \/ \E kind \in Sources : Send(t, "metadata", j, NoWorker, kind)
        \/ \E op \in {"running", "status"} : Send(t, op, j, NoWorker, NoArg)
        \/ \E n \in Names : Send(t, "upload", j, NoWorker, n)
        \/ Send(t, "failed", j, WorkerOf[t], NoArg)
    BY <1>1 DEF LocalWork, Send_failed
  <2>4. \E op \in Ops, w \in Workers \cup {NoWorker},
           a \in IPs \cup Kinds \cup Names \cup UserModes \cup {NoArg} :
          Send(t, op, j, w, a) /\ ArgumentsGiven(op, j, w, a)
    BY <2>2, <2>3, BoundAssumption DEF ArgumentsGiven, Ops
  <2>5. IInv' /\ NothingAsked' /\ WorkersPoll'
    BY <1>0, <2>4, SendKeeps
  <2> QED
    BY <2>1, <2>5 DEF SystemInv
<1>2. CASE TaskAnswered(t)
  <2>1. Reply(t)
    BY <1>2 DEF TaskAnswered
  <2>2. IInv' /\ NothingAsked' /\ WorkersPoll'
    BY <1>0, <2>1, ReplyEmpties, EmptiedKeeps
  <2>3. WorkersInv'
    BY <1>2, MovesKeeps
    DEF TaskAnswered, MetadataAnswered, ReportAnswered, CheckAnswered,
        UploadAnswered, FailureAnswered, Working, Awaiting, SystemInv
  <2> QED
    BY <2>2, <2>3 DEF SystemInv
<1> QED
  BY <1>1, <1>2 DEF TaskStep

\* The user's browser.
LEMMA UserSendsKeeps ==
  ASSUME SystemInv, UserSends
  PROVE  SystemInv'
<1>1. PICK op \in Requests : \E a \in Arguments(op) : Send(User, op, a[1], a[2], a[3])
  BY DEF UserSends
<1>2. PICK a \in Arguments(op) : Send(User, op, a[1], a[2], a[3])
  BY <1>1
<1>3. ArgumentsGiven(op, a[1], a[2], a[3])
  BY ArgumentsOfAnyone DEF SystemInv
<1>4. User \in Slots /\ User \notin Workers
  BY SlotAssumption
<1>5. IInv' /\ NothingAsked' /\ WorkersPoll'
  BY <1>2, <1>3, <1>4, SendKeeps
<1>6. WorkersInv'
  BY DEF UserSends, SystemInv, WorkersInv, TypeOKWorker, TasksHaveJobs, workerVars
<1> QED
  BY <1>5, <1>6 DEF SystemInv

\* The network.
LEMMA NetworkKeeps ==
  ASSUME SystemInv, Network
  PROVE  SystemInv'
<1>1. ASSUME NEW s \in Slots, AnswerDropped(s) \/ Lost(s)
      PROVE  SystemInv'
  <2>1. UNCHANGED workerVars
    BY <1>1 DEF AnswerDropped, Lost
  <2>2. /\ Answer(s, "idle") \/ Answer(s, "error")
        /\ UNCHANGED <<table, disk, cleaner, cooling, history>>
    BY <1>1, ReplyEmpties DEF AnswerDropped, Lost
  <2>3. IInv' /\ NothingAsked' /\ WorkersPoll'
    BY <2>2, EmptiedKeeps
  <2> QED
    BY <2>1, <2>3 DEF SystemInv, WorkersInv, TypeOKWorker, TasksHaveJobs, workerVars
<1> QED
  BY <1>1, TimesOutKeeps DEF Network

\* The empty system satisfies the invariant.
LEMMA SystemInit == InitSystem => SystemInv
<1> SUFFICES ASSUME InitSystem PROVE SystemInv
  OBVIOUS
<1>1. IInv
  BY InitFits DEF InitSystem
<1>2. WorkersInv
  BY DEF InitSystem, InitWorker, WorkersInv, TypeOKWorker, TasksHaveJobs, NoTask, Task
<1>3. NothingAsked /\ WorkersPoll
  BY ClientsHaveSlots DEF InitSystem, Init, NothingAsked, WorkersPoll, NoCall
<1> QED
  BY <1>1, <1>2, <1>3 DEF SystemInv

\* The invariant is inductive.
LEMMA SystemStep == SystemInv /\ [NextSystem]_systemVars => SystemInv'
<1> SUFFICES ASSUME SystemInv, [NextSystem]_systemVars PROVE SystemInv'
  OBVIOUS
<1>1. CASE UNCHANGED systemVars
  <2>1. UNCHANGED vars /\ UNCHANGED workerVars
    BY <1>1 DEF systemVars
  <2>2. IInv'
    BY <2>1, StepKeeps DEF SystemInv
  <2> QED
    BY <2>1, <2>2
    DEF SystemInv, WorkersInv, TypeOKWorker, TasksHaveJobs, NothingAsked,
        WorkersPoll, vars, workerVars
<1> QED
  BY <1>1, WorkerStepKeeps, TaskStepKeeps, ServedKeeps, UserSendsKeeps,
     NetworkKeeps, MeanwhileKeeps DEF NextSystem

\* The system's inductive invariant holds of every reachable state, whatever
\* goes wrong.
THEOREM SystemInvariance == SpecSystem => []SystemInv
<1>1. InitSystem => SystemInv
  BY SystemInit
<1>2. SystemInv /\ [NextSystem]_systemVars => SystemInv'
  BY SystemStep
<1> QED
  BY <1>1, <1>2, PTL DEF SpecSystem

\* Every variable of the controller and of the workers has its type, although
\* the requests now come from processes that die, lose answers and stop waiting.
THEOREM SystemTypeCorrect == SpecSystem => []TypeOKSystem
<1>1. SystemInv => TypeOKSystem
  BY DEF SystemInv, IInv, WorkersInv, TypeOKSystem
<1> QED
  BY <1>1, SystemInvariance, PTL

-----------------------------------------------------------------------------
(* A settled job stays settled.  Nobody at work on it means that no request *)
(* may write its row; so its row stays, and because it is terminal, no read *)
(* takes it up again: a poll wants it queued or pending, a selection ready, *)
(* a cancellation active.                                                   *)

\* It remains to see of every step that it brings no new work on the job.
LEMMA StaysSettled ==
  ASSUME NEW j \in Jobs, Settled(j),
         j \in live', rows'[j] = rows[j],
         \A t \in Tasks : tasks'[t].job = j => tasks[t].job = j,
         \A s \in Slots : Pending(s, j)' => \E x \in Slots : Pending(x, j)
  PROVE  Settled(j)' /\ rows'[j] = rows[j]
BY DEF Settled, Busy

\* A request on an idle slot that is no work on j.
LEMMA SendNoWork ==
  ASSUME SystemInv, NEW s \in Slots, NEW op, NEW i, NEW w, NEW a,
         Send(s, op, i, w, a), NEW j \in Jobs,
         i = j => op \notin {"poll", "running", "failed", "metadata", "upload"}
  PROVE  /\ UNCHANGED table
         /\ \A x \in Slots : Pending(x, j)' => Pending(x, j)
<1> DEFINE c == Request(op, i, w, a)
<1>1. calls' = [calls EXCEPT ![s] = c] /\ UNCHANGED table
  BY DEF Send, Receive
<1>2. c.op = op /\ c.pc = "start" /\ c.job = i
  BY DEF Request, NoCall
<1> HIDE DEF c
<1>3. calls \in [Slots -> Call]
  BY DEF SystemInv, IInv, CallsInv
<1>4. ~ (Pending(s, j)')
  BY <1>1, <1>2, <1>3 DEF Pending, Holding
<1>5. \A x \in Slots \ {s} : calls'[x] = calls[x]
  BY <1>1, <1>3
<1> QED
  BY <1>1, <1>4, <1>5 DEF Pending

\* An answer leaves no work behind.
LEMMA EmptiedNoWork ==
  ASSUME SystemInv, NEW s \in Slots, NEW pc \in {"idle", "ok", "error"},
         Answer(s, pc), NEW j \in Jobs
  PROVE  \A x \in Slots : Pending(x, j)' => Pending(x, j)
<1> DEFINE c == [NoCall EXCEPT !.pc = pc]
<1>1. calls' = [calls EXCEPT ![s] = c] /\ calls \in [Slots -> Call]
  BY DEF Answer, SystemInv, IInv, CallsInv
<1>2. c.job = NoJob
  BY DEF NoCall
<1> HIDE DEF c
<1>3. ~ (Pending(s, j)')
  BY <1>1, <1>2, JobAssumption DEF Pending
<1>4. \A x \in Slots \ {s} : calls'[x] = calls[x]
  BY <1>1
<1> QED
  BY <1>3, <1>4 DEF Pending

\* What a statement of a handler does to the table.
LEMMA StatementWrites ==
  ASSUME NEW s \in Slots, Serve(s)
  PROVE  /\ gone' = gone
         /\ \/ UNCHANGED <<live, rows>>
            \/ \E i \in Jobs \ Known :
                 live' = live \cup {i} /\ rows' = [rows EXCEPT ![i] = NewRow]
            \/ /\ live' = live
               /\ calls[s].pc = "write" /\ calls[s].job \in live
               /\ rows' = [rows EXCEPT ![calls[s].job] = calls[s].row]
BY DEF Serve, NotFound, SubmitRefused, SubmitCountIP, SubmitCountAll,
       SubmitInsert, PollRead, UpdateRead, FailRead, FailGone, CooldownWorker,
       MetadataRead, SaveFormats, UploadRead, UploadCreate, UploadNotCreated,
       UploadCopied, UploadBroken, SelectRead, SelectFormats, CancelRead,
       StatusRead, UpdateJob, DatabaseError, table, Found

\* A statement begins no work on a terminal job.
LEMMA StatementNoWork ==
  ASSUME SystemInv, NEW s \in Slots, Serve(s), NEW j \in Jobs,
         rows[j].status \in Terminal
  PROVE  \A x \in Slots : Pending(x, j)' => Pending(x, j)
<1>1. calls \in [Slots -> Call] /\ IInv
  BY DEF SystemInv, IInv, CallsInv
<1>2. \A x \in Slots \ {s} : calls'[x] = calls[x]
  BY <1>1, OwnCallOnly
<1>3. ASSUME Pending(s, j)'
      PROVE  Pending(s, j)
  <2>1. CASE Answers(s)
    BY <1>3, <2>1, EmptiedNoWork DEF Answers
  <2>2. CASE GoesOn(s)
    BY <1>1, <1>3, <2>2 DEF GoesOn, Advance, Pending, Call
  <2>3. CASE Takes(s)
    <3>1. PICK pc \in PCs, i \in live, r \in Row :
            /\ Hold(s, pc, i, r)
            /\ \/ rows[i].status \in Active
               \/ /\ calls[s].op \in {"running", "failed", "metadata", "upload"}
                  /\ calls[s].job = i
               \/ calls[s].op = "status" /\ pc = "ok"
      BY <2>3 DEF Takes
    <3>2. calls'[s].op = calls[s].op /\ calls'[s].job = i /\ calls'[s].pc = pc
      BY <1>1, <3>1 DEF Hold, Call
    <3>3. rows[i].status \notin Active
      BY <1>3, <3>2 DEF Pending, Active, Terminal
    <3> QED
      BY <1>3, <3>1, <3>2, <3>3 DEF Pending, Holding
  <2> QED
    BY <1>1, <2>1, <2>2, <2>3, StatementKinds
<1> QED
  BY <1>2, <1>3 DEF Pending

\* A goroutine that moves on keeps its job or gives it up.
LEMMA MovesNoWork ==
  ASSUME SystemInv, NEW t \in Tasks, NEW from, NEW to, Moves(t, from, to),
         NEW j \in Jobs
  PROVE  \A x \in Tasks : tasks'[x].job = j => tasks[x].job = j
<1> DEFINE k == IF to = "free" THEN NoTask ELSE [tasks[t] EXCEPT !.pc = to]
<1>1. tasks' = [tasks EXCEPT ![t] = k] /\ tasks \in [Tasks -> Task]
  BY Zenon DEF Moves, SystemInv, WorkersInv, TypeOKWorker
<1>2. k.job \in {NoJob, tasks[t].job}
  BY <1>1 DEF NoTask, Task
<1> HIDE DEF k
<1> QED
  BY <1>1, <1>2, JobAssumption

\* Of one job and one step.
LEMMA SettledStep ==
  ASSUME SystemInv, [NextSystem]_systemVars, NEW j \in Jobs, Settled(j)
  PROVE  (Settled(j)' /\ rows'[j] = rows[j]) \/ j \in gone'
<1>0. /\ j \in live /\ rows[j].status \in Terminal
      /\ \A t \in Tasks : tasks[t].job # j
      /\ \A s \in Slots : ~Pending(s, j)
  BY DEF Settled, Busy
<1>1. rows \in [Jobs -> Row] /\ j # NoJob
  BY JobAssumption DEF SystemInv, IInv, TypeOK
<1> DEFINE Quiet == /\ UNCHANGED table
                    /\ \A t \in Tasks : tasks'[t].job = j => tasks[t].job = j
                    /\ \A s \in Slots : Pending(s, j)' => \E x \in Slots : Pending(x, j)
<1>2. ASSUME Quiet
      PROVE  Settled(j)' /\ rows'[j] = rows[j]
  <2>1. j \in live' /\ rows'[j] = rows[j]
    BY <1>0, <1>2 DEF table
  <2> QED
    BY <1>2, <2>1, StaysSettled
<1>3. ASSUME NEW w \in Workers, WorkerStep(w) \/ Crash(w)
      PROVE  Quiet
  <2>0. w \in Slots
    BY ClientsHaveSlots
  <2>1. CASE Start(w)
    BY <2>1 DEF Start, Starts, vars, table, Pending
  <2>2. CASE Crash(w)
    BY <1>1, <2>2 DEF Crash, Crashes, NoTask, vars, table, Pending
  <2>3. CASE Poll(w)
    <3>1. Send(w, "poll", NoJob, w, NoArg) /\ UNCHANGED tasks
      BY <2>3 DEF Poll, Polls
    <3> QED
      BY <1>1, <2>0, <3>1, SendNoWork
  <2>4. CASE PollAnswered(w)
    <3>1. Reply(w)
      BY <2>4 DEF PollAnswered
    <3>2. UNCHANGED table /\ \A x \in Slots : Pending(x, j)' => Pending(x, j)
      BY <2>0, <3>1, ReplyEmpties, EmptiedNoWork
    <3>3. calls[w].job # j
      BY <1>0, <1>1, <2>0 DEF SystemInv, NothingAsked, WorkersPoll, Pending
    <3>4. ASSUME NEW t \in Tasks, GetsJob(w, t, calls[w].job, calls[w].row.status),
                 NEW x \in Tasks
          PROVE  tasks'[x].job # j
      <4> DEFINE st == calls[w].row.status
                 k == IF FirstPC(st) = "free" THEN NoTask
                      ELSE [pc |-> FirstPC(st), job |-> calls[w].job]
      <4>1. tasks' = [tasks EXCEPT ![t] = k]
        BY <3>4, Zenon DEF GetsJob
      <4>2. k.job # j
        BY <1>1, <3>3 DEF NoTask
      <4> HIDE DEF k
      <4> QED
        BY <1>0, <4>1, <4>2 DEF SystemInv, WorkersInv, TypeOKWorker
    <3>5. ASSUME GetsNothing(w)
          PROVE  UNCHANGED tasks
      BY <3>5 DEF GetsNothing
    <3>6. \A x \in Tasks : tasks'[x].job = j => tasks[x].job = j
      BY <2>4, <3>4, <3>5 DEF PollAnswered
    <3> QED
      BY <3>2, <3>6
  <2> QED
    BY <1>3, <2>1, <2>2, <2>3, <2>4 DEF WorkerStep
<1>4. ASSUME NEW t \in Tasks, TaskStep(t)
      PROVE  Quiet
  <2>0. t \in Slots
    BY ClientsHaveSlots
  <2>1. \A x \in Tasks : tasks'[x].job = j => tasks[x].job = j
    BY <1>4, MovesNoWork
    DEF TaskStep, LocalWork, Fails, FetchesMetadata, CannotFetch, Announces,
        Downloads, CannotDownload, Uploads, CannotTrim, GivesUpUpload,
        TaskAnswered, MetadataAnswered, ReportAnswered, CheckAnswered,
        UploadAnswered, FailureAnswered
  <2>2. CASE LocalWork(t)
    <3>1. \E op, w, a : Send(t, op, tasks[t].job, w, a)
      BY <2>2 DEF LocalWork, Send_failed
    <3> QED
      BY <1>0, <2>0, <2>1, <3>1, SendNoWork
  <2>3. CASE TaskAnswered(t)
    <3>1. Reply(t)
      BY <2>3 DEF TaskAnswered
    <3> QED
      BY <2>0, <2>1, <3>1, ReplyEmpties, EmptiedNoWork
  <2> QED
    BY <1>4, <2>2, <2>3 DEF TaskStep
<1>5. ASSUME NEW s \in Slots, Served(s)
      PROVE  Settled(j)' /\ rows'[j] = rows[j]
  <2>1. Serve(s) /\ UNCHANGED tasks
    BY <1>5 DEF Served, workerVars
  <2>2. ~(calls[s].pc = "write" /\ calls[s].job = j)
    BY <1>0 DEF Pending, Holding
  <2>3. j \in live' /\ rows'[j] = rows[j]
    BY <1>0, <1>1, <2>1, <2>2, StatementWrites DEF Known
  <2>4. \A x \in Slots : Pending(x, j)' => Pending(x, j)
    BY <1>0, <2>1, StatementNoWork
  <2> QED
    BY <2>1, <2>3, <2>4, StaysSettled
<1>6. CASE UserSends
  <2>1. PICK op \in {"submit", "select", "cancel"} :
          \E a \in Arguments(op) : Send(User, op, a[1], a[2], a[3])
    BY <1>6 DEF UserSends
  <2>2. PICK a \in Arguments(op) : Send(User, op, a[1], a[2], a[3])
    BY <2>1
  <2>3. UNCHANGED table /\ \A x \in Slots : Pending(x, j)' => Pending(x, j)
    BY <2>2, ClientsHaveSlots, SendNoWork
  <2>4. UNCHANGED tasks
    BY <1>6 DEF UserSends, workerVars
  <2>5. Quiet
    BY <2>3, <2>4
  <2> QED
    BY <1>2, <2>5
<1>7. ASSUME Network
      PROVE  Quiet
  <2>1. UNCHANGED table /\ UNCHANGED tasks
    BY <1>7 DEF Network, AnswerDropped, Reply, Lost, TimesOut, workerVars
  <2>2. ASSUME NEW s \in Slots, AnswerDropped(s) \/ Lost(s)
        PROVE  \A x \in Slots : Pending(x, j)' => Pending(x, j)
    BY <2>2, ReplyEmpties, EmptiedNoWork DEF AnswerDropped, Lost
  <2>3. ASSUME NEW s \in Slots, NEW x \in Strays, TimesOut(s, x)
        PROVE  \A y \in Slots : Pending(y, j)' => \E z \in Slots : Pending(z, j)
    <3> DEFINE e == [NoCall EXCEPT !.pc = "error"]
    <3>1. calls' = [calls EXCEPT ![x] = calls[s], ![s] = e] /\ calls \in [Slots -> Call]
      BY <2>3 DEF TimesOut, SystemInv, IInv, CallsInv
    <3>2. e.job # j
      BY <1>1 DEF NoCall
    <3> HIDE DEF e
    <3>3. \A y \in Slots : calls'[y] \in {e, calls[s], calls[y]}
      BY <3>1
    <3> QED
      BY <3>2, <3>3 DEF Pending
  <2> QED
    BY <1>7, <2>1, <2>2, <2>3 DEF Network
<1>8. CASE Meanwhile
  <2>1. Background /\ UNCHANGED tasks
    BY <1>8 DEF Meanwhile, workerVars
  <2>2. ASSUME Restart
        PROVE  \A x \in Slots : Pending(x, j)' => Pending(x, j)
    BY <1>1, <2>2 DEF Restart, NoCall, Pending
  <2>3. ASSUME UNCHANGED calls
        PROVE  \A x \in Slots : Pending(x, j)' => Pending(x, j)
    BY <2>3 DEF Pending
  <2>4. \A x \in Slots : Pending(x, j)' => Pending(x, j)
    BY <2>1, <2>2, <2>3
    DEF Background, CoolingEnds, Expire, Scan, RemoveFile, DeleteJob
  <2>5. \/ UNCHANGED table
        \/ \E i \in Jobs : /\ live' = live \ {i}
                           /\ gone' = gone \cup {i}
                           /\ rows' = [rows EXCEPT ![i] = NewRow]
    <3>1. ASSUME NEW e \in sweep, DeleteJob(e)
          PROVE  \/ UNCHANGED table
                 \/ /\ live' = live \ {e.job}
                    /\ gone' = gone \cup {e.job}
                    /\ rows' = [rows EXCEPT ![e.job] = NewRow]
                    /\ e.job \in Jobs
      BY <3>1 DEF DeleteJob, table, SystemInv, IInv, TypeOK, Item
    <3>2. UNCHANGED table \/ \E e \in sweep : DeleteJob(e)
      BY <2>1 DEF Background, CoolingEnds, Expire, Scan, RemoveFile, Restart
    <3> QED
      BY <3>1, <3>2
  <2>6. j \in gone' \/ (j \in live' /\ rows'[j] = rows[j])
    BY <1>0, <1>1, <2>5 DEF table
  <2> QED
    BY <2>1, <2>4, <2>6, StaysSettled
<1>9. ASSUME UNCHANGED systemVars
      PROVE  Quiet
  BY <1>9 DEF systemVars, vars, workerVars, table, Pending
<1> HIDE DEF Quiet
<1> QED
  BY <1>2, <1>3, <1>4, <1>5, <1>6, <1>7, <1>8, <1>9 DEF NextSystem

\* A done, failed or canceled job on which nobody is at work keeps its row
\* until the cleaner deletes it, whatever is polled for, reported, selected or
\* canceled, late, lost, given up or repeated, and whoever crashes.
THEOREM SettledForGood == SpecSystem => SettledStaysSettled
<1>1. SystemInv /\ [NextSystem]_systemVars =>
        [\A j \in Jobs : Settled(j) =>
           \/ Settled(j)' /\ rows'[j] = rows[j]
           \/ j \in gone']_systemVars
  BY SettledStep
<1> QED
  BY <1>1, SystemInvariance, PTL DEF SpecSystem, SettledStaysSettled

-----------------------------------------------------------------------------
(* Nobody is left running alone, where nothing but transfers may fail.      *)

\* The client of every request of a slot, by the slot's owner.
LEMMA WhoAwaits ==
  ASSUME AllAwaited, NEW s \in Slots, calls[s].op # "none"
  PROVE  /\ s \in Workers => loop[s] = "polling" /\ calls[s].op = "poll"
         /\ s \in Tasks => /\ tasks[s].pc \in Awaiting
                           /\ calls[s].op = Asked[tasks[s].pc]
                           /\ calls[s].job = tasks[s].job
         /\ calls[s].op = "poll" => s \in Workers
         /\ calls[s].op = "running" => s \in Tasks /\ tasks[s].pc = "report"
BY SlotAssumption DEF AllAwaited, Awaited, Asked, Awaiting

\* A slot whose request and client stay as they are.
LEMMA AwaitedStill ==
  ASSUME NEW s \in Slots, Awaited(s), calls'[s] = calls[s],
         s \in Workers => loop'[s] = loop[s],
         s \in Tasks => tasks'[s] = tasks[s]
  PROVE  Awaited(s)'
BY DEF Awaited

\* A new call that holds no row.
LEMMA QuietRows ==
  ASSUME SystemInv, RunningIsMeant, NEW s \in Slots, NEW c,
         calls' = [calls EXCEPT ![s] = c], c.pc \notin Holding
  PROVE  RunningIsMeant'
BY DEF RunningIsMeant, Holds, SystemInv, IInv, CallsInv

\* Statements keep the requests coupled to their clients, and take no running
\* row in hand to write it but for a poll or a running report.
LEMMA ServedKeepsCoupling ==
  ASSUME SystemInv, AllAwaited, RunningIsMeant, NEW s \in Slots, Served(s)
  PROVE  AllAwaited' /\ RunningIsMeant'
<1>1. Serve(s) /\ UNCHANGED <<loop, tasks>> /\ calls[s].op # "none"
  BY DEF Served, workerVars, SystemInv, NothingAsked
<1>2. IInv /\ calls \in [Slots -> Call]
  BY DEF SystemInv, IInv, CallsInv
<1>3. \A x \in Slots \ {s} : calls'[x] = calls[x]
  BY <1>1, <1>2, OwnCallOnly
<1>4. /\ Awaited(s)'
      /\ Holds(s)' /\ calls'[s].row.status = "running" =>
           calls'[s].op \in {"poll", "running"}
  <2>1. CASE Answers(s)
    BY <1>2, <2>1 DEF Answers, Answer, NoCall, Awaited, Holds, Holding
  <2>2. CASE GoesOn(s)
    <3>1. PICK pc \in PCs : Advance(s, pc) /\ (pc \in Holding => calls[s].pc \in Holding)
      BY <2>2 DEF GoesOn
    <3>2. /\ calls'[s].op = calls[s].op /\ calls'[s].job = calls[s].job
          /\ calls'[s].row = calls[s].row /\ calls'[s].pc = pc
      BY <1>2, <3>1 DEF Advance, Call
    <3> QED
      BY <1>1, <3>1, <3>2 DEF AllAwaited, Awaited, RunningIsMeant, Holds
  <2>3. CASE Takes(s)
    <3>1. PICK pc \in PCs, j \in live, r \in Row :
            /\ Hold(s, pc, j, r)
            /\ calls[s].op \in {"poll", "select", "cancel"} \/ calls[s].job = j
            /\ pc \in Holding /\ r.status = "running" => calls[s].op \in {"poll", "running"}
      BY <2>3 DEF Takes
    <3>2. /\ calls'[s].op = calls[s].op /\ calls'[s].job = j
          /\ calls'[s].row = r /\ calls'[s].pc = pc
      BY <1>2, <3>1 DEF Hold, Call
    <3>3. Awaited(s)'
      <4>1. s \in Tasks => calls[s].job = j
        BY <1>1, <3>1, WhoAwaits DEF Asked, Awaiting
      <4> QED
        BY <1>1, <3>2, <4>1 DEF AllAwaited, Awaited
    <3> QED
      BY <3>1, <3>2, <3>3 DEF Holds
  <2> QED
    BY <1>1, <1>2, <2>1, <2>2, <2>3, StatementKinds
<1>5. AllAwaited'
  BY <1>1, <1>3, <1>4, AwaitedStill DEF AllAwaited
<1>6. RunningIsMeant'
  BY <1>3, <1>4 DEF RunningIsMeant, Holds
<1> QED
  BY <1>5, <1>6

\* An upload that is accepted, and a failure report that is answered, have
\* written their row, if the job was still there.
LEMMA AnsweredIsWritten ==
  ASSUME SystemInv, NEW s \in Slots, Serve(s), "database" \notin Faults,
         calls[s].job \in live, calls[s].op \in {"upload", "failed"},
         calls'[s].pc \in {"ok", "error"},
         calls[s].op = "upload" => calls'[s].pc = "ok"
  PROVE  /\ calls[s].pc = "write"
         /\ rows' = [rows EXCEPT ![calls[s].job] = calls[s].row]
<1> USE DEF At, Found
<1>1. calls \in [Slots -> Call]
  BY DEF SystemInv, IInv, CallsInv
<1>2. ASSUME NEW pc, Answer(s, pc)
      PROVE  calls'[s].pc = pc
  BY <1>1, <1>2 DEF Answer, NoCall
<1>3. ASSUME NEW pc, Advance(s, pc)
      PROVE  calls'[s].pc = pc
  BY <1>1, <1>3 DEF Advance, Call
<1>4. ASSUME NEW pc, NEW j, NEW r, Hold(s, pc, j, r)
      PROVE  calls'[s].pc = pc
  BY <1>1, <1>4 DEF Hold, Call
<1>5. UpdateJob(s)
  <2>1. CASE calls[s].op = "upload"
    BY <1>2, <1>3, <1>4, <2>1
    DEF Serve, NotFound, SubmitRefused, SubmitCountIP, SubmitCountAll,
        SubmitInsert, PollRead, UpdateRead, FailRead, FailGone, CooldownWorker,
        MetadataRead, SaveFormats, UploadRead, UploadCreate, UploadNotCreated,
        UploadCopied, UploadBroken, SelectRead, SelectFormats, CancelRead,
        StatusRead, DatabaseError
  <2>2. CASE calls[s].op = "failed"
    BY <1>2, <1>3, <1>4, <2>2
    DEF Serve, NotFound, SubmitRefused, SubmitCountIP, SubmitCountAll,
        SubmitInsert, PollRead, UpdateRead, FailRead, FailGone, CooldownWorker,
        MetadataRead, SaveFormats, UploadRead, UploadCreate, UploadNotCreated,
        UploadCopied, UploadBroken, SelectRead, SelectFormats, CancelRead,
        StatusRead, DatabaseError
  <2> QED
    BY <2>1, <2>2
<1> QED
  BY <1>5 DEF UpdateJob

-----------------------------------------------------------------------------
\* The two ways of attending job j.
Downloader(t, j) == tasks[t].job = j /\ StillReports(t)

BeingTold(w, j) ==
  /\ loop[w] = "polling" /\ Accepted(w)
  /\ calls[w].job = j /\ calls[w].row.status = "running"

\* Whoever is at work on j goes on while its own call stays as it is.
LEMMA AttenderGoesOn ==
  ASSUME NEW j,
         \/ \E t \in Tasks : Downloader(t, j) /\ tasks'[t] = tasks[t] /\ calls'[t] = calls[t]
         \/ \E w \in Workers : BeingTold(w, j) /\ loop'[w] = loop[w] /\ calls'[w] = calls[w]
  PROVE  Attended(j)'
BY DEF Attended, Downloader, BeingTold, StillReports, Accepted, Answered

\* A statement ends nobody's work on a job that runs before and after it.
LEMMA ServedAttends ==
  ASSUME SystemInv, AllAwaited, RunningIsMeant, "database" \notin Faults,
         NEW s \in Slots, Served(s), NEW j \in live, rows[j].status = "running",
         Attended(j), rows'[j].status = "running"
  PROVE  Attended(j)'
<1>1. Serve(s) /\ UNCHANGED <<loop, tasks>> /\ calls[s].op # "none"
  BY DEF Served, workerVars, SystemInv, NothingAsked
<1>2. /\ IInv /\ calls \in [Slots -> Call] /\ rows \in [Jobs -> Row] /\ j \in Jobs
      /\ calls[s].pc \notin {"idle", "ok", "error"}
  BY DEF SystemInv, IInv, CallsInv, TypeOK, Served
<1>3. \A x \in Slots \ {s} : calls'[x] = calls[x]
  BY <1>1, <1>2, OwnCallOnly
<1>4. CASE \E w \in Workers : BeingTold(w, j)
  <2>1. PICK w \in Workers : BeingTold(w, j)
    BY <1>4
  <2>2. w # s /\ w \in Slots
    BY <1>2, <2>1, ClientsHaveSlots DEF BeingTold, Accepted
  <2> QED
    BY <1>1, <1>3, <2>1, <2>2, AttenderGoesOn
<1>5. CASE \E t \in Tasks : Downloader(t, j)
  <2>1. PICK t \in Tasks : Downloader(t, j)
    BY <1>5
  <2>2. CASE t # s
    BY <1>1, <1>3, <2>1, <2>2, ClientsHaveSlots, AttenderGoesOn
  <2>3. CASE t = s
    <3>1. /\ tasks[t].pc \in Awaiting /\ tasks[t].job = j
          /\ calls[t].op = Asked[tasks[t].pc] /\ calls[t].job = j
      BY <1>1, <2>1, <2>3, WhoAwaits DEF Downloader
    <3>2. CASE tasks[t].pc = "report"
      BY <1>1, <3>1, <3>2 DEF Attended, StillReports
    <3>3. CASE tasks[t].pc = "check"
      <4>1. calls[s].op = "status"
        BY <2>3, <3>1, <3>3 DEF Asked
      <4>2. ~(Accepted(t)' /\ calls'[t].row.status = "canceled")
        <5>1. CASE Answers(s)
          BY <1>2, <2>3, <5>1 DEF Answers, Answer, NoCall, NewRow
        <5>2. CASE GoesOn(s)
          <6>1. PICK pc \in PCs : Advance(s, pc) /\ pc # "ok"
            BY <4>1, <5>2 DEF GoesOn
          <6> QED
            BY <1>2, <2>3, <6>1 DEF Advance, Call, Accepted
        <5>3. CASE Takes(s)
          <6>1. PICK pc \in PCs, i \in live, r \in Row :
                  Hold(s, pc, i, r) /\ calls[s].job = i /\ r = rows[i]
            BY <4>1, <5>3 DEF Takes
          <6> QED
            BY <1>2, <2>3, <3>1, <6>1 DEF Hold, Call
        <5> QED
          BY <1>1, <1>2, <5>1, <5>2, <5>3, StatementKinds
      <4> QED
        BY <1>1, <3>1, <3>3, <4>2 DEF Attended, StillReports
    <3>4. CASE tasks[t].pc \in {"upload", "fail"}
      <4>1. calls[s].op \in {"upload", "failed"} /\ calls[s].job = j
        BY <2>3, <3>1, <3>4 DEF Asked
      <4>2. ASSUME calls[s].pc = "write"
            PROVE  calls[s].row.status # "running"
        BY <4>1, <4>2 DEF RunningIsMeant, Holds, Holding
      <4>3. ASSUME calls'[s].pc \in {"ok", "error"},
                   calls[s].op = "upload" => calls'[s].pc = "ok"
            PROVE  FALSE
        <5>1. /\ calls[s].pc = "write"
              /\ rows' = [rows EXCEPT ![calls[s].job] = calls[s].row]
          BY <1>1, <4>1, <4>3, AnsweredIsWritten
        <5> QED
          BY <1>2, <4>1, <4>2, <5>1
      <4>4. CASE tasks[t].pc = "upload"
        <5>1. calls[s].op = "upload"
          BY <2>3, <3>1, <4>4 DEF Asked
        <5>2. ~(Accepted(t)')
          BY <2>3, <4>3, <5>1 DEF Accepted
        <5> QED
          BY <1>1, <3>1, <4>4, <5>2 DEF Attended, StillReports
      <4>5. CASE tasks[t].pc = "fail"
        <5>1. calls[s].op = "failed"
          BY <2>3, <3>1, <4>5 DEF Asked
        <5>2. ~(Answered(t)')
          BY <2>3, <4>3, <5>1 DEF Answered
        <5> QED
          BY <1>1, <3>1, <4>5, <5>2 DEF Attended, StillReports
      <4> QED
        BY <3>4, <4>4, <4>5
    <3> QED
      BY <2>1, <3>1, <3>2, <3>3, <3>4 DEF Downloader, StillReports, Awaiting
  <2> QED
    BY <2>2, <2>3
<1> QED
  BY <1>4, <1>5 DEF Attended, Downloader, BeingTold

\* Whoever sets a job running attends to it from then on.
LEMMA WriterAttends ==
  ASSUME SystemInv, AllAwaited, RunningIsMeant, "database" \notin Faults,
         NEW s \in Slots, Served(s), calls[s].pc = "write",
         calls[s].row.status = "running", NEW j \in Jobs, calls[s].job = j
  PROVE  Attended(j)'
<1>1. Serve(s) /\ UNCHANGED <<loop, tasks>> /\ calls[s].op # "none"
  BY DEF Served, workerVars, SystemInv, NothingAsked
<1>2. calls \in [Slots -> Call]
  BY DEF SystemInv, IInv, CallsInv
<1>3. calls[s].op \in {"poll", "running"}
  BY DEF RunningIsMeant, Holds, Holding
<1>4. UpdateJob(s)
  BY <1>1, <1>3
  DEF Serve, NotFound, SubmitRefused, SubmitCountIP, SubmitCountAll,
      SubmitInsert, PollRead, UpdateRead, FailRead, FailGone, CooldownWorker,
      MetadataRead, SaveFormats, UploadRead, UploadCreate, UploadNotCreated,
      UploadCopied, UploadBroken, SelectRead, SelectFormats, CancelRead,
      StatusRead, DatabaseError, At
<1>5. \/ \E t \in Tasks : tasks'[t].job = j /\ tasks'[t].pc = "report"
      \/ \E w \in Workers : /\ loop'[w] = "polling" /\ calls'[w].pc = "ok"
                            /\ calls'[w].job = j
                            /\ calls'[w].row.status = "running"
  <2>1. CASE calls[s].op = "running"
    <3>1. s \in Tasks /\ tasks[s].pc = "report" /\ tasks[s].job = j
      BY <1>1, <2>1, WhoAwaits
    <3> QED
      BY <1>1, <3>1
  <2>2. CASE calls[s].op = "poll"
    <3>1. s \in Workers /\ loop[s] = "polling"
      BY <1>1, <2>2, WhoAwaits
    <3>2. Advance(s, "ok")
      BY <1>4, <2>2 DEF UpdateJob
    <3>3. calls'[s].pc = "ok" /\ calls'[s].job = j /\ calls'[s].row = calls[s].row
      BY <1>2, <3>2 DEF Advance, Call
    <3> QED
      BY <1>1, <3>1, <3>3
  <2> QED
    BY <1>3, <2>1, <2>2
<1> QED
  BY <1>5 DEF Attended, StillReports, Accepted

\* An attended job stays so when a step leaves all goroutines, calls of
\* goroutines and polls alone, but for one client who is not at work on it.
LEMMA OthersGoOn ==
  ASSUME NEW j, Attended(j), NEW s \in Slots,
         \A t \in Tasks \ {s} : tasks'[t] = tasks[t] /\ calls'[t] = calls[t],
         \A w \in Workers \ {s} : loop'[w] = loop[w] /\ calls'[w] = calls[w],
         s \in Tasks => ~Downloader(s, j),
         s \in Workers => ~BeingTold(s, j)
  PROVE  Attended(j)'
BY AttenderGoesOn DEF Attended, Downloader, BeingTold

\* A step that sends or takes an answer, in a slot of its own.
LEMMA OneSlot ==
  ASSUME Coupling, NEW s \in Slots, NEW c, calls' = [calls EXCEPT ![s] = c],
         c.pc \notin Holding, Awaited(s)',
         \A w \in Workers \ {s} : loop'[w] = loop[w],
         \A t \in Tasks \ {s} : tasks'[t] = tasks[t]
  PROVE  AllAwaited' /\ RunningIsMeant'
<1>1. calls \in [Slots -> Call]
  BY DEF Coupling, SystemInv, IInv, CallsInv
<1>2. \A x \in Slots \ {s} : calls'[x] = calls[x]
  BY <1>1
<1>3. AllAwaited'
  BY <1>2, AwaitedStill DEF Coupling, AllAwaited
<1> QED
  BY <1>3, QuietRows DEF Coupling

\* A worker's loop.
LEMMA WorkerStepAttends ==
  ASSUME Coupling, NEW w \in Workers, WorkerStep(w)
  PROVE  /\ AllAwaited' /\ RunningIsMeant' /\ UNCHANGED table
         /\ \A j \in Jobs : Attended(j) => Attended(j)'
<1>0. w \in Slots /\ w \notin Tasks /\ w # User /\ Tasks \subseteq Slots
  BY SlotAssumption
<1>1. /\ calls \in [Slots -> Call] /\ loop \in [Workers -> {"down", "idle", "polling"}]
      /\ tasks \in [Tasks -> Task]
      /\ \A x \in Slots : Awaited(x)
  BY DEF Coupling, SystemInv, IInv, CallsInv, WorkersInv, TypeOKWorker, AllAwaited
<1>2. CASE Start(w)
  <2>1. /\ calls' = calls /\ tasks' = tasks /\ UNCHANGED table
        /\ loop[w] # "polling" /\ loop' = [loop EXCEPT ![w] = "idle"]
    BY <1>2 DEF Start, Starts, Sets, vars, table
  <2>2. Awaited(w)'
    BY <1>0, <1>1, <2>1 DEF Awaited
  <2>3. \A x \in Slots : Awaited(x)'
    BY <1>1, <2>1, <2>2, AwaitedStill
  <2>4. RunningIsMeant'
    BY <2>1 DEF Coupling, RunningIsMeant, Holds
  <2>5. ASSUME NEW j \in Jobs, Attended(j)
        PROVE  Attended(j)'
    <3>1. ~BeingTold(w, j)
      BY <2>1 DEF BeingTold
    <3> QED
      BY <1>0, <1>1, <2>1, <2>5, <3>1, OthersGoOn
  <2> QED
    BY <2>1, <2>3, <2>4, <2>5 DEF AllAwaited
<1>3. CASE Poll(w)
  <2> DEFINE c == Request("poll", NoJob, w, NoArg)
  <2>1. /\ calls' = [calls EXCEPT ![w] = c] /\ tasks' = tasks /\ UNCHANGED table
        /\ loop[w] # "polling" /\ loop' = [loop EXCEPT ![w] = "polling"]
    BY <1>3 DEF Poll, Polls, Sets, Send, Receive
  <2>2. c.op = "poll" /\ c.pc = "start"
    BY DEF Request, NoCall
  <2> HIDE DEF c
  <2>3. Awaited(w)'
    BY <1>0, <1>1, <2>1, <2>2 DEF Awaited
  <2>4. AllAwaited' /\ RunningIsMeant'
    BY <1>0, <1>1, <2>1, <2>2, <2>3, OneSlot DEF Holding
  <2>5. ASSUME NEW j \in Jobs, Attended(j)
        PROVE  Attended(j)'
    <3>1. ~BeingTold(w, j)
      BY <2>1 DEF BeingTold
    <3> QED
      BY <1>0, <1>1, <2>1, <2>5, <3>1, OthersGoOn
  <2> QED
    BY <2>1, <2>4, <2>5
<1>4. CASE PollAnswered(w)
  <2> DEFINE Given(t) == GetsJob(w, t, calls[w].job, calls[w].row.status)
  <2>1. /\ calls' = [calls EXCEPT ![w] = NoCall] /\ UNCHANGED table
        /\ loop' = [loop EXCEPT ![w] = "idle"]
    BY <1>4 DEF PollAnswered, Reply, GetsNothing, GetsJob, Sets
  <2>2. /\ \/ Accepted(w) /\ calls[w].job # NoJob /\ \E t \in Tasks : Given(t)
           \/ ~(Accepted(w) /\ calls[w].job # NoJob) /\ UNCHANGED tasks
    BY <1>4 DEF PollAnswered, GetsNothing
  <2>3. NoCall.op = "none" /\ NoCall.pc = "idle"
    BY DEF NoCall
  <2>4. Awaited(w)'
    BY <1>0, <1>1, <2>1, <2>3 DEF Awaited
  <2>5. RunningIsMeant'
    BY <1>0, <2>1, <2>3, QuietRows DEF Coupling, Holding
  <2>6. ASSUME NEW t \in Tasks, Given(t)
        PROVE  /\ tasks[t].pc = "free"
               /\ \A x \in Tasks \ {t} : tasks'[x] = tasks[x]
               /\ calls[w].row.status = "running" =>
                    tasks'[t] = [pc |-> "announce", job |-> calls[w].job]
    <3> DEFINE st == calls[w].row.status
               k == IF FirstPC(st) = "free" THEN NoTask
                    ELSE [pc |-> FirstPC(st), job |-> calls[w].job]
    <3>1. tasks[t] = NoTask /\ tasks' = [tasks EXCEPT ![t] = k]
      BY <2>6, Zenon DEF GetsJob
    <3>2. st = "running" => k = [pc |-> "announce", job |-> calls[w].job]
      BY DEF FirstPC
    <3>3. NoTask.pc = "free"
      BY DEF NoTask
    <3> HIDE DEF k
    <3> QED
      BY <1>1, <3>1, <3>2, <3>3
  <2>7. ASSUME NEW t \in Tasks, tasks[t].pc = "free"
        PROVE  Awaited(t)' /\ \A j \in Jobs : ~Downloader(t, j)
    BY <1>0, <1>1, <2>1, <2>7, SlotAssumption
    DEF Awaited, Awaiting, Downloader, StillReports
  <2> HIDE DEF Given
  <2>8. \A t \in Tasks : tasks'[t] = tasks[t] \/ tasks[t].pc = "free"
    BY <2>2, <2>6
  <2>9. \A x \in Slots \ {w} : Awaited(x)'
    BY <1>1, <2>1, <2>7, <2>8, AwaitedStill
  <2>10. ASSUME NEW j \in Jobs, Attended(j)
         PROVE  Attended(j)'
    <3>1. CASE BeingTold(w, j)
      <4>1. /\ Accepted(w) /\ calls[w].job = j /\ j # NoJob
            /\ calls[w].row.status = "running"
        BY <3>1, JobAssumption DEF BeingTold
      <4>2. PICK t \in Tasks : Given(t)
        BY <2>2, <4>1
      <4>3. tasks'[t].pc = "announce" /\ tasks'[t].job = j
        BY <2>6, <4>1, <4>2
      <4> QED
        BY <4>3 DEF Attended, StillReports
    <3>2. CASE ~BeingTold(w, j)
      <4>1. CASE \E t \in Tasks : Downloader(t, j)
        BY <1>0, <1>1, <2>1, <2>7, <2>8, <4>1, AttenderGoesOn
      <4>2. CASE \E v \in Workers : BeingTold(v, j)
        BY <1>1, <2>1, <3>2, <4>2, ClientsHaveSlots, AttenderGoesOn
      <4> QED
        BY <2>10, <4>1, <4>2 DEF Attended, Downloader, BeingTold
    <3> QED
      BY <3>1, <3>2
  <2> QED
    BY <2>1, <2>4, <2>5, <2>9, <2>10 DEF AllAwaited
<1> QED
  BY <1>2, <1>3, <1>4 DEF WorkerStep

\* What a goroutine that moves leaves in its place.
LEMMA MovesTo ==
  ASSUME Coupling, NEW t \in Tasks, NEW from, NEW to, Moves(t, from, to)
  PROVE  /\ tasks[t].pc = from /\ UNCHANGED loop
         /\ \A x \in Tasks \ {t} : tasks'[x] = tasks[x]
         /\ to # "free" => tasks'[t].pc = to /\ tasks'[t].job = tasks[t].job
<1> DEFINE k == IF to = "free" THEN NoTask ELSE [tasks[t] EXCEPT !.pc = to]
<1>1. /\ tasks' = [tasks EXCEPT ![t] = k] /\ tasks[t].pc = from /\ loop' = loop
  BY Zenon DEF Moves
<1>2. tasks \in [Tasks -> Task]
  BY DEF Coupling, SystemInv, WorkersInv, TypeOKWorker
<1>3. to # "free" => k.pc = to /\ k.job = tasks[t].job
  BY <1>2 DEF Task
<1> HIDE DEF k
<1> QED
  BY <1>1, <1>2, <1>3

\* A goroutine asks.
LEMMA LocalWorkAttends ==
  ASSUME Coupling, NEW t \in Tasks, LocalWork(t)
  PROVE  /\ AllAwaited' /\ RunningIsMeant' /\ UNCHANGED table
         /\ \A j \in Jobs : Attended(j) => Attended(j)'
<1>0. t \in Slots /\ t \notin Workers /\ Tasks \subseteq Slots /\ Workers \subseteq Slots
  BY SlotAssumption
<1>1. calls \in [Slots -> Call]
  BY DEF Coupling, SystemInv, IInv, CallsInv
<1>2. PICK op \in Ops, w \in Workers \cup {NoWorker},
           a \in IPs \cup Kinds \cup Names \cup UserModes \cup {NoArg} :
        /\ Send(t, op, tasks[t].job, w, a)
        /\ \/ op = "metadata" /\ Moves(t, "fetch", "describe")
           \/ op = "running" /\ Moves(t, "announce", "report")
           \/ op = "status" /\ Moves(t, "download", "check")
           \/ op = "upload" /\ Moves(t, "trim", "upload")
           \/ op = "failed" /\ \E from \in {"giveup", "fetch", "download", "trim"} :
                                 Moves(t, from, "fail")
  <2>1. WorkerOf[t] \in Workers /\ Sources \subseteq Kinds
    BY TaskAssumption, BoundAssumption
  <2> QED
    BY <2>1
    DEF LocalWork, Fails, FetchesMetadata, CannotFetch, Announces, Downloads,
        CannotDownload, Uploads, CannotTrim, GivesUpUpload, Send_failed, Ops
<1> DEFINE c == Request(op, tasks[t].job, w, a)
<1>3. /\ calls' = [calls EXCEPT ![t] = c] /\ UNCHANGED table
  BY <1>2 DEF Send, Receive
<1>4. c.op = op /\ c.pc = "start" /\ c.job = tasks[t].job
  BY DEF Request, NoCall
<1> HIDE DEF c
<1>5. /\ tasks[t].pc \in Working
      /\ tasks'[t].pc \in Awaiting /\ op = Asked[tasks'[t].pc]
      /\ tasks'[t].job = tasks[t].job
      /\ tasks[t].pc = "fetch" \/ tasks'[t].pc \in {"report", "check", "upload", "fail"}
      /\ UNCHANGED loop /\ \A x \in Tasks \ {t} : tasks'[x] = tasks[x]
  BY <1>2, MovesTo DEF Working, Awaiting, Asked
<1>6. calls'[t] = c
  BY <1>0, <1>1, <1>3
<1>7. Awaited(t)'
  BY <1>4, <1>5, <1>6 DEF Awaited
<1>8. AllAwaited' /\ RunningIsMeant'
  BY <1>0, <1>3, <1>4, <1>5, <1>7, OneSlot DEF Holding
<1>9. ASSUME NEW j \in Jobs, Attended(j)
      PROVE  Attended(j)'
  <2>1. CASE Downloader(t, j)
    <3>1. tasks[t].pc # "fetch" /\ tasks'[t].job = j
      BY <1>5, <2>1 DEF Downloader, StillReports
    <3>2. StillReports(t)'
      BY <1>4, <1>5, <1>6, <3>1 DEF StillReports, Accepted, Answered
    <3> QED
      BY <3>1, <3>2 DEF Attended
  <2>2. CASE ~Downloader(t, j)
    BY <1>0, <1>1, <1>3, <1>5, <1>9, <2>2, OthersGoOn
  <2> QED
    BY <2>1, <2>2
<1> QED
  BY <1>3, <1>8, <1>9

\* A goroutine takes its answer.
LEMMA TaskAnsweredAttends ==
  ASSUME Coupling, NEW t \in Tasks, TaskAnswered(t)
  PROVE  /\ AllAwaited' /\ RunningIsMeant' /\ UNCHANGED table
         /\ \A j \in Jobs : Attended(j) => Attended(j)'
<1>0. t \in Slots /\ t \notin Workers /\ Tasks \subseteq Slots /\ Workers \subseteq Slots
  BY SlotAssumption
<1>1. calls \in [Slots -> Call]
  BY DEF Coupling, SystemInv, IInv, CallsInv
<1>2. /\ calls' = [calls EXCEPT ![t] = NoCall] /\ UNCHANGED table
      /\ Answered(t)
  BY DEF TaskAnswered, Reply
<1> DEFINE canceled == Accepted(t) /\ calls[t].row.status = "canceled"
<1>3. \/ Moves(t, "describe", "free") \/ Moves(t, "report", "download")
      \/ canceled /\ Moves(t, "check", "free")
      \/ ~canceled /\ Moves(t, "check", "trim")
      \/ Accepted(t) /\ Moves(t, "upload", "free")
      \/ ~Accepted(t) /\ Moves(t, "upload", "giveup")
      \/ Moves(t, "fail", "free")
  BY DEF TaskAnswered, MetadataAnswered, ReportAnswered, CheckAnswered,
         UploadAnswered, FailureAnswered
<1>4. /\ UNCHANGED loop /\ \A x \in Tasks \ {t} : tasks'[x] = tasks[x]
  BY <1>3, MovesTo
<1>5. NoCall.op = "none" /\ NoCall.pc = "idle"
  BY DEF NoCall
<1>6. Awaited(t)'
  BY <1>0, <1>1, <1>2, <1>5 DEF Awaited
<1>7. AllAwaited' /\ RunningIsMeant'
  BY <1>0, <1>2, <1>4, <1>5, <1>6, OneSlot DEF Holding
<1>8. ASSUME NEW j \in Jobs, Attended(j)
      PROVE  Attended(j)'
  <2>1. CASE Downloader(t, j)
    <3>1. tasks'[t].job = j /\ tasks'[t].pc \in {"download", "trim", "giveup"}
      BY <1>2, <1>3, <2>1, MovesTo DEF Downloader, StillReports
    <3> QED
      BY <3>1 DEF Attended, StillReports
  <2>2. CASE ~Downloader(t, j)
    BY <1>0, <1>1, <1>2, <1>4, <1>8, <2>2, OthersGoOn
  <2> QED
    BY <2>1, <2>2
<1> QED
  BY <1>2, <1>7, <1>8

\* The user, and answers that nobody takes.
LEMMA OutsidersAttend ==
  ASSUME Coupling, Faults \subseteq {"transfer"}, UserSends \/ Network
  PROVE  /\ AllAwaited' /\ RunningIsMeant' /\ UNCHANGED table
         /\ \A j \in Jobs : Attended(j) => Attended(j)'
<1>0. /\ Tasks \subseteq Slots /\ Workers \subseteq Slots
      /\ User \in Slots /\ User \notin Tasks \cup Workers
  BY SlotAssumption
<1>1. calls \in [Slots -> Call]
  BY DEF Coupling, SystemInv, IInv, CallsInv
<1>2. UNCHANGED <<loop, tasks>> /\ UNCHANGED table
  BY DEF UserSends, Send, Receive, Network, AnswerDropped, Reply, Lost, TimesOut,
         workerVars
<1>3. CASE UserSends
  <2>1. PICK op \in {"submit", "select", "cancel"} :
          \E a \in Arguments(op) : Send(User, op, a[1], a[2], a[3])
    BY <1>3 DEF UserSends
  <2>2. PICK a \in Arguments(op) : Send(User, op, a[1], a[2], a[3])
    BY <2>1
  <2> DEFINE c == Request(op, a[1], a[2], a[3])
  <2>3. calls' = [calls EXCEPT ![User] = c]
    BY <2>2 DEF Send, Receive
  <2>4. c.op = op /\ c.pc = "start"
    BY DEF Request, NoCall
  <2> HIDE DEF c
  <2>5. Awaited(User)'
    BY <1>0, <1>1, <2>3, <2>4 DEF Awaited
  <2>6. AllAwaited' /\ RunningIsMeant'
    BY <1>0, <1>2, <2>3, <2>4, <2>5, OneSlot DEF Holding
  <2>7. \A j \in Jobs : Attended(j) => Attended(j)'
    BY <1>0, <1>1, <1>2, <2>3, OthersGoOn
  <2> QED
    BY <1>2, <2>6, <2>7
<1>4. CASE Network
  <2>1. PICK s \in Slots : AnswerDropped(s)
    BY <1>4 DEF Network, Lost, TimesOut
  <2>2. calls' = [calls EXCEPT ![s] = NoCall] /\ ~Awaits(s)
    BY <2>1 DEF AnswerDropped, Reply
  <2>3. NoCall.op = "none" /\ NoCall.pc = "idle"
    BY DEF NoCall
  <2>4. Awaited(s)'
    BY <1>1, <2>2, <2>3 DEF Awaited
  <2>5. AllAwaited' /\ RunningIsMeant'
    BY <1>2, <2>2, <2>3, <2>4, OneSlot DEF Holding
  <2>6. ASSUME NEW j \in Jobs, Attended(j)
        PROVE  Attended(j)'
    <3>1. ~(s \in Workers /\ BeingTold(s, j))
      BY <2>2 DEF Awaits, BeingTold
    <3>2. CASE s \in Tasks /\ Downloader(s, j)
      BY <1>2, <2>2, <3>2
      DEF Awaits, Awaiting, Downloader, Attended, StillReports
    <3>3. CASE ~(s \in Tasks /\ Downloader(s, j))
      BY <1>0, <1>1, <1>2, <2>2, <2>6, <3>1, <3>3, OthersGoOn
    <3> QED
      BY <3>2, <3>3
  <2> QED
    BY <1>2, <2>5, <2>6
<1> QED
  BY <1>3, <1>4

\* The cleaner and the timers.
LEMMA MeanwhileAttends ==
  ASSUME Coupling, Faults \subseteq {"transfer"}, Meanwhile
  PROVE  /\ AllAwaited' /\ RunningIsMeant'
         /\ \A j \in live' : j \in live /\ rows'[j] = rows[j]
         /\ \A j \in Jobs : Attended(j) => Attended(j)'
<1>1. UNCHANGED <<loop, tasks, calls>>
  BY DEF Meanwhile, Background, CoolingEnds, Expire, Scan, RemoveFile, DeleteJob,
         Restart, workerVars
<1>2. AllAwaited' /\ RunningIsMeant'
  BY <1>1 DEF Coupling, AllAwaited, Awaited, RunningIsMeant, Holds
<1>3. \A j \in Jobs : Attended(j) => Attended(j)'
  BY <1>1 DEF Attended, StillReports, Accepted, Answered
<1>4. ASSUME NEW e \in sweep, DeleteJob(e)
      PROVE  \A j \in live' : j \in live /\ rows'[j] = rows[j]
  <2>1. rows \in [Jobs -> Row] /\ live \subseteq Jobs
    BY DEF Coupling, SystemInv, IInv, TypeOK
  <2> QED
    BY <1>4, <2>1 DEF DeleteJob, table
<1>5. UNCHANGED table \/ \E e \in sweep : DeleteJob(e)
  BY DEF Meanwhile, Background, CoolingEnds, Expire, Scan, RemoveFile, Restart
<1> QED
  BY <1>2, <1>3, <1>4, <1>5 DEF table

\* The invariant is inductive.
LEMMA AttendedStep ==
  ASSUME Faults \subseteq {"transfer"}
  PROVE  AttendedInv /\ [NextSystem]_systemVars => AttendedInv'
<1> SUFFICES ASSUME AttendedInv, [NextSystem]_systemVars
             PROVE  AttendedInv'
  OBVIOUS
<1>1. Coupling /\ SystemInv'
  BY SystemStep DEF AttendedInv, Coupling
<1>2. live \subseteq Jobs /\ rows \in [Jobs -> Row]
  BY DEF AttendedInv, Coupling, SystemInv, IInv, TypeOK
<1>3. ASSUME AllAwaited', RunningIsMeant',
             \A j \in live' : j \in live /\ rows'[j] = rows[j],
             \A j \in Jobs : Attended(j) => Attended(j)'
      PROVE  AttendedInv'
  BY <1>1, <1>2, <1>3 DEF AttendedInv, Coupling, RunningIsAttended
<1>4. ASSUME AllAwaited', RunningIsMeant', UNCHANGED table,
             \A j \in Jobs : Attended(j) => Attended(j)'
      PROVE  AttendedInv'
  BY <1>3, <1>4 DEF table
<1>5. ASSUME NEW w \in Workers, WorkerStep(w)
      PROVE  AttendedInv'
  BY <1>1, <1>4, <1>5, WorkerStepAttends
<1>6. ASSUME NEW w \in Workers, Crash(w)
      PROVE  AttendedInv'
  BY <1>6 DEF Crash
<1>7. ASSUME NEW t \in Tasks, TaskStep(t)
      PROVE  AttendedInv'
  BY <1>1, <1>4, <1>7, LocalWorkAttends, TaskAnsweredAttends DEF TaskStep
<1>8. CASE UserSends \/ Network
  BY <1>1, <1>4, <1>8, OutsidersAttend
<1>9. CASE Meanwhile
  BY <1>1, <1>3, <1>9, MeanwhileAttends
<1>10. ASSUME NEW s \in Slots, Served(s)
       PROVE  AttendedInv'
  <2>1. AllAwaited' /\ RunningIsMeant'
    BY <1>1, <1>10, ServedKeepsCoupling DEF Coupling
  <2>2. ASSUME NEW j \in live', rows'[j].status = "running"
        PROVE  Attended(j)'
    <3>1. Serve(s)
      BY <1>10 DEF Served
    <3>2. \/ j \in live /\ rows[j].status = "running"
          \/ /\ j \in Jobs /\ calls[s].pc = "write" /\ calls[s].job = j
             /\ calls[s].row.status = "running"
      BY <1>2, <2>2, <3>1, StatementWrites DEF NewRow
    <3>3. CASE j \in live /\ rows[j].status = "running"
      BY <1>1, <1>10, <2>2, <3>3, ServedAttends
      DEF AttendedInv, Coupling, RunningIsAttended
    <3>4. CASE /\ j \in Jobs /\ calls[s].pc = "write" /\ calls[s].job = j
               /\ calls[s].row.status = "running"
      BY <1>1, <1>10, <3>4, WriterAttends DEF Coupling
    <3> QED
      BY <3>2, <3>3, <3>4
  <2> QED
    BY <1>1, <2>1, <2>2 DEF AttendedInv, Coupling, RunningIsAttended
<1>11. ASSUME UNCHANGED systemVars
       PROVE  AttendedInv'
  <2>1. UNCHANGED <<live, rows, calls, loop, tasks>>
    BY <1>11 DEF systemVars, vars, workerVars
  <2>2. AllAwaited' /\ RunningIsMeant'
    BY <2>1 DEF AttendedInv, Coupling, AllAwaited, Awaited, RunningIsMeant, Holds
  <2>3. RunningIsAttended'
    BY <2>1
    DEF AttendedInv, RunningIsAttended, Attended, StillReports, Accepted, Answered
  <2> QED
    BY <1>1, <2>2, <2>3 DEF AttendedInv, Coupling
<1> QED
  BY <1>5, <1>6, <1>7, <1>8, <1>9, <1>10, <1>11 DEF NextSystem

\* As long as no process dies, no message is lost and no statement fails, a job
\* that is running has a goroutine that will still report on it, or a worker
\* that is just being told to download it.
THEOREM NobodyRunsAlone ==
  ASSUME Faults \subseteq {"transfer"}
  PROVE  SpecSystem => []RunningIsAttended
<1>1. InitSystem => AttendedInv
  <2> SUFFICES ASSUME InitSystem PROVE AttendedInv
    OBVIOUS
  <2>1. SystemInv
    BY SystemInit
  <2>2. AllAwaited /\ RunningIsMeant /\ RunningIsAttended
    BY DEF InitSystem, Init, AllAwaited, Awaited, RunningIsMeant, Holds,
           RunningIsAttended, NoCall, Holding
  <2> QED
    BY <2>1, <2>2 DEF AttendedInv, Coupling
<1>2. AttendedInv /\ [NextSystem]_systemVars => AttendedInv'
  BY AttendedStep
<1>3. AttendedInv => RunningIsAttended
  BY DEF AttendedInv
<1> QED
  BY <1>1, <1>2, <1>3, PTL DEF SpecSystem

-----------------------------------------------------------------------------
(* What the controller promises any clients, the system keeps: to the       *)
(* controller its steps are those of other clients, but for one.  A client  *)
(* that gives up leaves its handler at work, under another name.            *)

\* The controller's part of every step.
ControllerStep ==
  \/ UNCHANGED vars
  \/ \E s \in Slots : Serve(s)
  \/ \E s \in Slots : \E op, j, w, a : Receive(s, op, j, w, a)
  \/ \E s \in Slots, pc \in {"idle", "error"} :
       Answer(s, pc) /\ UNCHANGED <<table, disk, cleaner, cooling, history>>
  \/ \E s \in Slots, x \in Strays : TimesOut(s, x)
  \/ Background

\* The clients' and the network's steps amount to no more than this.
LEMMA StepsOfTheController ==
  ASSUME [NextSystem]_systemVars
  PROVE  ControllerStep
<1>1. CASE UNCHANGED systemVars
  BY <1>1 DEF systemVars, ControllerStep
<1>2. ASSUME NEW s \in Slots, Reply(s)
      PROVE  ControllerStep
  BY <1>2, ReplyEmpties DEF ControllerStep
<1>3. ASSUME NEW s \in Slots, NEW op, NEW j, NEW w, NEW a, Send(s, op, j, w, a)
      PROVE  ControllerStep
  BY <1>3 DEF Send, ControllerStep
<1>4. ASSUME NEW w \in Workers, WorkerStep(w) \/ Crash(w)
      PROVE  ControllerStep
  <2>1. UNCHANGED vars \/ Send(w, "poll", NoJob, w, NoArg) \/ Reply(w)
    BY <1>4 DEF WorkerStep, Crash, Start, Poll, PollAnswered
  <2> QED
    BY <1>2, <1>3, <2>1, ClientsHaveSlots DEF ControllerStep
<1>5. ASSUME NEW t \in Tasks, TaskStep(t)
      PROVE  ControllerStep
  <2>1. Reply(t) \/ \E op, j, w, a : Send(t, op, j, w, a)
    BY <1>5 DEF TaskStep, LocalWork, TaskAnswered, Send_failed
  <2> QED
    BY <1>2, <1>3, <2>1, ClientsHaveSlots
<1>6. ASSUME NEW s \in Slots, Served(s)
      PROVE  ControllerStep
  BY <1>6 DEF Served, ControllerStep
<1>7. CASE UserSends
  <2>1. \E op, j, w, a : Send(User, op, j, w, a)
    BY <1>7 DEF UserSends
  <2> QED
    BY <1>3, <2>1, ClientsHaveSlots
<1>8. CASE Network
  <2>1. ASSUME NEW s \in Slots, AnswerDropped(s)
        PROVE  ControllerStep
    BY <1>2, <2>1 DEF AnswerDropped
  <2>2. ASSUME NEW s \in Slots, Lost(s)
        PROVE  ControllerStep
    BY <2>2 DEF Lost, ControllerStep
  <2>3. ASSUME NEW s \in Slots, NEW x \in Strays, TimesOut(s, x)
        PROVE  ControllerStep
    BY <2>3 DEF ControllerStep
  <2> QED
    BY <1>8, <2>1, <2>2, <2>3 DEF Network
<1>9. CASE Meanwhile
  BY <1>9 DEF Meanwhile, ControllerStep
<1> QED
  BY <1>1, <1>4, <1>5, <1>6, <1>7, <1>8, <1>9 DEF NextSystem

\* A handler that goes on without its client.
LEMMA GoesOnElsewhere ==
  ASSUME SystemInv, NEW s \in Slots, NEW x \in Strays, TimesOut(s, x)
  PROVE  /\ x \in Slots /\ x # s /\ calls[x].pc = "idle"
         /\ calls'[x] = calls[s]
         /\ calls'[s].op = "none" /\ calls'[s].pc = "error"
         /\ \A y \in Slots \ {x, s} : calls'[y] = calls[y]
         /\ UNCHANGED <<table, disk, cleaner, cooling, history>>
<1> DEFINE e == [NoCall EXCEPT !.pc = "error"]
<1>1. /\ calls' = [calls EXCEPT ![x] = calls[s], ![s] = e]
      /\ x \in Slots /\ x # s /\ calls[x].pc = "idle"
      /\ UNCHANGED <<table, disk, cleaner, cooling, history>>
  BY SlotAssumption DEF TimesOut
<1>2. calls \in [Slots -> Call]
  BY DEF SystemInv, IInv, CallsInv
<1>3. e.op = "none" /\ e.pc = "error"
  BY DEF NoCall
<1> HIDE DEF e
<1> QED
  BY <1>1, <1>2, <1>3

-----------------------------------------------------------------------------
(* The table. *)

\* A handler that goes on under another name holds the row that it held.
LEMMA TimesOutSimulates ==
  ASSUME SystemInv, NEW s \in Slots, NEW x \in Strays, TimesOut(s, x)
  PROVE  Store!NextStore
<1>1. /\ x \in Slots /\ x # s /\ calls[x].pc = "idle"
      /\ calls'[x] = calls[s] /\ calls'[s].pc = "error"
      /\ \A y \in Slots \ {x, s} : calls'[y] = calls[y]
      /\ UNCHANGED table
  BY GoesOnElsewhere
<1>2. Held(x) = Store!Nothing /\ Held(s)' = Store!Nothing
  BY <1>1 DEF Held, Holds, Holding, Store!Nothing, NewRow, Store!NewRow, NoMode,
              Store!NoMode
<1>3. Held(x)' = Held(s) /\ \A y \in Slots \ {x, s} : Held(y)' = Held(y)
  BY <1>1 DEF Held, Holds
<1>4. /\ AllHeld[x] = Store!Nothing
      /\ AllHeld' = [AllHeld EXCEPT ![x] = AllHeld[s], ![s] = Store!Nothing]
  BY <1>1, <1>2, <1>3 DEF AllHeld
<1>5. Store!HandOver(s, x)
  BY <1>1, <1>4 DEF Store!HandOver, AllHeld, table
<1> QED
  BY <1>1, <1>5 DEF Store!NextStore

StoreInv == SystemInv /\ SweepInv

\* Every step of the system is one of the table.
LEMMA SystemSimulates ==
  ASSUME StoreInv, [NextSystem]_systemVars
  PROVE  /\ Store!NextStore \/ UNCHANGED Store!storeVars
         /\ SweepInv'
<1>1. SystemInv /\ SweepInv /\ IInv /\ TypeOK /\ CallsInv
  BY DEF StoreInv, SystemInv, IInv
<1>2. ASSUME UNCHANGED cleaner, live \subseteq live'
      PROVE  SweepInv'
  BY <1>1, <1>2 DEF SweepInv, cleaner
<1>3. CASE UNCHANGED vars
  BY <1>2, <1>3, RestSimulates DEF vars, table, cleaner
<1>4. ASSUME NEW s \in Slots, Serve(s)
      PROVE  Store!NextStore /\ SweepInv'
  BY <1>1, <1>2, <1>4, ServeSimulates, ServeLeavesCleaner
<1>5. ASSUME NEW s \in Slots, NEW op, NEW j, NEW w, NEW a, Receive(s, op, j, w, a)
      PROVE  Store!NextStore /\ SweepInv'
  <2>1. UNCHANGED cleaner /\ live \subseteq live'
    BY <1>5 DEF Receive, table
  <2> QED
    BY <1>1, <1>2, <1>5, <2>1, ReceiveSimulates
<1>6. ASSUME NEW s \in Slots, NEW pc \in {"idle", "error"}, Answer(s, pc),
             UNCHANGED <<table, disk, cleaner, cooling, history>>
      PROVE  Store!NextStore /\ SweepInv'
  BY <1>1, <1>2, <1>6, AnswerLeaves DEF table
<1>7. ASSUME NEW s \in Slots, NEW x \in Strays, TimesOut(s, x)
      PROVE  Store!NextStore /\ SweepInv'
  <2>1. UNCHANGED cleaner /\ live \subseteq live'
    BY <1>1, <1>7, GoesOnElsewhere DEF table
  <2> QED
    BY <1>1, <1>2, <1>7, <2>1, TimesOutSimulates
<1>8. CASE Background
  BY <1>1, <1>8, BackgroundSimulates, BackgroundKeepsSweep
<1> QED
  BY <1>3, <1>4, <1>5, <1>6, <1>7, <1>8, StepsOfTheController DEF ControllerStep

\* The cleaner's list is in order in every state of the system.
LEMMA StoreInvariance == SpecSystem => []StoreInv
<1>1. InitSystem => StoreInv
  BY SystemInit DEF InitSystem, Init, StoreInv, SweepInv
<1>2. StoreInv /\ [NextSystem]_systemVars => StoreInv'
  BY SystemStep, SystemSimulates DEF StoreInv
<1> QED
  BY <1>1, <1>2, PTL DEF SpecSystem

\* The whole system implements the abstract table: whatever workers, user and
\* network do, a handler decides from the row it took alone, and puts the result
\* back at most once, even if its client has long given up.
THEOREM SystemImplementsStore == SpecSystem => ImplementsJobStore
<1>1. InitSystem => Store!InitStore
  BY InitSimulates DEF InitSystem
<1>2. StoreInv /\ [NextSystem]_systemVars => [Store!NextStore]_(Store!storeVars)
  BY SystemSimulates
<1> QED
  BY <1>1, <1>2, StoreInvariance, PTL
  DEF SpecSystem, ImplementsJobStore, Store!SpecStore

\* The abstract table never takes a deleted job back.
LEMMA StoreForgets ==
  ASSUME live \cap gone = {}, Store!NextStore \/ UNCHANGED Store!storeVars
  PROVE  gone \subseteq gone' /\ live' \cap gone = {}
BY DEF Store!NextStore, Store!Leave, Store!Put, Store!Take, Store!HandOver,
       Store!Create, Store!Delete, Store!storeVars

\* A deleted job never has a row again, not even by the late write of a handler
\* that nobody waits for any more.
THEOREM DeletedStaysDeletedInSystem == SpecSystem => DeletedStaysDeleted
<1>1. StoreInv /\ [NextSystem]_systemVars =>
        [gone \subseteq gone' /\ live' \cap gone = {}]_vars
  <2> SUFFICES ASSUME StoreInv, [NextSystem]_systemVars
               PROVE  gone \subseteq gone' /\ live' \cap gone = {}
    OBVIOUS
  <2>1. live \cap gone = {}
    BY DEF StoreInv, SystemInv, IInv, TableInv
  <2> QED
    BY <2>1, SystemSimulates, StoreForgets
<1> QED
  BY <1>1, StoreInvariance, PTL DEF SpecSystem, DeletedStaysDeleted

-----------------------------------------------------------------------------
(* Rows, work, failures and files. *)

\* However workers crash, answers get lost and clients give up, rows fit
\* together, work handed out is clear, and no job fails early.
THEOREM SystemKeepsRows ==
  SpecSystem => [](RowsLegal /\ WorkIsClear /\ FailsOnlyAfterRetries)
<1>1. SystemInv => RowsLegal /\ WorkIsClear /\ FailsOnlyAfterRetries
  BY InvariantSays DEF SystemInv
<1> QED
  BY <1>1, SystemInvariance, PTL

\* An upload goes on under another name, and is still the job's only one.
LEMMA TimesOutKeepsUploads ==
  ASSUME SystemInv, UploadsInv, NEW s \in Slots, NEW x \in Strays, TimesOut(s, x)
  PROVE  UploadsInv'
<1>1. /\ x \in Slots /\ x # s /\ calls[x].pc = "idle"
      /\ calls'[x] = calls[s]
      /\ calls'[s].op = "none" /\ calls'[s].pc = "error"
      /\ \A y \in Slots \ {x, s} : calls'[y] = calls[y]
      /\ UNCHANGED <<live, gone, rows, files, old, sweep, uploads>>
  BY GoesOnElsewhere DEF table, disk, cleaner, history
<1> DEFINE Was(y) == IF y = x THEN s ELSE y
<1>2. ~Holds(s)' /\ ~Uploading(s)'
  BY <1>1 DEF Holds, Holding, Uploading
<1>3. \A y \in Slots : y # s =>
        Was(y) \in Slots /\ calls'[y] = calls[Was(y)]
  BY <1>1
<1>4. \A y, z \in Slots : y # s /\ z # s /\ y # z => Was(y) # Was(z)
  OBVIOUS
<1>5. Known' = Known
  BY <1>1 DEF Known
<1> HIDE DEF Was
<1>6. DoneByUpload'
  BY <1>1, <1>2, <1>3, <1>5 DEF UploadsInv, DoneByUpload, Holds
<1>7. OneUpload'
  BY <1>1, <1>2, <1>3, <1>4 DEF UploadsInv, OneUpload, Uploading
<1>8. UploadOnTime'
  BY <1>1, <1>2, <1>3 DEF UploadsInv, UploadOnTime, Uploading
<1>9. DoneIsCounted' /\ SweptAreOld' /\ DoneFileWhole'
  BY <1>1 DEF UploadsInv, DoneIsCounted, SweptAreOld, DoneFileWhole
<1> QED
  BY <1>6, <1>7, <1>8, <1>9 DEF UploadsInv

FilesInv == SystemInv /\ UploadsInv

\* Every step of the system keeps the uploads in order.
LEMMA FilesStep ==
  ASSUME FilesInv, [NextSystem]_systemVars
  PROVE  FilesInv'
<1>1. SystemInv /\ UploadsInv /\ IInv
  BY DEF FilesInv, SystemInv
<1>2. SystemInv'
  BY <1>1, SystemStep
<1>3. ASSUME UNCHANGED vars
      PROVE  UploadsInv'
  BY <1>1, <1>3, StepKeepsUploads DEF IInvUploads
<1>4. ASSUME NEW s \in Slots, NEW pc \in {"idle", "error"}, Answer(s, pc),
             UNCHANGED <<table, disk, cleaner, cooling, history>>
      PROVE  UploadsInv'
  <2>1. UNCHANGED <<live, gone, rows, files, old, sweep, uploads>>
    BY <1>4 DEF table, disk, cleaner, history
  <2> QED
    BY <1>1, <1>4, <2>1, AnswerDisturbsNone
<1>5. ASSUME NEW s \in Slots, NEW op, NEW j, NEW w, NEW a, Receive(s, op, j, w, a)
      PROVE  UploadsInv'
  BY <1>1, <1>5, ReceiveKeepsUploads
<1>6. ASSUME Background
      PROVE  UploadsInv'
  BY <1>1, <1>6, BackgroundKeepsUploads
<1>7. UploadsInv'
  BY <1>1, <1>3, <1>4, <1>5, <1>6, StepsOfTheController, ServeKeepsUploads,
     TimesOutKeepsUploads DEF ControllerStep
<1> QED
  BY <1>2, <1>7 DEF FilesInv

\* A job that was uploaded once and is done has its whole file, also when the
\* upload was finished after its worker had given it up or died.
THEOREM FilesOfTheSystem == SpecSystem => []DoneFileWhole
<1>1. InitSystem => FilesInv
  BY SystemInit, InitUploads DEF InitSystem, FilesInv
<1>2. FilesInv /\ [NextSystem]_systemVars => FilesInv'
  BY FilesStep
<1>3. FilesInv => DoneFileWhole
  BY DEF FilesInv, UploadsInv
<1> QED
  BY <1>1, <1>2, <1>3, PTL DEF SpecSystem

=============================================================================
