-------------------------- MODULE ControllerProofs --------------------------
(***************************************************************************)
(* What the controller keeps true whatever its clients do, for any number  *)
(* of jobs, workers and concurrent requests, with every fault switched on  *)
(* or off.                                                                 *)
(*                                                                         *)
(* One inductive invariant carries all the theorems.  The table alone is   *)
(* not inductive, because a handler may write the row it holds at any      *)
(* later time: the invariant says of every held row what it says of the    *)
(* stored ones (CallInv), and of every request that its arguments still    *)
(* have the types its handler relies on (ArgumentsFit).                    *)
(***************************************************************************)
EXTENDS Controller, TLAPS

\* Requests on one job name it; a worker's name, a kind, a file name, a mode
\* or a submitter is there where the handler uses it.
ArgumentsFit(c) ==
  /\ c.op \in {"running", "failed", "metadata", "upload", "select", "cancel",
               "status"} => c.job \in Jobs
  /\ c.pc \in Holding => c.job \in Jobs
  /\ c.op \in {"poll", "failed"} => c.worker \in Workers
  /\ c.op = "metadata" => c.arg \in Kinds
  /\ c.op = "upload" => c.arg \in Names
  /\ c.op = "select" => c.arg \in UserModes

\* A poll that found a job holds one that can be worked on.
Workable(c) ==
  c.op = "poll" /\ c.pc \in {"write", "ok"} /\ c.job # NoJob =>
    \/ c.row.status = "pending" /\ c.row.mode = NoMode
    \/ c.row.status = "running" /\ c.row.mode # NoMode

\* The invariant of one request, f being the number of failures per job.
CallInv(c, f) ==
  /\ c \in Call
  /\ ArgumentsFit(c)
  /\ Workable(c)
  /\ Legal(c.row)
  /\ c.pc \in Holding => c.row.retries <= f[c.job]

TableInv ==
  /\ \A j \in Jobs : Legal(rows[j]) /\ rows[j].retries <= failures[j]
  /\ live \cap gone = {}

CallsInv ==
  /\ calls \in [Slots -> Call]
  /\ \A s \in Slots : CallInv(calls[s], failures)

IInv == TypeOK /\ TableInv /\ CallsInv

-----------------------------------------------------------------------------
(* What each handler makes of a row. *)

\* A submitted job's row is well formed and counts no failure.
LEMMA NewRowFits == NewRow \in Row /\ Legal(NewRow) /\ NewRow.retries = 0
BY WorkerAssumption, FileAssumption
DEF NewRow, Row, Legal, QueuedIsOpen, PendingIsBare, DoneNamesFile,
    FailedIsSpent, Statuses, Active, Terminal, NoMode

\* AssignJob: what is handed out is well formed and can be worked on.
LEMMA AssignedFits ==
  ASSUME NEW r \in Row, Legal(r), NEW w \in Workers, Assignable(r, w)
  PROVE  /\ Assigned(r, w) \in Row
         /\ Legal(Assigned(r, w))
         /\ Assigned(r, w).retries = r.retries
         /\ \/ Assigned(r, w).status = "pending" /\ Assigned(r, w).mode = NoMode
            \/ Assigned(r, w).status = "running" /\ Assigned(r, w).mode # NoMode
BY DEF Assigned, Assignable, Row, Legal, QueuedIsOpen, PendingIsBare,
       DoneNamesFile, FailedIsSpent, Statuses, Active, Terminal

\* A running report keeps a row well formed.
LEMMA ReportedFits ==
  ASSUME NEW r \in Row, Legal(r)
  PROVE  Reported(r) \in Row /\ Legal(Reported(r)) /\ Reported(r).retries = r.retries
BY DEF Reported, Row, Legal, QueuedIsOpen, PendingIsBare, DoneNamesFile,
       FailedIsSpent, Statuses, Active, Terminal

\* Only here does a row count a failure, and it counts one.
LEMMA AfterFailureFits ==
  ASSUME NEW r \in Row, Legal(r)
  PROVE  /\ AfterFailure(r) \in Row
         /\ Legal(AfterFailure(r))
         /\ AfterFailure(r).retries = r.retries + 1
<1> DEFINE n == r.retries + 1
           st == IF r.mode # NoMode THEN "queued" ELSE "pending"
<1>1. n \in Nat /\ MaxRetries \in Nat
  BY RetryAssumption DEF Row
<1>2. st \in Statuses /\ st # "done" /\ st # "failed"
  BY DEF Statuses, Active
<1>3. CASE GivesUp(r)
  <2>1. AfterFailure(r) = [r EXCEPT !.retries = @ + 1, !.status = "failed"]
    BY <1>3 DEF AfterFailure, Abandoned
  <2>2. /\ AfterFailure(r) \in Row
        /\ AfterFailure(r).retries = n
        /\ AfterFailure(r).status = "failed"
    BY <1>1, <2>1 DEF Row, Statuses, Terminal
  <2> QED
    BY <1>1, <1>3, <2>2
    DEF GivesUp, Legal, QueuedIsOpen, PendingIsBare, DoneNamesFile, FailedIsSpent
<1>4. CASE ~GivesUp(r)
  <2>1. AfterFailure(r) = [r EXCEPT !.retries = n, !.worker = NoWorker, !.status = st]
    BY <1>4, Zenon DEF AfterFailure, Requeued
  <2> HIDE DEF n, st
  <2>2. LET q == [r EXCEPT !.retries = n, !.worker = NoWorker, !.status = st] IN
        /\ q \in Row
        /\ q.retries = n /\ q.worker = NoWorker /\ q.status = st
        /\ q.mode = r.mode /\ q.file = r.file
    <3>1. n \in Nat
      BY <1>1
    <3>2. st \in Statuses
      BY <1>2
    <3> QED
      BY <3>1, <3>2 DEF Row
  <2>4. /\ AfterFailure(r) \in Row
        /\ AfterFailure(r).retries = n
        /\ AfterFailure(r).worker = NoWorker
        /\ AfterFailure(r).status = st
        /\ AfterFailure(r).mode = r.mode
    BY <2>1, <2>2, Zenon
  <2>3. Legal(AfterFailure(r))
    BY <1>2, <2>4
    DEF st, Legal, QueuedIsOpen, PendingIsBare, DoneNamesFile, FailedIsSpent
  <2> QED
    BY <2>3, <2>4 DEF n
<1> QED
  BY <1>3, <1>4

\* The metadata handler: a picker, or a mode and no worker.
LEMMA DescribedFits ==
  ASSUME NEW r \in Row, Legal(r), NEW kind \in Kinds
  PROVE  /\ Described(r, kind) \in Row
         /\ Legal(Described(r, kind))
         /\ Described(r, kind).retries = r.retries
BY DEF Described, AutoMode, Row, Legal, QueuedIsOpen, PendingIsBare,
       DoneNamesFile, FailedIsSpent, Statuses, Active, Terminal, Modes,
       UserModes, NoMode

\* A selection queues the job with a mode and without a worker.
LEMMA SelectedFits ==
  ASSUME NEW r \in Row, Legal(r), NEW mode \in UserModes
  PROVE  /\ Selected(r, mode) \in Row
         /\ Legal(Selected(r, mode))
         /\ Selected(r, mode).retries = r.retries
BY DEF Selected, Row, Legal, QueuedIsOpen, PendingIsBare, DoneNamesFile,
       FailedIsSpent, Statuses, Active, Terminal, Modes, UserModes, NoMode

\* A cancellation changes nothing that the conditions on a row mention.
LEMMA CanceledFits ==
  ASSUME NEW r \in Row, Legal(r)
  PROVE  Canceled(r) \in Row /\ Legal(Canceled(r)) /\ Canceled(r).retries = r.retries
BY DEF Canceled, Row, Legal, QueuedIsOpen, PendingIsBare, DoneNamesFile,
       FailedIsSpent, Statuses, Active, Terminal

\* An upload makes the job done and names its file.
LEMMA UploadedFits ==
  ASSUME NEW r \in Row, Legal(r), NEW n \in Names
  PROVE  /\ Uploaded(r, n) \in Row
         /\ Legal(Uploaded(r, n))
         /\ Uploaded(r, n).retries = r.retries
BY FileAssumption
DEF Uploaded, Row, Legal, QueuedIsOpen, PendingIsBare, DoneNamesFile,
    FailedIsSpent, Statuses, Active, Terminal

-----------------------------------------------------------------------------
(* The three ways in which a handler changes its call. *)

\* A failure more in the history disturbs no call, nor does a new call in one
\* slot disturb the others.
LEMMA OneCall ==
  ASSUME CallsInv, NEW s \in Slots, NEW c,
         calls' = [calls EXCEPT ![s] = c],
         failures \in [Jobs -> Nat], failures' \in [Jobs -> Nat],
         \A j \in Jobs : failures[j] <= failures'[j],
         CallInv(c, failures')
  PROVE  CallsInv'
<1>1. calls' \in [Slots -> Call]
  BY DEF CallsInv, CallInv
<1>2. ASSUME NEW t \in Slots, t # s
      PROVE  CallInv(calls'[t], failures')
  <2>1. calls'[t] = calls[t] /\ calls[t] \in Call /\ CallInv(calls[t], failures)
    BY <1>2 DEF CallsInv
  <2>2. calls[t].pc \in Holding => calls[t].row.retries <= failures'[calls[t].job]
    BY <2>1 DEF CallInv, ArgumentsFit, Call, Row
  <2> QED
    BY <2>1, <2>2 DEF CallInv
<1>3. CallInv(calls'[s], failures')
  BY DEF CallsInv
<1> QED
  BY <1>1, <1>2, <1>3 DEF CallsInv

\* An answer drops the row that was held.
LEMMA AnswerKeeps ==
  ASSUME CallsInv, TypeOK, NEW s \in Slots, NEW pc \in {"idle", "ok", "error"},
         Answer(s, pc), UNCHANGED failures
  PROVE  CallsInv'
<1> DEFINE c == [NoCall EXCEPT !.pc = pc]
<1>1. CallInv(c, failures')
  BY NewRowFits
  DEF CallInv, ArgumentsFit, Workable, NoCall, Call, Ops, PCs, Holding
<1>2. calls' = [calls EXCEPT ![s] = c]
  BY DEF Answer
<1> HIDE DEF c
<1>3. /\ failures \in [Jobs -> Nat] /\ failures' \in [Jobs -> Nat]
      /\ \A j \in Jobs : failures[j] <= failures'[j]
  BY DEF TypeOK
<1> QED
  BY <1>1, <1>2, <1>3, OneCall

\* Going on to the next statement keeps the row, if there is one.
LEMMA AdvanceKeeps ==
  ASSUME CallsInv, TypeOK, NEW s \in Slots, NEW pc \in PCs, Advance(s, pc),
         pc \in Holding => calls[s].pc \in Holding,
         calls[s].op = "poll" /\ pc \in {"write", "ok"} =>
           calls[s].pc \in {"write", "ok"},
         UNCHANGED failures
  PROVE  CallsInv'
<1> DEFINE c == [calls[s] EXCEPT !.pc = pc]
<1>1. calls[s] \in Call /\ CallInv(calls[s], failures)
  BY DEF CallsInv
<1>2. CallInv(c, failures')
  BY <1>1 DEF CallInv, ArgumentsFit, Workable, Call
<1>3. calls' = [calls EXCEPT ![s] = c]
  BY DEF Advance
<1> HIDE DEF c
<1>4. /\ failures \in [Jobs -> Nat] /\ failures' \in [Jobs -> Nat]
      /\ \A j \in Jobs : failures[j] <= failures'[j]
  BY DEF TypeOK
<1> QED
  BY <1>2, <1>3, <1>4, OneCall

\* A row just read and changed is held.
LEMMA HoldKeeps ==
  ASSUME CallsInv, TypeOK, NEW s \in Slots, NEW pc \in PCs, NEW j \in Jobs,
         NEW r \in Row, Hold(s, pc, j, r),
         Legal(r),
         pc \in Holding => r.retries <= failures'[j],
         calls[s].op = "poll" =>
           \/ r.status = "pending" /\ r.mode = NoMode
           \/ r.status = "running" /\ r.mode # NoMode,
         failures' \in [Jobs -> Nat],
         \A i \in Jobs : failures[i] <= failures'[i]
  PROVE  CallsInv'
<1> DEFINE c == [calls[s] EXCEPT !.pc = pc, !.job = j, !.row = r]
<1>1. calls[s] \in Call /\ CallInv(calls[s], failures)
  BY DEF CallsInv
<1>2. /\ c \in Call
      /\ c.op = calls[s].op /\ c.worker = calls[s].worker /\ c.arg = calls[s].arg
      /\ c.pc = pc /\ c.job = j /\ c.row = r
  BY <1>1 DEF Call
<1>3. calls' = [calls EXCEPT ![s] = c]
  BY DEF Hold
<1> HIDE DEF c
<1>4. CallInv(c, failures')
  BY <1>1, <1>2 DEF CallInv, ArgumentsFit, Workable
<1> QED
  BY <1>3, <1>4, OneCall DEF TypeOK

-----------------------------------------------------------------------------
(* Every step keeps the invariant. *)

\* Most steps of a handler change nothing but its call.
LEMMA CallsOnly ==
  ASSUME IInv, CallsInv', UNCHANGED <<table, disk, cleaner, cooling, history>>
  PROVE  IInv'
BY DEF IInv, TypeOK, TableInv, CallsInv, table, disk, cleaner, history

\* Arguments that the handler of a request can use.
ArgumentsGiven(op, j, w, a) ==
  /\ op \in Ops
  /\ j \in Jobs \cup {NoJob}
  /\ w \in Workers \cup {NoWorker}
  /\ a \in IPs \cup Kinds \cup Names \cup UserModes \cup {NoArg}
  /\ op \in {"running", "failed", "metadata", "upload", "select", "cancel",
             "status"} => j \in Jobs
  /\ op \in {"poll", "failed"} => w \in Workers
  /\ op = "metadata" => a \in Kinds
  /\ op = "upload" => a \in Names
  /\ op = "select" => a \in UserModes

\* A request with such arguments disturbs nothing, whoever sends it.
LEMMA ReceiveKeeps ==
  ASSUME IInv, NEW s \in Slots, NEW op, NEW j, NEW w, NEW a,
         ArgumentsGiven(op, j, w, a), Receive(s, op, j, w, a)
  PROVE  IInv'
<1> DEFINE c == Request(op, j, w, a)
<1>1. /\ c \in Call
      /\ c.op = op /\ c.pc = "start" /\ c.job = j /\ c.worker = w
      /\ c.arg = a /\ c.row = NewRow
  BY NewRowFits DEF ArgumentsGiven, Request, NoCall, Call, PCs
<1>2. calls' = [calls EXCEPT ![s] = c]
  BY DEF Receive
<1> HIDE DEF c
<1>3. CallInv(c, failures')
  BY <1>1, NewRowFits DEF ArgumentsGiven, CallInv, ArgumentsFit, Workable, Holding
<1>4. UNCHANGED <<table, disk, cleaner, cooling, history>>
  BY DEF Receive
<1>5. /\ failures \in [Jobs -> Nat] /\ failures' \in [Jobs -> Nat]
      /\ \A i \in Jobs : failures[i] <= failures'[i]
  BY <1>4 DEF IInv, TypeOK, history
<1>6. CallsInv'
  BY <1>2, <1>3, <1>5, OneCall DEF IInv
<1> QED
  BY <1>4, <1>6, CallsOnly

\* What Arguments enumerates is such arguments.
LEMMA ArgumentsOfAnyone ==
  ASSUME IInv, NEW op \in Requests, NEW a \in Arguments(op)
  PROVE  ArgumentsGiven(op, a[1], a[2], a[3])
BY BoundAssumption DEF ArgumentsGiven, Arguments, Ops, Known, IInv, TypeOK

\* A request arrives with arguments that its handler can use.
LEMMA ArriveKeeps ==
  ASSUME IInv, NEW s \in Slots, Arrive(s)
  PROVE  IInv'
<1>1. PICK op \in Requests : \E a \in Arguments(op) : Receive(s, op, a[1], a[2], a[3])
  BY DEF Arrive
<1>2. PICK a \in Arguments(op) : Receive(s, op, a[1], a[2], a[3])
  BY <1>1
<1>3. ArgumentsGiven(op, a[1], a[2], a[3])
  BY ArgumentsOfAnyone
<1> QED
  BY <1>2, <1>3, ReceiveKeeps

\* A reply leaves, and its slot is free again.
LEMMA ReplyKeeps ==
  ASSUME IInv, NEW s \in Slots, Reply(s)
  PROVE  IInv'
<1>1. Answer(s, "idle")
  BY DEF Reply, Answer, NoCall
<1>2. UNCHANGED <<table, disk, cleaner, cooling, history>>
  BY DEF Reply
<1>3. CallsInv'
  BY <1>1, <1>2, AnswerKeeps DEF IInv, history
<1> QED
  BY <1>2, <1>3, CallsOnly

\* What a found job's row is known to be.
LEMMA FoundRow ==
  ASSUME IInv, NEW j \in live
  PROVE  /\ j \in Jobs /\ rows[j] \in Row /\ Legal(rows[j])
         /\ rows[j].retries <= failures[j]
         /\ failures \in [Jobs -> Nat]
         /\ \A i \in Jobs : failures[i] <= failures[i]
BY DEF IInv, TypeOK, TableInv

\* Every statement of every handler, one step per action.
LEMMA ServeKeeps ==
  ASSUME IInv, NEW s \in Slots, Serve(s)
  PROVE  IInv'
<1> USE DEF At, Found
<1>0. /\ CallsInv /\ TypeOK /\ TableInv
      /\ calls[s] \in Call /\ CallInv(calls[s], failures)
      /\ failures \in [Jobs -> Nat]
      /\ \A i \in Jobs : failures[i] <= failures[i]
  BY DEF IInv, CallsInv, TypeOK
<1>1. ASSUME NEW op \in Ops, NotFound(s, op)
      PROVE  IInv'
  <2>1. CallsInv'
    BY <1>0, <1>1, AnswerKeeps DEF NotFound, history
  <2> QED
    BY <1>1, <2>1, CallsOnly DEF NotFound
<1>2. CASE SubmitRefused(s)
  <2>1. CallsInv'
    BY <1>0, <1>2, AnswerKeeps DEF SubmitRefused, history
  <2> QED
    BY <1>2, <2>1, CallsOnly DEF SubmitRefused
<1>3. CASE SubmitCountIP(s)
  <2>1. CallsInv'
    BY <1>0, <1>3, AnswerKeeps, AdvanceKeeps
    DEF SubmitCountIP, history, PCs, Holding
  <2> QED
    BY <1>3, <2>1, CallsOnly DEF SubmitCountIP
<1>4. CASE SubmitCountAll(s)
  <2>1. CallsInv'
    BY <1>0, <1>4, AnswerKeeps, AdvanceKeeps
    DEF SubmitCountAll, history, PCs, Holding
  <2> QED
    BY <1>4, <2>1, CallsOnly DEF SubmitCountAll
<1>5. CASE SubmitInsert(s)
  <2>1. CallsInv'
    BY <1>0, <1>5, AnswerKeeps DEF SubmitInsert, history
  <2>2. PICK j \in Jobs \ Known : live' = live \cup {j} /\ rows' = [rows EXCEPT ![j] = NewRow]
    BY <1>5 DEF SubmitInsert
  <2>3. TypeOK'
    BY <1>0, <1>5, <2>1, <2>2, NewRowFits
    DEF TypeOK, CallsInv, SubmitInsert, disk, cleaner, history
  <2>4. TableInv'
    BY <1>0, <1>5, <2>2, NewRowFits
    DEF TypeOK, TableInv, SubmitInsert, Known, history
  <2> QED
    BY <2>1, <2>3, <2>4 DEF IInv
<1>6. CASE PollRead(s)
  <2>1. UNCHANGED <<table, disk, cleaner, cooling, history>>
    BY <1>6 DEF PollRead
  <2>2. CASE Answer(s, "ok")
    <3>1. CallsInv'
      BY <1>0, <2>1, <2>2, AnswerKeeps DEF history
    <3> QED
      BY <2>1, <3>1, CallsOnly
  <2>3. CASE \E j \in AssignableJobs(calls[s].worker) :
               Hold(s, "write", j, Assigned(rows[j], calls[s].worker))
    <3> DEFINE w == calls[s].worker
    <3>1. PICK j \in AssignableJobs(w) : Hold(s, "write", j, Assigned(rows[j], w))
      BY <2>3
    <3>2. w \in Workers
      BY <1>0, <1>6 DEF PollRead, CallInv, ArgumentsFit
    <3>3. j \in live /\ Assignable(rows[j], w)
      BY <3>1 DEF AssignableJobs
    <3> HIDE DEF w
    <3>4. /\ j \in Jobs /\ rows[j] \in Row /\ Legal(rows[j])
          /\ rows[j].retries <= failures[j]
      BY <3>3, FoundRow
    <3> DEFINE r == Assigned(rows[j], w)
    <3>5. /\ r \in Row /\ Legal(r) /\ r.retries = rows[j].retries
          /\ \/ r.status = "pending" /\ r.mode = NoMode
             \/ r.status = "running" /\ r.mode # NoMode
      BY <3>2, <3>3, <3>4, AssignedFits
    <3> HIDE DEF r
    <3>6. CallsInv'
      BY <1>0, <2>1, <3>1, <3>4, <3>5, HoldKeeps DEF r, history, PCs
    <3> QED
      BY <2>1, <3>6, CallsOnly
  <2> QED
    BY <1>6, <2>2, <2>3 DEF PollRead
<1>7. CASE UpdateRead(s)
  <2> DEFINE j == calls[s].job
             r == Reported(rows[j])
  <2>1. /\ j \in Jobs /\ rows[j] \in Row /\ Legal(rows[j])
        /\ rows[j].retries <= failures[j]
    BY <1>7, FoundRow DEF UpdateRead
  <2>2. r \in Row /\ Legal(r) /\ r.retries = rows[j].retries
    BY <2>1, ReportedFits
  <2>3. Hold(s, "write", j, r) /\ calls[s].op # "poll"
    BY <1>7 DEF UpdateRead
  <2> HIDE DEF j, r
  <2>4. UNCHANGED <<table, disk, cleaner, cooling, history>>
    BY <1>7 DEF UpdateRead
  <2>5. CallsInv'
    BY <1>0, <2>1, <2>2, <2>3, <2>4, HoldKeeps DEF history, PCs
  <2> QED
    BY <2>4, <2>5, CallsOnly
<1>8. CASE FailRead(s)
  <2> DEFINE j == calls[s].job
             r == AfterFailure(rows[j])
             pc == IF GivesUp(rows[j]) THEN "write" ELSE "cool"
  <2>1. /\ j \in Jobs /\ rows[j] \in Row /\ Legal(rows[j])
        /\ rows[j].retries <= failures[j]
    BY <1>8, FoundRow DEF FailRead
  <2>2. r \in Row /\ Legal(r) /\ r.retries = rows[j].retries + 1
    BY <2>1, AfterFailureFits
  <2>3. Hold(s, pc, j, r) /\ calls[s].op # "poll"
    BY <1>8 DEF FailRead
  <2>4. pc \in PCs
    BY DEF PCs
  <2>5. failures' = [failures EXCEPT ![j] = failures[j] + 1]
    BY <1>8 DEF FailRead
  <2> HIDE DEF j, r, pc
  <2>6. /\ failures' \in [Jobs -> Nat]
        /\ \A i \in Jobs : failures[i] <= failures'[i]
        /\ failures'[j] = failures[j] + 1
    BY <1>0, <2>1, <2>5
  <2>7. r.retries <= failures'[j]
    BY <1>0, <2>1, <2>2, <2>6 DEF Row
  <2>8. CallsInv'
    BY <1>0, <2>1, <2>2, <2>3, <2>4, <2>6, <2>7, HoldKeeps
  <2>9. UNCHANGED <<table, disk, cleaner, cooling, uploads>>
    BY <1>8 DEF FailRead
  <2>10. TypeOK'
    BY <1>0, <2>6, <2>8, <2>9 DEF TypeOK, CallsInv, table, disk, cleaner
  <2>11. TableInv'
    <3>1. /\ rows' = rows /\ live' = live /\ gone' = gone
          /\ rows \in [Jobs -> Row]
      BY <1>0, <2>9 DEF table, TypeOK
    <3>2. ASSUME NEW i \in Jobs
          PROVE  Legal(rows'[i]) /\ rows'[i].retries <= failures'[i]
      BY <1>0, <2>6, <3>1 DEF TableInv, Row
    <3> QED
      BY <1>0, <3>1, <3>2 DEF TableInv
  <2> QED
    BY <2>8, <2>10, <2>11 DEF IInv
<1>9. CASE FailGone(s)
  <2>1. CallsInv'
    BY <1>0, <1>9, AnswerKeeps DEF FailGone, history
  <2> QED
    BY <1>9, <2>1, CallsOnly DEF FailGone
<1>10. CASE CooldownWorker(s)
  <2>1. CallsInv'
    BY <1>0, <1>10, AdvanceKeeps DEF CooldownWorker, history, PCs, Holding
  <2>2. calls[s].worker \in Workers
    BY <1>0, <1>10 DEF CooldownWorker, CallInv, ArgumentsFit
  <2>3. TypeOK'
    BY <1>0, <1>10, <2>1, <2>2
    DEF TypeOK, CallsInv, CooldownWorker, table, disk, cleaner, history
  <2>4. TableInv'
    BY <1>0, <1>10 DEF TableInv, CooldownWorker, table, history
  <2> QED
    BY <2>1, <2>3, <2>4 DEF IInv
<1>11. CASE MetadataRead(s)
  <2> DEFINE j == calls[s].job
             r == Described(rows[j], calls[s].arg)
  <2>1. /\ j \in Jobs /\ rows[j] \in Row /\ Legal(rows[j])
        /\ rows[j].retries <= failures[j]
    BY <1>11, FoundRow DEF MetadataRead
  <2>2. calls[s].arg \in Kinds
    BY <1>0, <1>11 DEF MetadataRead, CallInv, ArgumentsFit
  <2>3. r \in Row /\ Legal(r) /\ r.retries = rows[j].retries
    BY <2>1, <2>2, DescribedFits
  <2>4. Hold(s, "formats", j, r) /\ calls[s].op # "poll"
    BY <1>11 DEF MetadataRead
  <2> HIDE DEF j, r
  <2>5. UNCHANGED <<table, disk, cleaner, cooling, history>>
    BY <1>11 DEF MetadataRead
  <2>6. CallsInv'
    BY <1>0, <2>1, <2>3, <2>4, <2>5, HoldKeeps DEF history, PCs
  <2> QED
    BY <2>5, <2>6, CallsOnly
<1>12. CASE SaveFormats(s)
  <2>1. CallsInv'
    BY <1>0, <1>12, AdvanceKeeps DEF SaveFormats, history, PCs, Holding
  <2>2. calls[s].arg \in Kinds
    BY <1>0, <1>12 DEF SaveFormats, CallInv, ArgumentsFit
  <2>3. TypeOK'
    BY <1>0, <1>12, <2>1, <2>2
    DEF TypeOK, CallsInv, SaveFormats, table, cleaner, history
  <2>4. TableInv'
    BY <1>0, <1>12 DEF TableInv, SaveFormats, table, history
  <2> QED
    BY <2>1, <2>3, <2>4 DEF IInv
<1>13. CASE UploadRead(s)
  <2> DEFINE j == calls[s].job
             r == Uploaded(rows[j], calls[s].arg)
  <2>1. /\ j \in Jobs /\ rows[j] \in Row /\ Legal(rows[j])
        /\ rows[j].retries <= failures[j]
    BY <1>13, FoundRow DEF UploadRead
  <2>2. calls[s].arg \in Names
    BY <1>0, <1>13 DEF UploadRead, CallInv, ArgumentsFit
  <2>3. r \in Row /\ Legal(r) /\ r.retries = rows[j].retries
    BY <2>1, <2>2, UploadedFits
  <2>4. Hold(s, "create", j, r) /\ calls[s].op # "poll"
    BY <1>13 DEF UploadRead
  <2> HIDE DEF j, r
  <2>5. UNCHANGED <<table, disk, cleaner, cooling, history>>
    BY <1>13 DEF UploadRead
  <2>6. CallsInv'
    BY <1>0, <2>1, <2>3, <2>4, <2>5, HoldKeeps DEF history, PCs
  <2> QED
    BY <2>5, <2>6, CallsOnly
<1>14. CASE UploadCreate(s)
  <2>1. /\ Advance(s, "copy")
        /\ calls[s].op = "upload" /\ calls[s].pc = "create"
        /\ UNCHANGED <<table, formats, cleaner, cooling, failures>>
    BY <1>14 DEF UploadCreate
  <2>2. CallsInv'
    BY <1>0, <2>1, AdvanceKeeps DEF PCs, Holding
  <2>3. files' \in [Jobs -> [Names -> {"absent", "partial", "whole"}]]
    BY <1>0, <1>14 DEF TypeOK, UploadCreate, SetFile
  <2>4. uploads' \in [Jobs -> 0..2]
    <3> DEFINE j == calls[s].job
               k == IF uploads[j] = 0 THEN 1 ELSE 2
    <3>1. uploads' = [uploads EXCEPT ![j] = k]
      BY <1>14, Zenon DEF UploadCreate
    <3>2. k \in 0..2
      OBVIOUS
    <3> HIDE DEF j, k
    <3> QED
      BY <1>0, <3>1, <3>2 DEF TypeOK
  <2>5. TypeOK'
    BY <1>0, <2>1, <2>2, <2>3, <2>4 DEF TypeOK, CallsInv, table, cleaner
  <2>6. TableInv'
    BY <1>0, <2>1 DEF TableInv, table
  <2> QED
    BY <2>2, <2>5, <2>6 DEF IInv
<1>15. CASE UploadNotCreated(s)
  <2>1. CallsInv'
    BY <1>0, <1>15, AnswerKeeps DEF UploadNotCreated, history
  <2> QED
    BY <1>15, <2>1, CallsOnly DEF UploadNotCreated
<1>16. CASE UploadCopied(s)
  <2>1. /\ Advance(s, "write")
        /\ calls[s].op = "upload" /\ calls[s].pc = "copy"
        /\ UNCHANGED <<table, formats, cleaner, cooling, history>>
    BY <1>16 DEF UploadCopied
  <2>2. CallsInv'
    BY <1>0, <2>1, AdvanceKeeps DEF PCs, Holding, history
  <2>3. files' \in [Jobs -> [Names -> {"absent", "partial", "whole"}]]
    <3>1. PICK state \in CopyLeaves(s) : SetFile(calls[s].job, calls[s].arg, state)
      BY <1>16 DEF UploadCopied
    <3>2. state \in {"absent", "partial", "whole"}
      BY <3>1 DEF CopyLeaves
    <3> QED
      BY <1>0, <3>1, <3>2 DEF TypeOK, SetFile
  <2>4. TypeOK'
    BY <1>0, <2>1, <2>2, <2>3 DEF TypeOK, CallsInv, table, cleaner, history
  <2>5. TableInv'
    BY <1>0, <2>1 DEF TableInv, table, history
  <2> QED
    BY <2>2, <2>4, <2>5 DEF IInv
<1>17. CASE UploadBroken(s)
  <2>1. /\ Answer(s, "error")
        /\ UNCHANGED <<table, formats, cleaner, cooling, history>>
    BY <1>17 DEF UploadBroken
  <2>2. CallsInv'
    BY <1>0, <2>1, AnswerKeeps DEF history
  <2>3. files' \in [Jobs -> [Names -> {"absent", "partial", "whole"}]]
    BY <1>0, <1>17 DEF TypeOK, UploadBroken, SetFile
  <2>4. TypeOK'
    BY <1>0, <2>1, <2>2, <2>3 DEF TypeOK, CallsInv, table, cleaner, history
  <2>5. TableInv'
    BY <1>0, <2>1 DEF TableInv, table, history
  <2> QED
    BY <2>2, <2>4, <2>5 DEF IInv
<1>18. CASE SelectRead(s)
  <2> DEFINE j == calls[s].job
             r == Selected(rows[j], calls[s].arg)
  <2>1. UNCHANGED <<table, disk, cleaner, cooling, history>>
    BY <1>18 DEF SelectRead
  <2>2. /\ j \in Jobs /\ rows[j] \in Row /\ Legal(rows[j])
        /\ rows[j].retries <= failures[j]
    BY <1>18, FoundRow DEF SelectRead
  <2>3. calls[s].arg \in UserModes /\ calls[s].op # "poll"
    BY <1>0, <1>18 DEF SelectRead, CallInv, ArgumentsFit
  <2>4. r \in Row /\ Legal(r) /\ r.retries = rows[j].retries
    BY <2>2, <2>3, SelectedFits
  <2>5. Hold(s, "formats", j, r) \/ Answer(s, "error")
    BY <1>18 DEF SelectRead
  <2> HIDE DEF j, r
  <2>6. ASSUME Hold(s, "formats", j, r)
        PROVE  CallsInv'
    BY <1>0, <2>1, <2>2, <2>3, <2>4, <2>6, HoldKeeps DEF history, PCs
  <2>7. ASSUME Answer(s, "error")
        PROVE  CallsInv'
    BY <1>0, <2>1, <2>7, AnswerKeeps DEF history
  <2> QED
    BY <2>1, <2>5, <2>6, <2>7, CallsOnly
<1>19. CASE SelectFormats(s)
  <2>1. UNCHANGED <<table, disk, cleaner, cooling, history>>
    BY <1>19 DEF SelectFormats
  <2>2. Advance(s, "write") \/ Answer(s, "error")
    BY <1>19 DEF SelectFormats
  <2>3. calls[s].op = "select" /\ calls[s].pc = "formats"
    BY <1>19 DEF SelectFormats
  <2>4. CallsInv'
    BY <1>0, <2>1, <2>2, <2>3, AnswerKeeps, AdvanceKeeps DEF history, PCs, Holding
  <2> QED
    BY <2>1, <2>4, CallsOnly
<1>20. CASE CancelRead(s)
  <2> DEFINE j == calls[s].job
             r == Canceled(rows[j])
  <2>1. UNCHANGED <<table, disk, cleaner, cooling, history>>
    BY <1>20 DEF CancelRead
  <2>2. /\ j \in Jobs /\ rows[j] \in Row /\ Legal(rows[j])
        /\ rows[j].retries <= failures[j]
    BY <1>20, FoundRow DEF CancelRead
  <2>3. r \in Row /\ Legal(r) /\ r.retries = rows[j].retries
    BY <2>2, CanceledFits
  <2>4. calls[s].op # "poll" /\ (Hold(s, "write", j, r) \/ Answer(s, "ok"))
    BY <1>20 DEF CancelRead
  <2> HIDE DEF j, r
  <2>5. ASSUME Hold(s, "write", j, r)
        PROVE  CallsInv'
    BY <1>0, <2>1, <2>2, <2>3, <2>4, <2>5, HoldKeeps DEF history, PCs
  <2>6. ASSUME Answer(s, "ok")
        PROVE  CallsInv'
    BY <1>0, <2>1, <2>6, AnswerKeeps DEF history
  <2> QED
    BY <2>1, <2>4, <2>5, <2>6, CallsOnly
<1>21. CASE StatusRead(s)
  <2> DEFINE j == calls[s].job
             r == rows[j]
  <2>1. UNCHANGED <<table, disk, cleaner, cooling, history>>
    BY <1>21 DEF StatusRead
  <2>2. j \in Jobs /\ r \in Row /\ Legal(r)
    BY <1>21, FoundRow DEF StatusRead
  <2>3. calls[s].op # "poll" /\ Hold(s, "ok", j, r)
    BY <1>21 DEF StatusRead
  <2> HIDE DEF j, r
  <2>4. CallsInv'
    BY <1>0, <2>1, <2>2, <2>3, HoldKeeps DEF history, PCs, Holding
  <2> QED
    BY <2>1, <2>4, CallsOnly
<1>22. CASE UpdateJob(s)
  <2> DEFINE j == calls[s].job
             r == calls[s].row
  <2>1. /\ j \in Jobs /\ r \in Row /\ Legal(r) /\ r.retries <= failures[j]
        /\ calls[s].pc = "write"
    BY <1>0, <1>22 DEF UpdateJob, CallInv, ArgumentsFit, Call, Holding
  <2>2. UNCHANGED <<live, gone, disk, cleaner, cooling, history>>
    BY <1>22 DEF UpdateJob
  <2>3. Advance(s, "ok") \/ Answer(s, "ok")
    BY <1>22 DEF UpdateJob
  <2>4. rows' = rows \/ rows' = [rows EXCEPT ![j] = r]
    BY <1>22 DEF UpdateJob
  <2> HIDE DEF j, r
  <2>5. CallsInv'
    BY <1>0, <2>1, <2>2, <2>3, AnswerKeeps, AdvanceKeeps DEF history, PCs, Holding
  <2>6. TypeOK'
    BY <1>0, <2>1, <2>2, <2>4, <2>5 DEF TypeOK, CallsInv, disk, cleaner, history
  <2>7. TableInv'
    BY <1>0, <2>1, <2>2, <2>4 DEF TableInv, TypeOK, history
  <2> QED
    BY <2>5, <2>6, <2>7 DEF IInv
<1>23. CASE DatabaseError(s)
  <2>1. CallsInv'
    BY <1>0, <1>23, AnswerKeeps DEF DatabaseError, history
  <2> QED
    BY <1>23, <2>1, CallsOnly DEF DatabaseError
<1> QED
  BY <1>1, <1>2, <1>3, <1>4, <1>5, <1>6, <1>7, <1>8, <1>9, <1>10, <1>11, <1>12,
     <1>13, <1>14, <1>15, <1>16, <1>17, <1>18, <1>19, <1>20, <1>21, <1>22, <1>23
  DEF Serve

\* The cleaner, the timers and a restart.
LEMMA BackgroundKeeps ==
  ASSUME IInv, Background
  PROVE  IInv'
<1>0. CallsInv /\ TypeOK /\ TableInv
  BY DEF IInv
<1>1. ASSUME NEW w \in Workers, CoolingEnds(w)
      PROVE  IInv'
  <2>1. CallsInv'
    BY <1>0, <1>1 DEF CoolingEnds, CallsInv, history
  <2> QED
    BY <1>0, <1>1, <2>1
    DEF CoolingEnds, IInv, TypeOK, TableInv, table, disk, cleaner, history
<1>2. ASSUME NEW j \in Jobs, Expire(j)
      PROVE  IInv'
  <2>1. CallsInv'
    BY <1>0, <1>2 DEF Expire, CallsInv, history
  <2> QED
    BY <1>0, <1>2, <2>1
    DEF Expire, IInv, TypeOK, TableInv, table, disk, history
<1>3. CASE Scan
  <2>1. CallsInv'
    BY <1>0, <1>3 DEF Scan, CallsInv, history
  <2>2. sweep' \subseteq Item
    <3> SUFFICES ASSUME NEW e \in sweep'
                 PROVE  e \in Item
      OBVIOUS
    <3>1. PICK j \in ExpiredJobs : e = [job |-> j, file |-> rows[j].file, removed |-> FALSE]
      BY <1>3 DEF Scan
    <3>2. j \in Jobs /\ rows[j].file \in Names \cup {NoFile}
      BY <1>0 DEF TypeOK, Row, ExpiredJobs
    <3> QED
      BY <3>1, <3>2 DEF Item
  <2> QED
    BY <1>0, <1>3, <2>1, <2>2
    DEF Scan, IInv, TypeOK, TableInv, table, disk, history
<1>4. ASSUME NEW e \in sweep, RemoveFile(e)
      PROVE  IInv'
  <2>1. UNCHANGED <<table, formats, calls, old, cooling, history>>
    BY <1>4 DEF RemoveFile
  <2>2. CallsInv'
    BY <1>0, <2>1 DEF CallsInv, history
  <2>3. sweep' \subseteq Item
    BY <1>0, <1>4 DEF RemoveFile, TypeOK, Item
  <2>4. files' \in [Jobs -> [Names -> {"absent", "partial", "whole"}]]
    <3>1. e \in Item
      BY <1>0 DEF TypeOK
    <3>2. CASE files' = files
      BY <1>0, <3>2 DEF TypeOK
    <3>3. CASE e.file # NoFile /\ SetFile(e.job, e.file, "absent")
      BY <1>0, <3>1, <3>3 DEF TypeOK, SetFile, Item
    <3> QED
      BY <1>4, <3>2, <3>3 DEF RemoveFile
  <2> QED
    BY <1>0, <2>1, <2>2, <2>3, <2>4
    DEF IInv, TypeOK, TableInv, table, history
<1>5. ASSUME NEW e \in sweep, DeleteJob(e)
      PROVE  IInv'
  <2>1. e.job \in Jobs
    BY <1>0 DEF TypeOK, Item
  <2>2. CallsInv'
    BY <1>0, <1>5 DEF DeleteJob, CallsInv, history
  <2>3. /\ UNCHANGED <<files, calls, old, cooling, history>>
        /\ sweep' \subseteq sweep
        /\ formats' = formats \/ formats' = [formats EXCEPT ![e.job] = "none"]
        /\ \/ UNCHANGED table
           \/ /\ live' = live \ {e.job}
              /\ gone' = gone \cup {e.job}
              /\ rows' = [rows EXCEPT ![e.job] = NewRow]
    BY <1>5 DEF DeleteJob
  <2>4. TypeOK'
    BY <1>0, <2>1, <2>3, NewRowFits DEF TypeOK, table, history
  <2>5. TableInv'
    <3>1. live' \cap gone' = {}
      BY <1>0, <2>3 DEF TableInv, table
    <3>2. ASSUME NEW j \in Jobs
          PROVE  Legal(rows'[j]) /\ rows'[j].retries <= failures'[j]
      <4>1. rows'[j] = rows[j] \/ rows'[j] = NewRow
        BY <1>0, <2>3 DEF TypeOK, table
      <4>2. failures' = failures /\ failures[j] \in Nat
        BY <1>0, <2>3 DEF TypeOK, history
      <4> QED
        BY <1>0, <4>1, <4>2, NewRowFits DEF TableInv
    <3> QED
      BY <3>1, <3>2 DEF TableInv
  <2> QED
    BY <2>2, <2>4, <2>5 DEF IInv
<1>6. CASE Restart
  <2> DEFINE c == [NoCall EXCEPT !.pc = "error"]
  <2>1. UNCHANGED <<table, disk, old, cooling, history>> /\ sweep' = {}
    BY <1>6 DEF Restart
  <2>2. CallInv(c, failures')
    BY NewRowFits
    DEF CallInv, ArgumentsFit, Workable, NoCall, Call, Ops, PCs, Holding
  <2>3. calls' = [s \in Slots |-> IF calls[s].pc = "idle" THEN calls[s] ELSE c]
    BY <1>6 DEF Restart
  <2> HIDE DEF c
  <2>4. CallsInv'
    BY <1>0, <2>1, <2>2, <2>3 DEF CallsInv, CallInv, history
  <2>5. TypeOK' /\ TableInv'
    BY <1>0, <2>1, <2>4 DEF TypeOK, TableInv, CallsInv, table, disk, history
  <2> QED
    BY <2>4, <2>5 DEF IInv
<1> QED
  BY <1>1, <1>2, <1>3, <1>4, <1>5, <1>6 DEF Background

\* The empty database satisfies the invariant.
LEMMA InitFits == Init => IInv
<1> SUFFICES ASSUME Init PROVE IInv
  OBVIOUS
<1>1. CallInv(NoCall, failures)
  BY NewRowFits
  DEF CallInv, ArgumentsFit, Workable, NoCall, Call, Ops, PCs, Holding
<1>2. CallsInv
  BY <1>1 DEF Init, CallsInv, CallInv
<1>3. TypeOK
  BY <1>2, NewRowFits DEF Init, TypeOK, CallsInv
<1>4. TableInv
  BY NewRowFits DEF Init, TableInv
<1> QED
  BY <1>2, <1>3, <1>4 DEF IInv

\* The invariant is inductive.
LEMMA StepKeeps == IInv /\ [Next]_vars => IInv'
<1> SUFFICES ASSUME IInv, [Next]_vars PROVE IInv'
  OBVIOUS
<1>1. ASSUME NEW s \in Slots, Arrive(s) PROVE IInv'
  BY <1>1, ArriveKeeps
<1>2. ASSUME NEW s \in Slots, Serve(s) PROVE IInv'
  BY <1>2, ServeKeeps
<1>3. ASSUME NEW s \in Slots, Reply(s) PROVE IInv'
  BY <1>3, ReplyKeeps
<1>4. CASE Background
  BY <1>4, BackgroundKeeps
<1>5. CASE UNCHANGED vars
  <2>1. UNCHANGED <<table, disk, cleaner, cooling, history>> /\ calls' = calls
    BY <1>5 DEF vars, table, disk, cleaner, history
  <2>2. CallsInv'
    BY <2>1 DEF IInv, CallsInv, history
  <2> QED
    BY <2>1, <2>2, CallsOnly
<1> QED
  BY <1>1, <1>2, <1>3, <1>4, <1>5 DEF Next

-----------------------------------------------------------------------------
(* What follows from it. *)

\* The inductive invariant holds of every reachable state.
THEOREM Invariance == Spec => []IInv
<1>1. Init => IInv
  BY InitFits
<1>2. IInv /\ [Next]_vars => IInv'
  BY StepKeeps
<1> QED
  BY <1>1, <1>2, PTL DEF Spec

\* Every column, call, file and cleanup item has its type in every reachable
\* state, and only jobs that were created are old.
THEOREM TypeCorrect == Spec => []TypeOK
<1>1. IInv => TypeOK
  BY DEF IInv
<1> QED
  BY <1>1, Invariance, PTL

\* What the invariant says of rows, of work handed out, and of failures.
LEMMA InvariantSays ==
  ASSUME IInv
  PROVE  RowsLegal /\ WorkIsClear /\ FailsOnlyAfterRetries
<1>1. RowsLegal
  BY DEF IInv, TableInv, CallsInv, CallInv, RowsLegal
<1>2. WorkIsClear
  BY DEF IInv, CallsInv, CallInv, Workable, WorkIsClear, At
<1>3. ASSUME NEW j \in live
      PROVE  /\ rows[j].retries <= failures[j]
             /\ rows[j].status = "failed" => failures[j] >= MaxRetries
  <2>1. /\ j \in Jobs /\ rows[j] \in Row /\ Legal(rows[j])
        /\ rows[j].retries <= failures[j] /\ failures[j] \in Nat
    BY <1>3, FoundRow
  <2> QED
    BY <2>1, RetryAssumption DEF Legal, FailedIsSpent, Row
<1> QED
  BY <1>1, <1>2, <1>3 DEF FailsOnlyAfterRetries

\* No interleaving of the handlers writes a row whose columns do not fit
\* together: a queued job without a mode or with a worker, a pending one with a
\* mode, a done one without a file, a failed one with retries left.
THEOREM RowsStayLegal == Spec => []RowsLegal
<1>1. IInv => RowsLegal
  BY InvariantSays
<1> QED
  BY <1>1, Invariance, PTL

\* AssignJob only hands out a pending job without a mode, to be described, or
\* a running one with a mode, to be downloaded.
THEOREM WorkStaysClear == Spec => []WorkIsClear
<1>1. IInv => WorkIsClear
  BY InvariantSays
<1> QED
  BY <1>1, Invariance, PTL

\* HandleJobFailure never fails a job before MaxRetries reports have found it,
\* however many stale rows are written over its counter.
THEOREM FailsLateEnough == Spec => []FailsOnlyAfterRetries
<1>1. IInv => FailsOnlyAfterRetries
  BY InvariantSays
<1> QED
  BY <1>1, Invariance, PTL

\* A job that the cleaner deleted never has a row again: UpdateJob changes no
\* missing row, and a new job takes a new identifier.
THEOREM DeletedIsForGood == Spec => DeletedStaysDeleted
<1>1. IInv /\ [Next]_vars => [gone \subseteq gone' /\ live' \cap gone = {}]_vars
  <2> SUFFICES ASSUME IInv, [Next]_vars
               PROVE  [gone \subseteq gone' /\ live' \cap gone = {}]_vars
    OBVIOUS
  <2>0. live \cap gone = {}
    BY DEF IInv, TableInv
  <2>1. ASSUME gone' = gone, live' \subseteq live \cup (Jobs \ Known)
        PROVE  gone \subseteq gone' /\ live' \cap gone = {}
    BY <2>0, <2>1 DEF Known
  <2>2. ASSUME NEW s \in Slots, Arrive(s) \/ Reply(s)
        PROVE  gone' = gone /\ live' \subseteq live
    BY <2>2 DEF Arrive, Receive, Reply, table
  <2>3. ASSUME NEW s \in Slots, Serve(s)
        PROVE  gone' = gone /\ live' \subseteq live \cup (Jobs \ Known)
    BY <2>3
    DEF Serve, NotFound, SubmitRefused, SubmitCountIP, SubmitCountAll,
        SubmitInsert, PollRead, UpdateRead, FailRead, FailGone, CooldownWorker,
        MetadataRead, SaveFormats, UploadRead, UploadCreate, UploadNotCreated,
        UploadCopied, UploadBroken, SelectRead, SelectFormats, CancelRead,
        StatusRead, UpdateJob, DatabaseError, table
  <2>4. CASE Background
    <3>1. ASSUME NEW e \in sweep, DeleteJob(e)
          PROVE  gone \subseteq gone' /\ live' \cap gone = {}
      BY <2>0, <3>1 DEF DeleteJob, table
    <3>2. ASSUME UNCHANGED table
          PROVE  gone \subseteq gone' /\ live' \cap gone = {}
      BY <2>0, <3>2 DEF table
    <3> QED
      BY <2>4, <3>1, <3>2
      DEF Background, CoolingEnds, Expire, Scan, RemoveFile, Restart
  <2> QED
    BY <2>1, <2>2, <2>3, <2>4 DEF Next
<1> QED
  BY <1>1, Invariance, PTL DEF Spec, DeletedStaysDeleted

=============================================================================
