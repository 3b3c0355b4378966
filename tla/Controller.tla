----------------------------- MODULE Controller -----------------------------
(***************************************************************************)
(* The controller: its job table, its upload directory, the HTTP handlers  *)
(* that read and write them, and the cleanup goroutine.                    *)
(*                                                                         *)
(* net/http runs every request in a goroutine of its own and the database  *)
(* has one connection, so each SQL statement is atomic and the statements  *)
(* of different requests interleave freely.  A request is a call in a      *)
(* slot; each statement or file operation of its handler is one step.      *)
(* Here the clients are arbitrary: any request may arrive at any time.     *)
(* In module Youdl the workers and a user are the clients.                 *)
(*                                                                         *)
(* Simplifications.  Rate limiting, the honeypot and the URL checks are    *)
(* one nondeterministic refusal.  Of the stored formats only their kind is *)
(* kept.  The workers table is reduced to the set of workers whose         *)
(* cool_until lies in the future: nothing reads its other columns.         *)
(***************************************************************************)
EXTENDS JobRow, FiniteSets

CONSTANTS
  Slots,         \* requests served at the same time
  IPs,           \* submitters
  SubmitterOf,   \* submitter_ip of each job, should it be created
  NoArg,         \* a request without a further argument
  MaxJobsPerIP,  \* MAX_JOBS_PER_IP, 0 for no cap
  MaxQueueDepth, \* MAX_QUEUE_DEPTH, 0 for no cap
  Requests,      \* bound: the kinds of request that arrive
  Sources,       \* bound: the kinds of video that are submitted
  Choices,       \* bound: the modes that users select
  MaxFailures,   \* bound: failures per job
  Timers,        \* bound: the timers that run out
  Faults         \* what may go wrong in this instance

Ops == {"submit", "poll", "running", "failed", "metadata", "upload",
        "select", "cancel", "status"}

FaultKinds == {"database",   \* a statement fails
               "transfer",   \* an upload's file cannot be created or filled
               "restart",    \* the controller stops and starts again
               "loss",       \* a request or a reply is lost, or comes too late
               "crash"}      \* a worker stops and starts again

ASSUME SubmitterAssumption == SubmitterOf \in [Jobs -> IPs]
ASSUME CapAssumption == MaxJobsPerIP \in Nat /\ MaxQueueDepth \in Nat
ASSUME BoundAssumption ==
  /\ Requests \subseteq Ops
  /\ Sources \subseteq Kinds
  /\ Choices \subseteq UserModes
  /\ MaxFailures \in Nat
  /\ Timers \subseteq {"ttl", "cooldown"}
  /\ Faults \subseteq FaultKinds

VARIABLES
  live,      \* jobs that have a row
  gone,      \* jobs whose row was deleted
  rows,      \* the rows; NewRow where there is none
  formats,   \* the kind of each job's stored formats, or "none"
  files,     \* per job and name: "absent", "partial" or "whole"
  calls,     \* the request in each slot
  old,       \* jobs created more than JOB_TTL ago, deleted ones included
  sweep,     \* what is left of the cleaner's current pass
  cooling,   \* workers whose cool_until lies in the future
  failures,  \* history: failure reports that found the job
  uploads    \* history: uploads begun for the job, saturating at 2

vars == <<live, gone, rows, formats, files, calls, old, sweep, cooling,
          failures, uploads>>

table == <<live, gone, rows>>
disk == <<formats, files>>
cleaner == <<old, sweep>>
history == <<failures, uploads>>

-----------------------------------------------------------------------------
(* Calls. *)

PCs == {"idle", "start", "total", "insert", "formats", "cool", "create",
        "copy", "write", "ok", "error"}

\* Where the handler holds a row that it means to write.
Holding == {"formats", "cool", "create", "copy", "write"}

Call == [op     : Ops \cup {"none"},
         pc     : PCs,
         job    : Jobs \cup {NoJob},
         worker : Workers \cup {NoWorker},
         arg    : IPs \cup Kinds \cup Names \cup UserModes \cup {NoArg},
         row    : Row]

NoCall == [op |-> "none", pc |-> "idle", job |-> NoJob, worker |-> NoWorker,
           arg |-> NoArg, row |-> NewRow]

Request(op, j, w, a) ==
  [NoCall EXCEPT !.op = op, !.pc = "start", !.job = j, !.worker = w, !.arg = a]

\* An answer without content: the client knows what it asked for.
Answer(s, pc) == calls' = [calls EXCEPT ![s] = [NoCall EXCEPT !.pc = pc]]

Advance(s, pc) == calls' = [calls EXCEPT ![s] = [@ EXCEPT !.pc = pc]]

\* The handler has read job j's row and holds r, which it means to write.
Hold(s, pc, j, r) ==
  calls' = [calls EXCEPT ![s] = [@ EXCEPT !.pc = pc, !.job = j, !.row = r]]

At(s, op, pc) == calls[s].op = op /\ calls[s].pc = pc

Found(s) == calls[s].job \in live

\* GetJob returned nil, or failed: 404.
NotFound(s, op) ==
  /\ At(s, op, "start")
  /\ ~Found(s)
  /\ Answer(s, "error")
  /\ UNCHANGED <<table, disk, cleaner, cooling, history>>

-----------------------------------------------------------------------------
(* Arrival and departure of requests. *)

\* Every job that was ever created may still be named by a request.
Known == live \cup gone

\* The bound on what may go wrong with one job.
MayFail(j) == failures[j] < MaxFailures

Arguments(op) ==
  CASE op = "submit"   -> {NoJob} \X {NoWorker} \X IPs
    [] op = "poll"     -> {NoJob} \X Workers \X {NoArg}
    [] op = "failed"   -> {j \in Known : MayFail(j)} \X Workers \X {NoArg}
    [] op = "metadata" -> Known \X {NoWorker} \X Sources
    [] op = "upload"   -> Known \X {NoWorker} \X Names
    [] op = "select"   -> Known \X {NoWorker} \X Choices
    [] op \in {"running", "cancel", "status"} ->
                          Known \X {NoWorker} \X {NoArg}

Receive(s, op, j, w, a) ==
  /\ calls[s].pc = "idle"
  /\ calls' = [calls EXCEPT ![s] = Request(op, j, w, a)]
  /\ UNCHANGED <<table, disk, cleaner, cooling, history>>

Reply(s) ==
  /\ calls[s].pc \in {"ok", "error"}
  /\ calls' = [calls EXCEPT ![s] = NoCall]
  /\ UNCHANGED <<table, disk, cleaner, cooling, history>>

-----------------------------------------------------------------------------
(* POST /submit: count, count, insert. *)

ActiveJobs == {j \in live : rows[j].status \in Active}
ActiveJobsForIP(ip) == {j \in ActiveJobs : SubmitterOf[j] = ip}

Below(jobs, cap) == cap = 0 \/ Cardinality(jobs) < cap

\* The honeypot and the rate limiter at first, the URL checks at last.
SubmitRefused(s) ==
  /\ calls[s].op = "submit"
  /\ calls[s].pc \in {"start", "insert"}
  /\ Answer(s, "error")
  /\ UNCHANGED <<table, disk, cleaner, cooling, history>>

SubmitCountIP(s) ==
  /\ At(s, "submit", "start")
  /\ IF Below(ActiveJobsForIP(calls[s].arg), MaxJobsPerIP)
     THEN Advance(s, "total")
     ELSE Answer(s, "error")
  /\ UNCHANGED <<table, disk, cleaner, cooling, history>>

SubmitCountAll(s) ==
  /\ At(s, "submit", "total")
  /\ IF Below(ActiveJobs, MaxQueueDepth)
     THEN Advance(s, "insert")
     ELSE Answer(s, "error")
  /\ UNCHANGED <<table, disk, cleaner, cooling, history>>

\* created_at is read before the insertion: a later row may have an earlier one.
SubmitInsert(s) ==
  /\ At(s, "submit", "insert")
  /\ \E j \in Jobs \ Known :
       /\ SubmitterOf[j] = calls[s].arg
       /\ live' = live \cup {j}
       /\ rows' = [rows EXCEPT ![j] = NewRow]
  /\ Answer(s, "ok")
  /\ UNCHANGED <<gone, disk, cleaner, cooling, history>>

-----------------------------------------------------------------------------
(* POST /api/worker/poll. *)

AssignableJobs(w) == {j \in live : Assignable(rows[j], w)}

PollRead(s) ==
  /\ At(s, "poll", "start")
  /\ LET w == calls[s].worker IN
     \/ /\ AssignableJobs(w) = {}
        /\ Answer(s, "ok")
     \/ \E j \in AssignableJobs(w) :
          /\ \A i \in AssignableJobs(w) : j <= i
          /\ Hold(s, "write", j, Assigned(rows[j], w))
  /\ UNCHANGED <<table, disk, cleaner, cooling, history>>

-----------------------------------------------------------------------------
(* POST /api/worker/job/update, with status running or failed. *)

UpdateRead(s) ==
  /\ At(s, "running", "start")
  /\ Found(s)
  /\ Hold(s, "write", calls[s].job, Reported(rows[calls[s].job]))
  /\ UNCHANGED <<table, disk, cleaner, cooling, history>>

\* HandleJobFailure reads the row; only a job it requeues cools its worker.
FailRead(s) ==
  /\ At(s, "failed", "start")
  /\ Found(s)
  /\ LET j == calls[s].job IN
     /\ Hold(s, IF GivesUp(rows[j]) THEN "write" ELSE "cool",
             j, AfterFailure(rows[j]))
     /\ failures' = [failures EXCEPT ![j] = @ + 1]
  /\ UNCHANGED <<table, disk, cleaner, cooling, uploads>>

\* HandleJobFailure's only early return: a job that is gone is no error.
FailGone(s) ==
  /\ At(s, "failed", "start")
  /\ ~Found(s)
  /\ Answer(s, "ok")
  /\ UNCHANGED <<table, disk, cleaner, cooling, history>>

\* A failing statement is logged and otherwise ignored.
CooldownWorker(s) ==
  /\ At(s, "failed", "cool")
  /\ \/ cooling' = cooling \cup {calls[s].worker}
     \/ "database" \in Faults /\ UNCHANGED cooling
  /\ Advance(s, "write")
  /\ UNCHANGED <<table, disk, cleaner, history>>

CoolingEnds(w) ==
  /\ "cooldown" \in Timers
  /\ w \in cooling
  /\ cooling' = cooling \ {w}
  /\ UNCHANGED <<table, disk, calls, cleaner, history>>

-----------------------------------------------------------------------------
(* POST /api/worker/job/metadata: read, save the formats, write. *)

MetadataRead(s) ==
  /\ At(s, "metadata", "start")
  /\ Found(s)
  /\ LET j == calls[s].job IN
     Hold(s, "formats", j, Described(rows[j], calls[s].arg))
  /\ UNCHANGED <<table, disk, cleaner, cooling, history>>

\* Mutant: a failure is logged and otherwise ignored.
SaveFormatsAnyway(s) ==
  /\ At(s, "metadata", "formats")
  /\ \/ formats' = [formats EXCEPT ![calls[s].job] = calls[s].arg]
     \/ "database" \in Faults /\ UNCHANGED formats
  /\ Advance(s, "write")
  /\ UNCHANGED <<table, files, cleaner, cooling, history>>

\* One transaction; nothing ties job_formats to a row of jobs.
SaveFormats(s) ==
  /\ At(s, "metadata", "formats")
  /\ formats' = [formats EXCEPT ![calls[s].job] = calls[s].arg]
  /\ Advance(s, "write")
  /\ UNCHANGED <<table, files, cleaner, cooling, history>>

-----------------------------------------------------------------------------
(* POST /api/worker/job/{id}/upload: read, create, copy, write. *)

UploadRead(s) ==
  /\ At(s, "upload", "start")
  /\ Found(s)
  /\ LET j == calls[s].job IN
     Hold(s, "create", j, Uploaded(rows[j], calls[s].arg))
  /\ UNCHANGED <<table, disk, cleaner, cooling, history>>

SetFile(j, n, state) == files' = [files EXCEPT ![j] = [@ EXCEPT ![n] = state]]

\* os.Create truncates the file that is there.
UploadCreate(s) ==
  /\ At(s, "upload", "create")
  /\ LET j == calls[s].job IN
     /\ SetFile(j, calls[s].arg, "partial")
     /\ uploads' = [uploads EXCEPT ![j] = IF @ = 0 THEN 1 ELSE 2]
  /\ Advance(s, "copy")
  /\ UNCHANGED <<table, formats, cleaner, cooling, failures>>

\* MkdirAll or Create fails.
UploadNotCreated(s) ==
  /\ "transfer" \in Faults
  /\ At(s, "upload", "create")
  /\ MayFail(calls[s].job)
  /\ Answer(s, "error")
  /\ UNCHANGED <<table, disk, cleaner, cooling, history>>

SameFile(s, t) ==
  /\ At(t, "upload", "copy")
  /\ calls[t].job = calls[s].job
  /\ calls[t].arg = calls[s].arg

\* What the name holds once this copy is complete: nothing if it was removed
\* meanwhile, and either state while another upload still writes to it.
CopyLeaves(s) ==
  IF files[calls[s].job][calls[s].arg] = "absent" THEN {"absent"}
  ELSE IF \E t \in Slots \ {s} : SameFile(s, t) THEN {"partial", "whole"}
  ELSE {"whole"}

UploadCopied(s) ==
  /\ At(s, "upload", "copy")
  /\ \E state \in CopyLeaves(s) : SetFile(calls[s].job, calls[s].arg, state)
  /\ Advance(s, "write")
  /\ UNCHANGED <<table, formats, cleaner, cooling, history>>

\* Mutant: the handler goes on after a broken body.
UploadBrokenGoesOn(s) ==
  /\ "transfer" \in Faults
  /\ At(s, "upload", "copy")
  /\ MayFail(calls[s].job)
  /\ SetFile(calls[s].job, calls[s].arg, "absent")
  /\ Advance(s, "write")
  /\ UNCHANGED <<table, formats, cleaner, cooling, history>>

\* io.Copy fails: the handler removes the name, whoever else is using it.
UploadBroken(s) ==
  /\ "transfer" \in Faults
  /\ At(s, "upload", "copy")
  /\ MayFail(calls[s].job)
  /\ SetFile(calls[s].job, calls[s].arg, "absent")
  /\ Answer(s, "error")
  /\ UNCHANGED <<table, formats, cleaner, cooling, history>>

-----------------------------------------------------------------------------
(* The user's requests on a job. *)

\* Mutant: any status will do.
SelectReadAlways(s) ==
  /\ At(s, "select", "start")
  /\ Found(s)
  /\ LET j == calls[s].job IN
     Hold(s, "formats", j, Selected(rows[j], calls[s].arg))
  /\ UNCHANGED <<table, disk, cleaner, cooling, history>>

SelectRead(s) ==
  /\ At(s, "select", "start")
  /\ Found(s)
  /\ LET j == calls[s].job IN
     IF rows[j].status = "ready"
     THEN Hold(s, "formats", j, Selected(rows[j], calls[s].arg))
     ELSE Answer(s, "error")
  /\ UNCHANGED <<table, disk, cleaner, cooling, history>>

\* The chosen itags must be among the stored formats; a wrong choice or a bad
\* trim option is refused.
SelectFormats(s) ==
  /\ At(s, "select", "formats")
  /\ \/ /\ MaySelect(formats[calls[s].job])
        /\ Advance(s, "write")
     \/ Answer(s, "error")
  /\ UNCHANGED <<table, disk, cleaner, cooling, history>>

\* Mutant: whatever its status, the job is canceled.
CancelReadAlways(s) ==
  /\ At(s, "cancel", "start")
  /\ Found(s)
  /\ LET j == calls[s].job IN Hold(s, "write", j, Canceled(rows[j]))
  /\ UNCHANGED <<table, disk, cleaner, cooling, history>>

CancelRead(s) ==
  /\ At(s, "cancel", "start")
  /\ Found(s)
  /\ LET j == calls[s].job IN
     IF rows[j].status \in Active
     THEN Hold(s, "write", j, Canceled(rows[j]))
     ELSE Answer(s, "ok")
  /\ UNCHANGED <<table, disk, cleaner, cooling, history>>

\* GET /api/job/{id}/status: the answer carries the row.
StatusRead(s) ==
  /\ At(s, "status", "start")
  /\ Found(s)
  /\ Hold(s, "ok", calls[s].job, rows[calls[s].job])
  /\ UNCHANGED <<table, disk, cleaner, cooling, history>>

-----------------------------------------------------------------------------
(* The last statement of every handler that changes a job. *)

\* Mutant: an upsert instead of an update.
UpsertJob(s) ==
  /\ calls[s].pc = "write"
  /\ live' = live \cup {calls[s].job}
  /\ rows' = [rows EXCEPT ![calls[s].job] = calls[s].row]
  /\ IF calls[s].op = "poll" THEN Advance(s, "ok") ELSE Answer(s, "ok")
  /\ UNCHANGED <<gone, disk, cleaner, cooling, history>>

\* Mutant: a write is tried again although it took effect.
UpdateJobAgain(s) ==
  /\ calls[s].pc = "write"
  /\ rows' = IF Found(s) THEN [rows EXCEPT ![calls[s].job] = calls[s].row]
             ELSE rows
  /\ \/ UNCHANGED calls
     \/ IF calls[s].op = "poll" THEN Advance(s, "ok") ELSE Answer(s, "ok")
  /\ UNCHANGED <<live, gone, disk, cleaner, cooling, history>>

\* The whole row is written; a job deleted meanwhile is left alone, without
\* an error.  A poll answers with the row it wrote.
UpdateJob(s) ==
  /\ calls[s].pc = "write"
  /\ rows' = IF Found(s) THEN [rows EXCEPT ![calls[s].job] = calls[s].row]
             ELSE rows
  /\ IF calls[s].op = "poll" THEN Advance(s, "ok") ELSE Answer(s, "ok")
  /\ UNCHANGED <<live, gone, disk, cleaner, cooling, history>>

\* A statement fails.  (In HandleJobFailure a failed cooldown is ignored.)
DatabaseError(s) ==
  /\ "database" \in Faults
  /\ calls[s].pc \in {"start", "total", "insert", "formats", "write"}
  /\ Answer(s, "error")
  /\ UNCHANGED <<table, disk, cleaner, cooling, history>>

-----------------------------------------------------------------------------
(* The cleaner: query once, then per job remove the file and the row. *)

\* Time passes; created_at decides the order.
Expire(j) ==
  /\ "ttl" \in Timers
  /\ j \in live \ old
  /\ \A i \in live \ old : j <= i
  /\ old' = old \cup {j}
  /\ UNCHANGED <<table, disk, calls, sweep, cooling, history>>

Item == [job : Jobs, file : Names \cup {NoFile}, removed : BOOLEAN]

ExpiredJobs == live \cap old

\* Mutant: only jobs with a file are cleaned up.
ScanFiles ==
  /\ sweep = {} /\ ExpiredJobs # {}
  /\ sweep' = {[job |-> j, file |-> rows[j].file, removed |-> FALSE] :
                 j \in {i \in ExpiredJobs : rows[i].file # NoFile}}
  /\ UNCHANGED <<table, disk, calls, old, cooling, history>>

\* The list holds the ids and file paths of this moment.
Scan ==
  /\ sweep = {} /\ ExpiredJobs # {}
  /\ sweep' = {[job |-> j, file |-> rows[j].file, removed |-> FALSE] : j \in ExpiredJobs}
  /\ UNCHANGED <<table, disk, calls, old, cooling, history>>

\* The items are done one after the other.
Current(e) == e.removed \/ \A f \in sweep : ~f.removed

\* Only the file named by the snapshot is removed, if there was one.
RemoveFile(e) ==
  /\ ~e.removed /\ Current(e)
  /\ IF e.file = NoFile THEN UNCHANGED files ELSE SetFile(e.job, e.file, "absent")
  /\ sweep' = (sweep \ {e}) \cup {[e EXCEPT !.removed = TRUE]}
  /\ UNCHANGED <<table, formats, calls, old, cooling, history>>

\* The two deletions' own errors are not looked at.
DeleteJob(e) ==
  /\ e.removed
  /\ \E tables \in SUBSET {"job_formats", "jobs"} :
       /\ tables = {"job_formats", "jobs"} \/ "database" \in Faults
       /\ formats' = IF "job_formats" \in tables
                     THEN [formats EXCEPT ![e.job] = "none"] ELSE formats
       /\ IF "jobs" \in tables
          THEN /\ live' = live \ {e.job}
               /\ gone' = gone \cup {e.job}
               /\ rows' = [rows EXCEPT ![e.job] = NewRow]
          ELSE UNCHANGED table
  /\ sweep' = sweep \ {e}
  /\ UNCHANGED <<files, calls, old, cooling, history>>

\* The database and the files survive; requests and the pass do not.
Restart ==
  /\ "restart" \in Faults
  /\ calls' = [s \in Slots |->
                 IF calls[s].pc = "idle" THEN calls[s]
                 ELSE [NoCall EXCEPT !.pc = "error"]]
  /\ sweep' = {}
  /\ UNCHANGED <<table, disk, old, cooling, history>>

-----------------------------------------------------------------------------
Init ==
  /\ live = {} /\ gone = {}
  /\ rows = [j \in Jobs |-> NewRow]
  /\ formats = [j \in Jobs |-> "none"]
  /\ files = [j \in Jobs |-> [n \in Names |-> "absent"]]
  /\ calls = [s \in Slots |-> NoCall]
  /\ old = {} /\ sweep = {}
  /\ cooling = {}
  /\ failures = [j \in Jobs |-> 0]
  /\ uploads = [j \in Jobs |-> 0]

\* What the goroutine serving slot s may do next.
Serve(s) ==
  \/ \E op \in Ops \ {"submit", "poll", "failed"} : NotFound(s, op)
  \/ SubmitRefused(s) \/ SubmitCountIP(s) \/ SubmitCountAll(s) \/ SubmitInsert(s)
  \/ PollRead(s)
  \/ UpdateRead(s)
  \/ FailRead(s) \/ FailGone(s) \/ CooldownWorker(s)
  \/ MetadataRead(s) \/ SaveFormats(s)
  \/ UploadRead(s) \/ UploadCreate(s) \/ UploadNotCreated(s)
  \/ UploadCopied(s) \/ UploadBroken(s)
  \/ SelectRead(s) \/ SelectFormats(s)
  \/ CancelRead(s)
  \/ StatusRead(s)
  \/ UpdateJob(s)
  \/ DatabaseError(s)

\* What happens without a request.
Background ==
  \/ \E w \in Workers : CoolingEnds(w)
  \/ \E j \in Jobs : Expire(j)
  \/ Scan
  \/ \E e \in sweep : RemoveFile(e) \/ DeleteJob(e)
  \/ Restart

Arrive(s) ==
  \E op \in Requests : \E a \in Arguments(op) : Receive(s, op, a[1], a[2], a[3])

Next ==
  \/ \E s \in Slots : Arrive(s) \/ Serve(s) \/ Reply(s)
  \/ Background

Spec == Init /\ [][Next]_vars

-----------------------------------------------------------------------------
(* Properties. *)

\* Every variable has its type, and only jobs that were created grow old.
TypeOK ==
  /\ live \subseteq Jobs /\ gone \subseteq Jobs /\ old \subseteq live \cup gone
  /\ rows \in [Jobs -> Row]
  /\ formats \in [Jobs -> Kinds \cup {"none"}]
  /\ files \in [Jobs -> [Names -> {"absent", "partial", "whole"}]]
  /\ calls \in [Slots -> Call]
  /\ sweep \subseteq Item
  /\ cooling \subseteq Workers
  /\ failures \in [Jobs -> Nat]
  /\ uploads \in [Jobs -> 0..2]

Holds(s) == calls[s].pc \in Holding

\* However the handlers interleave, and however old the rows they write, the
\* columns of every row fit together, in the table and in every handler.
RowsLegal ==
  /\ \A j \in Jobs : Legal(rows[j])
  /\ \A s \in Slots : Legal(calls[s].row)

\* What AssignJob hands out can be worked on: processJob never meets another
\* status, a download always knows its mode, metadata is fetched only before.
WorkIsClear ==
  \A s \in Slots :
    At(s, "poll", "ok") /\ calls[s].job # NoJob =>
      LET r == calls[s].row IN
      \/ r.status = "pending" /\ r.mode = NoMode
      \/ r.status = "running" /\ r.mode # NoMode

\* HandleJobFailure counts in a row that others overwrite: reports may be
\* forgotten, never invented, so no job fails before MaxRetries of them.
FailsOnlyAfterRetries ==
  \A j \in live :
    /\ rows[j].retries <= failures[j]
    /\ rows[j].status = "failed" => failures[j] >= MaxRetries

\* A job uploaded once and not yet old has its whole file when it is done,
\* whatever else was reported, canceled or selected meanwhile.
DoneFileWhole ==
  \A j \in live \ old :
    rows[j].status = "done" /\ uploads[j] <= 1 => files[j][rows[j].file] = "whole"

\* A job that waits for a choice, or knows what to download, has its formats
\* stored until it is old: they are saved by a transaction of their own, before
\* the row and without a tie to it, and whatever fails, races or restarts
\* between the two, handleFormatSelect finds a list to choose from.
DescribedHasFormats ==
  \A j \in live \ old :
    rows[j].status = "ready" \/ rows[j].mode # NoMode => formats[j] # "none"

\* UpdateJob never brings back a job the cleaner deleted while the handler
\* still held its row.
DeletedStaysDeleted == [][gone \subseteq gone' /\ live' \cap gone = {}]_vars

-----------------------------------------------------------------------------
(* What all of this amounts to for the table. *)

Held(s) == IF Holds(s) THEN [job |-> calls[s].job, row |-> calls[s].row]
           ELSE [job |-> NoJob, row |-> NewRow]

Store == INSTANCE JobStore WITH held <- [s \in Slots |-> Held(s)]

\* Checks, formats, files, cooldowns, failing statements and restarts do not
\* show in the table: every handler takes a row and later puts, if the row still
\* exists, what its operation made of the row it took.
ImplementsJobStore == Store!SpecStore

=============================================================================
