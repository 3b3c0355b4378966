------------------------------- MODULE JobRow -------------------------------
(***************************************************************************)
(* The jobs table's row and what each handler makes of the row it read.    *)
(*                                                                         *)
(* UpdateJob writes every column back, so a handler is a function from the *)
(* row it read to the row it writes.  Those functions are the operators    *)
(* below.  Columns that no handler branches on (url, title, itags, error,  *)
(* proxy note, trim options, timestamps) are left out.                     *)
(***************************************************************************)
EXTENDS Naturals

CONSTANTS
  Jobs,        \* jobs that may ever be created, numbered by created_at
  NoJob,       \* no job
  Workers,     \* worker identifiers
  NoWorker,    \* the empty worker_id column
  Names,       \* base names an uploaded file may have
  NoFile,      \* the empty file_path column
  MaxRetries   \* maxRetries

ASSUME JobAssumption == Jobs \subseteq Nat /\ NoJob \notin Jobs
ASSUME WorkerAssumption == NoWorker \notin Workers
ASSUME FileAssumption == NoFile \notin Names
ASSUME RetryAssumption == MaxRetries \in Nat \ {0}

Active == {"pending", "ready", "queued", "running"}
Terminal == {"done", "failed", "canceled"}
Statuses == Active \cup Terminal

NoMode == ""
UserModes == {"video+audio", "video", "audio"}
Modes == UserModes \cup {"best"}

\* What yt-dlp found: separate video and audio streams, a muxed stream of
\* known height, or nothing the controller can classify.
Kinds == {"separate", "muxed", "unusable"}

Row == [status  : Statuses,
        mode    : Modes \cup {NoMode},
        worker  : Workers \cup {NoWorker},
        retries : Nat,
        file    : Names \cup {NoFile}]

\* CreateJob: every other column takes its default.
NewRow == [status  |-> "pending",
           mode    |-> NoMode,
           worker  |-> NoWorker,
           retries |-> 0,
           file    |-> NoFile]

\* Mutant: only the job being described or downloaded is left out.
AssignableUnlessTaken(r, w) ==
  /\ r.status \notin {"ready", "running"}
  /\ r.worker \in {NoWorker, w}

\* AssignableJob's WHERE clause.
Assignable(r, w) ==
  /\ r.status \in {"pending", "queued"}
  /\ r.worker \in {NoWorker, w}

\* Mutant: every job handed out runs.
AssignedRunning(r, w) == [r EXCEPT !.worker = w, !.status = "running"]

\* AssignJob: a pending job stays pending while its metadata is fetched.
Assigned(r, w) ==
  [r EXCEPT !.worker = w,
            !.status = IF @ = "queued" THEN "running" ELSE @]

\* handleWorkerJobUpdate with the one status a worker sends besides "failed".
Reported(r) == [r EXCEPT !.status = "running"]

\* Mutant: the failure being handled is counted twice.
GivesUpEarly(r) == r.retries + 2 >= MaxRetries

\* HandleJobFailure, before and after the retries run out.
GivesUp(r) == r.retries + 1 >= MaxRetries

Abandoned(r) == [r EXCEPT !.retries = @ + 1, !.status = "failed"]

\* Mutant: the failing worker keeps the job.
RequeuedToSame(r) ==
  [r EXCEPT !.retries = @ + 1,
            !.status  = IF r.mode # NoMode THEN "queued" ELSE "pending"]

Requeued(r) ==
  [r EXCEPT !.retries = @ + 1,
            !.worker  = NoWorker,
            !.status  = IF r.mode # NoMode THEN "queued" ELSE "pending"]

AfterFailure(r) == IF GivesUp(r) THEN Abandoned(r) ELSE Requeued(r)

\* handleWorkerJobMetadata: a picker for separate streams, else queue at once.
AutoMode(kind) == IF kind = "muxed" THEN "video" ELSE "best"

\* Mutant: the status of a job queued at once is forgotten.
DescribedStill(r, kind) ==
  IF kind = "separate"
  THEN [r EXCEPT !.status = "ready"]
  ELSE [r EXCEPT !.mode = AutoMode(kind), !.worker = NoWorker]

Described(r, kind) ==
  IF kind = "separate"
  THEN [r EXCEPT !.status = "ready"]
  ELSE [r EXCEPT !.status = "queued",
                 !.mode   = AutoMode(kind),
                 !.worker = NoWorker]

\* handleFormatSelect.
Selected(r, mode) ==
  [r EXCEPT !.status = "queued", !.mode = mode, !.worker = NoWorker]

\* Stored formats of any kind may let a selection through: an unclassified list
\* may hold streams of one type, a muxed one streams of one type besides, and a
\* missing audio stream is not asked for.
MaySelect(kind) == kind \in Kinds

\* handleJobCancel and handleWorkerJobUpload.
Canceled(r) == [r EXCEPT !.status = "canceled"]
Uploaded(r, name) == [r EXCEPT !.status = "done", !.file = name]

-----------------------------------------------------------------------------
(***************************************************************************)
(* What the columns of one row owe each other.  Because rows are written   *)
(* whole, a stale write may bring back an old row but never a mixture.     *)
(***************************************************************************)

\* A queued job can be taken by any worker and says what to download.
QueuedIsOpen(r) == r.status = "queued" => r.worker = NoWorker /\ r.mode # NoMode

\* A pending job has no format chosen: its worker must fetch metadata.
PendingIsBare(r) == r.status = "pending" => r.mode = NoMode

\* A done job names its file; a failed one has used up its retries.
DoneNamesFile(r) == r.status = "done" => r.file # NoFile
FailedIsSpent(r) == r.status = "failed" => r.retries >= MaxRetries

Legal(r) ==
  /\ QueuedIsOpen(r)
  /\ PendingIsBare(r)
  /\ DoneNamesFile(r)
  /\ FailedIsSpent(r)

=============================================================================
