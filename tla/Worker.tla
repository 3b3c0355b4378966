------------------------------- MODULE Worker -------------------------------
(***************************************************************************)
(* The worker processes: a poll loop, which starts a goroutine for every   *)
(* job it is given, and the goroutines, each of which fetches metadata or  *)
(* downloads, trims and uploads.                                           *)
(*                                                                         *)
(* A goroutine alternates between local work (yt-dlp, ffmpeg) and one      *)
(* request to the controller whose answer it awaits.  The requests sent    *)
(* and answered appear here as parameters; module Youdl ties them to the   *)
(* controller's calls.  The files in the temporary directory are left out. *)
(***************************************************************************)
EXTENDS JobRow

CONSTANTS
  Tasks,     \* bound: the goroutines a worker may have, over all workers
  WorkerOf   \* the worker each of them belongs to

ASSUME TaskAssumption == WorkerOf \in [Tasks -> Workers]

VARIABLES
  loop,   \* per worker: "down", "idle" or "polling"
  tasks   \* the goroutines

workerVars == <<loop, tasks>>

\* Local work, and awaiting the answer to a request.
Working == {"fetch", "announce", "download", "trim", "giveup"}
Awaiting == {"describe", "report", "check", "upload", "fail"}

Task == [pc : {"free"} \cup Working \cup Awaiting, job : Jobs \cup {NoJob}]

NoTask == [pc |-> "free", job |-> NoJob]

\* Every loop and every goroutine is in one of its states.
TypeOKWorker ==
  /\ loop \in [Workers -> {"down", "idle", "polling"}]
  /\ tasks \in [Tasks -> Task]

InitWorker ==
  /\ loop = [w \in Workers |-> "down"]
  /\ tasks = [t \in Tasks |-> NoTask]

Moves(t, from, to) ==
  /\ tasks[t].pc = from
  /\ tasks' = [tasks EXCEPT ![t] = IF to = "free" THEN NoTask ELSE [@ EXCEPT !.pc = to]]
  /\ UNCHANGED loop

Sets(w, from, to) == loop[w] = from /\ loop' = [loop EXCEPT ![w] = to]

-----------------------------------------------------------------------------
(* Run: register, then poll at every tick; a tick is missed while polling. *)

Starts(w) == Sets(w, "down", "idle") /\ UNCHANGED tasks

\* Run starts a goroutine per job without limit; only the bound keeps a worker
\* from polling while it has none to spare.
Polls(w) ==
  /\ \E t \in Tasks : WorkerOf[t] = w /\ tasks[t] = NoTask
  /\ Sets(w, "idle", "polling")
  /\ UNCHANGED tasks

\* The poll failed, or there is no job.
GetsNothing(w) == Sets(w, "polling", "idle") /\ UNCHANGED tasks

\* go w.processJob: the status in the answer decides what to do.
FirstPC(status) ==
  CASE status = "pending" -> "fetch"
    [] status \in {"queued", "running"} -> "announce"
    [] OTHER -> "free"

GetsJob(w, t, j, status) ==
  /\ Sets(w, "polling", "idle")
  /\ WorkerOf[t] = w
  /\ tasks[t] = NoTask
  /\ tasks' = [tasks EXCEPT ![t] =
                 IF FirstPC(status) = "free" THEN NoTask
                 ELSE [pc |-> FirstPC(status), job |-> j]]

-----------------------------------------------------------------------------
(* fetchMetadata. *)

FetchesMetadata(t) == Moves(t, "fetch", "describe")
CannotFetch(t) == Moves(t, "fetch", "fail")

\* The answer is only logged.
MetadataAnswered(t) == Moves(t, "describe", "free")

-----------------------------------------------------------------------------
(* downloadJob. *)

Announces(t) == Moves(t, "announce", "report")

\* The answer is not looked at.
ReportAnswered(t) == Moves(t, "report", "download")

Downloads(t) == Moves(t, "download", "check")
CannotDownload(t) == Moves(t, "download", "fail")

\* isJobCanceled: any error counts as not canceled.
CheckAnswered(t, canceled) ==
  Moves(t, "check", IF canceled THEN "free" ELSE "trim")

\* Trimming, if it was asked for, then the upload.
Uploads(t) == Moves(t, "trim", "upload")
CannotTrim(t) == Moves(t, "trim", "fail")

\* Mutant: a failed upload is only logged.
UploadOnlyLogged(t, ok) == Moves(t, "upload", "free")

UploadAnswered(t, ok) == Moves(t, "upload", IF ok THEN "free" ELSE "giveup")

GivesUpUpload(t) == Moves(t, "giveup", "fail")

\* reportFailure: the answer is not looked at.
FailureAnswered(t) == Moves(t, "fail", "free")

-----------------------------------------------------------------------------
\* The process dies and its goroutines with it.
Crashes(w) ==
  /\ loop[w] # "down"
  /\ loop' = [loop EXCEPT ![w] = "down"]
  /\ tasks' = [t \in Tasks |-> IF WorkerOf[t] = w THEN NoTask ELSE tasks[t]]

=============================================================================
