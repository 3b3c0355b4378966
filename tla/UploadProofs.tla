---------------------------- MODULE UploadProofs ----------------------------
(***************************************************************************)
(* A done job has its file, and a described one its formats: for any       *)
(* number of jobs, names and concurrent requests, whatever is reported,    *)
(* canceled, selected, expired or restarted meanwhile.                     *)
(*                                                                         *)
(* The argument for the file follows the one upload of a job.  From        *)
(* os.Create on, it alone may write to the job's files (OneUpload), as     *)
(* long as the cleaner has the job not on its list (SweptAreOld); it       *)
(* leaves the file whole before it writes its row (UploadOnTime), and the  *)
(* row it writes is the only one that can say "done" (DoneByUpload,        *)
(* DoneIsCounted).                                                         *)
(*                                                                         *)
(* The one for the formats says the same of every held row as of the       *)
(* stored ones, but for the handler that is about to store them            *)
(* (FormatsSaved).                                                         *)
(***************************************************************************)
EXTENDS ControllerProofs

\* An upload that has created its file and not yet answered.
Uploading(s) == calls[s].op = "upload" /\ calls[s].pc \in {"copy", "write"}

\* A handler holds rows of jobs that were created, and no handler but an
\* upload's holds a done one: it names the file that it uploads.
DoneByUpload ==
  \A s \in Slots : Holds(s) =>
    /\ calls[s].job \in Known
    /\ calls[s].row.status = "done" =>
         calls[s].op = "upload" /\ calls[s].row.file = calls[s].arg

\* No row says "done" without an upload.
DoneIsCounted == \A j \in Jobs : rows[j].status = "done" => uploads[j] # 0

\* Every upload is counted, and a second one at the same time counts twice.
OneUpload ==
  \A s \in Slots : Uploading(s) =>
    /\ uploads[calls[s].job] # 0
    /\ \A t \in Slots \ {s} :
         Uploading(t) /\ calls[t].job = calls[s].job => uploads[calls[s].job] = 2

\* What the pass of the cleaner still has to do concerns old jobs.
SweptAreOld == \A e \in sweep : e.job \in old

\* A job's only upload: the row is not done before the file is whole.
UploadOnTime ==
  \A s \in Slots : Uploading(s) /\ uploads[calls[s].job] = 1 =>
    /\ calls[s].pc = "copy" => rows[calls[s].job].status # "done"
    /\ calls[s].job \in live \ old =>
         files[calls[s].job][calls[s].arg] =
           IF calls[s].pc = "copy" THEN "partial" ELSE "whole"

UploadsInv ==
  /\ DoneByUpload /\ DoneIsCounted /\ OneUpload /\ SweptAreOld /\ UploadOnTime
  /\ DoneFileWhole

IInvUploads == IInv /\ UploadsInv

-----------------------------------------------------------------------------
(* Steps that change a call and nothing that an upload relies on. *)

\* A call that is no upload under way disturbs no upload.
LEMMA OtherCall ==
  ASSUME IInv, UploadsInv, NEW s \in Slots, NEW c, calls' = [calls EXCEPT ![s] = c],
         UNCHANGED <<live, gone, rows, files, old, sweep, uploads>>,
         c.op = "upload" => c.pc \notin {"copy", "write"},
         c.pc \in Holding =>
           /\ c.job \in Known
           /\ c.row.status = "done" => c.op = "upload" /\ c.row.file = c.arg
  PROVE  UploadsInv'
<1>1. calls'[s] = c /\ \A t \in Slots \ {s} : calls'[t] = calls[t]
  BY DEF IInv, CallsInv
<1>2. Known' = Known
  BY DEF Known
<1>3. \A t \in Slots : Uploading(t)' => t # s /\ Uploading(t)
  BY <1>1 DEF Uploading
<1>4. DoneByUpload'
  BY <1>1, <1>2 DEF UploadsInv, DoneByUpload, Holds
<1>5. OneUpload'
  BY <1>1, <1>3 DEF UploadsInv, OneUpload
<1>6. UploadOnTime'
  BY <1>1, <1>3 DEF UploadsInv, UploadOnTime
<1>7. DoneIsCounted' /\ SweptAreOld' /\ DoneFileWhole'
  BY DEF UploadsInv, DoneIsCounted, SweptAreOld, DoneFileWhole
<1> QED
  BY <1>4, <1>5, <1>6, <1>7 DEF UploadsInv

\* An answer.
LEMMA AnswerDisturbsNone ==
  ASSUME IInv, UploadsInv, NEW s \in Slots, NEW pc \in {"idle", "ok", "error"},
         Answer(s, pc),
         UNCHANGED <<live, gone, rows, files, old, sweep, uploads>>
  PROVE  UploadsInv'
<1> DEFINE c == [NoCall EXCEPT !.pc = pc]
<1>1. c.pc = pc /\ c.op = "none" /\ calls' = [calls EXCEPT ![s] = c]
  BY DEF Answer, NoCall
<1> HIDE DEF c
<1> QED
  BY <1>1, OtherCall DEF Holding

\* The next statement of a handler that is no upload's.
LEMMA AdvanceDisturbsNone ==
  ASSUME IInv, UploadsInv, NEW s \in Slots, NEW pc, Advance(s, pc),
         calls[s].op # "upload", pc \in Holding => calls[s].pc \in Holding,
         UNCHANGED <<live, gone, rows, files, old, sweep, uploads>>
  PROVE  UploadsInv'
<1> DEFINE c == [calls[s] EXCEPT !.pc = pc]
<1>1. calls[s] \in Call
  BY DEF IInv, CallsInv
<1>2. /\ calls' = [calls EXCEPT ![s] = c]
      /\ c.pc = pc /\ c.op = calls[s].op /\ c.job = calls[s].job
      /\ c.row = calls[s].row /\ c.arg = calls[s].arg
  BY <1>1 DEF Advance, Call
<1> HIDE DEF c
<1> QED
  BY <1>2, OtherCall DEF UploadsInv, DoneByUpload, Holds

\* A row just read: only an upload makes it a done one.
LEMMA HoldDisturbsNone ==
  ASSUME IInv, UploadsInv, NEW s \in Slots, NEW pc, NEW j \in live, NEW r,
         Hold(s, pc, j, r),
         calls[s].op = "upload" => pc \notin {"copy", "write"},
         r.status = "done" /\ pc \in Holding =>
           calls[s].op = "upload" /\ r.file = calls[s].arg,
         UNCHANGED <<live, gone, rows, files, old, sweep, uploads>>
  PROVE  UploadsInv'
<1> DEFINE c == [calls[s] EXCEPT !.pc = pc, !.job = j, !.row = r]
<1>1. calls[s] \in Call
  BY DEF IInv, CallsInv
<1>2. /\ calls' = [calls EXCEPT ![s] = c]
      /\ c.pc = pc /\ c.op = calls[s].op /\ c.job = j
      /\ c.row = r /\ c.arg = calls[s].arg
  BY <1>1 DEF Hold, Call
<1> HIDE DEF c
<1> QED
  BY <1>2, OtherCall DEF Known

\* What the handlers make of a row is not done, but for an upload's.
LEMMA NotDone ==
  ASSUME NEW r \in Row
  PROVE  /\ \A w \in Workers : Assignable(r, w) => Assigned(r, w).status # "done"
         /\ Reported(r).status # "done"
         /\ AfterFailure(r).status # "done"
         /\ \A kind \in Kinds : Described(r, kind).status # "done"
         /\ \A mode \in UserModes : Selected(r, mode).status # "done"
         /\ Canceled(r).status # "done"
         /\ \A n \in Names : Uploaded(r, n).file = n
<1>1. \A w \in Workers : Assignable(r, w) => Assigned(r, w).status # "done"
  BY DEF Assignable, Assigned, Row
<1>2. Reported(r).status # "done" /\ Canceled(r).status # "done"
  BY DEF Reported, Canceled, Row
<1>3. \A kind \in Kinds : Described(r, kind).status # "done"
  BY DEF Described, Row
<1>4. \A mode \in UserModes : Selected(r, mode).status # "done"
  BY DEF Selected, Row
<1>5. \A n \in Names : Uploaded(r, n).file = n
  BY DEF Uploaded, Row
<1>6. AfterFailure(r).status # "done"
  <2>1. Abandoned(r).status # "done"
    BY DEF Abandoned, Row
  <2>2. Requeued(r).status # "done"
    <3> DEFINE st == IF r.mode # NoMode THEN "queued" ELSE "pending"
    <3>1. Requeued(r) =
            [r EXCEPT !.retries = r.retries + 1, !.worker = NoWorker, !.status = st]
      BY Zenon DEF Requeued
    <3>2. st # "done"
      OBVIOUS
    <3> HIDE DEF st
    <3> QED
      BY <3>1, <3>2 DEF Row
  <2> QED
    BY <2>1, <2>2 DEF AfterFailure
<1> QED
  BY <1>1, <1>2, <1>3, <1>4, <1>5, <1>6

-----------------------------------------------------------------------------
(* The steps of an upload. *)

\* os.Create: the file is this upload's alone, or it is not the first.
LEMMA CreateKeeps ==
  ASSUME IInv, UploadsInv, NEW s \in Slots, UploadCreate(s)
  PROVE  UploadsInv'
<1> DEFINE j == calls[s].job
           n == calls[s].arg
           k == IF uploads[j] = 0 THEN 1 ELSE 2
           c == [calls[s] EXCEPT !.pc = "copy"]
<1>1. /\ calls[s].op = "upload" /\ calls[s].pc = "create"
      /\ calls[s] \in Call /\ j \in Jobs /\ n \in Names
  BY DEF UploadCreate, At, IInv, CallsInv, CallInv, ArgumentsFit, Holding
<1>2. /\ calls' = [calls EXCEPT ![s] = c]
      /\ files' = [files EXCEPT ![j] = [@ EXCEPT ![n] = "partial"]]
      /\ UNCHANGED <<live, gone, rows, old, sweep>>
  BY DEF UploadCreate, Advance, SetFile, table, cleaner
<1>3. uploads' = [uploads EXCEPT ![j] = k]
  BY Zenon DEF UploadCreate
<1>4. /\ c.pc = "copy" /\ c.op = "upload" /\ c.job = j /\ c.arg = n
      /\ c.row = calls[s].row
  BY <1>1 DEF Call
<1>5. /\ uploads[j] = 0 => k = 1
      /\ uploads[j] # 0 => k = 2
  OBVIOUS
<1> HIDE DEF j, n, k, c
<1>6. /\ calls'[s] = c /\ \A t \in Slots \ {s} : calls'[t] = calls[t]
      /\ files'[j][n] = "partial"
      /\ \A i \in Jobs \ {j} : files'[i] = files[i]
      /\ \A m \in Names \ {n} : files'[j][m] = files[j][m]
      /\ uploads'[j] = k /\ \A i \in Jobs \ {j} : uploads'[i] = uploads[i]
  BY <1>1, <1>2, <1>3 DEF IInv, TypeOK, CallsInv
<1>7. /\ Uploading(s)' /\ ~Uploading(s)
      /\ \A t \in Slots \ {s} : Uploading(t)' <=> Uploading(t)
      /\ \A t \in Slots : Uploading(t) => calls[t].job \in Jobs
  BY <1>1, <1>4, <1>6
  DEF Uploading, IInv, CallsInv, CallInv, ArgumentsFit
<1>8. DoneByUpload'
  BY <1>1, <1>2, <1>4, <1>6 DEF UploadsInv, DoneByUpload, Holds, Holding, Known, j, n
<1>9. DoneIsCounted'
  BY <1>1, <1>2, <1>5, <1>6 DEF UploadsInv, DoneIsCounted
<1>10. OneUpload'
  <2>1. \A t \in Slots \ {s} : Uploading(t) /\ calls[t].job = j => k = 2
    BY <1>5 DEF UploadsInv, OneUpload
  <2>2. ASSUME NEW t \in Slots, Uploading(t)'
        PROVE  /\ uploads'[calls'[t].job] # 0
               /\ \A u \in Slots \ {t} :
                    Uploading(u)' /\ calls'[u].job = calls'[t].job =>
                      uploads'[calls'[t].job] = 2
    <3>1. CASE t = s
      BY <1>4, <1>5, <1>6, <1>7, <2>1, <3>1
    <3>2. CASE t # s /\ calls[t].job = j
      BY <1>5, <1>6, <1>7, <2>1, <2>2, <3>2
    <3>3. CASE t # s /\ calls[t].job # j
      BY <1>4, <1>6, <1>7, <2>2, <3>3 DEF UploadsInv, OneUpload
    <3> QED
      BY <3>1, <3>2, <3>3
  <2> QED
    BY <2>2 DEF OneUpload
<1>11. SweptAreOld'
  BY <1>2 DEF UploadsInv, SweptAreOld
<1>12. UploadOnTime'
  <2>1. \A t \in Slots \ {s} : Uploading(t) /\ calls[t].job = j => k = 2
    BY <1>5 DEF UploadsInv, OneUpload
  <2>2. k = 1 => rows[j].status # "done"
    BY <1>1, <1>5 DEF UploadsInv, DoneIsCounted
  <2>3. ASSUME NEW t \in Slots, Uploading(t)', uploads'[calls'[t].job] = 1
        PROVE  /\ calls'[t].pc = "copy" => rows'[calls'[t].job].status # "done"
               /\ calls'[t].job \in live' \ old' =>
                    files'[calls'[t].job][calls'[t].arg] =
                      IF calls'[t].pc = "copy" THEN "partial" ELSE "whole"
    <3>1. CASE t = s
      BY <1>2, <1>4, <1>6, <2>2, <2>3, <3>1
    <3>2. CASE t # s
      <4>1. /\ Uploading(t) /\ calls'[t] = calls[t] /\ calls[t].job \in Jobs
            /\ calls[t].job # j
        BY <1>6, <1>7, <2>1, <2>3, <3>2
      <4> QED
        BY <1>2, <1>6, <2>3, <4>1 DEF UploadsInv, UploadOnTime
    <3> QED
      BY <3>1, <3>2
  <2> QED
    BY <2>3 DEF UploadOnTime
<1>13. DoneFileWhole'
  <2>1. ASSUME NEW i \in live' \ old', rows'[i].status = "done", uploads'[i] <= 1
        PROVE  files'[i][rows'[i].file] = "whole"
    <3>1. i \in Jobs /\ i \in live \ old /\ rows'[i] = rows[i]
      BY <1>2, <2>1 DEF IInv, TypeOK
    <3>2. i # j
      BY <1>1, <1>2, <1>5, <1>6, <2>1 DEF UploadsInv, DoneIsCounted
    <3> QED
      BY <1>6, <2>1, <3>1, <3>2 DEF UploadsInv, DoneFileWhole
  <2> QED
    BY <2>1 DEF DoneFileWhole
<1> QED
  BY <1>8, <1>9, <1>10, <1>11, <1>12, <1>13 DEF UploadsInv

\* The copy ends, well or not: the job's only upload leaves its file whole, or
\* nothing that says "done".
LEMMA CopyKeeps ==
  ASSUME IInv, UploadsInv, NEW s \in Slots, At(s, "upload", "copy"),
         NEW state, SetFile(calls[s].job, calls[s].arg, state),
         NEW c, calls' = [calls EXCEPT ![s] = c],
         \/ c.pc \notin Holding
         \/ /\ c.op = "upload" /\ c.pc = "write" /\ c.job = calls[s].job
            /\ c.arg = calls[s].arg /\ c.row = calls[s].row
            /\ state \in CopyLeaves(s),
         UNCHANGED <<live, gone, rows, old, sweep, uploads>>
  PROVE  UploadsInv'
<1> DEFINE j == calls[s].job
           n == calls[s].arg
<1>1. /\ calls[s].op = "upload" /\ calls[s].pc = "copy" /\ Uploading(s)
      /\ j \in Jobs /\ n \in Names
  BY DEF At, Uploading, IInv, CallsInv, CallInv, ArgumentsFit, Holding
<1>2. /\ calls'[s] = c /\ \A t \in Slots \ {s} : calls'[t] = calls[t]
      /\ files'[j][n] = state
      /\ \A i \in Jobs \ {j} : files'[i] = files[i]
  BY <1>1 DEF IInv, TypeOK, CallsInv, SetFile
<1>3. /\ Uploading(s)' => c.pc = "write" /\ c.job = j /\ c.arg = n /\ state \in CopyLeaves(s)
      /\ \A t \in Slots \ {s} : Uploading(t)' <=> Uploading(t)
      /\ \A t \in Slots : Uploading(t) => calls[t].job \in Jobs
  BY <1>1, <1>2
  DEF Uploading, Holding, IInv, CallsInv, CallInv, ArgumentsFit
<1>4. /\ uploads[j] # 0
      /\ uploads[j] = 1 => rows[j].status # "done"
      /\ uploads[j] = 1 /\ j \in live \ old => files[j][n] = "partial"
      /\ \A t \in Slots \ {s} : Uploading(t) /\ calls[t].job = j => uploads[j] = 2
  BY <1>1 DEF UploadsInv, OneUpload, UploadOnTime
<1>5. state \in CopyLeaves(s) /\ uploads[j] = 1 /\ j \in live \ old => state = "whole"
  <2>1. uploads[j] = 1 => \A t \in Slots \ {s} : ~SameFile(s, t)
    BY <1>4 DEF SameFile, At, Uploading
  <2> QED
    BY <1>4, <2>1 DEF CopyLeaves
<1>6. DoneByUpload'
  BY <1>1, <1>2 DEF UploadsInv, DoneByUpload, Holds, Holding, Known
<1>7. OneUpload'
  BY <1>2, <1>3, <1>4 DEF UploadsInv, OneUpload
<1> HIDE DEF j, n
<1>8. UploadOnTime'
  <2>1. ASSUME NEW t \in Slots, Uploading(t)', uploads'[calls'[t].job] = 1
        PROVE  /\ calls'[t].pc = "copy" => rows'[calls'[t].job].status # "done"
               /\ calls'[t].job \in live' \ old' =>
                    files'[calls'[t].job][calls'[t].arg] =
                      IF calls'[t].pc = "copy" THEN "partial" ELSE "whole"
    <3>1. CASE t = s
      BY <1>2, <1>3, <1>5, <2>1, <3>1
    <3>2. CASE t # s
      <4>1. /\ Uploading(t) /\ calls'[t] = calls[t] /\ calls[t].job \in Jobs
            /\ calls[t].job # j
        BY <1>2, <1>3, <1>4, <2>1, <3>2
      <4> QED
        BY <1>2, <2>1, <4>1 DEF UploadsInv, UploadOnTime
    <3> QED
      BY <3>1, <3>2
  <2> QED
    BY <2>1 DEF UploadOnTime
<1>9. DoneFileWhole'
  <2>1. ASSUME NEW i \in live \ old, rows[i].status = "done", uploads[i] <= 1
        PROVE  files'[i][rows[i].file] = "whole"
    <3>1. i \in Jobs /\ uploads[i] \in 0..2
      BY DEF IInv, TypeOK
    <3>2. i # j
      BY <1>4, <2>1, <3>1
    <3> QED
      BY <1>2, <2>1, <3>1, <3>2 DEF UploadsInv, DoneFileWhole
  <2> QED
    BY <2>1 DEF DoneFileWhole
<1>10. DoneIsCounted' /\ SweptAreOld'
  BY DEF UploadsInv, DoneIsCounted, SweptAreOld
<1> QED
  BY <1>6, <1>7, <1>8, <1>9, <1>10 DEF UploadsInv

\* A row is written.  If it says "done", an upload writes it, and its file is
\* whole unless it is not the first.
LEMMA WriteKeeps ==
  ASSUME IInv, UploadsInv, NEW s \in Slots, UpdateJob(s)
  PROVE  UploadsInv'
<1> DEFINE j == calls[s].job
           r == calls[s].row
           c == IF calls[s].op = "poll" THEN [calls[s] EXCEPT !.pc = "ok"]
                ELSE [NoCall EXCEPT !.pc = "ok"]
<1>1. /\ calls[s].pc = "write" /\ Holds(s) /\ calls[s] \in Call
      /\ j \in Jobs
      /\ calls[s].op = "upload" => Uploading(s)
  BY DEF UpdateJob, Uploading, Holds, Holding, IInv, CallsInv, CallInv, ArgumentsFit
<1>2. calls' = [calls EXCEPT ![s] = c] /\ c.pc = "ok"
  BY <1>1 DEF UpdateJob, Advance, Answer, Call, NoCall
<1>3. /\ UNCHANGED <<live, gone, files, old, sweep, uploads>>
      /\ rows' = rows \/ rows' = [rows EXCEPT ![j] = r]
  BY DEF UpdateJob, disk, cleaner, history
<1>4. r.status = "done" => Uploading(s) /\ r.file = calls[s].arg
  BY <1>1 DEF UploadsInv, DoneByUpload
<1> HIDE DEF c
<1>5. calls'[s] = c /\ \A t \in Slots \ {s} : calls'[t] = calls[t]
  BY <1>2 DEF IInv, CallsInv
<1>6. \A t \in Slots : Uploading(t)' => t # s /\ Uploading(t)
  BY <1>2, <1>5 DEF Uploading
<1>7. \A t \in Slots : Uploading(t) => calls[t].job \in Jobs
  BY DEF Uploading, Holding, IInv, CallsInv, CallInv, ArgumentsFit
<1>8. Uploading(s) =>
        /\ uploads[j] # 0
        /\ \A t \in Slots \ {s} : Uploading(t) /\ calls[t].job = j => uploads[j] = 2
        /\ uploads[j] = 1 /\ j \in live \ old => files[j][calls[s].arg] = "whole"
  BY <1>1 DEF UploadsInv, OneUpload, UploadOnTime
<1>9. \A i \in Jobs : rows'[i] = rows[i] \/ (i = j /\ rows'[i] = r)
  BY <1>1, <1>3 DEF IInv, TypeOK
<1> HIDE DEF j, r
<1>10. DoneByUpload'
  BY <1>2, <1>3, <1>5 DEF UploadsInv, DoneByUpload, Holds, Holding, Known
<1>11. DoneIsCounted'
  BY <1>3, <1>4, <1>8, <1>9 DEF UploadsInv, DoneIsCounted
<1>12. OneUpload'
  BY <1>3, <1>5, <1>6 DEF UploadsInv, OneUpload
<1>13. UploadOnTime'
  <2>1. ASSUME NEW t \in Slots, Uploading(t)', uploads'[calls'[t].job] = 1
        PROVE  /\ calls'[t].pc = "copy" => rows'[calls'[t].job].status # "done"
               /\ calls'[t].job \in live' \ old' =>
                    files'[calls'[t].job][calls'[t].arg] =
                      IF calls'[t].pc = "copy" THEN "partial" ELSE "whole"
    <3>1. t # s /\ Uploading(t) /\ calls'[t] = calls[t] /\ calls[t].job \in Jobs
      BY <1>5, <1>6, <1>7, <2>1
    <3>2. calls[t].job = j => r.status # "done"
      BY <1>3, <1>4, <1>8, <2>1, <3>1
    <3> QED
      BY <1>3, <1>9, <2>1, <3>1, <3>2 DEF UploadsInv, UploadOnTime
  <2> QED
    BY <2>1 DEF UploadOnTime
<1>14. DoneFileWhole'
  <2>1. ASSUME NEW i \in live \ old, rows'[i].status = "done", uploads[i] <= 1
        PROVE  files[i][rows'[i].file] = "whole"
    <3>1. i \in Jobs /\ uploads[i] \in 0..2
      BY DEF IInv, TypeOK
    <3>2. CASE rows'[i] = rows[i]
      BY <2>1, <3>2 DEF UploadsInv, DoneFileWhole
    <3>3. CASE i = j /\ rows'[i] = r
      BY <1>4, <1>8, <2>1, <3>1, <3>3
    <3> QED
      BY <1>9, <3>1, <3>2, <3>3
  <2> QED
    BY <1>3, <2>1 DEF DoneFileWhole
<1> QED
  BY <1>3, <1>10, <1>11, <1>12, <1>13, <1>14 DEF UploadsInv, SweptAreOld

\* A new job has no upload.
LEMMA InsertKeeps ==
  ASSUME IInv, UploadsInv, NEW s \in Slots, SubmitInsert(s)
  PROVE  UploadsInv'
<1> DEFINE c == [NoCall EXCEPT !.pc = "ok"]
<1>1. PICK j \in Jobs \ Known : live' = live \cup {j} /\ rows' = [rows EXCEPT ![j] = NewRow]
  BY DEF SubmitInsert
<1>2. /\ calls' = [calls EXCEPT ![s] = c] /\ c.pc = "ok" /\ c.op = "none"
      /\ UNCHANGED <<gone, files, old, sweep, uploads>>
  BY DEF SubmitInsert, Answer, NoCall, disk, cleaner, history
<1> HIDE DEF c
<1>3. /\ calls'[s] = c /\ \A t \in Slots \ {s} : calls'[t] = calls[t]
      /\ rows'[j].status # "done" /\ \A i \in Jobs \ {j} : rows'[i] = rows[i]
  BY <1>1, <1>2 DEF IInv, TypeOK, CallsInv, NewRow
<1>4. \A t \in Slots : Uploading(t)' =>
        t # s /\ Uploading(t) /\ calls[t].job # j /\ calls[t].job \in Jobs
  BY <1>1, <1>2, <1>3
  DEF Uploading, UploadsInv, DoneByUpload, Holds, Holding, IInv, CallsInv, CallInv,
      ArgumentsFit
<1>5. DoneByUpload'
  BY <1>1, <1>2, <1>3 DEF UploadsInv, DoneByUpload, Holds, Holding, Known
<1>6. DoneIsCounted' /\ OneUpload' /\ SweptAreOld'
  BY <1>2, <1>3, <1>4 DEF UploadsInv, DoneIsCounted, OneUpload, SweptAreOld
<1>7. UploadOnTime'
  BY <1>1, <1>2, <1>3, <1>4 DEF UploadsInv, UploadOnTime
<1>8. DoneFileWhole'
  <2>1. live \subseteq Jobs
    BY DEF IInv, TypeOK
  <2> QED
    BY <1>1, <1>2, <1>3, <2>1 DEF UploadsInv, DoneFileWhole
<1> QED
  BY <1>5, <1>6, <1>7, <1>8 DEF UploadsInv

-----------------------------------------------------------------------------
(* Every step. *)

\* Every statement of every handler, one step per kind of statement.
LEMMA ServeKeepsUploads ==
  ASSUME IInv, UploadsInv, NEW s \in Slots, Serve(s)
  PROVE  UploadsInv'
<1> DEFINE Rest == UNCHANGED <<live, gone, rows, files, old, sweep, uploads>>
<1>1. /\ calls[s] \in Call /\ ArgumentsFit(calls[s])
      /\ live \subseteq Jobs /\ rows \in [Jobs -> Row]
  BY DEF IInv, TypeOK, CallsInv, CallInv
<1>2. ASSUME \/ \E op \in Ops : NotFound(s, op)
             \/ SubmitRefused(s) \/ FailGone(s) \/ UploadNotCreated(s) \/ DatabaseError(s)
      PROVE  UploadsInv'
  <2>1. Rest /\ \E pc \in {"ok", "error"} : Answer(s, pc)
    BY <1>2
    DEF NotFound, SubmitRefused, FailGone, UploadNotCreated, DatabaseError,
        table, disk, cleaner, history
  <2> QED
    BY <2>1, AnswerDisturbsNone
<1>3. ASSUME SubmitCountIP(s) \/ SubmitCountAll(s) \/ CooldownWorker(s) \/ SaveFormats(s)
               \/ SelectFormats(s)
      PROVE  UploadsInv'
  <2>1. /\ Rest
        /\ calls[s].op # "upload"
        /\ \/ Answer(s, "error")
           \/ \E pc \in {"total", "insert"} : Advance(s, pc)
           \/ Advance(s, "write") /\ calls[s].pc \in Holding
    BY <1>3
    DEF SubmitCountIP, SubmitCountAll, CooldownWorker, SaveFormats, SelectFormats,
        At, Holding, table, disk, cleaner, history
  <2>2. \A pc \in {"total", "insert"} : pc \notin Holding
    BY DEF Holding
  <2> QED
    BY <2>1, <2>2, AnswerDisturbsNone, AdvanceDisturbsNone
<1>4. CASE PollRead(s)
  <2>1. /\ Rest /\ calls[s].op = "poll"
        /\ \/ Answer(s, "ok")
           \/ \E j \in AssignableJobs(calls[s].worker) :
                Hold(s, "write", j, Assigned(rows[j], calls[s].worker))
    BY <1>4 DEF PollRead, At, table, disk, cleaner, history
  <2>2. ASSUME NEW j \in AssignableJobs(calls[s].worker),
               Hold(s, "write", j, Assigned(rows[j], calls[s].worker))
        PROVE  UploadsInv'
    <3> DEFINE r == Assigned(rows[j], calls[s].worker)
    <3>1. j \in live /\ Assignable(rows[j], calls[s].worker) /\ calls[s].worker \in Workers
      BY <1>1, <2>1 DEF AssignableJobs, ArgumentsFit
    <3>2. r.status # "done"
      BY <1>1, <3>1, NotDone
    <3> HIDE DEF r
    <3>3. Hold(s, "write", j, r)
      BY <2>2 DEF r
    <3> QED
      BY <2>1, <3>1, <3>2, <3>3, HoldDisturbsNone
  <2> QED
    BY <2>1, <2>2, AnswerDisturbsNone
<1>5. ASSUME UpdateRead(s) \/ FailRead(s) \/ MetadataRead(s) \/ SelectRead(s)
               \/ CancelRead(s)
      PROVE  UploadsInv'
  <2> DEFINE j == calls[s].job
             a == calls[s].arg
  <2>1. Rest /\ j \in live /\ calls[s].op # "upload"
    BY <1>5
    DEF UpdateRead, FailRead, MetadataRead, SelectRead, CancelRead, At, Found,
        table, disk, cleaner, history
  <2>2. \/ Answer(s, "ok") \/ Answer(s, "error")
        \/ \E pc \in PCs : \E r \in {Reported(rows[j]), AfterFailure(rows[j]),
                                     Canceled(rows[j])} : Hold(s, pc, j, r)
        \/ a \in Kinds /\ Hold(s, "formats", j, Described(rows[j], a))
        \/ a \in UserModes /\ Hold(s, "formats", j, Selected(rows[j], a))
    <3>1. CASE UpdateRead(s)
      BY <3>1 DEF UpdateRead, PCs
    <3>2. CASE FailRead(s)
      BY <3>2 DEF FailRead, PCs
    <3>3. CASE MetadataRead(s)
      BY <1>1, <3>3 DEF MetadataRead, At, ArgumentsFit
    <3>4. CASE SelectRead(s)
      BY <1>1, <3>4 DEF SelectRead, At, ArgumentsFit
    <3>5. CASE CancelRead(s)
      BY <3>5 DEF CancelRead, PCs
    <3> QED
      BY <1>5, <3>1, <3>2, <3>3, <3>4, <3>5
  <2>3. ASSUME NEW pc, NEW r, Hold(s, pc, j, r), r.status # "done" PROVE UploadsInv'
    BY <2>1, <2>3, HoldDisturbsNone
  <2>4. rows[j] \in Row
    BY <1>1, <2>1
  <2> HIDE DEF j, a
  <2>5. /\ \A r \in {Reported(rows[j]), AfterFailure(rows[j]), Canceled(rows[j])} :
             r.status # "done"
        /\ a \in Kinds => Described(rows[j], a).status # "done"
        /\ a \in UserModes => Selected(rows[j], a).status # "done"
    BY <2>4, NotDone
  <2> QED
    BY <2>1, <2>2, <2>3, <2>5, AnswerDisturbsNone
<1>6. CASE UploadRead(s) \/ StatusRead(s)
  <2> DEFINE j == calls[s].job
  <2>1. Rest /\ j \in live /\ calls[s].op \in {"upload", "status"}
    BY <1>6 DEF UploadRead, StatusRead, At, Found, table, disk, cleaner, history
  <2>2. \/ Hold(s, "ok", j, rows[j])
        \/ /\ calls[s].op = "upload" /\ calls[s].arg \in Names
           /\ Hold(s, "create", j, Uploaded(rows[j], calls[s].arg))
    BY <1>1, <1>6 DEF UploadRead, StatusRead, At, ArgumentsFit
  <2>3. rows[j] \in Row
    BY <1>1, <2>1
  <2>4. calls[s].arg \in Names => Uploaded(rows[j], calls[s].arg).file = calls[s].arg
    BY <2>3, NotDone
  <2>5. "ok" \notin Holding
    BY DEF Holding
  <2> HIDE DEF j
  <2> QED
    BY <2>1, <2>2, <2>4, <2>5, HoldDisturbsNone
<1>7. CASE UploadCopied(s)
  <2> DEFINE c == [calls[s] EXCEPT !.pc = "write"]
  <2>1. /\ At(s, "upload", "copy") /\ calls' = [calls EXCEPT ![s] = c]
        /\ UNCHANGED <<live, gone, rows, old, sweep, uploads>>
    BY <1>7 DEF UploadCopied, Advance, table, cleaner, history
  <2>2. PICK state \in CopyLeaves(s) : SetFile(calls[s].job, calls[s].arg, state)
    BY <1>7 DEF UploadCopied
  <2>3. /\ c.op = "upload" /\ c.pc = "write" /\ c.job = calls[s].job
        /\ c.arg = calls[s].arg /\ c.row = calls[s].row
    BY <1>1, <1>7 DEF UploadCopied, At, Call
  <2> HIDE DEF c
  <2> QED
    BY <1>7, <2>1, <2>2, <2>3, CopyKeeps DEF UploadCopied
<1>8. CASE UploadBroken(s)
  <2> DEFINE c == [NoCall EXCEPT !.pc = "error"]
  <2>1. /\ At(s, "upload", "copy")
        /\ SetFile(calls[s].job, calls[s].arg, "absent")
        /\ calls' = [calls EXCEPT ![s] = c]
        /\ c.pc \notin Holding
        /\ UNCHANGED <<live, gone, rows, old, sweep, uploads>>
    BY <1>8 DEF UploadBroken, Answer, NoCall, Holding, table, cleaner, history
  <2> HIDE DEF c
  <2> QED
    BY <2>1, CopyKeeps
<1> QED
  BY <1>2, <1>3, <1>4, <1>5, <1>6, <1>7, <1>8, CreateKeeps, WriteKeeps, InsertKeeps
  DEF Serve

\* The cleaner touches what is old, and a restart ends all uploads.
LEMMA BackgroundKeepsUploads ==
  ASSUME IInv, UploadsInv, Background
  PROVE  UploadsInv'
<1>1. /\ live \subseteq Jobs /\ gone \subseteq Jobs 
      /\ rows \in [Jobs -> Row] /\ live \cap gone = {}
      /\ files \in [Jobs -> [Names -> {"absent", "partial", "whole"}]]
      /\ calls \in [Slots -> Call]
  BY DEF IInv, TypeOK, TableInv
<1>2. ASSUME NEW w \in Workers, CoolingEnds(w) PROVE UploadsInv'
  BY <1>2
  DEF CoolingEnds, table, disk, cleaner, history, UploadsInv, DoneByUpload, DoneIsCounted,
      OneUpload, SweptAreOld, UploadOnTime, DoneFileWhole, Holds, Uploading, Known
<1>3. ASSUME NEW j \in Jobs, Expire(j) PROVE UploadsInv'
  BY <1>3
  DEF Expire, table, disk, cleaner, history, UploadsInv, DoneByUpload, DoneIsCounted,
      OneUpload, SweptAreOld, UploadOnTime, DoneFileWhole, Holds, Uploading, Known
<1>4. CASE Scan
  <2>1. \A e \in sweep' : e.job \in old
    BY <1>4 DEF Scan, ExpiredJobs
  <2> QED
    BY <1>4, <2>1
    DEF Scan, table, disk, cleaner, history, UploadsInv, DoneByUpload, DoneIsCounted,
        OneUpload, SweptAreOld, UploadOnTime, DoneFileWhole, Holds, Uploading, Known
<1>5. ASSUME NEW e \in sweep, RemoveFile(e) PROVE UploadsInv'
  <2>1. e.job \notin live \ old
    BY <1>1 DEF UploadsInv, SweptAreOld
  <2>2. /\ UNCHANGED <<live, gone, rows, calls, old, uploads>>
        /\ \A i \in Jobs \ {e.job} : files'[i] = files[i]
    BY <1>1, <1>5 DEF RemoveFile, SetFile, table, history
  <2>3. SweptAreOld'
    <3> DEFINE f == [e EXCEPT !.removed = TRUE]
    <3>1. f.job = e.job /\ sweep' = (sweep \ {e}) \cup {f}
      BY <1>5 DEF RemoveFile, IInv, TypeOK, Item
    <3> HIDE DEF f
    <3> QED
      BY <2>2, <3>1 DEF UploadsInv, SweptAreOld
  <2>4. \A t \in Slots : Uploading(t)' <=> Uploading(t)
    BY <2>2 DEF Uploading
  <2>5. DoneByUpload' /\ DoneIsCounted' /\ OneUpload'
    BY <2>2, <2>4
    DEF UploadsInv, DoneByUpload, DoneIsCounted, OneUpload, Holds, Known
  <2>6. UploadOnTime' /\ DoneFileWhole'
    BY <1>1, <2>1, <2>2, <2>4 DEF UploadsInv, UploadOnTime, DoneFileWhole
  <2> QED
    BY <2>3, <2>5, <2>6 DEF UploadsInv
<1>6. ASSUME NEW e \in sweep, DeleteJob(e) PROVE UploadsInv'
  <2>1. /\ UNCHANGED <<files, calls, old, uploads>> /\ sweep' = sweep \ {e}
        /\ \/ UNCHANGED <<live, gone, rows>>
           \/ /\ live' = live \ {e.job} /\ gone' = gone \cup {e.job}
              /\ rows' = [rows EXCEPT ![e.job] = NewRow]
    BY <1>6 DEF DeleteJob, table, history
  <2>2. /\ Known \subseteq Known' /\ live' \ old' \subseteq live \ old
        /\ \A i \in Jobs : rows'[i] = rows[i] \/ rows'[i].status = "pending"
        /\ \A i \in live' : rows'[i] = rows[i]
    BY <1>1, <2>1 DEF Known, NewRow
  <2>3. SweptAreOld'
    BY <2>1 DEF UploadsInv, SweptAreOld
  <2>4. \A t \in Slots : (Uploading(t)' <=> Uploading(t)) /\ (Holds(t)' <=> Holds(t))
    BY <2>1 DEF Uploading, Holds
  <2>5. DoneByUpload' /\ DoneIsCounted' /\ OneUpload'
    BY <2>1, <2>2, <2>4 DEF UploadsInv, DoneByUpload, DoneIsCounted, OneUpload
  <2>6. \A t \in Slots : Uploading(t) => calls[t].job \in Jobs
    BY DEF Uploading, Holding, IInv, CallsInv, CallInv, ArgumentsFit
  <2>7. UploadOnTime' /\ DoneFileWhole'
    BY <1>1, <2>1, <2>2, <2>4, <2>6 DEF UploadsInv, UploadOnTime, DoneFileWhole
  <2> QED
    BY <2>3, <2>5, <2>7 DEF UploadsInv
<1>7. CASE Restart
  <2>1. \A s \in Slots : calls'[s].pc \in {"idle", "error"}
    BY <1>7 DEF Restart, NoCall
  <2>2. \A s \in Slots : ~Holds(s)' /\ ~Uploading(s)'
    BY <2>1 DEF Holds, Holding, Uploading
  <2>3. sweep' = {} /\ UNCHANGED <<live, gone, rows, files, old, uploads>>
    BY <1>7 DEF Restart, table, disk, history
  <2> QED
    BY <2>2, <2>3
    DEF UploadsInv, DoneByUpload, DoneIsCounted, OneUpload, SweptAreOld, UploadOnTime,
        DoneFileWhole
<1> QED
  BY <1>2, <1>3, <1>4, <1>5, <1>6, <1>7 DEF Background

\* A request that arrives.
LEMMA ReceiveKeepsUploads ==
  ASSUME IInv, UploadsInv, NEW s \in Slots, NEW op, NEW j, NEW w, NEW a,
         Receive(s, op, j, w, a)
  PROVE  UploadsInv'
<1> DEFINE c == Request(op, j, w, a)
<1>1. c.pc = "start" /\ calls' = [calls EXCEPT ![s] = c]
  BY DEF Receive, Request, NoCall
<1> HIDE DEF c
<1>2. UNCHANGED <<live, gone, rows, files, old, sweep, uploads>>
  BY DEF Receive, table, disk, cleaner, history
<1> QED
  BY <1>1, <1>2, OtherCall DEF Holding

\* The empty database satisfies the invariant.
LEMMA InitUploads == Init => UploadsInv
<1> SUFFICES ASSUME Init PROVE UploadsInv
  OBVIOUS
<1>1. /\ \A s \in Slots : calls[s].pc = "idle"
      /\ \A j \in Jobs : rows[j].status = "pending"
      /\ live = {} /\ sweep = {}
  BY DEF Init, NoCall, NewRow
<1> QED
  BY <1>1
  DEF UploadsInv, DoneByUpload, DoneIsCounted, OneUpload, SweptAreOld, UploadOnTime,
      DoneFileWhole, Holds, Holding, Uploading

\* The invariant is inductive.
LEMMA StepKeepsUploads == IInvUploads /\ [Next]_vars => IInvUploads'
<1> SUFFICES ASSUME IInvUploads, [Next]_vars PROVE IInvUploads'
  OBVIOUS
<1>1. IInv /\ UploadsInv /\ IInv'
  BY StepKeeps DEF IInvUploads
<1>2. CASE UNCHANGED vars
  BY <1>1, <1>2
  DEF vars, UploadsInv, DoneByUpload, DoneIsCounted, OneUpload, SweptAreOld, UploadOnTime,
      DoneFileWhole, Holds, Uploading, Known, IInvUploads
<1>3. ASSUME NEW s \in Slots, Arrive(s) PROVE UploadsInv'
  <2>1. PICK op \in Requests : \E a \in Arguments(op) : Receive(s, op, a[1], a[2], a[3])
    BY <1>3 DEF Arrive
  <2>2. PICK a \in Arguments(op) : Receive(s, op, a[1], a[2], a[3])
    BY <2>1
  <2> QED
    BY <1>1, <2>2, ReceiveKeepsUploads
<1>4. ASSUME NEW s \in Slots, Reply(s) PROVE UploadsInv'
  <2>1. Answer(s, "idle")
    BY <1>4 DEF Reply, Answer, NoCall
  <2>2. UNCHANGED <<live, gone, rows, files, old, sweep, uploads>>
    BY <1>4 DEF Reply, table, disk, cleaner, history
  <2> QED
    BY <1>1, <2>1, <2>2, AnswerDisturbsNone
<1> QED
  BY <1>1, <1>2, <1>3, <1>4, ServeKeepsUploads, BackgroundKeepsUploads
  DEF Next, IInvUploads

\* A job that was uploaded once and is done has its whole file, until the
\* cleaner may take it (handleWorkerJobUpload's order of create, copy and
\* update, against every other handler, the cleaner and a restart).
THEOREM DoneHasItsFile == Spec => []DoneFileWhole
<1>1. Init => IInvUploads
  BY InitFits, InitUploads DEF IInvUploads
<1>2. IInvUploads /\ [Next]_vars => IInvUploads'
  BY StepKeepsUploads
<1>3. IInvUploads => DoneFileWhole
  BY DEF IInvUploads, UploadsInv
<1> QED
  BY <1>1, <1>2, <1>3, PTL DEF Spec


-----------------------------------------------------------------------------
(* The stored formats. *)

\* A row that waits for a choice, or knows what to download.
IsDescribed(r) == r.status = "ready" \/ r.mode # NoMode

\* What a handler holds is described only if the formats are stored, but for
\* the handler that is about to store them.
CallHasFormats(c) ==
  c.pc \in Holding /\ c.job \in live \ old /\ IsDescribed(c.row) =>
    formats[c.job] # "none" \/ (c.op = "metadata" /\ c.pc = "formats")

FormatsSaved == DescribedHasFormats /\ \A s \in Slots : CallHasFormats(calls[s])

\* A step of one handler that writes neither table.
LEMMA CallKeepsFormats ==
  ASSUME IInv, FormatsSaved, NEW s \in Slots, NEW c, calls' = [calls EXCEPT ![s] = c],
         UNCHANGED <<live, old, rows, formats>>, CallHasFormats(c)
  PROVE  FormatsSaved'
<1>1. calls'[s] = c /\ \A t \in Slots \ {s} : calls'[t] = calls[t]
  BY DEF IInv, CallsInv
<1>2. \A t \in Slots : CallHasFormats(calls'[t])
  BY <1>1 DEF FormatsSaved
<1>3. \A t \in Slots : CallHasFormats(calls[t])'
  BY <1>2 DEF CallHasFormats
<1> QED
  BY <1>3 DEF FormatsSaved, DescribedHasFormats

\* An answer, a next statement, and a row that was read.
LEMMA HandlerKeepsFormats ==
  ASSUME IInv, FormatsSaved, NEW s \in Slots, UNCHANGED <<live, old, rows, formats>>,
         \/ \E pc \in {"idle", "ok", "error"} : Answer(s, pc)
         \/ \E pc : /\ Advance(s, pc)
                    /\ pc \in Holding => calls[s].pc \in Holding /\ calls[s].op # "metadata"
         \/ \E pc, r : /\ calls[s].job \in live /\ Hold(s, pc, calls[s].job, r)
                       /\ \/ IsDescribed(r) => IsDescribed(rows[calls[s].job])
                          \/ calls[s].op = "metadata" /\ pc = "formats"
         \/ \E pc, r : \E j \in live : /\ Hold(s, pc, j, r)
                                       /\ IsDescribed(r) => IsDescribed(rows[j])
  PROVE  FormatsSaved'
<1>1. calls[s] \in Call /\ live \subseteq Jobs
  BY DEF IInv, TypeOK, CallsInv
<1>2. ASSUME NEW pc \in {"idle", "ok", "error"}, Answer(s, pc) PROVE FormatsSaved'
  <2> DEFINE c == [NoCall EXCEPT !.pc = pc]
  <2>1. calls' = [calls EXCEPT ![s] = c] /\ c.pc = pc
    BY <1>2 DEF Answer, NoCall
  <2> HIDE DEF c
  <2>2. CallHasFormats(c)
    BY <2>1 DEF CallHasFormats, Holding
  <2> QED
    BY <2>1, <2>2, CallKeepsFormats
<1>3. ASSUME NEW pc, Advance(s, pc),
             pc \in Holding => calls[s].pc \in Holding /\ calls[s].op # "metadata"
      PROVE  FormatsSaved'
  <2> DEFINE c == [calls[s] EXCEPT !.pc = pc]
  <2>1. /\ calls' = [calls EXCEPT ![s] = c]
        /\ c.pc = pc /\ c.op = calls[s].op /\ c.job = calls[s].job
        /\ c.row = calls[s].row
    BY <1>1, <1>3 DEF Advance, Call
  <2> HIDE DEF c
  <2>2. CallHasFormats(c)
    BY <1>3, <2>1 DEF CallHasFormats, FormatsSaved
  <2> QED
    BY <2>1, <2>2, CallKeepsFormats
<1>4. ASSUME NEW pc, NEW r, NEW j \in live, Hold(s, pc, j, r),
             \/ IsDescribed(r) => IsDescribed(rows[j])
             \/ calls[s].op = "metadata" /\ pc = "formats"
      PROVE  FormatsSaved'
  <2> DEFINE c == [calls[s] EXCEPT !.pc = pc, !.job = j, !.row = r]
  <2>1. /\ calls' = [calls EXCEPT ![s] = c]
        /\ c.pc = pc /\ c.op = calls[s].op /\ c.job = j /\ c.row = r
    BY <1>1, <1>4 DEF Hold, Call
  <2> HIDE DEF c
  <2>2. j \in live \ old /\ IsDescribed(rows[j]) => formats[j] # "none"
    BY DEF FormatsSaved, DescribedHasFormats, IsDescribed
  <2>3. CallHasFormats(c)
    BY <1>4, <2>1, <2>2 DEF CallHasFormats
  <2> QED
    BY <2>1, <2>3, CallKeepsFormats
<1> QED
  BY <1>2, <1>3, <1>4

\* What the handlers make of a row, but for the metadata's: it is described
\* only if it was before.
LEMMA NotDescribed ==
  ASSUME NEW r \in Row
  PROVE  /\ \A w \in Workers : IsDescribed(Assigned(r, w)) => IsDescribed(r)
         /\ IsDescribed(Reported(r)) => IsDescribed(r)
         /\ IsDescribed(AfterFailure(r)) => IsDescribed(r)
         /\ IsDescribed(Canceled(r)) => IsDescribed(r)
         /\ \A n \in Names : IsDescribed(Uploaded(r, n)) => IsDescribed(r)
         /\ r.status = "ready" => IsDescribed(r)
<1>1. \A w \in Workers : IsDescribed(Assigned(r, w)) => IsDescribed(r)
  BY DEF IsDescribed, Assigned, Row
<1>2. IsDescribed(Reported(r)) => IsDescribed(r)
  BY DEF IsDescribed, Reported, Row
<1>3. IsDescribed(AfterFailure(r)) => IsDescribed(r)
  BY DEF IsDescribed, AfterFailure, GivesUp, Abandoned, Requeued, Row
<1>4. IsDescribed(Canceled(r)) => IsDescribed(r)
  BY DEF IsDescribed, Canceled, Row
<1>5. \A n \in Names : IsDescribed(Uploaded(r, n)) => IsDescribed(r)
  BY DEF IsDescribed, Uploaded, Row
<1> QED
  BY <1>1, <1>2, <1>3, <1>4, <1>5 DEF IsDescribed

\* Every statement of every handler.
LEMMA ServeKeepsFormats ==
  ASSUME IInv, UploadsInv, FormatsSaved, NEW s \in Slots, Serve(s)
  PROVE  FormatsSaved'
<1> DEFINE Rest == UNCHANGED <<live, old, rows, formats>>
           j == calls[s].job
<1>1. /\ calls[s] \in Call /\ ArgumentsFit(calls[s]) /\ calls \in [Slots -> Call]
      /\ live \subseteq Jobs /\ rows \in [Jobs -> Row]
      /\ formats \in [Jobs -> Kinds \cup {"none"}]
      /\ j \in live => rows[j] \in Row
  BY DEF IInv, TypeOK, CallsInv, CallInv
<1>2. ASSUME \/ \E op \in Ops : NotFound(s, op)
             \/ SubmitRefused(s) \/ FailGone(s) \/ UploadNotCreated(s)
             \/ UploadBroken(s) \/ DatabaseError(s)
      PROVE  FormatsSaved'
  <2>1. Rest /\ \E pc \in {"idle", "ok", "error"} : Answer(s, pc)
    BY <1>2
    DEF NotFound, SubmitRefused, FailGone, UploadNotCreated, UploadBroken, DatabaseError,
        table, disk, cleaner
  <2> QED
    BY <2>1, HandlerKeepsFormats
<1>3. ASSUME \/ SubmitCountIP(s) \/ SubmitCountAll(s) \/ CooldownWorker(s)
             \/ SelectFormats(s) \/ UploadCreate(s) \/ UploadCopied(s)
      PROVE  FormatsSaved'
  <2>1. /\ Rest
        /\ \/ Answer(s, "error")
           \/ \E pc \in {"total", "insert"} : Advance(s, pc)
           \/ \E pc \in {"copy", "write"} :
                Advance(s, pc) /\ calls[s].pc \in Holding /\ calls[s].op # "metadata"
    BY <1>3
    DEF SubmitCountIP, SubmitCountAll, CooldownWorker, SelectFormats, UploadCreate,
        UploadCopied, At, Holding, table, disk, cleaner
  <2>2. "total" \notin Holding /\ "insert" \notin Holding
    BY DEF Holding
  <2> QED
    BY <2>1, <2>2, HandlerKeepsFormats
<1>4. CASE PollRead(s)
  <2>1. /\ Rest /\ calls[s].op = "poll"
        /\ \/ Answer(s, "ok")
           \/ \E i \in AssignableJobs(calls[s].worker) :
                Hold(s, "write", i, Assigned(rows[i], calls[s].worker))
    BY <1>4 DEF PollRead, At, table, disk, cleaner
  <2>2. ASSUME NEW i \in AssignableJobs(calls[s].worker),
               Hold(s, "write", i, Assigned(rows[i], calls[s].worker))
        PROVE  FormatsSaved'
    <3>1. i \in live /\ rows[i] \in Row /\ calls[s].worker \in Workers
      BY <1>1, <2>1 DEF AssignableJobs, ArgumentsFit
    <3>2. IsDescribed(Assigned(rows[i], calls[s].worker)) => IsDescribed(rows[i])
      BY <3>1, NotDescribed
    <3> QED
      BY <2>1, <2>2, <3>1, <3>2, HandlerKeepsFormats
  <2> QED
    BY <2>1, <2>2, HandlerKeepsFormats
<1>5. ASSUME UpdateRead(s) \/ FailRead(s) \/ SelectRead(s) \/ CancelRead(s)
               \/ UploadRead(s) \/ StatusRead(s)
      PROVE  FormatsSaved'
  <2>1. Rest /\ j \in live
    BY <1>5
    DEF UpdateRead, FailRead, SelectRead, CancelRead, UploadRead, StatusRead, Found,
        table, disk, cleaner
  <2>2. \/ Answer(s, "ok") \/ Answer(s, "error")
        \/ \E pc, r : Hold(s, pc, j, r) /\ (IsDescribed(r) => IsDescribed(rows[j]))
    <3>1. CASE UpdateRead(s)
      BY <1>1, <2>1, <3>1, NotDescribed DEF UpdateRead
    <3>2. CASE FailRead(s)
      BY <1>1, <2>1, <3>2, NotDescribed DEF FailRead
    <3>3. CASE SelectRead(s)
      BY <1>1, <2>1, <3>3, NotDescribed DEF SelectRead
    <3>4. CASE CancelRead(s)
      BY <1>1, <2>1, <3>4, NotDescribed DEF CancelRead
    <3>5. CASE UploadRead(s)
      <4>1. calls[s].arg \in Names /\ Hold(s, "create", j, Uploaded(rows[j], calls[s].arg))
        BY <1>1, <3>5 DEF UploadRead, At, ArgumentsFit
      <4> QED
        BY <1>1, <2>1, <4>1, NotDescribed
    <3>6. CASE StatusRead(s)
      BY <3>6 DEF StatusRead
    <3> QED
      BY <1>5, <3>1, <3>2, <3>3, <3>4, <3>5, <3>6
  <2> QED
    BY <2>1, <2>2, HandlerKeepsFormats
<1>6. CASE MetadataRead(s)
  <2>1. /\ Rest /\ j \in live /\ calls[s].op = "metadata"
        /\ Hold(s, "formats", j, Described(rows[j], calls[s].arg))
    BY <1>6 DEF MetadataRead, At, Found, table, disk, cleaner
  <2> QED
    BY <2>1, HandlerKeepsFormats
<1>7. CASE SaveFormats(s)
  <2>1. /\ j \in Jobs /\ calls[s].arg \in Kinds /\ "none" \notin Kinds
        /\ calls[s].pc = "formats" /\ calls[s].op = "metadata"
    BY <1>1, <1>7 DEF SaveFormats, At, ArgumentsFit, Kinds
  <2>2. formats' = [formats EXCEPT ![j] = calls[s].arg] /\ Advance(s, "write")
        /\ UNCHANGED <<live, old, rows>>
    BY <1>7 DEF SaveFormats, table, cleaner
  <2>3. /\ formats'[j] # "none"
        /\ \A i \in Jobs : formats[i] # "none" => formats'[i] # "none"
    BY <1>1, <2>1, <2>2
  <2>4. /\ calls'[s].job = j /\ calls'[s].pc = "write"
        /\ \A t \in Slots \ {s} : calls'[t] = calls[t] /\ calls'[t] \in Call
    BY <1>1, <2>2 DEF Advance, Call
  <2>5. ASSUME NEW t \in Slots PROVE CallHasFormats(calls[t])'
    <3>1. CASE t = s
      BY <2>3, <2>4, <3>1 DEF CallHasFormats
    <3>2. CASE t # s
      BY <1>1, <2>2, <2>3, <2>4, <3>2 DEF CallHasFormats, FormatsSaved
    <3> QED
      BY <3>1, <3>2
  <2> QED
    BY <1>1, <2>2, <2>3, <2>5 DEF FormatsSaved, DescribedHasFormats
<1>8. CASE SubmitInsert(s)
  <2> DEFINE c == [NoCall EXCEPT !.pc = "ok"]
  <2>1. PICK i \in Jobs \ Known :
          live' = live \cup {i} /\ rows' = [rows EXCEPT ![i] = NewRow]
    BY <1>8 DEF SubmitInsert
  <2>2. /\ calls' = [calls EXCEPT ![s] = c] /\ c.pc = "ok"
        /\ UNCHANGED <<formats, old>>
    BY <1>8 DEF SubmitInsert, Answer, NoCall, disk, cleaner
  <2> HIDE DEF c
  <2>3. ~IsDescribed(rows'[i]) /\ \A k \in live : rows'[k] = rows[k]
    BY <1>1, <2>1 DEF NewRow, IsDescribed, Known
  <2>4. ASSUME NEW t \in Slots PROVE CallHasFormats(calls[t])'
    <3>1. CASE t = s
      BY <1>1, <2>2, <3>1 DEF CallHasFormats, Holding
    <3>2. CASE t # s
      <4>1. calls'[t] = calls[t]
        BY <1>1, <2>2, <3>2
      <4>2. calls[t].pc \in Holding => calls[t].job # i
        BY <2>1 DEF UploadsInv, DoneByUpload, Holds
      <4> QED
        BY <2>1, <2>2, <4>1, <4>2 DEF CallHasFormats, FormatsSaved
    <3> QED
      BY <3>1, <3>2
  <2>5. DescribedHasFormats'
    BY <2>1, <2>2, <2>3 DEF FormatsSaved, DescribedHasFormats, IsDescribed
  <2> QED
    BY <2>4, <2>5 DEF FormatsSaved
<1>9. CASE UpdateJob(s)
  <2>1. /\ calls[s].pc = "write"
        /\ rows' = IF j \in live THEN [rows EXCEPT ![j] = calls[s].row] ELSE rows
        /\ UNCHANGED <<live, old, formats>>
        /\ Advance(s, "ok") \/ Answer(s, "ok")
    BY <1>9 DEF UpdateJob, Found, disk, cleaner
  <2>2. calls'[s].pc = "ok" /\ \A t \in Slots \ {s} : calls'[t] = calls[t]
    BY <1>1, <2>1 DEF Advance, Answer, NoCall, Call
  <2>3. ASSUME NEW t \in Slots PROVE CallHasFormats(calls[t])'
    BY <2>1, <2>2 DEF CallHasFormats, FormatsSaved, Holding
  <2>4. ASSUME NEW k \in live \ old, IsDescribed(rows'[k]) PROVE formats[k] # "none"
    <3>1. CASE k = j
      <4>1. rows'[j] = calls[s].row
        BY <1>1, <2>1, <2>4, <3>1
      <4> QED
        BY <2>1, <2>4, <3>1, <4>1 DEF FormatsSaved, CallHasFormats, Holding
    <3>2. CASE k # j
      BY <1>1, <2>1, <2>4, <3>2 DEF FormatsSaved, DescribedHasFormats, IsDescribed
    <3> QED
      BY <3>1, <3>2
  <2> QED
    BY <2>1, <2>3, <2>4 DEF FormatsSaved, DescribedHasFormats, IsDescribed
<1> QED
  BY <1>2, <1>3, <1>4, <1>5, <1>6, <1>7, <1>8, <1>9 DEF Serve

\* The cleaner takes the formats of old jobs only.
LEMMA BackgroundKeepsFormats ==
  ASSUME IInv, UploadsInv, FormatsSaved, Background
  PROVE  FormatsSaved'
<1>1. /\ live \subseteq Jobs /\ rows \in [Jobs -> Row]
      /\ formats \in [Jobs -> Kinds \cup {"none"}]
  BY DEF IInv, TypeOK
<1>2. ASSUME UNCHANGED calls, live' \ old' \subseteq live \ old,
             \A j \in live' \ old' : rows'[j] = rows[j] /\ formats'[j] = formats[j]
      PROVE  FormatsSaved'
  BY <1>2 DEF FormatsSaved, DescribedHasFormats, CallHasFormats
<1>3. ASSUME \/ \E w \in Workers : CoolingEnds(w)
             \/ \E j \in Jobs : Expire(j)
             \/ Scan
             \/ \E e \in sweep : RemoveFile(e)
      PROVE  FormatsSaved'
  <2>1. UNCHANGED <<calls, live, rows, formats>> /\ old \subseteq old'
    BY <1>3 DEF CoolingEnds, Expire, Scan, RemoveFile, table, disk, cleaner
  <2> QED
    BY <1>2, <2>1
<1>4. ASSUME NEW e \in sweep, DeleteJob(e) PROVE FormatsSaved'
  <2>1. e.job \in old
    BY DEF UploadsInv, SweptAreOld
  <2>2. /\ UNCHANGED <<calls, old>> /\ live' \subseteq live
        /\ rows' = rows \/ rows' = [rows EXCEPT ![e.job] = NewRow]
        /\ formats' = formats \/ formats' = [formats EXCEPT ![e.job] = "none"]
    BY <1>4 DEF DeleteJob, table
  <2>3. \A j \in live' \ old' : rows'[j] = rows[j] /\ formats'[j] = formats[j]
    BY <1>1, <2>1, <2>2
  <2> QED
    BY <1>2, <2>2, <2>3
<1>5. CASE Restart
  <2>1. \A s \in Slots : calls'[s].pc \in {"idle", "error"}
    BY <1>5 DEF Restart, NoCall
  <2>2. UNCHANGED <<live, old, rows, formats>>
    BY <1>5 DEF Restart, table, disk
  <2> QED
    BY <2>1, <2>2 DEF FormatsSaved, DescribedHasFormats, CallHasFormats, Holding
<1> QED
  BY <1>3, <1>4, <1>5 DEF Background

\* The invariant is inductive, beside the one of the uploads.
LEMMA StepKeepsFormats ==
  IInvUploads /\ FormatsSaved /\ [Next]_vars => FormatsSaved'
<1> SUFFICES ASSUME IInv, UploadsInv, FormatsSaved, [Next]_vars PROVE FormatsSaved'
  BY DEF IInvUploads
<1>1. CASE UNCHANGED vars
  BY <1>1 DEF vars, FormatsSaved, DescribedHasFormats, CallHasFormats
<1>2. ASSUME NEW s \in Slots, Arrive(s) PROVE FormatsSaved'
  <2>1. PICK op \in Requests : \E a \in Arguments(op) : Receive(s, op, a[1], a[2], a[3])
    BY <1>2 DEF Arrive
  <2>2. PICK a \in Arguments(op) : Receive(s, op, a[1], a[2], a[3])
    BY <2>1
  <2> DEFINE c == Request(op, a[1], a[2], a[3])
  <2>3. c.pc = "start" /\ calls' = [calls EXCEPT ![s] = c]
    BY <2>2 DEF Receive, Request, NoCall
  <2>4. UNCHANGED <<live, old, rows, formats>>
    BY <2>2 DEF Receive, table, disk, cleaner
  <2> HIDE DEF c
  <2>5. CallHasFormats(c)
    BY <2>3 DEF CallHasFormats, Holding
  <2> QED
    BY <2>3, <2>4, <2>5, CallKeepsFormats
<1>3. ASSUME NEW s \in Slots, Reply(s) PROVE FormatsSaved'
  <2>1. Answer(s, "idle")
    BY <1>3 DEF Reply, Answer, NoCall
  <2>2. UNCHANGED <<live, old, rows, formats>>
    BY <1>3 DEF Reply, table, disk, cleaner
  <2> QED
    BY <2>1, <2>2, HandlerKeepsFormats
<1> QED
  BY <1>1, <1>2, <1>3, ServeKeepsFormats, BackgroundKeepsFormats DEF Next

\* Until the cleaner may take it, a job that waits for a choice or knows what to
\* download has its formats stored (handleWorkerJobMetadata saves them before
\* the row, SaveFormats in a transaction of its own), whatever statement fails,
\* whoever else writes the row, and whenever the controller restarts.
THEOREM FormatsAreStored == Spec => []DescribedHasFormats
<1>1. Init => IInvUploads /\ FormatsSaved
  <2>1. Init => FormatsSaved
    BY DEF Init, FormatsSaved, DescribedHasFormats, CallHasFormats, NoCall, Holding
  <2> QED
    BY <2>1, InitFits, InitUploads DEF IInvUploads
<1>2. IInvUploads /\ FormatsSaved /\ [Next]_vars => IInvUploads' /\ FormatsSaved'
  BY StepKeepsUploads, StepKeepsFormats
<1>3. FormatsSaved => DescribedHasFormats
  BY DEF FormatsSaved
<1> QED
  BY <1>1, <1>2, <1>3, PTL DEF Spec

=============================================================================
