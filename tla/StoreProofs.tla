---------------------------- MODULE StoreProofs ----------------------------
(***************************************************************************)
(* The controller implements the abstract table JobStore, for any number   *)
(* of jobs, workers and concurrent requests and with every fault.          *)
(*                                                                         *)
(* Every step is mapped to one of the abstract ones: the step in which a   *)
(* handler has read a row to Take, UpdateJob to Put (or, if the row is     *)
(* gone, to Leave), the insertion and the deletion of a row to Create and  *)
(* Delete, all others to a Leave of whoever answers, or of nobody.  Besides *)
(* the invariant of ControllerProofs this needs one of the cleaner's list: *)
(* it names every job once, and only such as still have a row.             *)
(***************************************************************************)
EXTENDS ControllerProofs

SweepInv ==
  /\ \A e \in sweep : e.job \in live
  /\ \A e, f \in sweep : e.job = f.job => e = f

\* The refinement mapping, and its value for one call.
AllHeld == [s \in Slots |-> Held(s)]

HeldBy(c) == IF c.pc \in Holding THEN [job |-> c.job, row |-> c.row]
             ELSE Store!Nothing

-----------------------------------------------------------------------------
(* The cleaner's list. *)

\* The list is the cleaner's alone, and so is the deletion of rows.
LEMMA ServeLeavesCleaner ==
  ASSUME NEW s \in Slots, Serve(s)
  PROVE  UNCHANGED cleaner /\ live \subseteq live'
BY DEF Serve, NotFound, SubmitRefused, SubmitCountIP, SubmitCountAll, SubmitInsert,
       PollRead, UpdateRead, FailRead, FailGone, CooldownWorker, MetadataRead,
       SaveFormats, UploadRead, UploadCreate, UploadNotCreated, UploadCopied,
       UploadBroken, SelectRead, SelectFormats, CancelRead, StatusRead, UpdateJob,
       DatabaseError, table

\* The list is made of expired jobs at once; a job leaves it in the step that
\* deletes its row, or keeps its row.
LEMMA BackgroundKeepsSweep ==
  ASSUME TypeOK, SweepInv, Background
  PROVE  SweepInv'
<1>1. ASSUME UNCHANGED cleaner, live \subseteq live' PROVE SweepInv'
  BY <1>1 DEF SweepInv, cleaner
<1>2. ASSUME NEW w \in Workers, CoolingEnds(w) PROVE SweepInv'
  BY <1>1, <1>2 DEF CoolingEnds, table
<1>3. ASSUME NEW j \in Jobs, Expire(j) PROVE SweepInv'
  BY <1>3 DEF Expire, SweepInv, table
<1>4. CASE Scan
  <2>1. /\ live' = live
        /\ \A e \in sweep' : \E j \in live :
             e = [job |-> j, file |-> rows[j].file, removed |-> FALSE]
    BY <1>4 DEF Scan, ExpiredJobs, table
  <2>2. ASSUME NEW e \in sweep'
        PROVE  /\ e.job \in live
               /\ e = [job |-> e.job, file |-> rows[e.job].file, removed |-> FALSE]
    <3>1. PICK j \in live :
            e = [job |-> j, file |-> rows[j].file, removed |-> FALSE]
      BY <2>1
    <3>2. e.job = j
      BY <3>1
    <3> QED
      BY <3>1, <3>2
  <2>3. ASSUME NEW e \in sweep', NEW f \in sweep', e.job = f.job
        PROVE  e = f
    <3>1. f = [job |-> e.job, file |-> rows[e.job].file, removed |-> FALSE]
      BY <2>2, <2>3
    <3> QED
      BY <2>2, <3>1
  <2> QED
    BY <2>1, <2>2, <2>3 DEF SweepInv
<1>5. ASSUME NEW e \in sweep, RemoveFile(e) PROVE SweepInv'
  <2> DEFINE d == [e EXCEPT !.removed = TRUE]
  <2>1. e \in Item
    BY DEF TypeOK
  <2>2. d.job = e.job
    BY <2>1 DEF Item
  <2>3. sweep' = (sweep \ {e}) \cup {d} /\ live' = live
    BY <1>5 DEF RemoveFile, table
  <2> HIDE DEF d
  <2> QED
    BY <2>2, <2>3 DEF SweepInv
<1>6. ASSUME NEW e \in sweep, DeleteJob(e) PROVE SweepInv'
  <2>1. /\ sweep' = sweep \ {e}
        /\ live' = live \/ live' = live \ {e.job}
    BY <1>6 DEF DeleteJob, table
  <2> QED
    BY <2>1 DEF SweepInv
<1>7. CASE Restart
  BY <1>7 DEF Restart, SweepInv, table
<1> QED
  BY <1>2, <1>3, <1>4, <1>5, <1>6, <1>7 DEF Background

\* Everything else leaves the list alone.
LEMMA SweepKeeps == TypeOK /\ SweepInv /\ [Next]_vars => SweepInv'
<1> SUFFICES ASSUME TypeOK, SweepInv, [Next]_vars PROVE SweepInv'
  OBVIOUS
<1>1. CASE UNCHANGED cleaner /\ live \subseteq live'
  BY <1>1 DEF SweepInv, cleaner
<1>2. ASSUME NEW s \in Slots, Arrive(s) \/ Reply(s)
      PROVE  UNCHANGED cleaner /\ live \subseteq live'
  BY <1>2 DEF Arrive, Receive, Reply, table
<1> QED
  BY <1>1, <1>2, ServeLeavesCleaner, BackgroundKeepsSweep DEF Next, vars, cleaner

-----------------------------------------------------------------------------
(* What a handler holds is one of the changes of the row it read. *)

\* AssignJob checks that the job is assignable.
LEMMA AssignedIsChange ==
  ASSUME NEW r, NEW w \in Workers, Assignable(r, w)
  PROVE  Assigned(r, w) \in Store!Changes(r)
<1>1. Assigned(r, w) = Store!Assigned(r, w)
  BY DEF Assigned, Store!Assigned
<1>2. Store!Assignable(r, w)
  BY DEF Assignable, Store!Assignable
<1> QED
  BY <1>1, <1>2 DEF Store!Changes

\* Running and failure reports and metadata check nothing.
LEMMA ReportIsChange ==
  ASSUME NEW r
  PROVE  /\ Reported(r) \in Store!Changes(r)
         /\ AfterFailure(r) \in Store!Changes(r)
         /\ \A kind \in Kinds : Described(r, kind) \in Store!Changes(r)
         /\ \A n \in Names : Uploaded(r, n) \in Store!Changes(r)
<1>1. Reported(r) = Store!Reported(r)
  BY DEF Reported, Store!Reported
<1>2. AfterFailure(r) = Store!AfterFailure(r)
  BY DEF AfterFailure, Store!AfterFailure, GivesUp, Store!GivesUp,
         Abandoned, Store!Abandoned, Requeued, Store!Requeued, NoMode, Store!NoMode
<1>3. ASSUME NEW kind \in Kinds
      PROVE  Described(r, kind) \in Store!Changes(r)
  <2>1. Described(r, kind) = Store!Described(r, kind)
    BY DEF Described, Store!Described, AutoMode, Store!AutoMode
  <2>2. kind \in Store!Kinds
    BY DEF Kinds, Store!Kinds
  <2> QED
    BY <2>1, <2>2 DEF Store!Changes
<1>4. ASSUME NEW n \in Names
      PROVE  Uploaded(r, n) \in Store!Changes(r)
  BY DEF Uploaded, Store!Uploaded, Store!Changes
<1> QED
  BY <1>1, <1>2, <1>3, <1>4 DEF Store!Changes

\* A selection checks that the job is ready, a cancellation that it is active.
LEMMA UserIsChange ==
  ASSUME NEW r
  PROVE  /\ r.status = "ready" =>
              \A mode \in UserModes : Selected(r, mode) \in Store!Changes(r)
         /\ r.status \in Active => Canceled(r) \in Store!Changes(r)
<1>1. Canceled(r) = Store!Canceled(r)
  BY DEF Canceled, Store!Canceled
<1>2. \A mode \in UserModes : Selected(r, mode) = Store!Selected(r, mode)
  BY DEF Selected, Store!Selected
<1>3. UserModes = Store!UserModes /\ Active = Store!Active
  BY DEF UserModes, Store!UserModes, Active, Store!Active
<1> QED
  BY <1>1, <1>2, <1>3 DEF Store!Changes

-----------------------------------------------------------------------------
(* The ways in which a call changes, as abstract steps. *)

\* A new call in one slot leaves what the others hold.
LEMMA HeldChanges ==
  ASSUME CallsInv, NEW s \in Slots, NEW c, calls' = [calls EXCEPT ![s] = c]
  PROVE  AllHeld' = [t \in Slots |-> IF t = s THEN HeldBy(c) ELSE AllHeld[t]]
<1>1. calls'[s] = c /\ \A t \in Slots \ {s} : calls'[t] = calls[t]
  BY DEF CallsInv
<1>2. Held(s)' = HeldBy(c)
  BY <1>1 DEF Held, HeldBy, Holds, Store!Nothing, NewRow, Store!NewRow, NoMode, Store!NoMode
<1>3. ASSUME NEW t \in Slots, t # s PROVE Held(t)' = Held(t)
  BY <1>1, <1>3 DEF Held, Holds
<1> QED
  BY <1>2, <1>3 DEF AllHeld

\* The handlers in S let go of what they hold.
LEMMA LeaveStep ==
  ASSUME UNCHANGED table, NEW S \in SUBSET Slots,
         AllHeld' = [t \in Slots |-> IF t \in S THEN Store!Nothing ELSE AllHeld[t]]
  PROVE  Store!NextStore
BY DEF Store!NextStore, Store!Leave, AllHeld, table

\* Nobody's row changes.
LEMMA SameHeld ==
  ASSUME UNCHANGED table, AllHeld' = AllHeld
  PROVE  Store!NextStore
<1> DEFINE S == {}
<1>1. S \in SUBSET Slots
  OBVIOUS
<1>2. AllHeld' = [t \in Slots |-> IF t \in S THEN Store!Nothing ELSE AllHeld[t]]
  BY DEF AllHeld
<1> HIDE DEF S
<1> QED
  BY <1>1, <1>2, LeaveStep

\* Whoever answers, holds nothing any more.
LEMMA AnswerLeaves ==
  ASSUME CallsInv, NEW s \in Slots, NEW pc \in {"idle", "ok", "error"},
         Answer(s, pc), UNCHANGED table
  PROVE  Store!NextStore
<1> DEFINE c == [NoCall EXCEPT !.pc = pc]
<1>1. HeldBy(c) = Store!Nothing
  BY DEF HeldBy, NoCall, Holding
<1>2. calls' = [calls EXCEPT ![s] = c]
  BY DEF Answer
<1> HIDE DEF c
<1>3. AllHeld' = [t \in Slots |-> IF t \in {s} THEN Store!Nothing ELSE AllHeld[t]]
  BY <1>1, <1>2, HeldChanges
<1> QED
  BY <1>3, LeaveStep

\* From one statement to the next the row is kept.
LEMMA AdvanceStays ==
  ASSUME CallsInv, NEW s \in Slots, NEW pc, Advance(s, pc),
         pc \in Holding <=> calls[s].pc \in Holding, UNCHANGED table
  PROVE  Store!NextStore
<1> DEFINE c == [calls[s] EXCEPT !.pc = pc]
<1>1. calls[s] \in Call
  BY DEF CallsInv
<1>2. HeldBy(c) = AllHeld[s]
  BY <1>1 DEF HeldBy, AllHeld, Held, Holds, Call, Store!Nothing, NewRow,
              Store!NewRow, NoMode, Store!NoMode
<1>3. calls' = [calls EXCEPT ![s] = c]
  BY DEF Advance
<1> HIDE DEF c
<1>4. AllHeld' = AllHeld
  BY <1>2, <1>3, HeldChanges DEF AllHeld
<1> QED
  BY <1>4, SameHeld

\* A row is read, and a change of it held.
LEMMA HoldTakes ==
  ASSUME CallsInv, NEW s \in Slots, NEW pc \in Holding, NEW j \in live, j \in Jobs,
         NEW r, Hold(s, pc, j, r), r \in Store!Changes(rows[j]),
         calls[s].pc \notin Holding, UNCHANGED table
  PROVE  Store!NextStore
<1> DEFINE c == [calls[s] EXCEPT !.pc = pc, !.job = j, !.row = r]
           h == [job |-> j, row |-> r]
<1>1. calls[s] \in Call
  BY DEF CallsInv
<1>2. c.pc = pc /\ c.job = j /\ c.row = r
  BY <1>1 DEF Call
<1>3. calls' = [calls EXCEPT ![s] = c]
  BY DEF Hold
<1> HIDE DEF c
<1>4. HeldBy(c) = h
  BY <1>2 DEF HeldBy
<1>5. AllHeld[s] = Store!Nothing
  BY DEF AllHeld, Held, Holds, Store!Nothing, NewRow, Store!NewRow, NoMode, Store!NoMode
<1>6. AllHeld' = [AllHeld EXCEPT ![s] = h]
  <2>1. AllHeld' = [t \in Slots |-> IF t = s THEN HeldBy(c) ELSE AllHeld[t]]
    BY <1>3, HeldChanges
  <2> QED
    BY <1>4, <2>1 DEF AllHeld
<1>7. Store!Take(s, j)
  BY <1>5, <1>6 DEF Store!Take, AllHeld, table
<1> QED
  BY <1>7 DEF Store!NextStore

-----------------------------------------------------------------------------
(* Every step is an abstract one. *)

\* The statements of the handlers.
LEMMA ServeSimulates ==
  ASSUME IInv, NEW s \in Slots, Serve(s)
  PROVE  Store!NextStore
<1> USE DEF At, Found
<1>0. /\ CallsInv /\ calls[s] \in Call /\ CallInv(calls[s], failures)
      /\ live \subseteq Jobs
  BY DEF IInv, CallsInv, TypeOK
<1>1. ASSUME NEW pc \in {"idle", "ok", "error"}, Answer(s, pc), UNCHANGED table
      PROVE  Store!NextStore
  BY <1>0, <1>1, AnswerLeaves
<1>2. ASSUME NEW op, NotFound(s, op) PROVE Store!NextStore
  BY <1>1, <1>2 DEF NotFound
<1>3. CASE SubmitRefused(s) \/ FailGone(s) \/ UploadNotCreated(s)
           \/ UploadBroken(s) \/ DatabaseError(s)
  BY <1>1, <1>3
  DEF SubmitRefused, FailGone, UploadNotCreated, UploadBroken, DatabaseError
<1>4. ASSUME NEW pc, Advance(s, pc), UNCHANGED table,
             pc \in Holding <=> calls[s].pc \in Holding
      PROVE  Store!NextStore
  BY <1>0, <1>4, AdvanceStays
<1>5. CASE SubmitCountIP(s)
  BY <1>1, <1>4, <1>5 DEF SubmitCountIP, Holding
<1>6. CASE SubmitCountAll(s)
  BY <1>1, <1>4, <1>6 DEF SubmitCountAll, Holding
<1>7. CASE SubmitInsert(s)
  <2>1. PICK j \in Jobs \ Known : /\ live' = live \cup {j}
                                  /\ rows' = [rows EXCEPT ![j] = NewRow]
    BY <1>7 DEF SubmitInsert
  <2>2. Answer(s, "ok") /\ gone' = gone /\ calls[s].pc = "insert"
    BY <1>7 DEF SubmitInsert
  <2> DEFINE c == [NoCall EXCEPT !.pc = "ok"]
  <2>3. HeldBy(c) = AllHeld[s]
    BY <2>2 DEF HeldBy, NoCall, Holding, AllHeld, Held, Holds, Store!Nothing,
                NewRow, Store!NewRow, NoMode, Store!NoMode
  <2>4. calls' = [calls EXCEPT ![s] = c]
    BY <2>2 DEF Answer
  <2> HIDE DEF c
  <2>5. AllHeld' = AllHeld
    BY <1>0, <2>3, <2>4, HeldChanges DEF AllHeld
  <2>6. NewRow = Store!NewRow
    BY DEF NewRow, Store!NewRow, NoMode, Store!NoMode
  <2>7. Store!Create(j)
    BY <2>1, <2>2, <2>5, <2>6 DEF Store!Create, AllHeld, Known
  <2> QED
    BY <2>7 DEF Store!NextStore
<1>8. ASSUME NEW pc \in Holding, NEW j \in live, NEW r \in Store!Changes(rows[j]),
             Hold(s, pc, j, r), calls[s].pc = "start", UNCHANGED table
      PROVE  Store!NextStore
  BY <1>0, <1>8, HoldTakes DEF Holding
<1>9. CASE PollRead(s)
  <2> DEFINE w == calls[s].worker
  <2>1. w \in Workers
    BY <1>0, <1>9 DEF PollRead, CallInv, ArgumentsFit
  <2>2. CASE Answer(s, "ok")
    BY <1>1, <1>9, <2>2 DEF PollRead
  <2>3. ASSUME NEW j \in AssignableJobs(w), Hold(s, "write", j, Assigned(rows[j], w))
        PROVE  Store!NextStore
    <3>1. j \in live /\ Assigned(rows[j], w) \in Store!Changes(rows[j])
      BY <2>1, AssignedIsChange DEF AssignableJobs
    <3> QED
      BY <1>8, <1>9, <2>3, <3>1 DEF PollRead, Holding
  <2> QED
    BY <1>9, <2>2, <2>3 DEF PollRead
<1>10. CASE UpdateRead(s)
  BY <1>8, <1>10, ReportIsChange DEF UpdateRead, Holding
<1>11. CASE FailRead(s)
  <2>1. /\ calls[s].job \in live /\ calls[s].pc = "start" /\ UNCHANGED table
        /\ \E pc \in Holding :
             Hold(s, pc, calls[s].job, AfterFailure(rows[calls[s].job]))
    BY <1>11 DEF FailRead, Holding
  <2> QED
    BY <1>8, <2>1, ReportIsChange
<1>12. CASE CooldownWorker(s)
  BY <1>4, <1>12 DEF CooldownWorker, Holding
<1>13. CASE MetadataRead(s)
  <2>1. calls[s].arg \in Kinds
    BY <1>0, <1>13 DEF MetadataRead, CallInv, ArgumentsFit
  <2> QED
    BY <1>8, <1>13, <2>1, ReportIsChange DEF MetadataRead, Holding
<1>14. CASE SaveFormats(s) \/ UploadCreate(s) \/ UploadCopied(s)
  BY <1>4, <1>14 DEF SaveFormats, UploadCreate, UploadCopied, Holding
<1>15. CASE UploadRead(s)
  <2>1. calls[s].arg \in Names
    BY <1>0, <1>15 DEF UploadRead, CallInv, ArgumentsFit
  <2> QED
    BY <1>8, <1>15, <2>1, ReportIsChange DEF UploadRead, Holding
<1>16. CASE SelectRead(s)
  <2> DEFINE r == rows[calls[s].job]
             new == Selected(r, calls[s].arg)
  <2>1. calls[s].arg \in UserModes
    BY <1>0, <1>16 DEF SelectRead, CallInv, ArgumentsFit
  <2>2. r.status = "ready" => new \in Store!Changes(r)
    BY <2>1, UserIsChange
  <2>3. \/ r.status = "ready" /\ Hold(s, "formats", calls[s].job, new)
        \/ Answer(s, "error")
    BY <1>16 DEF SelectRead
  <2> QED
    BY <1>1, <1>8, <1>16, <2>2, <2>3 DEF SelectRead, Holding
<1>17. CASE SelectFormats(s)
  BY <1>1, <1>4, <1>17 DEF SelectFormats, Holding
<1>18. CASE CancelRead(s)
  <2> DEFINE r == rows[calls[s].job]
             new == Canceled(r)
  <2>1. r.status \in Active => new \in Store!Changes(r)
    BY UserIsChange
  <2>2. \/ r.status \in Active /\ Hold(s, "write", calls[s].job, new)
        \/ Answer(s, "ok")
    BY <1>18 DEF CancelRead
  <2> QED
    BY <1>1, <1>8, <1>18, <2>1, <2>2 DEF CancelRead, Holding
<1>19. CASE StatusRead(s)
  <2> DEFINE c == [calls[s] EXCEPT !.pc = "ok", !.job = calls[s].job,
                                   !.row = rows[calls[s].job]]
  <2>1. calls' = [calls EXCEPT ![s] = c] /\ UNCHANGED table /\ calls[s].pc = "start"
    BY <1>19 DEF StatusRead, Hold
  <2>2. c.pc = "ok"
    BY <1>0 DEF Call
  <2>3. HeldBy(c) = AllHeld[s]
    BY <2>1, <2>2 DEF HeldBy, Holding, AllHeld, Held, Holds, Store!Nothing,
                      NewRow, Store!NewRow, NoMode, Store!NoMode
  <2> HIDE DEF c
  <2>4. AllHeld' = AllHeld
    BY <1>0, <2>1, <2>3, HeldChanges DEF AllHeld
  <2> QED
    BY <2>1, <2>4, SameHeld
<1>20. CASE UpdateJob(s)
  <2> DEFINE j == calls[s].job
  <2>1. PICK c : calls' = [calls EXCEPT ![s] = c] /\ c.pc = "ok"
    <3>1. CASE Answer(s, "ok")
      <4> DEFINE d == [NoCall EXCEPT !.pc = "ok"]
      <4>1. calls' = [calls EXCEPT ![s] = d] /\ d.pc = "ok"
        BY <3>1 DEF Answer, NoCall
      <4> HIDE DEF d
      <4> QED
        BY <4>1
    <3>2. CASE Advance(s, "ok")
      <4> DEFINE d == [calls[s] EXCEPT !.pc = "ok"]
      <4>1. calls' = [calls EXCEPT ![s] = d] /\ d.pc = "ok"
        BY <1>0, <3>2 DEF Advance, Call
      <4> HIDE DEF d
      <4> QED
        BY <4>1
    <3> QED
      BY <1>20, <3>1, <3>2 DEF UpdateJob
  <2>2. HeldBy(c) = Store!Nothing
    BY <2>1 DEF HeldBy, Holding
  <2>3. AllHeld' = [t \in Slots |-> IF t = s THEN Store!Nothing ELSE AllHeld[t]]
    BY <1>0, <2>1, <2>2, HeldChanges
  <2>4. AllHeld[s] = [job |-> j, row |-> calls[s].row]
    BY <1>20 DEF UpdateJob, AllHeld, Held, Holds, Holding
  <2>5. live' = live /\ gone' = gone
    BY <1>20 DEF UpdateJob
  <2>6. CASE j \in live
    <3>1. rows' = [rows EXCEPT ![j] = calls[s].row]
      BY <1>20, <2>6 DEF UpdateJob
    <3>2. AllHeld' = [AllHeld EXCEPT ![s] = Store!Nothing]
      BY <2>3 DEF AllHeld
    <3>3. AllHeld[s].job = j /\ AllHeld[s].row = calls[s].row
      BY <2>4
    <3>4. Store!Put(s)
      BY <2>5, <2>6, <3>1, <3>2, <3>3 DEF Store!Put, AllHeld
    <3> QED
      BY <3>4 DEF Store!NextStore
  <2>7. CASE j \notin live
    <3>1. UNCHANGED table
      BY <1>20, <2>5, <2>7 DEF UpdateJob, table
    <3>2. AllHeld' = [t \in Slots |-> IF t \in {s} THEN Store!Nothing ELSE AllHeld[t]]
      BY <2>3
    <3> QED
      BY <3>1, <3>2, LeaveStep
  <2> QED
    BY <2>6, <2>7
<1> QED
  BY <1>2, <1>3, <1>5, <1>6, <1>7, <1>9, <1>10, <1>11, <1>12, <1>13, <1>14,
     <1>15, <1>16, <1>17, <1>18, <1>19, <1>20 DEF Serve

\* A request that arrives holds nothing yet.
LEMMA ReceiveSimulates ==
  ASSUME IInv, NEW s \in Slots, NEW op, NEW j, NEW w, NEW a, Receive(s, op, j, w, a)
  PROVE  Store!NextStore
<1>1. CallsInv
  BY DEF IInv
<1> DEFINE c == Request(op, j, w, a)
<1>2. calls' = [calls EXCEPT ![s] = c] /\ c.pc = "start"
  BY DEF Receive, Request, NoCall
<1> HIDE DEF c
<1>3. calls[s].pc = "idle" /\ UNCHANGED table
  BY DEF Receive
<1>4. HeldBy(c) = AllHeld[s]
  BY <1>2, <1>3 DEF HeldBy, Holding, AllHeld, Held, Holds, Store!Nothing,
                    NewRow, Store!NewRow, NoMode, Store!NoMode
<1>5. AllHeld' = AllHeld
  BY <1>1, <1>2, <1>4, HeldChanges DEF AllHeld
<1> QED
  BY <1>3, <1>5, SameHeld

\* The cleaner deletes rows; a restart lets all handlers go.
LEMMA BackgroundSimulates ==
  ASSUME IInv, SweepInv, Background
  PROVE  Store!NextStore
<1>0. TypeOK /\ CallsInv
  BY DEF IInv
<1>1. ASSUME UNCHANGED calls PROVE AllHeld' = AllHeld
  BY <1>1 DEF AllHeld, Held, Holds
<1>2. CASE Scan \/ (\E w \in Workers : CoolingEnds(w)) \/ (\E j \in Jobs : Expire(j))
           \/ (\E e \in sweep : RemoveFile(e))
  <2>1. UNCHANGED calls /\ UNCHANGED table
    BY <1>2 DEF Scan, CoolingEnds, Expire, RemoveFile
  <2> QED
    BY <1>1, <2>1, SameHeld
<1>3. ASSUME NEW e \in sweep, DeleteJob(e) PROVE Store!NextStore
  <2>1. AllHeld' = AllHeld
    BY <1>1, <1>3 DEF DeleteJob
  <2>2. CASE UNCHANGED table
    BY <2>1, <2>2, SameHeld
  <2>3. CASE /\ live' = live \ {e.job}
             /\ gone' = gone \cup {e.job}
             /\ rows' = [rows EXCEPT ![e.job] = NewRow]
    <3>1. e.job \in live /\ e.job \in Jobs
      BY <1>0 DEF SweepInv, TypeOK
    <3>2. NewRow = Store!NewRow
      BY DEF NewRow, Store!NewRow, NoMode, Store!NoMode
    <3>3. Store!Delete(e.job)
      BY <2>1, <2>3, <3>1, <3>2 DEF Store!Delete, AllHeld
    <3> QED
      BY <3>1, <3>3 DEF Store!NextStore
  <2> QED
    BY <1>3, <2>2, <2>3 DEF DeleteJob
<1>4. CASE Restart
  <2>1. UNCHANGED table
    BY <1>4 DEF Restart
  <2>2. ASSUME NEW t \in Slots PROVE Held(t)' = Store!Nothing
    <3>1. calls'[t].pc \in {"idle", "error"}
      BY <1>4 DEF Restart, NoCall
    <3> QED
      BY <3>1 DEF Held, Holds, Holding, Store!Nothing, NewRow, Store!NewRow,
                  NoMode, Store!NoMode
  <2>3. AllHeld' = [t \in Slots |-> IF t \in Slots THEN Store!Nothing ELSE AllHeld[t]]
    BY <2>2 DEF AllHeld
  <2> QED
    BY <2>1, <2>3, LeaveStep
<1> QED
  BY <1>2, <1>3, <1>4 DEF Background

\* Both are empty at first.
LEMMA InitSimulates == Init => Store!InitStore
<1> SUFFICES ASSUME Init PROVE Store!InitStore
  OBVIOUS
<1>1. NewRow = Store!NewRow
  BY DEF NewRow, Store!NewRow, NoMode, Store!NoMode
<1>2. ASSUME NEW s \in Slots PROVE Held(s) = Store!Nothing
  BY <1>1 DEF Init, NoCall, Held, Holds, Holding, Store!Nothing
<1> QED
  BY <1>1, <1>2 DEF Init, Store!InitStore

\* Where the controller rests, so does the table.
LEMMA RestSimulates ==
  ASSUME UNCHANGED vars
  PROVE  UNCHANGED Store!storeVars
<1>1. UNCHANGED <<live, gone, rows>> /\ AllHeld' = AllHeld
  BY DEF vars, AllHeld, Held, Holds
<1> QED
  BY <1>1 DEF Store!storeVars, AllHeld

\* The controller, with all its handlers, statements and faults, implements the
\* abstract table: rows are taken, and put back whole if they still exist.
THEOREM StoreImplemented == Spec => ImplementsJobStore
<1>1. Init => Store!InitStore
  BY InitSimulates
<1>2. IInv /\ SweepInv /\ [Next]_vars => [Store!NextStore]_(Store!storeVars)
  <2> SUFFICES ASSUME IInv, SweepInv, [Next]_vars
               PROVE  [Store!NextStore]_(Store!storeVars)
    OBVIOUS
  <2>1. ASSUME NEW s \in Slots, Reply(s) PROVE Store!NextStore
    <3>1. Answer(s, "idle") /\ UNCHANGED table
      BY <2>1 DEF Reply, Answer, NoCall
    <3> QED
      BY <3>1, AnswerLeaves DEF IInv
  <2>2. ASSUME NEW s \in Slots, Arrive(s) PROVE Store!NextStore
    <3>1. PICK op \in Requests :
            \E a \in Arguments(op) : Receive(s, op, a[1], a[2], a[3])
      BY <2>2 DEF Arrive
    <3>2. PICK a \in Arguments(op) : Receive(s, op, a[1], a[2], a[3])
      BY <3>1
    <3> QED
      BY <3>2, ReceiveSimulates
  <2> QED
    BY <2>1, <2>2, RestSimulates, ServeSimulates, BackgroundSimulates DEF Next
<1>3. Init => SweepInv
  BY DEF Init, SweepInv
<1>4. IInv /\ SweepInv /\ [Next]_vars => SweepInv'
  BY SweepKeeps DEF IInv
<1> QED
  BY <1>1, <1>2, <1>3, <1>4, Invariance, PTL
  DEF Spec, ImplementsJobStore, Store!SpecStore

=============================================================================
