------------------------------ MODULE JobStore ------------------------------
(***************************************************************************)
(* What the jobs table promises, without the handlers, their statements,   *)
(* the files and the faults.  A handler takes a row once, while it exists, *)
(* and decides at that moment, from that row alone, what to make of it; it *)
(* puts the result back whole at most once, at any later time, and only if *)
(* the row still exists.  Nothing else ever changes a row: it is created   *)
(* once, deleted once, and never comes back.                               *)
(*                                                                         *)
(* So a handler that is alone with a job changes it as if in one step, and *)
(* what a handler may overwrite is what others put since it took the row.  *)
(***************************************************************************)
EXTENDS JobRow

CONSTANT Slots   \* handlers at work at the same time

VARIABLES
  live,   \* jobs that have a row
  gone,   \* jobs whose row was deleted
  rows,   \* the rows
  held    \* what each handler means to put, and for which job

storeVars == <<live, gone, rows, held>>

Nothing == [job |-> NoJob, row |-> NewRow]

\* Everything a handler may make of a row: each operation under the condition
\* that it checks on the row it took.
Changes(r) ==
  {Assigned(r, w) : w \in {v \in Workers : Assignable(r, v)}}
    \cup {Reported(r), AfterFailure(r)}
    \cup {Described(r, kind) : kind \in Kinds}
    \cup {Uploaded(r, n) : n \in Names}
    \cup {Selected(r, mode) : mode \in {m \in UserModes : r.status = "ready"}}
    \cup {x \in {Canceled(r)} : r.status \in Active}

InitStore ==
  /\ live = {} /\ gone = {}
  /\ rows = [j \in Jobs |-> NewRow]
  /\ held = [s \in Slots |-> Nothing]

Create(j) ==
  /\ j \notin live \cup gone
  /\ live' = live \cup {j}
  /\ rows' = [rows EXCEPT ![j] = NewRow]
  /\ UNCHANGED <<gone, held>>

Take(s, j) ==
  /\ j \in live
  /\ held[s] = Nothing
  /\ \E new \in Changes(rows[j]) : held' = [held EXCEPT ![s] = [job |-> j, row |-> new]]
  /\ UNCHANGED <<live, gone, rows>>

Put(s) ==
  /\ held[s].job \in live
  /\ rows' = [rows EXCEPT ![held[s].job] = held[s].row]
  /\ held' = [held EXCEPT ![s] = Nothing]
  /\ UNCHANGED <<live, gone>>

\* Handlers end without a change: refused, failed, stopped, or too late.
Leave(S) ==
  /\ UNCHANGED <<live, gone, rows>>
  /\ held' = [s \in Slots |-> IF s \in S THEN Nothing ELSE held[s]]

\* A place is but a name: a handler whose client left goes on in another.
HandOver(s, t) ==
  /\ held[t] = Nothing
  /\ held' = [held EXCEPT ![t] = held[s], ![s] = Nothing]
  /\ UNCHANGED <<live, gone, rows>>

Delete(j) ==
  /\ j \in live
  /\ live' = live \ {j}
  /\ gone' = gone \cup {j}
  /\ rows' = [rows EXCEPT ![j] = NewRow]
  /\ UNCHANGED held

NextStore ==
  \/ \E S \in SUBSET Slots : Leave(S)
  \/ \E s \in Slots : Put(s) \/ \E j \in Jobs : Take(s, j)
  \/ \E s, t \in Slots : HandOver(s, t)
  \/ \E j \in Jobs : Create(j) \/ Delete(j)

SpecStore == InitStore /\ [][NextStore]_storeVars

=============================================================================
