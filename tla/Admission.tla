----------------------------- MODULE Admission -----------------------------
(***************************************************************************)
(* POST /submit as the gate to the queue: two counts against the caps, then*)
(* the insertion.  Module Controller follows the rows of single jobs; here *)
(* jobs are only counted, for several submitters and submissions at once.  *)
(* The honeypot, the rate limiter (module RateLimiter) and the URL checks  *)
(* may refuse any submission.                                              *)
(***************************************************************************)
EXTENDS Integers, FiniteSets

CONSTANTS
  Submissions,    \* requests served at the same time
  Submitters,     \* IP addresses
  NoSubmitter,    \* the address of no request
  MaxJobsPerIP,   \* MAX_JOBS_PER_IP, 0 for no cap
  MaxQueueDepth,  \* MAX_QUEUE_DEPTH, 0 for no cap
  MaxRevivals     \* bound: ended jobs that become active again, per submitter

ASSUME AdmissionAssumption ==
  /\ IsFiniteSet(Submissions) /\ IsFiniteSet(Submitters)
  /\ NoSubmitter \notin Submitters
  /\ MaxJobsPerIP \in Nat /\ MaxQueueDepth \in Nat /\ MaxRevivals \in Nat

VARIABLES
  subs,     \* the submissions being served
  active,   \* active jobs of each submitter
  ended,    \* jobs that are over, saturating at MaxRevivals
  revived   \* history: jobs made active again by a late write

admissionVars == <<subs, active, ended, revived>>

NoSub == [pc |-> "idle", ip |-> NoSubmitter]

InitAdmission ==
  /\ subs = [s \in Submissions |-> NoSub]
  /\ active = [ip \in Submitters |-> 0]
  /\ ended = [ip \in Submitters |-> 0]
  /\ revived = [ip \in Submitters |-> 0]

Goes(s, from, to) ==
  /\ subs[s].pc = from
  /\ subs' = [subs EXCEPT ![s] = IF to = "idle" THEN NoSub ELSE [@ EXCEPT !.pc = to]]

\* The rows that are counted: f[ip] of each submitter.
Counted(f) == UNION {{ip} \X (1..f[ip]) : ip \in Submitters}

Total(f) == Cardinality(Counted(f))

\* Mutant: one more than the cap.
AtMost(count, cap) == cap = 0 \/ count <= cap

Under(count, cap) == cap = 0 \/ count < cap

Submits(s, ip) ==
  /\ subs[s] = NoSub
  /\ subs' = [subs EXCEPT ![s] = [pc |-> "perIP", ip |-> ip]]
  /\ UNCHANGED <<active, ended, revived>>

CountPerIP(s) ==
  /\ Goes(s, "perIP", "total")
  /\ Under(active[subs[s].ip], MaxJobsPerIP)
  /\ UNCHANGED <<active, ended, revived>>

CountTotal(s) ==
  /\ Goes(s, "total", "insert")
  /\ Under(Total(active), MaxQueueDepth)
  /\ UNCHANGED <<active, ended, revived>>

\* A cap is reached, the URL is refused, or a statement fails.
RefuseSubmission(s) ==
  /\ subs[s] # NoSub
  /\ subs' = [subs EXCEPT ![s] = NoSub]
  /\ UNCHANGED <<active, ended, revived>>

InsertJob(s) ==
  /\ Goes(s, "insert", "idle")
  /\ active' = [active EXCEPT ![subs[s].ip] = @ + 1]
  /\ UNCHANGED <<ended, revived>>

-----------------------------------------------------------------------------
(* The jobs, whose life Controller describes. *)

JobEnds(ip) ==
  /\ active[ip] > 0
  /\ active' = [active EXCEPT ![ip] = @ - 1]
  /\ ended' = [ended EXCEPT ![ip] = IF @ < MaxRevivals THEN @ + 1 ELSE @]
  /\ UNCHANGED <<subs, revived>>

\* A handler writes an old row over a canceled, failed or done one.
JobRevives(ip) ==
  /\ ended[ip] > 0 /\ revived[ip] < MaxRevivals
  /\ active' = [active EXCEPT ![ip] = @ + 1]
  /\ ended' = [ended EXCEPT ![ip] = @ - 1]
  /\ revived' = [revived EXCEPT ![ip] = @ + 1]
  /\ UNCHANGED subs

NextAdmission ==
  \/ \E s \in Submissions :
       \/ \E ip \in Submitters : Submits(s, ip)
       \/ CountPerIP(s) \/ CountTotal(s) \/ RefuseSubmission(s) \/ InsertJob(s)
  \/ \E ip \in Submitters : JobEnds(ip) \/ JobRevives(ip)

SpecAdmission == InitAdmission /\ [][NextAdmission]_admissionVars

-----------------------------------------------------------------------------
(* Properties. *)

TypeOKAdmission ==
  /\ subs \in [Submissions ->
                 [pc : {"idle", "perIP", "total", "insert"},
                  ip : Submitters \cup {NoSubmitter}]]
  /\ active \in [Submitters -> Nat]
  /\ ended \in [Submitters -> 0..MaxRevivals]
  /\ revived \in [Submitters -> 0..MaxRevivals]

\* The caps are counted in one statement and the job is inserted in another.
\* Submissions at once may exceed a cap, but only by one job for each of the
\* others; besides, jobs that come back to life are not counted against it.
CapsBound ==
  LET others == Cardinality(Submissions) - 1 IN
  /\ MaxJobsPerIP > 0 =>
       \A ip \in Submitters : active[ip] <= MaxJobsPerIP + others + revived[ip]
  /\ MaxQueueDepth > 0 =>
       Total(active) <= MaxQueueDepth + others + Total(revived)

=============================================================================
