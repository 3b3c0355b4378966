---------------------------- MODULE LimitProofs ----------------------------
(***************************************************************************)
(* The limits that an operator sets, and what they come to: how many       *)
(* submissions the rate limiter lets through, for any limit, window and    *)
(* number of clients; by how much submissions at the same time may exceed  *)
(* the caps, for any caps and submitters; how much an upload may send, for *)
(* any rate, clock resolution, file, buffer and pattern of reads.          *)
(*                                                                         *)
(* A slot of the limiter says nothing of the window before its own, nor    *)
(* does it say when its requests came.  The invariant ties it to the       *)
(* history: the first request of a slot's window came when the window      *)
(* began, and a window's limit of requests back from there lies before the *)
(* border (WindowFits).                                                    *)
(*                                                                         *)
(* A submission that is past a count will insert a job that the count has  *)
(* not seen.  The invariant counts it as one already (PerIPBound,          *)
(* QueueBound): the sum grows only in the step that passes the count, and  *)
(* then the count itself bounds it.                                        *)
(*                                                                         *)
(* The throttle's bound is one on the bytes sent and the bytes in the      *)
(* bucket, at the time of the last read: a refill moves the rate's share   *)
(* of the time since then into the bucket, a grant comes with a wait.  The *)
(* bucket may be overdrawn by one byte, which the grant then covers.       *)
(***************************************************************************)
EXTENDS RateLimiter, Admission, UploadThrottle, FiniteSetTheorems, TLAPS

-----------------------------------------------------------------------------
(* The rate limiter. *)

\* The requests are listed from the latest to the earliest.
Ordered(c) == \A i, k \in Latest : i <= k => ages[c][i] <= ages[c][k]

\* The slot and the history of one client.
WindowFits(c) ==
  LET n == slots[c].count IN
  IF Over(slots[c]) THEN ages[c][RateLimit] > Window
  ELSE /\ n > 0
       /\ ages[c][n] = Window - slots[c].left
       /\ ages[c][n + RateLimit] > Window

IInvLimiter ==
  /\ TypeOKLimiter
  /\ \A c \in Clients : Ordered(c) /\ WindowFits(c)
  /\ \A c \in limited : Full(slots[c])

-----------------------------------------------------------------------------
\* The history of a client stays in order when a request is added to it, and
\* moves by one place.
LEMMA AllowedMoves ==
  ASSUME TypeOKLimiter, NEW c \in Clients, Ordered(c), Counts(c)
  PROVE  /\ ages' \in [Clients -> [Latest -> Ages]]
         /\ \A d \in Clients \ {c} : ages'[d] = ages[d]
         /\ Ordered(c)'
         /\ ages'[c][1] = 0
         /\ \A i \in Latest : i + 1 \in Latest => ages'[c][i + 1] = ages[c][i]
<1>1. /\ RateLimit \in Nat /\ RateLimit > 0 /\ Window \in Nat
      /\ 1 \in Latest
      /\ \A i \in Latest : i \in Nat /\ (i # 1 => i - 1 \in Latest)
  BY LimiterAssumption DEF Latest
<1>2. ages[c] \in [Latest -> Ages] /\ ages \in [Clients -> [Latest -> Ages]]
  BY DEF TypeOKLimiter
<1> DEFINE h == [i \in Latest |-> IF i = 1 THEN 0 ELSE ages[c][i - 1]]
<1>3. h \in [Latest -> Ages]
  BY <1>1, <1>2 DEF Ages
<1>4. ages' = [ages EXCEPT ![c] = h]
  BY DEF Counts
<1>5. h[1] = 0 /\ \A i \in Latest : i # 1 => h[i] = ages[c][i - 1]
  BY <1>1
<1> HIDE DEF h
<1>6. /\ ages' \in [Clients -> [Latest -> Ages]]
      /\ \A d \in Clients \ {c} : ages'[d] = ages[d]
      /\ ages'[c] = h
  BY <1>2, <1>3, <1>4
<1>7. ASSUME NEW i \in Latest, NEW k \in Latest, i <= k
      PROVE  h[i] <= h[k]
  <2>1. CASE i = 1
    BY <1>3, <1>5, <2>1 DEF Ages
  <2>2. CASE i # 1
    <3>1. k # 1 /\ i - 1 \in Latest /\ k - 1 \in Latest /\ i - 1 <= k - 1
      BY <1>1, <1>7, <2>2
    <3> QED
      BY <1>5, <2>2, <3>1 DEF Ordered
  <2> QED
    BY <2>1, <2>2
<1>8. ASSUME NEW i \in Latest, i + 1 \in Latest
      PROVE  h[i + 1] = ages[c][i]
  BY <1>1, <1>5, <1>8
<1> QED
  BY <1>5, <1>6, <1>7, <1>8 DEF Ordered

\* A tick keeps the order and lets every age grow until it is beyond the window.
LEMMA TickAges ==
  ASSUME TypeOKLimiter, Tick, NEW c \in Clients, Ordered(c)
  PROVE  /\ Ordered(c)'
         /\ \A i \in Latest : ages'[c][i] = IF ages[c][i] > Window THEN Window + 1
                                           ELSE ages[c][i] + 1
<1>1. Window \in Nat
  BY LimiterAssumption
<1>2. \A i \in Latest : ages[c][i] \in 0..Window + 1
  BY DEF TypeOKLimiter, Ages
<1>3. \A i \in Latest : ages'[c][i] = IF ages[c][i] > Window THEN Window + 1
                                      ELSE ages[c][i] + 1
  BY DEF Tick
<1> QED
  BY <1>1, <1>2, <1>3 DEF Ordered

-----------------------------------------------------------------------------
\* A limiter that has seen nobody satisfies the invariant.
LEMMA InitLimiterFits == InitLimiter => IInvLimiter
<1> SUFFICES ASSUME InitLimiter PROVE IInvLimiter
  OBVIOUS
<1>1. /\ RateLimit \in Nat /\ RateLimit > 0 /\ Window \in Nat /\ Window > 0
      /\ RateLimit \in Latest
  BY LimiterAssumption DEF Latest
<1>2. TypeOKLimiter
  BY <1>1 DEF InitLimiter, TypeOKLimiter, NoSlot, Ages
<1> QED
  BY <1>1, <1>2 DEF InitLimiter, IInvLimiter, Ordered, WindowFits, NoSlot, Over

\* One step per operation of the limiter.
LEMMA NextLimiterKeeps == IInvLimiter /\ [NextLimiter]_limiterVars => IInvLimiter'
<1> SUFFICES ASSUME IInvLimiter, [NextLimiter]_limiterVars PROVE IInvLimiter'
  OBVIOUS
<1>1. /\ RateLimit \in Nat /\ RateLimit > 0 /\ Window \in Nat /\ Window > 0
      /\ RateLimit \in Latest /\ 1 \in Latest
      /\ \A n \in 1..RateLimit : n \in Latest /\ n + RateLimit \in Latest
  BY LimiterAssumption DEF Latest
<1>2. /\ TypeOKLimiter
      /\ \A c \in Clients : Ordered(c) /\ WindowFits(c)
      /\ \A c \in Clients : slots[c] \in [count : 0..RateLimit, left : -1..Window]
      /\ \A c \in Clients : \A i \in Latest : ages[c][i] \in 0..Window + 1
  BY DEF IInvLimiter, TypeOKLimiter, Ages
<1>3. ASSUME NEW c \in Clients, Allow(c) PROVE IInvLimiter'
  <2> DEFINE n == slots[c].count
             l == slots[c].left
             new == IF Over(slots[c]) THEN [count |-> 1, left |-> Window]
                    ELSE [count |-> n + 1, left |-> l]
  <2>1. slots' = [slots EXCEPT ![c] = new] /\ ~Full(slots[c])
    BY <1>3 DEF Allow
  <2>2. /\ ages' \in [Clients -> [Latest -> Ages]]
        /\ \A d \in Clients \ {c} : ages'[d] = ages[d]
        /\ Ordered(c)'
        /\ ages'[c][1] = 0
        /\ \A i \in Latest : i + 1 \in Latest => ages'[c][i + 1] = ages[c][i]
        /\ limited' = {}
    BY <1>2, <1>3, AllowedMoves DEF Allow, Counts
  <2>3. n \in 0..RateLimit /\ l \in -1..Window
    BY <1>2
  <2>4. new \in [count : 0..RateLimit, left : -1..Window] /\ ~Over(new)
    <3>1. CASE Over(slots[c])
      BY <1>1, <3>1 DEF Over
    <3>2. CASE ~Over(slots[c])
      BY <1>1, <2>1, <2>3, <3>2 DEF Over, Full
    <3> QED
      BY <3>1, <3>2
  <2>5. /\ new.count > 0
        /\ ages'[c][new.count] = Window - new.left
        /\ ages'[c][new.count + RateLimit] > Window
    <3>1. CASE Over(slots[c])
      <4>1. new.count = 1 /\ new.left = Window
        BY <3>1
      <4>2. ages'[c][1 + RateLimit] = ages[c][RateLimit]
        BY <1>1, <2>2
      <4>3. ages[c][RateLimit] > Window
        BY <1>2, <3>1 DEF WindowFits
      <4> QED
        BY <1>1, <2>2, <4>1, <4>2, <4>3
    <3>2. CASE ~Over(slots[c])
      <4>1. new.count = n + 1 /\ new.left = l
        BY <3>2
      <4>2. n \in 1..RateLimit /\ n + 1 \in 1..RateLimit
        BY <1>1, <1>2, <2>1, <2>3, <3>2 DEF WindowFits, Full
      <4>3. /\ n \in Latest /\ n + RateLimit \in Latest
            /\ n + 1 \in Latest /\ (n + RateLimit) + 1 \in Latest
            /\ (n + 1) + RateLimit = (n + RateLimit) + 1
        BY <1>1, <4>2 DEF Latest
      <4>4. ages'[c][n + 1] = ages[c][n]
            /\ ages'[c][(n + RateLimit) + 1] = ages[c][n + RateLimit]
        BY <2>2, <4>3
      <4>5. ages[c][n] = Window - l /\ ages[c][n + RateLimit] > Window
        BY <1>2, <3>2 DEF WindowFits
      <4> QED
        BY <2>3, <4>1, <4>2, <4>3, <4>4, <4>5
    <3> QED
      BY <3>1, <3>2
  <2> HIDE DEF new
  <2>6. slots'[c] = new /\ \A d \in Clients \ {c} : slots'[d] = slots[d]
    BY <1>2, <2>1 DEF TypeOKLimiter
  <2>7. TypeOKLimiter'
    BY <1>2, <2>1, <2>2, <2>4 DEF TypeOKLimiter
  <2>8. WindowFits(c)'
    BY <2>4, <2>5, <2>6 DEF WindowFits
  <2>9. ASSUME NEW d \in Clients \ {c} PROVE Ordered(d)' /\ WindowFits(d)'
    BY <1>2, <2>2, <2>6 DEF Ordered, WindowFits
  <2> QED
    BY <2>2, <2>7, <2>8, <2>9 DEF IInvLimiter
<1>4. ASSUME NEW c \in Clients, Refuse(c) PROVE IInvLimiter'
  BY <1>2, <1>4 DEF Refuse, IInvLimiter, TypeOKLimiter, Ordered, WindowFits
<1>5. CASE CleanSlots
  <2>1. /\ \A c \in Clients : slots'[c] = IF Over(slots[c]) THEN NoSlot ELSE slots[c]
        /\ ages' = ages /\ limited' = {}
    BY <1>5 DEF CleanSlots
  <2>2. TypeOKLimiter'
    <3>1. NoSlot \in [count : 0..RateLimit, left : -1..Window]
      BY <1>1 DEF NoSlot
    <3> QED
      BY <1>2, <1>5, <2>1, <3>1 DEF TypeOKLimiter, CleanSlots
  <2>3. ASSUME NEW c \in Clients PROVE Ordered(c)' /\ WindowFits(c)'
    BY <1>2, <2>1 DEF Ordered, WindowFits, NoSlot, Over
  <2> QED
    BY <2>1, <2>2, <2>3 DEF IInvLimiter
<1>6. CASE Tick
  <2>1. limited' = {}
    BY <1>6 DEF Tick
  <2>2. ASSUME NEW c \in Clients
        PROVE  /\ slots'[c].count = slots[c].count
               /\ slots'[c].left = IF Over(slots[c]) THEN slots[c].left
                                   ELSE slots[c].left - 1
               /\ slots'[c] \in [count : 0..RateLimit, left : -1..Window]
    BY <1>1, <1>2, <1>6 DEF Tick, Over
  <2>3. TypeOKLimiter'
    <3>1. slots' \in [Clients -> [count : 0..RateLimit, left : -1..Window]]
      BY <1>6, <2>2 DEF Tick
    <3>2. ages' \in [Clients -> [Latest -> Ages]]
      BY <1>1, <1>2, <1>6 DEF Tick, Ages
    <3> QED
      BY <2>1, <3>1, <3>2 DEF TypeOKLimiter
  <2>4. ASSUME NEW c \in Clients PROVE Ordered(c)' /\ WindowFits(c)'
    <3> DEFINE n == slots[c].count
               l == slots[c].left
    <3>1. /\ Ordered(c)'
          /\ \A i \in Latest : ages'[c][i] = IF ages[c][i] > Window THEN Window + 1
                                            ELSE ages[c][i] + 1
      BY <1>2, <1>6, TickAges
    <3>2. n \in 0..RateLimit /\ l \in -1..Window
      BY <1>2
    <3>3. CASE Over(slots[c])
      <4>1. ages[c][RateLimit] > Window /\ Over(slots[c])'
        BY <1>2, <2>2, <3>3 DEF WindowFits, Over
      <4> QED
        BY <1>1, <3>1, <4>1 DEF WindowFits
    <3>4. CASE ~Over(slots[c])
      <4>1. /\ n \in 1..RateLimit /\ n \in Latest /\ n + RateLimit \in Latest
            /\ ages[c][n] = Window - l /\ ages[c][n + RateLimit] > Window
            /\ l \in 0..Window
        BY <1>1, <1>2, <3>2, <3>4 DEF WindowFits, Over
      <4>2. ages'[c][n] = Window - l + 1 /\ ages'[c][n + RateLimit] > Window
        BY <1>1, <3>1, <4>1
      <4>3. slots'[c].count = n /\ slots'[c].left = l - 1
        BY <2>2, <3>4
      <4>4. CASE l = 0
        <5>1. ages'[c][n] <= ages'[c][RateLimit]
          BY <1>1, <3>1, <4>1 DEF Ordered
        <5>2. ages'[c][RateLimit] > Window
          BY <1>1, <1>2, <3>1, <4>2, <4>4, <5>1
        <5>3. Over(slots[c])'
          BY <4>3, <4>4 DEF Over
        <5> QED
          BY <3>1, <5>2, <5>3 DEF WindowFits
      <4>5. CASE l # 0
        <5>1. ~Over(slots[c])'
          BY <4>1, <4>3, <4>5 DEF Over
        <5>2. Window - l + 1 = Window - (l - 1)
          BY <1>1, <4>1
        <5> QED
          BY <3>1, <4>1, <4>2, <4>3, <5>1, <5>2 DEF WindowFits
      <4> QED
        BY <4>4, <4>5
    <3> QED
      BY <3>3, <3>4
  <2> QED
    BY <2>1, <2>3, <2>4 DEF IInvLimiter
<1>7. CASE UNCHANGED limiterVars
  BY <1>7 DEF limiterVars, IInvLimiter, TypeOKLimiter, Ordered, WindowFits
<1>8. CASE LimiterRestarts
  <2>1. InitLimiter'
    BY <1>8 DEF LimiterRestarts, InitLimiter
  <2> QED
    BY <2>1, InitLimiterFits, PTL
<1> QED
  BY <1>3, <1>4, <1>5, <1>6, <1>7, <1>8 DEF NextLimiter

\* Slots and history keep fitting together, whatever the clients and the cleaner
\* do and whenever, and however often the controller starts again.
THEOREM LimiterInvariance == SpecLimiter => []IInvLimiter
BY InitLimiterFits, NextLimiterKeeps, PTL DEF SpecLimiter

\* No stretch of a window's length, wherever it begins, sees twice the limit while
\* the controller runs.
THEOREM WindowIsBounded == SpecLimiter => []WindowBound
<1>1. IInvLimiter => WindowBound
  <2> SUFFICES ASSUME IInvLimiter, NEW c \in Clients
               PROVE  ~(ages[c][2 * RateLimit] <= Window)
    BY DEF WindowBound, Lately
  <2> DEFINE n == slots[c].count
             k == IF Over(slots[c]) THEN RateLimit ELSE n + RateLimit
  <2>1. /\ RateLimit \in Nat /\ RateLimit > 0 /\ Window \in Nat
        /\ n \in 0..RateLimit
        /\ \A i \in Latest : ages[c][i] \in 0..Window + 1
    BY LimiterAssumption DEF IInvLimiter, TypeOKLimiter, Ages
  <2>2. k \in Latest /\ 2 * RateLimit \in Latest /\ k <= 2 * RateLimit
    BY <2>1 DEF Latest
  <2>3. ages[c][k] > Window
    BY DEF IInvLimiter, WindowFits
  <2>4. ages[c][k] <= ages[c][2 * RateLimit]
    BY <2>2 DEF IInvLimiter, Ordered
  <2> QED
    BY <2>1, <2>2, <2>3, <2>4
<1> QED
  BY <1>1, LimiterInvariance, PTL

\* Nobody is turned away who did not use the limit up within a window's length.
THEOREM LimitedJustly == SpecLimiter => []LimitedOnlyWhenFull
<1>1. IInvLimiter => LimitedOnlyWhenFull
  <2> SUFFICES ASSUME IInvLimiter, NEW c \in limited
               PROVE  ages[c][RateLimit] <= Window
    BY DEF LimitedOnlyWhenFull, Lately
  <2>1. /\ c \in Clients /\ Full(slots[c]) /\ WindowFits(c)
        /\ slots[c] \in [count : 0..RateLimit, left : -1..Window]
    BY DEF IInvLimiter, TypeOKLimiter
  <2>2. slots[c].count = RateLimit /\ ~Over(slots[c]) /\ slots[c].left \in 0..Window
    BY <2>1, LimiterAssumption DEF Full, Over
  <2>3. ages[c][RateLimit] = Window - slots[c].left
    BY <2>1, <2>2 DEF WindowFits
  <2> QED
    BY <2>2, <2>3, LimiterAssumption
<1> QED
  BY <1>1, LimiterInvariance, PTL

-----------------------------------------------------------------------------
(* The caps. *)

\* Submissions that were counted and have not inserted their job yet.
Past(ip) == {s \in Submissions : subs[s].ip = ip /\ subs[s].pc \in {"total", "insert"}}
Passed == {s \in Submissions : subs[s].pc = "insert"}

Others == Cardinality(Submissions) - 1

PerIPBound ==
  \A ip \in Submitters :
    active[ip] + Cardinality(Past(ip)) <= MaxJobsPerIP + Others + revived[ip]

QueueBound ==
  Total(active) + Cardinality(Passed) <= MaxQueueDepth + Others + Total(revived)

IInvAdmission ==
  /\ TypeOKAdmission
  /\ \A s \in Submissions : subs[s].pc # "idle" => subs[s].ip \in Submitters
  /\ MaxJobsPerIP > 0 => PerIPBound
  /\ MaxQueueDepth > 0 => QueueBound

-----------------------------------------------------------------------------
(* Counting. *)

\* Finitely many submitters have finitely many jobs.
LEMMA CountedIsFinite ==
  ASSUME NEW f \in [Submitters -> Nat]
  PROVE  IsFiniteSet(Counted(f)) /\ Total(f) \in Nat
<1> DEFINE g == [ip \in Submitters |-> {ip} \X (1..f[ip])]
           T == {{ip} \X (1..f[ip]) : ip \in Submitters}
<1>1. g \in Surjection(Submitters, T)
  BY DEF Surjection
<1>2. IsFiniteSet(T)
  BY <1>1, FS_Surjection, AdmissionAssumption
<1>3. ASSUME NEW ip \in Submitters PROVE IsFiniteSet({ip} \X (1..f[ip]))
  <2>1. IsFiniteSet({ip})
    BY FS_Singleton
  <2>2. f[ip] \in Int /\ 1 \in Int
    OBVIOUS
  <2>3. IsFiniteSet(1..f[ip])
    BY <2>2, FS_Interval
  <2> QED
    BY <2>1, <2>3, FS_Product
<1>4. IsFiniteSet(UNION T)
  BY <1>2, <1>3, FS_UNION
<1>5. IsFiniteSet(Counted(f))
  BY <1>4 DEF Counted
<1> QED
  BY <1>5, FS_CardinalityType DEF Total

\* One job more of one submitter is one more in total.
LEMMA TotalGrows ==
  ASSUME NEW f \in [Submitters -> Nat], NEW ip \in Submitters
  PROVE  Total([f EXCEPT ![ip] = @ + 1]) = Total(f) + 1
<1> DEFINE g == [f EXCEPT ![ip] = @ + 1]
           new == <<ip, f[ip] + 1>>
<1>1. g \in [Submitters -> Nat] /\ g[ip] = f[ip] + 1
      /\ \A i \in Submitters \ {ip} : g[i] = f[i]
  OBVIOUS
<1>2. \A i, n : <<i, n>> \in Counted(f) <=> i \in Submitters /\ n \in 1..f[i]
  BY DEF Counted
<1>3. \A i, n : <<i, n>> \in Counted(g) <=> i \in Submitters /\ n \in 1..g[i]
  BY DEF Counted
<1>4. \A x : x \in Counted(f) \/ x \in Counted(g) => x = <<x[1], x[2]>>
  BY DEF Counted
<1> HIDE DEF g
<1>5. ASSUME NEW i, NEW n
      PROVE  <<i, n>> \in Counted(g) <=> <<i, n>> \in Counted(f) \/ <<i, n>> = new
  <2>1. CASE i = ip
    BY <1>1, <1>2, <1>3, <2>1
  <2>2. CASE i # ip
    BY <1>1, <1>2, <1>3, <2>2
  <2> QED
    BY <2>1, <2>2
<1>6. Counted(g) = Counted(f) \cup {new}
  BY <1>4, <1>5
<1>7. new \notin Counted(f)
  BY <1>2
<1> QED
  BY <1>6, <1>7, CountedIsFinite, FS_AddElement DEF Total, g

\* One job less, if there is one, is one less.
LEMMA TotalShrinks ==
  ASSUME NEW f \in [Submitters -> Nat], NEW ip \in Submitters, f[ip] > 0
  PROVE  Total([f EXCEPT ![ip] = @ - 1]) = Total(f) - 1
<1> DEFINE g == [f EXCEPT ![ip] = @ - 1]
<1>1. g \in [Submitters -> Nat] /\ g[ip] = f[ip] - 1
  OBVIOUS
<1> DEFINE h == [g EXCEPT ![ip] = @ + 1]
<1>2. h = f
  <2>1. h \in [Submitters -> Nat] /\ \A i \in Submitters : h[i] = f[i]
    OBVIOUS
  <2> HIDE DEF h
  <2> QED
    BY <2>1
<1> HIDE DEF g
<1>3. Total(f) = Total(g) + 1
  BY <1>1, <1>2, TotalGrows
<1>4. Total(g) \in Nat /\ Total(f) \in Nat
  BY <1>1, CountedIsFinite
<1>5. Total(g) = Total(f) - 1
  BY <1>3, <1>4
<1> QED
  BY <1>5 DEF g

\* A set of submissions that lacks one of them is one of the others at most.
LEMMA SubmissionSets ==
  ASSUME NEW S \in SUBSET Submissions
  PROVE  /\ IsFiniteSet(S) /\ Cardinality(S) \in Nat /\ Others \in Int
         /\ \A s \in Submissions : s \notin S => Cardinality(S) <= Others
<1>1. IsFiniteSet(Submissions) /\ Cardinality(Submissions) \in Nat
  BY AdmissionAssumption, FS_CardinalityType
<1>2. IsFiniteSet(S) /\ Cardinality(S) \in Nat
  BY <1>1, FS_Subset, FS_CardinalityType
<1>3. ASSUME NEW s \in Submissions, s \notin S
      PROVE  Cardinality(S) <= Others
  <2>1. /\ IsFiniteSet(Submissions \ {s})
        /\ Cardinality(Submissions \ {s}) = Cardinality(Submissions) - 1
    BY <1>1, FS_RemoveElement
  <2>2. S \in SUBSET (Submissions \ {s})
    BY <1>3
  <2> QED
    BY <2>1, <2>2, FS_Subset DEF Others
<1> QED
  BY <1>1, <1>2, <1>3 DEF Others

-----------------------------------------------------------------------------
(* The bounds are kept. *)

\* The sets of submissions that are past a count, when one of them goes on.
LEMMA PastChanges ==
  ASSUME TypeOKAdmission, NEW s \in Submissions, NEW c, subs' = [subs EXCEPT ![s] = c]
  PROVE  /\ Passed' = IF c.pc = "insert" THEN Passed \cup {s} ELSE Passed \ {s}
         /\ \A ip \in Submitters :
              Past(ip)' = IF c.ip = ip /\ c.pc \in {"total", "insert"}
                          THEN Past(ip) \cup {s} ELSE Past(ip) \ {s}
<1>1. subs'[s] = c /\ \A t \in Submissions \ {s} : subs'[t] = subs[t]
  BY DEF TypeOKAdmission
<1> QED
  BY <1>1 DEF Passed, Past

\* An empty queue satisfies the invariant.
LEMMA InitAdmissionFits == InitAdmission => IInvAdmission
<1> SUFFICES ASSUME InitAdmission PROVE IInvAdmission
  OBVIOUS
<1>1. TypeOKAdmission
  BY AdmissionAssumption DEF InitAdmission, TypeOKAdmission, NoSub
<1>2. Passed = {} /\ \A ip \in Submitters : Past(ip) = {}
  BY DEF InitAdmission, Passed, Past, NoSub
<1>3. Total(active) = 0 /\ Total(revived) = 0
  <2>1. Counted(active) = {} /\ Counted(revived) = {}
    BY DEF InitAdmission, Counted
  <2> QED
    BY <2>1, FS_EmptySet DEF Total
<1>4. \A s \in Submissions : subs[s].pc = "idle"
  BY DEF InitAdmission, NoSub
<1>5. Cardinality(Submissions) \in Nat /\ Cardinality({}) = 0
  BY AdmissionAssumption, FS_CardinalityType, FS_EmptySet
<1>6. MaxJobsPerIP > 0 => PerIPBound
  <2>1. \A ip \in Submitters : active[ip] = 0 /\ revived[ip] = 0
    BY DEF InitAdmission
  <2>2. \A ip \in Submitters : Cardinality(Past(ip)) = 0
    BY <1>2, <1>5
  <2> QED
    BY <1>5, <2>1, <2>2, AdmissionAssumption DEF PerIPBound, Others
<1>7. MaxQueueDepth > 0 => QueueBound
  BY <1>2, <1>3, <1>5, AdmissionAssumption DEF QueueBound, Others
<1> QED
  BY <1>1, <1>4, <1>6, <1>7 DEF IInvAdmission

\* A submission that goes on without inserting a job: only one that passes a
\* count may enlarge a set, and it was counted.
LEMMA SubmissionGoesOn ==
  ASSUME IInvAdmission, NEW s \in Submissions, NEW c,
         c \in [pc : {"idle", "perIP", "total", "insert"}, ip : Submitters \cup {NoSubmitter}],
         c.pc # "idle" => c.ip \in Submitters,
         subs' = [subs EXCEPT ![s] = c],
         UNCHANGED <<active, ended, revived>>,
         c.pc \in {"total", "insert"} =>
           \/ s \in Past(c.ip)
           \/ Under(active[c.ip], MaxJobsPerIP),
         c.pc = "insert" => s \in Passed \/ Under(Total(active), MaxQueueDepth)
  PROVE  IInvAdmission'
<1>1. TypeOKAdmission
  BY DEF IInvAdmission
<1>2. TypeOKAdmission'
  BY <1>1 DEF TypeOKAdmission
<1>3. \A t \in Submissions : subs'[t].pc # "idle" => subs'[t].ip \in Submitters
  BY <1>1 DEF IInvAdmission, TypeOKAdmission
<1>4. /\ MaxJobsPerIP \in Nat /\ MaxQueueDepth \in Nat
      /\ \A ip \in Submitters : active[ip] \in Nat /\ revived[ip] \in Nat
      /\ Total(active) \in Nat /\ Total(revived) \in Nat
  <2>1. active \in [Submitters -> Nat] /\ revived \in [Submitters -> Nat]
    BY <1>1, AdmissionAssumption DEF TypeOKAdmission
  <2> QED
    BY <2>1, CountedIsFinite, AdmissionAssumption
<1>5. ASSUME NEW P \in SUBSET Submissions, NEW Q,
             Q = P \cup {s} \/ Q = P \ {s}
      PROVE  /\ Cardinality(P) \in Nat /\ Cardinality(Q) \in Nat /\ Others \in Int
             /\ Cardinality(Q) <= Cardinality(P) \/ Q = P \cup {s}
             /\ s \in P => Cardinality(Q) <= Cardinality(P)
             /\ s \notin P => Cardinality(Q) <= Others + 1
  <2>1. P \in SUBSET Submissions /\ Q \in SUBSET Submissions
    BY <1>5
  <2>2. /\ IsFiniteSet(P) /\ Cardinality(P) \in Nat /\ Cardinality(Q) \in Nat
        /\ Others \in Int
        /\ s \notin P => Cardinality(P) <= Others
    BY <2>1, SubmissionSets
  <2>3. Cardinality(P \cup {s}) = IF s \in P THEN Cardinality(P) ELSE Cardinality(P) + 1
    BY <2>2, FS_AddElement
  <2>4. Cardinality(P \ {s}) <= Cardinality(P)
    <3>1. P \ {s} \in SUBSET P
      OBVIOUS
    <3> QED
      BY <2>2, <3>1, FS_Subset
  <2> QED
    BY <1>5, <2>2, <2>3, <2>4
<1>6. ASSUME MaxJobsPerIP > 0, NEW ip \in Submitters
      PROVE  active'[ip] + Cardinality(Past(ip)') <= MaxJobsPerIP + Others + revived'[ip]
  <2> DEFINE P == Past(ip)
             Q == Past(ip)'
  <2>1. /\ P \in SUBSET Submissions
        /\ Q = IF c.ip = ip /\ c.pc \in {"total", "insert"} THEN P \cup {s} ELSE P \ {s}
    BY <1>1, PastChanges DEF Past
  <2>2. active[ip] + Cardinality(P) <= MaxJobsPerIP + Others + revived[ip]
    BY <1>6 DEF IInvAdmission, PerIPBound
  <2>3. /\ Cardinality(P) \in Nat /\ Cardinality(Q) \in Nat /\ Others \in Int
        /\ Q = P \ {s} => Cardinality(Q) <= Cardinality(P)
        /\ s \in P => Cardinality(Q) <= Cardinality(P)
        /\ s \notin P => Cardinality(Q) <= Others + 1
    <3>1. P \ {s} # P \cup {s}
      OBVIOUS
    <3> QED
      BY <1>5, <2>1, <3>1
  <2>4. CASE Q = P \ {s} \/ s \in P
    BY <1>4, <2>2, <2>3, <2>4
  <2>5. CASE Q = P \cup {s} /\ s \notin P
    <3>1. Q # P \ {s}
      BY <2>5
    <3>2. c.ip = ip /\ c.pc \in {"total", "insert"}
      BY <2>1, <3>1
    <3>3. active[ip] < MaxJobsPerIP
      BY <1>6, <2>5, <3>2 DEF Under
    <3> QED
      BY <1>4, <2>3, <2>5, <3>3
  <2> QED
    BY <2>1, <2>4, <2>5
<1>7. ASSUME MaxQueueDepth > 0
      PROVE  Total(active) + Cardinality(Passed') <= MaxQueueDepth + Others + Total(revived)
  <2> DEFINE P == Passed
             Q == Passed'
  <2>1. /\ P \in SUBSET Submissions
        /\ Q = IF c.pc = "insert" THEN P \cup {s} ELSE P \ {s}
    BY <1>1, PastChanges DEF Passed
  <2>2. Total(active) + Cardinality(P) <= MaxQueueDepth + Others + Total(revived)
    BY <1>7 DEF IInvAdmission, QueueBound
  <2>3. /\ Cardinality(P) \in Nat /\ Cardinality(Q) \in Nat /\ Others \in Int
        /\ Q = P \ {s} => Cardinality(Q) <= Cardinality(P)
        /\ s \in P => Cardinality(Q) <= Cardinality(P)
        /\ s \notin P => Cardinality(Q) <= Others + 1
    <3>1. P \ {s} # P \cup {s}
      OBVIOUS
    <3> QED
      BY <1>5, <2>1, <3>1
  <2>4. CASE Q = P \ {s} \/ s \in P
    BY <1>4, <2>2, <2>3, <2>4
  <2>5. CASE Q = P \cup {s} /\ s \notin P
    <3>1. Q # P \ {s}
      BY <2>5
    <3>2. c.pc = "insert"
      BY <2>1, <3>1
    <3>3. Total(active) < MaxQueueDepth
      BY <1>7, <2>5, <3>2 DEF Under
    <3> QED
      BY <1>4, <2>3, <2>5, <3>3
  <2> QED
    BY <2>1, <2>4, <2>5
<1> QED
  BY <1>2, <1>3, <1>6, <1>7 DEF IInvAdmission, PerIPBound, QueueBound

\* One step per action.
LEMMA NextAdmissionKeeps == IInvAdmission /\ [NextAdmission]_admissionVars => IInvAdmission'
<1> SUFFICES ASSUME IInvAdmission, [NextAdmission]_admissionVars PROVE IInvAdmission'
  OBVIOUS
<1>1. /\ TypeOKAdmission
      /\ \A s \in Submissions : subs[s].pc # "idle" => subs[s].ip \in Submitters
      /\ active \in [Submitters -> Nat] /\ revived \in [Submitters -> Nat]
      /\ ended \in [Submitters -> 0..MaxRevivals]
      /\ MaxJobsPerIP \in Nat /\ MaxQueueDepth \in Nat /\ MaxRevivals \in Nat
      /\ Total(active) \in Nat /\ Total(revived) \in Nat
      /\ Passed \in SUBSET Submissions
      /\ \A ip \in Submitters : Past(ip) \in SUBSET Submissions
  <2>1. active \in [Submitters -> Nat] /\ revived \in [Submitters -> Nat]
    BY AdmissionAssumption DEF IInvAdmission, TypeOKAdmission
  <2> QED
    BY <2>1, CountedIsFinite, AdmissionAssumption
    DEF IInvAdmission, TypeOKAdmission, Passed, Past
<1>2. ASSUME NEW s \in Submissions, NEW ip \in Submitters, Submits(s, ip)
      PROVE  IInvAdmission'
  BY <1>1, <1>2, SubmissionGoesOn DEF Submits
<1>3. ASSUME NEW s \in Submissions, NEW pc \in {"total", "insert"},
             subs[s].pc # "idle",
             subs' = [subs EXCEPT ![s] = [@ EXCEPT !.pc = pc]],
             UNCHANGED <<active, ended, revived>>,
             s \in Past(subs[s].ip) \/ Under(active[subs[s].ip], MaxJobsPerIP),
             pc = "insert" => Under(Total(active), MaxQueueDepth)
      PROVE  IInvAdmission'
  <2> DEFINE c == [subs[s] EXCEPT !.pc = pc]
  <2>1. subs[s] \in [pc : {"idle", "perIP", "total", "insert"},
                     ip : Submitters \cup {NoSubmitter}]
    BY <1>1 DEF TypeOKAdmission
  <2>2. /\ c \in [pc : {"idle", "perIP", "total", "insert"},
                  ip : Submitters \cup {NoSubmitter}]
        /\ c.pc = pc /\ c.ip = subs[s].ip
    BY <2>1
  <2>3. subs' = [subs EXCEPT ![s] = c] /\ c.ip \in Submitters
    BY <1>1, <1>3, <2>2
  <2> HIDE DEF c
  <2> QED
    BY <1>3, <2>2, <2>3, SubmissionGoesOn
<1>4. ASSUME NEW s \in Submissions, CountPerIP(s) PROVE IInvAdmission'
  BY <1>3, <1>4 DEF CountPerIP, Goes
<1>5. ASSUME NEW s \in Submissions, CountTotal(s) PROVE IInvAdmission'
  <2>1. subs[s].pc = "total" /\ s \in Past(subs[s].ip)
    BY <1>5 DEF CountTotal, Goes, Past
  <2> QED
    BY <1>3, <1>5, <2>1 DEF CountTotal, Goes
<1>6. ASSUME NEW s \in Submissions, RefuseSubmission(s) PROVE IInvAdmission'
  BY <1>6, SubmissionGoesOn DEF RefuseSubmission, NoSub
<1>7. ASSUME NEW s \in Submissions, InsertJob(s) PROVE IInvAdmission'
  <2> DEFINE ip == subs[s].ip
  <2>1. /\ ip \in Submitters /\ s \in Passed /\ s \in Past(ip)
        /\ subs' = [subs EXCEPT ![s] = NoSub]
        /\ active' = [active EXCEPT ![ip] = @ + 1]
        /\ UNCHANGED <<ended, revived>>
    BY <1>1, <1>7 DEF InsertJob, Goes, Passed, Past
  <2>2. /\ Passed' = Passed \ {s}
        /\ \A i \in Submitters : Past(i)' = Past(i) \ {s}
    <3>1. NoSub.pc = "idle"
      BY DEF NoSub
    <3> QED
      BY <1>1, <2>1, <3>1, PastChanges
  <2> HIDE DEF ip
  <2>3. Total(active') = Total(active) + 1
    BY <1>1, <2>1, TotalGrows
  <2>4. ASSUME NEW P \in SUBSET Submissions
        PROVE  /\ Cardinality(P) \in Nat
               /\ Cardinality(P \ {s}) = IF s \in P THEN Cardinality(P) - 1 ELSE Cardinality(P)
    BY SubmissionSets, FS_RemoveElement
  <2>5. Others \in Int
    BY SubmissionSets
  <2>6. TypeOKAdmission' /\ \A t \in Submissions : subs'[t].pc # "idle" => subs'[t].ip \in Submitters
    BY <1>1, <2>1 DEF TypeOKAdmission, NoSub
  <2>7. ASSUME MaxJobsPerIP > 0, NEW i \in Submitters
        PROVE  active'[i] + Cardinality(Past(i)') <= MaxJobsPerIP + Others + revived'[i]
    <3>1. active[i] + Cardinality(Past(i)) <= MaxJobsPerIP + Others + revived[i]
      BY <2>7 DEF IInvAdmission, PerIPBound
    <3>2. Cardinality(Past(i)) \in Nat /\ Cardinality(Past(i)')
            = IF s \in Past(i) THEN Cardinality(Past(i)) - 1 ELSE Cardinality(Past(i))
      BY <1>1, <2>2, <2>4
    <3>3. active'[i] = IF i = ip THEN active[i] + 1 ELSE active[i]
      BY <1>1, <2>1
    <3> QED
      BY <1>1, <2>1, <2>5, <3>1, <3>2, <3>3
  <2>8. ASSUME MaxQueueDepth > 0
        PROVE  Total(active') + Cardinality(Passed') <= MaxQueueDepth + Others + Total(revived')
    <3>1. Total(active) + Cardinality(Passed) <= MaxQueueDepth + Others + Total(revived)
      BY <2>8 DEF IInvAdmission, QueueBound
    <3>2. Cardinality(Passed) \in Nat /\ Cardinality(Passed') = Cardinality(Passed) - 1
      BY <1>1, <2>1, <2>2, <2>4
    <3> QED
      BY <1>1, <2>1, <2>3, <2>5, <3>1, <3>2
  <2> QED
    BY <2>6, <2>7, <2>8 DEF IInvAdmission, PerIPBound, QueueBound, Total, Counted
<1>8. ASSUME NEW ip \in Submitters, JobEnds(ip) PROVE IInvAdmission'
  <2>1. /\ active[ip] > 0 /\ active' = [active EXCEPT ![ip] = @ - 1]
        /\ UNCHANGED <<subs, revived>>
    BY <1>8 DEF JobEnds
  <2>2. Total(active') = Total(active) - 1
    BY <1>1, <2>1, TotalShrinks
  <2>3. active' \in [Submitters -> Nat] /\ \A i \in Submitters : active'[i] <= active[i]
    BY <1>1, <2>1
  <2>4. ended' \in [Submitters -> 0..MaxRevivals]
    BY <1>1, <1>8 DEF JobEnds
  <2>5. Passed' = Passed /\ \A i \in Submitters : Past(i)' = Past(i)
    BY <2>1 DEF Passed, Past
  <2>6. Others \in Int /\ \A P \in SUBSET Submissions : Cardinality(P) \in Nat
    BY SubmissionSets
  <2>7. ASSUME MaxJobsPerIP > 0, NEW i \in Submitters
        PROVE  active'[i] + Cardinality(Past(i)') <= MaxJobsPerIP + Others + revived'[i]
    <3>1. active[i] + Cardinality(Past(i)) <= MaxJobsPerIP + Others + revived[i]
      BY <2>7 DEF IInvAdmission, PerIPBound
    <3> QED
      BY <1>1, <2>1, <2>3, <2>5, <2>6, <3>1
  <2>8. ASSUME MaxQueueDepth > 0
        PROVE  Total(active') + Cardinality(Passed') <= MaxQueueDepth + Others + Total(revived')
    <3>1. Total(active) + Cardinality(Passed) <= MaxQueueDepth + Others + Total(revived)
      BY <2>8 DEF IInvAdmission, QueueBound
    <3> QED
      BY <1>1, <2>1, <2>2, <2>5, <2>6, <3>1
  <2> QED
    BY <1>1, <2>1, <2>3, <2>4, <2>7, <2>8
    DEF IInvAdmission, TypeOKAdmission, PerIPBound, QueueBound, Total, Counted
<1>9. ASSUME NEW ip \in Submitters, JobRevives(ip) PROVE IInvAdmission'
  <2>1. /\ active' = [active EXCEPT ![ip] = @ + 1]
        /\ revived' = [revived EXCEPT ![ip] = @ + 1]
        /\ revived[ip] < MaxRevivals /\ ended[ip] > 0
        /\ ended' = [ended EXCEPT ![ip] = @ - 1]
        /\ UNCHANGED subs
    BY <1>9 DEF JobRevives
  <2>2. Total(active') = Total(active) + 1 /\ Total(revived') = Total(revived) + 1
    BY <1>1, <2>1, TotalGrows
  <2>3. TypeOKAdmission'
    BY <1>1, <2>1 DEF TypeOKAdmission
  <2>4. \A i \in Submitters :
          /\ active'[i] = IF i = ip THEN active[i] + 1 ELSE active[i]
          /\ revived'[i] = IF i = ip THEN revived[i] + 1 ELSE revived[i]
    BY <1>1, <2>1
  <2>5. Passed' = Passed /\ \A i \in Submitters : Past(i)' = Past(i)
    BY <2>1 DEF Passed, Past
  <2>6. Others \in Int /\ \A P \in SUBSET Submissions : Cardinality(P) \in Nat
    BY SubmissionSets
  <2>7. ASSUME MaxJobsPerIP > 0, NEW i \in Submitters
        PROVE  active'[i] + Cardinality(Past(i)') <= MaxJobsPerIP + Others + revived'[i]
    <3>1. active[i] + Cardinality(Past(i)) <= MaxJobsPerIP + Others + revived[i]
      BY <2>7 DEF IInvAdmission, PerIPBound
    <3> QED
      BY <1>1, <2>4, <2>5, <2>6, <3>1
  <2>8. ASSUME MaxQueueDepth > 0
        PROVE  Total(active') + Cardinality(Passed') <= MaxQueueDepth + Others + Total(revived')
    <3>1. Total(active) + Cardinality(Passed) <= MaxQueueDepth + Others + Total(revived)
      BY <2>8 DEF IInvAdmission, QueueBound
    <3> QED
      BY <1>1, <2>2, <2>5, <2>6, <3>1
  <2> QED
    BY <1>1, <2>1, <2>3, <2>7, <2>8 DEF IInvAdmission, PerIPBound, QueueBound, Total, Counted
<1>10. CASE UNCHANGED admissionVars
  BY <1>10
  DEF admissionVars, IInvAdmission, TypeOKAdmission, PerIPBound, QueueBound,
      Past, Passed, Total, Counted
<1> QED
  BY <1>2, <1>4, <1>5, <1>6, <1>7, <1>8, <1>9, <1>10 DEF NextAdmission

\* Jobs and the submissions past a count together stay within the bounds.
THEOREM AdmissionInvariance == SpecAdmission => []IInvAdmission
BY InitAdmissionFits, NextAdmissionKeeps, PTL DEF SpecAdmission

\* However many submissions interleave, each of the others exceeds a cap by one
\* job at most, besides the jobs that came back to life.
THEOREM CapsAreBounded == SpecAdmission => []CapsBound
<1>1. IInvAdmission => CapsBound
  <2> SUFFICES ASSUME IInvAdmission PROVE CapsBound
    OBVIOUS
  <2>1. active \in [Submitters -> Nat] /\ revived \in [Submitters -> Nat]
    BY AdmissionAssumption DEF IInvAdmission, TypeOKAdmission
  <2>2. /\ Total(active) \in Nat /\ Total(revived) \in Nat
        /\ Others \in Int /\ MaxJobsPerIP \in Nat /\ MaxQueueDepth \in Nat
        /\ Cardinality(Passed) \in Nat
        /\ \A ip \in Submitters : Cardinality(Past(ip)) \in Nat
    <3>1. Passed \in SUBSET Submissions /\ \A ip \in Submitters : Past(ip) \in SUBSET Submissions
      BY DEF Passed, Past
    <3> QED
      BY <2>1, <3>1, CountedIsFinite, SubmissionSets, AdmissionAssumption
  <2>3. MaxJobsPerIP > 0 =>
          \A ip \in Submitters : active[ip] <= MaxJobsPerIP + Others + revived[ip]
    BY <2>1, <2>2 DEF IInvAdmission, PerIPBound
  <2>4. MaxQueueDepth > 0 => Total(active) <= MaxQueueDepth + Others + Total(revived)
    BY <2>2 DEF IInvAdmission, QueueBound
  <2> QED
    BY <2>3, <2>4 DEF CapsBound, Others
<1> QED
  BY <1>1, AdmissionInvariance, PTL

-----------------------------------------------------------------------------
(* The upload throttle. *)

\* The time of the last read.
LastRead == clock - gap

IInvThrottle ==
  /\ TypeOKThrottle
  /\ gap <= clock
  /\ sent <= Allowed(LastRead)
  /\ sent + bucket <= Allowed(LastRead)

-----------------------------------------------------------------------------
(* Arithmetic. *)

\* The greater of two numbers.
LEMMA MaxOfTwo ==
  ASSUME NEW a \in Int, NEW b \in Int
  PROVE  /\ Max({a, b}) \in Int
         /\ Max({a, b}) = IF a >= b THEN a ELSE b
BY DEF Max

\* The smaller of two numbers.
LEMMA MinOfTwo ==
  ASSUME NEW a \in Int, NEW b \in Int
  PROVE  /\ Min({a, b}) \in Int
         /\ Min({a, b}) = IF a <= b THEN a ELSE b
BY DEF Min

\* The smallest of three numbers is below each.
LEMMA MinOfThree ==
  ASSUME NEW a \in Int, NEW b \in Int, NEW c \in Int
  PROVE  /\ Min({a, b, c}) \in Int
         /\ Min({a, b, c}) <= a /\ Min({a, b, c}) <= b /\ Min({a, b, c}) <= c
<1> DEFINE m == IF a <= b /\ a <= c THEN a ELSE IF b <= c THEN b ELSE c
<1>1. m \in {a, b, c} /\ \A y \in {a, b, c} : m <= y
  OBVIOUS
<1> HIDE DEF m
<1>2. Min({a, b, c}) \in {a, b, c} /\ \A y \in {a, b, c} : Min({a, b, c}) <= y
  BY <1>1 DEF Min
<1> QED
  BY <1>2

\* Division rounds down.
LEMMA Quotient ==
  ASSUME NEW a \in Nat, NEW s \in Nat \ {0}
  PROVE  a \div s \in Nat /\ s * (a \div s) <= a /\ a < s * (a \div s) + s
OBVIOUS

\* A positive factor cancels.
LEMMA Product ==
  ASSUME NEW s \in Nat \ {0}, NEW x \in Int, NEW y \in Int, s * x < s * y
  PROVE  x < y
<1> DEFINE d == x - y
<1>1. SUFFICES ASSUME d >= 0 PROVE FALSE
  OBVIOUS
<1>2. d \in Nat /\ x = y + d
  BY <1>1
<1> HIDE DEF d
<1>3. s * (y + d) = s * y + s * d
  BY <1>2
<1>4. s * d \in Nat /\ s * y \in Int
  BY <1>2
<1> QED
  BY <1>2, <1>3, <1>4

\* Rounding the parts down loses at least as much as rounding the sum.
LEMMA QuotientOfSum ==
  ASSUME NEW a \in Nat, NEW b \in Nat, NEW s \in Nat \ {0}
  PROVE  (a \div s) + (b \div s) <= (a + b) \div s
<1> DEFINE p == a \div s
           q == b \div s
           r == (a + b) \div s
<1>1. p \in Nat /\ q \in Nat /\ r \in Nat
  BY Quotient
<1>2. s * p <= a /\ s * q <= b /\ a + b < s * r + s
  BY Quotient
<1> HIDE DEF p, q, r
<1>3. s * (p + q) = s * p + s * q /\ s * (r + 1) = s * r + s
  BY <1>1
<1>4. s * (p + q) < s * (r + 1)
  BY <1>1, <1>2, <1>3
<1>5. p + q < r + 1
  BY <1>1, <1>4, Product
<1> QED
  BY <1>1, <1>5 DEF p, q, r

-----------------------------------------------------------------------------
(* The bound, the refill and the wait. *)

\* What is used of the constants, and of the grant as the bound counts it.
LEMMA Numbers ==
  ASSUME TypeOKThrottle
  PROVE  /\ limit \in Nat \ {0} /\ Second \in Nat \ {0} /\ MinWait \in Nat \ {0}
         /\ Size \in Nat /\ Buffer \in Nat
         /\ bucket \in Int /\ gap \in Nat /\ sent \in Nat /\ clock \in Nat
         /\ Grant \in Nat /\ Grant <= limit
         /\ Max({Grant, 1}) = (IF Grant >= 1 THEN Grant ELSE 1)
<1>1. /\ limit \in Nat \ {0} /\ Second \in Nat \ {0} /\ MinWait \in Nat \ {0}
      /\ Size \in Nat /\ Buffer \in Nat
      /\ bucket \in Int /\ gap \in Nat /\ sent \in Nat /\ clock \in Nat
  BY ThrottleAssumption DEF TypeOKThrottle
<1>2. Grant \in Nat /\ Grant <= limit
  BY <1>1 DEF Grant
<1>3. Max({Grant, 1}) = (IF Grant >= 1 THEN Grant ELSE 1)
  BY <1>2, MaxOfTwo
<1> QED
  BY <1>1, <1>2, <1>3

\* Time earns the rate's share at least, and a wait a grant as well.
LEMMA AllowedGrows ==
  ASSUME TypeOKThrottle, NEW t \in Nat, NEW d \in Nat
  PROVE  /\ Allowed(t) \in Nat
         /\ Allowed(t) + (d * limit) \div Second <= Allowed(t + d)
         /\ d >= MinWait => Allowed(t) + Max({Grant, 1}) <= Allowed(t + d)
<1> DEFINE g == Max({Grant, 1})
           a == (limit * t) \div Second
           b == (limit * d) \div Second
           c == (limit * (t + d)) \div Second
           u == t \div MinWait
           v == d \div MinWait
           w == (t + d) \div MinWait
<1>1. /\ limit \in Nat /\ Second \in Nat \ {0} /\ MinWait \in Nat \ {0}
      /\ g \in Nat /\ g >= 1
  BY Numbers
<1>2. limit * t \in Nat /\ limit * d \in Nat /\ limit * (t + d) = limit * t + limit * d
  BY <1>1
<1>3. a \in Nat /\ b \in Nat /\ c \in Nat /\ a + b <= c
  BY <1>1, <1>2, Quotient, QuotientOfSum
<1>4. u \in Nat /\ v \in Nat /\ w \in Nat /\ u + v <= w
  BY <1>1, Quotient, QuotientOfSum
<1>5. d >= MinWait => v >= 1
  <2>1. d < MinWait * v + MinWait
    BY <1>1, Quotient
  <2>2. v = 0 => MinWait * v = 0
    BY <1>1
  <2> HIDE DEF v
  <2> QED
    BY <1>1, <1>4, <2>1, <2>2
<1>6. Allowed(t) = limit + a + g * u /\ Allowed(t + d) = limit + c + g * w
  BY DEF Allowed
<1>7. d * limit = limit * d
  BY <1>1
<1> HIDE DEF g, a, b, c, u, v, w
<1>8. w - u \in Nat /\ g * w = g * u + g * (w - u) /\ g * u \in Nat
  BY <1>1, <1>4
<1>9. g * (w - u) \in Nat /\ (w - u >= 1 => g * (w - u) >= g)
  <2>1. g * (w - u) \in Nat
    BY <1>1, <1>8
  <2>2. ASSUME w - u >= 1 PROVE g * (w - u) >= g
    <3>1. PICK k \in Nat : w - u = 1 + k
      BY <1>8, <2>2
    <3>2. g * (1 + k) = g + g * k /\ g * k \in Nat
      BY <1>1
    <3> QED
      BY <1>1, <3>1, <3>2
  <2> QED
    BY <2>1, <2>2
<1>10. Allowed(t) \in Nat
  BY <1>1, <1>3, <1>6, <1>8
<1>11. Allowed(t) + b <= Allowed(t + d)
  BY <1>1, <1>3, <1>6, <1>8, <1>9
<1>12. d >= MinWait => Allowed(t) + g <= Allowed(t + d)
  BY <1>1, <1>3, <1>4, <1>5, <1>6, <1>8, <1>9
<1> QED
  BY <1>7, <1>10, <1>11, <1>12 DEF b, g

\* The refill moves no more into the bucket than the time since the last read
\* earned, and fills it at most.
LEMMA RefillBound ==
  ASSUME TypeOKThrottle
  PROVE  /\ Refilled \in Int /\ Refilled <= limit
         /\ Refilled <= bucket + (gap * limit) \div Second
         /\ Refilled >= -1
<1>1. /\ limit \in Nat \ {0} /\ Second \in Nat \ {0}
      /\ bucket \in Int /\ bucket >= -1 /\ bucket <= limit /\ gap \in Nat
  BY Numbers DEF TypeOKThrottle
<1>2. gap * limit \in Nat
  BY <1>1
<1> DEFINE q == (gap * limit) \div Second
<1>3. q \in Nat
  BY <1>1, <1>2, Quotient
<1>4. Refilled = Min({bucket + q, limit})
  BY DEF Refilled
<1> HIDE DEF q
<1>5. Refilled = IF bucket + q <= limit THEN bucket + q ELSE limit
  BY <1>1, <1>3, <1>4, MinOfTwo
<1> QED
  BY <1>1, <1>3, <1>5 DEF q

\* A sleep lasts a millisecond at least.
LEMMA WaitBound ==
  ASSUME TypeOKThrottle, NEW owed \in Nat
  PROVE  Wait(owed) \in Nat /\ Wait(owed) >= MinWait
<1>1. limit \in Nat \ {0} /\ Second \in Nat \ {0} /\ MinWait \in Nat \ {0}
  BY Numbers
<1>2. owed * Second \in Nat
  BY <1>1
<1> DEFINE q == (owed * Second) \div limit
<1>3. q \in Nat
  BY <1>1, <1>2, Quotient
<1>4. Wait(owed) = Max({q, MinWait})
  BY DEF Wait
<1> HIDE DEF q
<1> QED
  BY <1>1, <1>3, <1>4, MaxOfTwo

\* A read returns no more than there is, or one byte.
LEMMA ReadBound ==
  ASSUME TypeOKThrottle, NEW left \in Nat, NEW n \in MayRead(left)
  PROVE  /\ n \in Nat /\ n >= 1 /\ n <= Size - sent
         /\ n <= IF left >= 1 THEN left ELSE 1
<1> DEFINE m == Max({left, 1})
           rest == Size - sent
           top == Min({m, Buffer, rest})
<1>1. m \in Int /\ m = IF left >= 1 THEN left ELSE 1
  BY MaxOfTwo
<1>2. Buffer \in Int /\ rest \in Int
  BY Numbers
<1>3. n \in 1..top
  BY DEF MayRead
<1> HIDE DEF m, rest
<1>4. top \in Int /\ top <= m /\ top <= rest
  BY <1>1, <1>2, MinOfThree
<1> HIDE DEF top
<1>5. n \in Nat /\ n >= 1 /\ n <= m /\ n <= rest
  BY <1>1, <1>2, <1>3, <1>4
<1> QED
  BY <1>1, <1>5 DEF rest

-----------------------------------------------------------------------------
(* The invariant. *)

\* An upload about to begin satisfies the invariant.
LEMMA InitialThrottle == InitThrottle => IInvThrottle
<1> SUFFICES ASSUME InitThrottle PROVE IInvThrottle
  OBVIOUS
<1>1. TypeOKThrottle
  BY ThrottleAssumption DEF InitThrottle, TypeOKThrottle
<1>2. gap = 0 /\ clock = 0 /\ sent = 0 /\ bucket = limit /\ limit \in Nat
  BY <1>1, Numbers DEF InitThrottle
<1>3. Allowed(0) >= limit
  <2>1. /\ Second \in Nat \ {0} /\ MinWait \in Nat \ {0} /\ Max({Grant, 1}) \in Nat
    BY <1>1, Numbers
  <2>2. limit * 0 = 0 /\ 0 \div Second = 0 /\ 0 \div MinWait = 0
    BY <1>2, <2>1
  <2>3. Max({Grant, 1}) * 0 = 0
    BY <2>1
  <2> QED
    BY <1>2, <2>2, <2>3 DEF Allowed
<1>4. LastRead = 0
  BY <1>2 DEF LastRead
<1>5. Allowed(0) \in Nat
  BY <1>1, AllowedGrows
<1> QED
  BY <1>1, <1>2, <1>3, <1>4, <1>5 DEF IInvThrottle

\* A read at once uses what the refill put into the bucket; a read after a wait
\* uses what the wait has earned.
LEMMA ReadKeeps ==
  ASSUME IInvThrottle, ReadSome
  PROVE  IInvThrottle'
<1>1. /\ TypeOKThrottle /\ gap <= clock
      /\ sent <= Allowed(LastRead) /\ sent + bucket <= Allowed(LastRead)
  BY DEF IInvThrottle
<1>2. /\ limit \in Nat \ {0} /\ Size \in Nat /\ MinWait \in Nat \ {0}
      /\ bucket \in Int /\ gap \in Nat /\ sent \in Nat /\ clock \in Nat
      /\ Grant \in Nat /\ Grant <= limit
      /\ Max({Grant, 1}) = (IF Grant >= 1 THEN Grant ELSE 1)
      /\ limit \in Limits /\ MaxGap \in Nat
  BY <1>1, Numbers, ThrottleAssumption DEF TypeOKThrottle
<1>3. LastRead \in Nat /\ LastRead + gap = clock /\ Allowed(LastRead) \in Nat
  BY <1>1, <1>2, AllowedGrows DEF LastRead
<1>4. ASSUME NEW left \in Nat, NEW n \in MayRead(left), Sent(n, left), left <= limit,
             clock' \in Nat,
             sent + left <= Allowed(clock'), sent + Max({Grant, 1}) <= Allowed(clock')
               \/ left >= 1
      PROVE  IInvThrottle'
  <2>1. /\ n \in Nat /\ n >= 1 /\ n <= Size - sent
        /\ n <= IF left >= 1 THEN left ELSE 1
    BY <1>1, <1>4, ReadBound
  <2>2. /\ sent' = sent + n /\ bucket' = left - n /\ gap' = 0 /\ limit' = limit
    BY <1>4 DEF Sent
  <2>3. TypeOKThrottle'
    BY <1>2, <1>4, <2>1, <2>2 DEF TypeOKThrottle
  <2>4. Allowed(LastRead)' = Allowed(clock')
    <3>1. clock' \in Nat /\ gap' = 0
      BY <1>4, <2>2
    <3>2. clock' - gap' = clock'
      <4>1. \A k \in Nat : k - 0 = k
        OBVIOUS
      <4> QED
        BY <3>1, <4>1
    <3>3. LastRead' = clock' - gap'
      BY DEF LastRead
    <3> QED
      BY <2>2, <3>2, <3>3 DEF Allowed, Grant
  <2>5. Allowed(clock') \in Nat
    BY <1>1, <1>4, AllowedGrows
  <2>6. sent' <= Allowed(clock') /\ sent' + bucket' <= Allowed(clock')
    BY <1>2, <1>4, <2>1, <2>2, <2>5
  <2> QED
    BY <1>2, <1>4, <2>2, <2>3, <2>4, <2>6 DEF IInvThrottle
<1>5. Refilled \in Int /\ Refilled <= limit /\ Refilled >= -1
      /\ Refilled <= bucket + (gap * limit) \div Second
  BY <1>1, RefillBound
<1>6. CASE ReadAtOnce
  <2>1. PICK n \in MayRead(Refilled) : Sent(n, Refilled)
    BY <1>6 DEF ReadAtOnce
  <2>2. Refilled > 0 /\ clock' = clock
    BY <1>6 DEF ReadAtOnce
  <2>3. Allowed(LastRead) + (gap * limit) \div Second <= Allowed(clock)
    BY <1>1, <1>2, <1>3, AllowedGrows
  <2>4. (gap * limit) \div Second \in Nat /\ Allowed(clock) \in Nat
    <3>1. gap * limit \in Nat /\ Second \in Nat \ {0}
      BY <1>1, <1>2, Numbers
    <3> QED
      BY <1>1, <1>2, <3>1, Quotient, AllowedGrows
  <2>5. sent + Refilled <= Allowed(clock)
    <3> DEFINE q == (gap * limit) \div Second
    <3>1. /\ q \in Nat /\ Refilled <= bucket + q
          /\ Allowed(LastRead) + q <= Allowed(clock)
      BY <1>5, <2>3, <2>4
    <3> HIDE DEF q
    <3> QED
      BY <1>1, <1>2, <1>3, <1>5, <2>4, <3>1
  <2>6. Refilled \in Nat /\ Refilled >= 1
    BY <1>5, <2>2
  <2> QED
    BY <1>2, <1>4, <1>5, <2>1, <2>2, <2>5, <2>6
<1>7. CASE ReadAfterWait
  <2>1. PICK n \in MayRead(Grant) : Sent(n, Grant)
    BY <1>7 DEF ReadAfterWait
  <2>2. Refilled <= 0 /\ clock' = clock + Wait(-Refilled)
    BY <1>7 DEF ReadAfterWait
  <2>3. -Refilled \in Nat
    BY <1>5, <2>2
  <2> DEFINE w == Wait(-Refilled)
  <2>4. w \in Nat /\ w >= MinWait
    BY <1>1, <2>3, WaitBound
  <2>5. clock' = clock + w
    BY <2>2
  <2> HIDE DEF w
  <2> DEFINE d == gap + w
  <2>6. d \in Nat /\ d >= MinWait /\ LastRead + d = clock' /\ clock' \in Nat
    BY <1>2, <1>3, <2>4, <2>5
  <2> HIDE DEF d
  <2>7. Allowed(LastRead) + Max({Grant, 1}) <= Allowed(clock') /\ Allowed(clock') \in Nat
    BY <1>1, <1>3, <2>6, AllowedGrows
  <2>8. sent + Grant <= Allowed(clock') /\ sent + Max({Grant, 1}) <= Allowed(clock')
    BY <1>1, <1>2, <1>3, <2>7
  <2> QED
    BY <1>2, <1>4, <2>1, <2>6, <2>8
<1> QED
  BY <1>6, <1>7 DEF ReadSome

\* Time passes for the last read as well.
LEMMA TimeKeeps ==
  ASSUME IInvThrottle, TimePasses
  PROVE  IInvThrottle'
<1>1. /\ TypeOKThrottle /\ gap <= clock
      /\ sent <= Allowed(LastRead) /\ sent + bucket <= Allowed(LastRead)
  BY DEF IInvThrottle
<1>2. /\ gap \in Nat /\ clock \in Nat /\ MaxGap \in Nat
      /\ gap < MaxGap /\ gap' = gap + 1 /\ clock' = clock + 1
      /\ UNCHANGED <<limit, bucket, sent>>
  BY <1>1, Numbers, ThrottleAssumption DEF TimePasses
<1>3. TypeOKThrottle'
  BY <1>1, <1>2 DEF TypeOKThrottle
<1>4. LastRead' = LastRead
  BY <1>2 DEF LastRead
<1>5. Allowed(LastRead)' = Allowed(LastRead)
  BY <1>2, <1>4 DEF Allowed, Grant
<1> QED
  BY <1>1, <1>2, <1>3, <1>5 DEF IInvThrottle

\* The inductive invariant holds in every state of an upload.
THEOREM ThrottleInvariance == SpecThrottle => []IInvThrottle
<1>1. InitThrottle => IInvThrottle
  BY InitialThrottle
<1>2. IInvThrottle /\ [NextThrottle]_throttleVars => IInvThrottle'
  <2> SUFFICES ASSUME IInvThrottle, [NextThrottle]_throttleVars PROVE IInvThrottle'
    OBVIOUS
  <2>1. CASE UNCHANGED throttleVars
    BY <2>1
    DEF throttleVars, IInvThrottle, TypeOKThrottle, LastRead, Allowed, Grant
  <2> QED
    BY <2>1, ReadKeeps, TimeKeeps DEF NextThrottle
<1> QED
  BY <1>1, <1>2, PTL DEF SpecThrottle

\* rateLimitedReader lets through a second's bytes at once, then the configured
\* rate, and a grant for every millisecond it may have slept: whatever the limit,
\* the sizes and the pauses between the reads.
THEOREM ThrottleBoundsBursts == SpecThrottle => []BurstBound
<1>1. IInvThrottle => BurstBound
  <2> SUFFICES ASSUME IInvThrottle PROVE BurstBound
    OBVIOUS
  <2>1. TypeOKThrottle /\ gap <= clock /\ sent <= Allowed(LastRead)
    BY DEF IInvThrottle
  <2>2. /\ limit \in Nat /\ Second \in Nat \ {0} /\ gap \in Nat /\ sent \in Nat
        /\ clock \in Nat /\ gap * limit \in Nat
    BY <2>1, Numbers
  <2>3. LastRead \in Nat /\ LastRead + gap = clock
    BY <2>1, <2>2 DEF LastRead
  <2>4. /\ (gap * limit) \div Second \in Nat
        /\ Allowed(LastRead) \in Nat /\ Allowed(clock) \in Nat
    BY <2>1, <2>2, <2>3, Quotient, AllowedGrows
  <2>5. Allowed(LastRead) + (gap * limit) \div Second <= Allowed(clock)
    BY <2>1, <2>2, <2>3, AllowedGrows
  <2> QED
    BY <2>1, <2>2, <2>4, <2>5 DEF BurstBound
<1> QED
  BY <1>1, ThrottleInvariance, PTL

=============================================================================
