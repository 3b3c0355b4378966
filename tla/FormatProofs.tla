---------------------------- MODULE FormatProofs ----------------------------
(***************************************************************************)
(* What is reported, stored, chosen and queued, for any formats that       *)
(* yt-dlp may list and any number of them.                                 *)
(*                                                                         *)
(* The loops over lists are recursive functions.  Two things are proved of *)
(* each: that its equation has a solution, and what its last value is.     *)
(* Both go by induction on the number of rounds, stated of sets of numbers *)
(* (Rounds).  The state machine is simple then: all reports of a video     *)
(* store the same formats, so what held of a choice holds of it later.     *)
(***************************************************************************)
EXTENDS FormatChoice, FiniteSetTheorems, WellFoundedInduction, TLAPS

-----------------------------------------------------------------------------
(* Induction. *)

\* A set that holds 0 and the successors of its numbers holds all of them.
LEMMA Rounds ==
  ASSUME NEW T, 0 \in T, \A n \in Nat : n \in T => n + 1 \in T
  PROVE  Nat \subseteq T
<1> DEFINE R == OpToRel(<, Nat)
           U == Nat \ T
<1>1. IsWellFoundedOn(R, Nat)
  BY NatLessThanWellFounded
<1>2. \A x, y \in Nat : y < x => <<y, x>> \in R
  BY DEF OpToRel
<1> SUFFICES ASSUME U # {} PROVE FALSE
  OBVIOUS
<1> HIDE DEF R
<1>3. \E m \in U : \A k \in U : ~ (<<k, m>> \in R)
  <2>1. U \subseteq Nat
    OBVIOUS
  <2> HIDE DEF U
  <2> QED
    BY <1>1, <2>1, WFMin
<1>4. PICK m \in Nat : m \notin T /\ \A k \in Nat : k \notin T => ~ (<<k, m>> \in R)
  BY <1>3
<1>5. m # 0 /\ m - 1 \in Nat /\ m - 1 + 1 = m /\ m - 1 < m
  BY <1>4
<1>6. m - 1 \in T
  BY <1>2, <1>4, <1>5
<1> QED
  BY <1>4, <1>5, <1>6

-----------------------------------------------------------------------------
(* The loops for a best format. *)

\* One round after the other, the loop has a course.
LEMMA BestLoop ==
  ASSUME NEW values, NEW n \in Nat
  PROVE  \E g : g = [i \in 0..n |-> IF i = 0 THEN 0 ELSE Better(values, g[i - 1], i)]
<1> DEFINE Course(g, k) ==
             g = [i \in 0..k |-> IF i = 0 THEN 0 ELSE Better(values, g[i - 1], i)]
           T == {k \in Nat : \E g : Course(g, k)}
<1>1. 0 \in T
  <2>1. Course([i \in 0..0 |-> 0], 0)
    OBVIOUS
  <2> QED
    BY <2>1
<1>2. ASSUME NEW k \in Nat, k \in T
      PROVE  k + 1 \in T
  <2>1. PICK g : Course(g, k)
    BY <1>2
  <2> DEFINE h == [i \in 0..(k + 1) |-> IF i <= k THEN g[i] ELSE Better(values, g[k], i)]
  <2>2. ASSUME NEW i \in 0..(k + 1)
        PROVE  h[i] = IF i = 0 THEN 0 ELSE Better(values, h[i - 1], i)
    <3>1. CASE i = 0
      BY <2>1, <3>1
    <3>2. CASE i # 0 /\ i <= k
      <4>1. h[i] = g[i] /\ h[i - 1] = g[i - 1] /\ i \in 0..k
        BY <3>2
      <4> QED
        BY <2>1, <3>2, <4>1
    <3>3. CASE i = k + 1
      BY <3>3
    <3> QED
      BY <3>1, <3>2, <3>3
  <2>3. Course(h, k + 1)
    BY <2>2
  <2> HIDE DEF h, Course
  <2> QED
    BY <2>3
<1>3. Nat \subseteq T
  <2> HIDE DEF T
  <2> QED
    BY <1>1, <1>2, Rounds
<1> QED
  BY <1>3

\* FirstGreatest finds a greatest value, unless there is none but 0.
LEMMA GreatestFound ==
  ASSUME NEW n \in Nat, NEW values \in [1..n -> Nat]
  PROVE  /\ FirstGreatest(values) \in 0..n
         /\ FirstGreatest(values) = 0 => \A i \in 1..n : values[i] = 0
         /\ FirstGreatest(values) # 0 =>
              /\ values[FirstGreatest(values)] > 0
              /\ \A i \in 1..n : values[i] <= values[FirstGreatest(values)]
<1> DEFINE f == CHOOSE g : g = [i \in 0..n |-> IF i = 0 THEN 0 ELSE Better(values, g[i - 1], i)]
<1>1. f = [i \in 0..n |-> IF i = 0 THEN 0 ELSE Better(values, f[i - 1], i)]
  BY BestLoop
<1>2. FirstGreatest(values) = f[n]
  <2>1. Len(values) = n
    OBVIOUS
  <2> QED
    BY <2>1 DEF FirstGreatest
<1> DEFINE Best(b, k) ==
             /\ b \in 0..k
             /\ b = 0 => \A i \in 1..k : values[i] = 0
             /\ b # 0 => /\ values[b] > 0
                         /\ \A i \in 1..k : values[i] <= values[b]
           T == {k \in Nat : k <= n => Best(f[k], k)}
<1> HIDE DEF f
<1>3. 0 \in T
  BY <1>1
<1>4. ASSUME NEW k \in Nat, k \in T
      PROVE  k + 1 \in T
  <2> SUFFICES ASSUME k + 1 <= n
               PROVE  Best(f[k + 1], k + 1)
    OBVIOUS
  <2>1. Best(f[k], k) /\ k + 1 \in 1..n /\ values[k + 1] \in Nat
    BY <1>4
  <2>2. f[k + 1] = Better(values, f[k], k + 1)
    BY <1>1, <2>1
  <2> QED
    BY <2>1, <2>2 DEF Better
<1>5. Nat \subseteq T
  <2> HIDE DEF T
  <2> QED
    BY <1>3, <1>4, Rounds
<1> QED
  BY <1>2, <1>5

-----------------------------------------------------------------------------
(* The loop of FetchMetadata. *)

Formats == {Parsed(f) : f \in RawFormats}

NoneTaken == [seen |-> {}, out |-> <<>>]

\* One round after the other, the loop has a course.
LEMMA TakeLoop ==
  ASSUME NEW list, NEW n \in Nat
  PROVE  \E g : g = [i \in 0..n |-> IF i = 0 THEN NoneTaken ELSE Take(g[i - 1], list[i])]
<1> DEFINE Course(g, k) ==
             g = [i \in 0..k |-> IF i = 0 THEN NoneTaken ELSE Take(g[i - 1], list[i])]
           T == {k \in Nat : \E g : Course(g, k)}
<1>1. 0 \in T
  <2>1. Course([i \in 0..0 |-> NoneTaken], 0)
    OBVIOUS
  <2> QED
    BY <2>1
<1>2. ASSUME NEW k \in Nat, k \in T
      PROVE  k + 1 \in T
  <2>1. PICK g : Course(g, k)
    BY <1>2
  <2> DEFINE h == [i \in 0..(k + 1) |-> IF i <= k THEN g[i] ELSE Take(g[k], list[i])]
  <2>2. ASSUME NEW i \in 0..(k + 1)
        PROVE  h[i] = IF i = 0 THEN NoneTaken ELSE Take(h[i - 1], list[i])
    <3>1. CASE i = 0
      BY <2>1, <3>1
    <3>2. CASE i # 0 /\ i <= k
      <4>1. h[i] = g[i] /\ h[i - 1] = g[i - 1] /\ i \in 0..k
        BY <3>2
      <4> QED
        BY <2>1, <3>2, <4>1
    <3>3. CASE i = k + 1
      BY <3>3
    <3> QED
      BY <3>1, <3>2, <3>3
  <2>3. Course(h, k + 1)
    BY <2>2
  <2> HIDE DEF h, Course
  <2> QED
    BY <2>3
<1>3. Nat \subseteq T
  <2> HIDE DEF T
  <2> QED
    BY <1>1, <1>2, Rounds
<1> QED
  BY <1>3

\* The itags of a list of formats are all different, and none is missing.
KeysUnique(formats) ==
  \A i, k \in DOMAIN formats :
    formats[i].itag # "" /\ (formats[i].itag = formats[k].itag => i = k)

\* What FetchMetadata has taken after some rounds.
TakenFits(acc) ==
  /\ acc \in [seen : SUBSET STRING, out : Seq(Formats)]
  /\ KeysUnique(acc.out)
  /\ \A i \in DOMAIN acc.out : acc.out[i].itag \in acc.seen

\* Another format listed keeps in order what was taken so far.
LEMMA TakeKeeps ==
  ASSUME NEW acc, TakenFits(acc), NEW f \in RawFormats
  PROVE  TakenFits(Take(acc, f))
<1>1. CASE f.id = "" \/ f.id \in acc.seen
  BY <1>1 DEF Take
<1>2. CASE f.id # "" /\ f.id \notin acc.seen
  <2>1. f.id \in STRING /\ Parsed(f) \in Formats /\ Parsed(f).itag = f.id
    BY RawAssumption DEF Formats, Parsed
  <2> DEFINE out == acc.out
             new == IF Usable(f) THEN Append(out, Parsed(f)) ELSE out
  <2>2. out \in Seq(Formats) /\ new \in Seq(Formats)
    BY <2>1 DEF TakenFits
  <2>3. ASSUME NEW i \in DOMAIN new
        PROVE  \/ i \in DOMAIN out /\ new[i] = out[i]
               \/ i = Len(out) + 1 /\ new[i] = Parsed(f)
    BY <2>2, <2>3
  <2>4. \A i \in DOMAIN out : out[i].itag \in acc.seen /\ out[i].itag # ""
    BY DEF TakenFits, KeysUnique
  <2>5. KeysUnique(new)
    <3> SUFFICES ASSUME NEW i \in DOMAIN new, NEW k \in DOMAIN new
                 PROVE  new[i].itag # "" /\ (new[i].itag = new[k].itag => i = k)
      BY DEF KeysUnique
    <3> HIDE DEF new, out
    <3>1. \A a, b \in DOMAIN out : out[a].itag = out[b].itag => a = b
      BY DEF TakenFits, KeysUnique, out
    <3> QED
      BY <1>2, <2>1, <2>3, <2>4, <3>1
  <2>6. \A i \in DOMAIN new : new[i].itag \in acc.seen \cup {f.id}
    <3> HIDE DEF new, out
    <3> QED
      BY <2>1, <2>3, <2>4
  <2>7. Take(acc, f) = [seen |-> acc.seen \cup {f.id}, out |-> new]
    BY <1>2 DEF Take
  <2>8. acc.seen \cup {f.id} \in SUBSET STRING
    BY <2>1 DEF TakenFits
  <2> HIDE DEF new
  <2> QED
    BY <2>2, <2>5, <2>6, <2>7, <2>8 DEF TakenFits
<1> QED
  BY <1>1, <1>2

\* Whatever yt-dlp lists, the report can be stored.
LEMMA PostedFits ==
  ASSUME NEW n \in Nat, NEW list \in [1..n -> RawFormats]
  PROVE  Posted(list) \in Seq(Formats) /\ KeysUnique(Posted(list))
<1> DEFINE g == CHOOSE h : h = [i \in 0..n |-> IF i = 0 THEN NoneTaken ELSE Take(h[i - 1], list[i])]
<1>1. g = [i \in 0..n |-> IF i = 0 THEN NoneTaken ELSE Take(g[i - 1], list[i])]
  BY TakeLoop
<1>2. Posted(list) = g[n].out
  <2>1. Len(list) = n
    OBVIOUS
  <2> QED
    BY <2>1 DEF Posted, NoneTaken
<1> HIDE DEF g
<1> DEFINE T == {k \in Nat : k <= n => TakenFits(g[k])}
<1>3. 0 \in T
  <2>1. TakenFits(NoneTaken)
    BY DEF TakenFits, NoneTaken, KeysUnique
  <2> QED
    BY <1>1, <2>1
<1>4. ASSUME NEW k \in Nat, k \in T
      PROVE  k + 1 \in T
  <2> SUFFICES ASSUME k + 1 <= n
               PROVE  TakenFits(g[k + 1])
    OBVIOUS
  <2>1. TakenFits(g[k]) /\ list[k + 1] \in RawFormats
    BY <1>4
  <2>2. g[k + 1] = Take(g[k], list[k + 1])
    BY <1>1
  <2> QED
    BY <2>1, <2>2, TakeKeeps
<1>5. Nat \subseteq T
  <2> HIDE DEF T
  <2> QED
    BY <1>3, <1>4, Rounds
<1> QED
  BY <1>2, <1>5 DEF TakenFits

-----------------------------------------------------------------------------
(* What the loops make of a list of formats. *)

\* Formats are what their types say.
LEMMA FormatTypes ==
  ASSUME NEW f \in Formats
  PROVE  f.rate \in Nat /\ f.height \in Nat /\ \E r \in RawFormats : f.itag = r.id
BY RawAssumption DEF Formats, Parsed

\* handleWorkerJobMetadata finds a muxed format that none exceeds in height, if
\* the height of one is known.
LEMMA TallestFound ==
  ASSUME NEW n \in Nat, NEW formats \in [1..n -> Formats], KeysUnique(formats),
         NEW tall,
         \A f : f \in tall <=> \E i \in 1..n : /\ f = formats[i] /\ f.type = "muxed"
                                              /\ f.height > 0
  PROVE  LET muxed == TallestMuxed(formats) IN
         IF tall = {} THEN muxed.itag = ""
         ELSE /\ muxed.itag # "" /\ muxed \in tall
              /\ \A g \in tall : g.height <= muxed.height
<1> DEFINE heights == Heights(formats)
           b == FirstGreatest(heights)
<1>1. DOMAIN formats = 1..n
  OBVIOUS
<1>2. \A i \in 1..n : formats[i].height \in Nat
  <2>1. \A f \in Formats : f.height \in Nat
    BY FormatTypes
  <2> QED
    BY <2>1
<1>3. /\ heights \in [1..n -> Nat]
      /\ \A i \in 1..n : heights[i] = IF formats[i].type = "muxed" THEN formats[i].height ELSE 0
  BY <1>1, <1>2 DEF Heights
<1>4. /\ b \in 0..n
      /\ b = 0 => \A i \in 1..n : heights[i] = 0
      /\ b # 0 => heights[b] > 0 /\ \A i \in 1..n : heights[i] <= heights[b]
  <2> HIDE DEF heights
  <2> QED
    BY <1>1, <1>3, GreatestFound
<1>5. \A f : f \in tall <=> \E i \in 1..n : f = formats[i] /\ heights[i] > 0
  <2>1. \A i \in 1..n : heights[i] > 0 <=> formats[i].type = "muxed" /\ formats[i].height > 0
    BY <1>2, <1>3
  <2> QED
    BY <2>1
<1>6. TallestMuxed(formats) = IF b = 0 THEN NoFormat ELSE formats[b]
  BY DEF TallestMuxed, FormatAt
<1> HIDE DEF heights, b
<1>7. CASE b = 0
  <2>1. \A i \in 1..n : ~(heights[i] > 0)
    BY <1>4, <1>7
  <2>2. tall = {}
    BY <1>5, <2>1
  <2>3. TallestMuxed(formats) = NoFormat
    BY <1>6, <1>7
  <2>4. NoFormat.itag = ""
    BY DEF NoFormat
  <2> QED
    BY <2>2, <2>3, <2>4
<1>8. CASE b # 0
  <2>1. b \in 1..n /\ formats[b] \in tall
    BY <1>1, <1>4, <1>5, <1>8
  <2>2. ASSUME NEW g \in tall
        PROVE  g.height <= formats[b].height
    <3>1. PICK i \in 1..n : g = formats[i] /\ heights[i] > 0
      BY <1>5
    <3>2. heights[i] <= heights[b]
      BY <1>4, <1>8
    <3>3. heights[i] = formats[i].height
      BY <1>1, <1>2, <1>3, <2>1, <3>1
    <3>4. heights[b] = formats[b].height
      BY <1>1, <1>2, <1>3, <1>4, <1>8, <2>1
    <3> QED
      BY <3>1, <3>2, <3>3, <3>4
  <2>3. formats[b].itag # ""
    BY <1>1, <2>1 DEF KeysUnique
  <2> QED
    BY <1>6, <1>8, <2>1, <2>2, <2>3
<1> QED
  BY <1>7, <1>8

\* A round of bestAudioItag finds the highest bitrate among the audio formats
\* that it admits, or none has one.
LEMMA LoudestFound ==
  ASSUME NEW n \in Nat, NEW formats \in [1..n -> Formats], NEW box,
         NEW fitting,
         \A f : f \in fitting <=>
           \E i \in 1..n : /\ f = formats[i] /\ f.type = "audio" /\ f.rate > 0
                           /\ Compatible(box, f.ext)
  PROVE  IF fitting = {} THEN Loudest(formats, box) = NoFormat
         ELSE Loudest(formats, box) \in Highest(fitting)
<1> DEFINE rates == Rates(formats, box)
           b == FirstGreatest(rates)
<1>1. \A i \in 1..n : formats[i].rate \in Nat
  <2>1. \A f \in Formats : f.rate \in Nat
    BY FormatTypes
  <2> QED
    BY <2>1
<1>2. /\ rates \in [1..n -> Nat]
      /\ \A i \in 1..n : rates[i] = IF formats[i].type = "audio" /\ Compatible(box, formats[i].ext)
                                   THEN formats[i].rate ELSE 0
  BY <1>1 DEF Rates
<1>3. /\ b \in 0..n
      /\ b = 0 => \A i \in 1..n : rates[i] = 0
      /\ b # 0 => rates[b] > 0 /\ \A i \in 1..n : rates[i] <= rates[b]
  <2> HIDE DEF rates
  <2> QED
    BY <1>2, GreatestFound
<1>4. Loudest(formats, box) = IF b = 0 THEN NoFormat ELSE formats[b]
  BY DEF Loudest, FormatAt
<1> HIDE DEF rates, b
<1>5. \A f : f \in fitting <=> \E i \in 1..n : f = formats[i] /\ rates[i] > 0
  <2>1. \A i \in 1..n : rates[i] > 0 <=>
                          /\ formats[i].type = "audio" /\ formats[i].rate > 0
                          /\ Compatible(box, formats[i].ext)
    BY <1>1, <1>2
  <2> QED
    BY <2>1
<1>6. CASE b = 0
  BY <1>3, <1>4, <1>5, <1>6
<1>7. CASE b # 0
  <2>1. b \in 1..n /\ formats[b] \in fitting
    BY <1>3, <1>5, <1>7
  <2>2. ASSUME NEW g \in fitting
        PROVE  g.rate <= formats[b].rate
    <3>1. PICK i \in 1..n : g = formats[i] /\ rates[i] > 0
      BY <1>5
    <3>2. rates[i] <= rates[b] /\ rates[b] > 0
      BY <1>3, <1>7
    <3> QED
      BY <1>1, <1>2, <2>1, <3>1, <3>2
  <2> QED
    BY <1>4, <1>7, <2>1, <2>2 DEF Highest
<1> QED
  BY <1>6, <1>7

-----------------------------------------------------------------------------
(* The stored formats. *)

Separate == OfType(stored, "video") # {} /\ OfType(stored, "audio") # {}

\* Formats that can be stored together: finitely many, with different keys.
StoredFits(S) ==
  /\ IsFiniteSet(S) /\ S \subseteq Formats
  /\ \A f \in S : f.itag # ""
  /\ \A f, g \in S : f.itag = g.itag => f = g

\* A report stores all of it.
LEMMA ReportFits ==
  ASSUME TypeOKFormats
  PROVE  /\ \E n \in Nat : Posted(listed) \in [1..n -> Formats]
         /\ KeysUnique(Posted(listed))
<1>1. PICK n \in Nat : listed \in [1..n -> RawFormats]
  <2>1. listed \in UNION {[1..m -> RawFormats] : m \in 0..MaxListed}
    BY DEF TypeOKFormats, BoundedSeq, SeqOf
  <2>2. \A m \in 0..MaxListed : m \in Nat
    BY RawAssumption
  <2> QED
    BY <2>1, <2>2
<1>2. Posted(listed) \in Seq(Formats) /\ KeysUnique(Posted(listed))
  BY <1>1, PostedFits
<1>3. Posted(listed) \in [1..Len(Posted(listed)) -> Formats] /\ Len(Posted(listed)) \in Nat
  BY <1>2
<1> QED
  BY <1>2, <1>3

\* What is reported can be stored together.
LEMMA ReportStored ==
  ASSUME TypeOKFormats, NEW S, S = ToSet(Posted(listed))
  PROVE  StoredFits(S)
<1> DEFINE formats == Posted(listed)
<1>1. PICK n \in Nat : formats \in [1..n -> Formats]
  BY ReportFits
<1>2. KeysUnique(formats)
  BY ReportFits
<1> HIDE DEF formats
<1>3. DOMAIN formats = 1..n /\ S = {formats[i] : i \in 1..n}
  <2>1. DOMAIN formats = 1..n
    BY <1>1
  <2>2. S = {formats[i] : i \in DOMAIN formats}
    BY DEF ToSet, formats
  <2> QED
    BY <2>1, <2>2
<1>4. IsFiniteSet(S)
  <2>1. formats \in Surjection(1..n, S)
    BY <1>1, <1>3 DEF Surjection
  <2>2. IsFiniteSet(1..n)
    BY FS_Interval
  <2> QED
    BY <2>1, <2>2, FS_Surjection
<1>5. S \subseteq Formats
  BY <1>1, <1>3
<1>6. /\ \A f \in S : f.itag # ""
      /\ \A f, g \in S : f.itag = g.itag => f = g
  <2>1. \A i, k \in 1..n : formats[i].itag # "" /\ (formats[i].itag = formats[k].itag => i = k)
    BY <1>2, <1>3 DEF KeysUnique
  <2>2. ASSUME NEW f \in S, NEW g \in S
        PROVE  f.itag # "" /\ (f.itag = g.itag => f = g)
    <3>1. PICK i \in 1..n : f = formats[i]
      BY <1>3
    <3>2. PICK k \in 1..n : g = formats[k]
      BY <1>3
    <3> QED
      BY <2>1, <3>1, <3>2
  <2> QED
    BY <2>2
<1> QED
  BY <1>4, <1>5, <1>6 DEF StoredFits

\* Whatever the order of the rows, GetFormats lists each of them once.
LEMMA ListingComplete ==
  ASSUME StoredFits(stored), NEW l \in Listings
  PROVE  \E n \in Nat : /\ l \in [1..n -> Formats]
                        /\ \A f : f \in stored <=> \E i \in 1..n : f = l[i]
                        /\ \A i, k \in 1..n : l[i] = l[k] => i = k
<1> DEFINE n == Cardinality(stored)
<1>1. n \in Nat /\ IsFiniteSet(stored)
  BY FS_CardinalityType DEF StoredFits
<1>2. l \in [1..n -> stored] /\ \A i, k \in 1..n : i # k => l[i] # l[k]
  BY DEF Listings, SetToSeqs
<1>3. l \in Injection(1..n, stored)
  BY <1>2 DEF Injection, IsInjective
<1>4. IsFiniteSet(1..n) /\ Cardinality(1..n) = n
  BY <1>1, FS_Interval
<1>5. l \in Surjection(1..n, stored)
  BY <1>1, <1>3, <1>4, FS_Injection
<1>6. \A f \in stored : \E i \in 1..n : l[i] = f
  BY <1>5 DEF Surjection
<1> HIDE DEF n
<1>7. \A f : f \in stored <=> \E i \in 1..n : f = l[i]
  BY <1>2, <1>6
<1>8. l \in [1..n -> Formats]
  BY <1>2 DEF StoredFits
<1> QED
  BY <1>1, <1>2, <1>7, <1>8

\* bestAudioItag looks at the container of the video that was chosen.
LEMMA ContainerFound ==
  ASSUME StoredFits(stored), NEW l \in Listings, NEW v \in stored
  PROVE  ContainerOf(l, v.itag) = v.ext
<1>1. PICK n \in Nat : /\ l \in [1..n -> Formats]
                       /\ \A f : f \in stored <=> \E i \in 1..n : f = l[i]
                       /\ \A i, k \in 1..n : l[i] = l[k] => i = k
  BY ListingComplete
<1>2. PICK i \in 1..n : v = l[i]
  BY <1>1
<1> DEFINE named == {k \in DOMAIN l : l[k].itag = v.itag}
<1>3. named = {i}
  <2>1. DOMAIN l = 1..n
    BY <1>1
  <2>2. ASSUME NEW k \in 1..n, l[k].itag = v.itag
        PROVE  k = i
    <3>1. l[k] \in stored
      BY <1>1
    <3>2. l[k] = v
      BY <2>2, <3>1 DEF StoredFits
    <3> QED
      BY <1>1, <1>2, <3>2
  <2> QED
    BY <1>2, <2>1, <2>2
<1>4. Min({i}) = i
  BY DEF Min
<1> QED
  BY <1>2, <1>3, <1>4 DEF ContainerOf

\* The automatic choice, for a video that is stored: an audible format of the
\* highest bitrate among those that fit, or among all, or none at all.
LEMMA BestAudioFound ==
  ASSUME StoredFits(stored), NEW l \in Listings, NEW v \in stored
  PROVE  LET audio == BestAudio(l, v.itag)
             fitting == {f \in Audible : Compatible(v.ext, f.ext)}
             best == Highest(IF fitting # {} THEN fitting ELSE Audible)
         IN  IF Audible = {} THEN audio = "" ELSE \E f \in best : f.itag = audio
<1>1. PICK n \in Nat : /\ l \in [1..n -> Formats]
                       /\ \A f : f \in stored <=> \E i \in 1..n : f = l[i]
                       /\ \A i, k \in 1..n : l[i] = l[k] => i = k
  BY ListingComplete
<1> DEFINE fitting == {f \in Audible : Compatible(v.ext, f.ext)}
           first == Loudest(l, v.ext)
           second == Loudest(l, "")
<1>2. BestAudio(l, v.itag) = IF first.itag # "" THEN first.itag ELSE second.itag
  BY ContainerFound DEF BestAudio
<1>3. \A f : f \in Audible <=> f \in stored /\ f.type = "audio" /\ f.rate > 0
  BY DEF Audible, OfType
<1>4. IF fitting = {} THEN first = NoFormat ELSE first \in Highest(fitting)
  <2>1. \A f : f \in fitting <=> \E i \in 1..n : /\ f = l[i] /\ f.type = "audio" /\ f.rate > 0
                                                 /\ Compatible(v.ext, f.ext)
    BY <1>1, <1>3
  <2> HIDE DEF fitting
  <2> QED
    BY <1>1, <2>1, LoudestFound
<1>5. IF Audible = {} THEN second = NoFormat ELSE second \in Highest(Audible)
  <2>1. \A f : f \in Audible <=> \E i \in 1..n : /\ f = l[i] /\ f.type = "audio" /\ f.rate > 0
                                                 /\ Compatible("", f.ext)
    BY <1>1, <1>3 DEF Compatible
  <2> QED
    BY <1>1, <2>1, LoudestFound
<1>6. /\ fitting \subseteq Audible /\ Audible \subseteq stored
      /\ NoFormat.itag = "" /\ \A f \in stored : f.itag # ""
  BY <1>3 DEF NoFormat, StoredFits
<1>7. \A S : Highest(S) \subseteq S
  BY DEF Highest
<1> HIDE DEF fitting, first, second
<1>8. CASE fitting # {}
  <2>1. first \in Highest(fitting) /\ first.itag # "" /\ Audible # {}
    BY <1>4, <1>6, <1>7, <1>8
  <2> QED
    BY <1>2, <1>8, <2>1 DEF fitting
<1>9. CASE fitting = {}
  <2>1. first.itag = ""
    BY <1>4, <1>6, <1>9
  <2>2. BestAudio(l, v.itag) = second.itag
    BY <1>2, <2>1
  <2> QED
    BY <1>5, <1>6, <1>9, <2>2 DEF fitting
<1> QED
  BY <1>8, <1>9

-----------------------------------------------------------------------------
(* The state machine. *)

\* Before the first report there is nothing, and every report stores the same.
Reported ==
  IF stage = "fetching" THEN stored = {} /\ choice = NoChoice
  ELSE stored = ToSet(Posted(listed))

\* The user is asked exactly if there is a choice between streams.
AskedIfSeparate ==
  ~Separate => stage # "ready" /\ choice.by = "user"

IInvFormats ==
  /\ TypeOKFormats
  /\ Reported
  /\ AskedIfSeparate
  /\ QueuedIsDownloadable
  /\ AutoAudioIsBest
  /\ UnaskedIsTallest

\* Nothing is stored, chosen or queued to begin with.
LEMMA InitFormatsFits == InitFormats => IInvFormats
<1> SUFFICES ASSUME InitFormats
             PROVE  IInvFormats
  OBVIOUS
<1>1. TypeOKFormats
  BY DEF InitFormats, TypeOKFormats, NoChoice, Sendable
<1>2. choice.by = "user" /\ stage = "fetching" /\ Reported
  BY DEF InitFormats, NoChoice, Reported
<1> QED
  BY <1>1, <1>2
  DEF IInvFormats, AskedIfSeparate, QueuedIsDownloadable, AutoAudioIsBest, UnaskedIsTallest

\* A report, the first or a late one.
LEMMA DescribeKeeps ==
  ASSUME IInvFormats, Describe
  PROVE  IInvFormats'
<1> DEFINE formats == Posted(listed)
           S == ToSet(formats)
           tall == {f \in OfType(S, "muxed") : f.height > 0}
           muxed == TallestMuxed(formats)
           separate == OfType(S, "video") # {} /\ OfType(S, "audio") # {}
<1>1. TypeOKFormats /\ StoredFits(S)
  BY ReportStored DEF IInvFormats
<1>2. /\ listed' = listed /\ stored' = S
      /\ IF separate THEN stage' = "ready" /\ choice' = choice
         ELSE /\ stage' = "queued"
              /\ choice' = IF muxed.itag # ""
                           THEN [choice EXCEPT !.mode = "video", !.video = muxed.itag]
                           ELSE [choice EXCEPT !.mode = "best"]
  BY DEF Describe
<1>3. IF tall = {} THEN muxed.itag = ""
      ELSE /\ muxed.itag # "" /\ muxed \in tall
           /\ \A g \in tall : g.height <= muxed.height
  <2>1. PICK n \in Nat : formats \in [1..n -> Formats]
    BY <1>1, ReportFits
  <2>2. KeysUnique(formats)
    BY <1>1, ReportFits
  <2>3. DOMAIN formats = 1..n
    BY <2>1
  <2>4. \A f : f \in tall <=> \E i \in 1..n : /\ f = formats[i] /\ f.type = "muxed"
                                              /\ f.height > 0
    BY <2>3 DEF OfType, ToSet
  <2> HIDE DEF tall, formats
  <2> QED
    BY <2>1, <2>2, <2>4, TallestFound DEF muxed
<1>4. Reported' /\ Separate' = separate
  <2>1. listed' = listed /\ stored' = ToSet(Posted(listed)) /\ stage' # "fetching"
    BY <1>2
  <2> QED
    BY <2>1 DEF Reported, Separate
<1>5. stage # "fetching" => stored = S
  BY DEF IInvFormats, Reported
<1>6. muxed \in tall => muxed \in S /\ muxed \in Formats /\ muxed.type = "muxed"
  BY <1>1 DEF OfType, StoredFits
<1>7. \A f \in Formats : f.itag \in Sendable
  BY FormatTypes DEF Sendable
<1> HIDE DEF formats, S, tall, muxed
<1>0. stage = "fetching" => choice.by = "user"
  <2>1. stage = "fetching" => choice = NoChoice
    BY DEF IInvFormats, Reported
  <2>2. NoChoice.by = "user"
    BY DEF NoChoice
  <2> QED
    BY <2>1, <2>2
<1> HIDE DEF separate
<1>8. TypeOKFormats'
  <2>1. choice \in [mode : {"", "best", "video+audio", "video", "audio"},
                    video : Sendable, audio : Sendable, by : {"user", "auto", "error"}]
    BY <1>1 DEF TypeOKFormats
  <2>2. S \subseteq {Parsed(f) : f \in RawFormats}
    BY <1>1 DEF StoredFits, Formats
  <2>3. muxed.itag # "" => muxed.itag \in Sendable
    BY <1>3, <1>6, <1>7
  <2> QED
    BY <1>1, <1>2, <2>1, <2>2, <2>3 DEF TypeOKFormats
<1>9. CASE separate
  <2>1. stage' = "ready" /\ choice' = choice /\ stored' = S
    BY <1>2, <1>9
  <2>2. AutoAudioIsBest'
    <3>1. CASE stage = "fetching"
      <4>1. choice'.by = "user"
        BY <1>0, <2>1, <3>1
      <4> QED
        BY <4>1 DEF AutoAudioIsBest
    <3>2. CASE stage # "fetching"
      BY <1>5, <2>1, <3>2 DEF IInvFormats, AutoAudioIsBest, Audible
    <3> QED
      BY <3>1, <3>2
  <2> QED
    BY <1>4, <1>8, <1>9, <2>1, <2>2
    DEF IInvFormats, AskedIfSeparate, QueuedIsDownloadable, UnaskedIsTallest
<1>10. CASE ~separate
  <2>1. stage' = "queued" /\ stored' = S
    BY <1>2, <1>10
  <2>2. choice.by = "user"
    <3>1. CASE stage = "fetching"
      BY <1>0, <3>1
    <3>2. CASE stage # "fetching"
      <4>1. ~Separate
        BY <1>5, <1>10, <3>2 DEF Separate, separate
      <4> QED
        BY <4>1 DEF IInvFormats, AskedIfSeparate
    <3> QED
      BY <3>1, <3>2
  <2>3. choice'.by = "user"
    BY <1>1, <1>2, <1>10, <2>2 DEF TypeOKFormats
  <2>4. IF tall = {} THEN choice'.mode = "best"
        ELSE choice'.mode = "video" /\ choice'.video = muxed.itag
    BY <1>1, <1>2, <1>3, <1>10 DEF TypeOKFormats
  <2>5. AskedIfSeparate' /\ AutoAudioIsBest'
    BY <2>1, <2>3 DEF AskedIfSeparate, AutoAudioIsBest
  <2>6. QueuedIsDownloadable'
    <3>1. CASE tall = {}
      BY <2>4, <3>1 DEF QueuedIsDownloadable
    <3>2. CASE tall # {}
      <4>1. choice'.mode = "video" /\ Is(choice.video, {"video", "muxed"})'
        BY <1>3, <1>6, <2>1, <2>4, <3>2 DEF Is
      <4> QED
        BY <4>1 DEF QueuedIsDownloadable
    <3> QED
      BY <3>1, <3>2
  <2>7. UnaskedIsTallest'
    BY <1>3, <2>1, <2>4 DEF UnaskedIsTallest, tall
  <2> QED
    BY <1>4, <1>8, <2>5, <2>6, <2>7 DEF IInvFormats
<1> QED
  BY <1>9, <1>10

\* A choice that is queued, by its kind.
LEMMA ChosenKeeps ==
  ASSUME IInvFormats, stage = "ready",
         NEW mode \in {"video+audio", "video", "audio"},
         NEW video \in Sendable, NEW audio \in Sendable,
         NEW by \in {"user", "auto", "error"},
         Chosen(mode, video, audio, by),
         mode = "video" => Is(video, {"video", "muxed"}),
         mode = "audio" => Is(audio, {"audio"}),
         mode = "video+audio" =>
           /\ Is(video, {"video"})
           /\ \/ Is(audio, {"audio"})
              \/ audio = "" /\ by = "error"
              \/ audio = "" /\ by = "auto" /\ Audible = {},
         by = "auto" =>
           \A v \in stored : v.itag = video =>
             LET fitting == {f \in Audible : Compatible(v.ext, f.ext)}
                 best == Highest(IF fitting # {} THEN fitting ELSE Audible)
             IN  best # {} => \E f \in best : f.itag = audio
  PROVE  IInvFormats'
<1>1. /\ listed' = listed /\ stored' = stored /\ stage' = "queued"
      /\ choice' = [mode |-> mode, video |-> video, audio |-> audio, by |-> by]
  BY DEF Chosen
<1>2. TypeOKFormats'
  BY <1>1 DEF IInvFormats, TypeOKFormats
<1>3. Separate /\ stored = ToSet(Posted(listed))
  BY DEF IInvFormats, AskedIfSeparate, Reported
<1>4. Reported' /\ AskedIfSeparate' /\ UnaskedIsTallest'
  BY <1>1, <1>3 DEF Reported, AskedIfSeparate, UnaskedIsTallest, Separate
<1>5. QueuedIsDownloadable'
  <2>1. /\ Is(video, {"video", "muxed"})' = Is(video, {"video", "muxed"})
        /\ Is(video, {"video"})' = Is(video, {"video"})
        /\ Is(audio, {"audio"})' = Is(audio, {"audio"})
        /\ Audible' = Audible
    BY <1>1 DEF Is, Audible
  <2> QED
    BY <1>1, <2>1 DEF QueuedIsDownloadable
<1>6. AutoAudioIsBest'
  BY <1>1 DEF AutoAudioIsBest, Audible
<1> QED
  BY <1>2, <1>4, <1>5, <1>6 DEF IInvFormats

\* The mode "video+audio", with the user's audio or an automatic one.
LEMMA SelectBothKeeps ==
  ASSUME IInvFormats, NEW video \in Sendable, NEW audio \in Sendable,
         SelectBoth(video, audio)
  PROVE  IInvFormats'
<1>1. stage = "ready" /\ Is(video, {"video"})
  BY DEF SelectBoth
<1>2. StoredFits(stored)
  BY <1>1, ReportStored DEF IInvFormats, Reported
<1>3. PICK v \in stored : v.itag = video
  BY <1>1 DEF Is
<1>4. \A f \in stored : f.itag = video => f = v
  BY <1>2, <1>3 DEF StoredFits
<1>5. "" \in Sendable
  BY DEF Sendable
<1>6. ASSUME NEW l \in Listings, Chosen("video+audio", video, BestAudio(l, video), "auto")
      PROVE  IInvFormats'
  <2> DEFINE chosen == BestAudio(l, video)
             fitting == {f \in Audible : Compatible(v.ext, f.ext)}
             best == Highest(IF fitting # {} THEN fitting ELSE Audible)
  <2>1. IF Audible = {} THEN chosen = "" ELSE \E f \in best : f.itag = chosen
    BY <1>2, <1>3, BestAudioFound
  <2>2. best \subseteq Audible
    BY DEF Highest
  <2>3. \A f \in Audible : f \in stored /\ f.type = "audio"
    BY DEF Audible, OfType
  <2>4. \A f \in stored : f.itag \in Sendable
    BY <1>2, FormatTypes DEF StoredFits, Sendable
  <2>5. chosen \in Sendable
    BY <1>5, <2>1, <2>2, <2>3, <2>4
  <2>6. Is(chosen, {"audio"}) \/ (chosen = "" /\ Audible = {})
    BY <2>1, <2>2, <2>3 DEF Is
  <2>7. \A w \in stored : w.itag = video =>
          LET fit == {f \in Audible : Compatible(w.ext, f.ext)}
              top == Highest(IF fit # {} THEN fit ELSE Audible)
          IN  top # {} => \E f \in top : f.itag = chosen
    <3>1. best # {} => Audible # {}
      BY <2>2
    <3> QED
      BY <1>4, <2>1, <3>1
  <2> HIDE DEF chosen
  <2> QED
    BY <1>1, <1>6, <2>5, <2>6, <2>7, ChosenKeeps DEF chosen
<1>7. ASSUME Chosen("video+audio", video, "", "error")
      PROVE  IInvFormats'
  <2> DEFINE none == ""
  <2>1. none \in Sendable /\ none = ""
    BY <1>5
  <2>2. Chosen("video+audio", video, none, "error")
    BY <1>7
  <2> HIDE DEF none
  <2> QED
    BY <1>1, <2>1, <2>2, ChosenKeeps
<1>8. ASSUME Is(audio, {"audio"}), Chosen("video+audio", video, audio, "user")
      PROVE  IInvFormats'
  BY <1>1, <1>8, ChosenKeeps
<1> QED
  BY <1>6, <1>7, <1>8 DEF SelectBoth

\* Every report and selection keeps the invariant.
LEMMA NextFormatsKeeps == IInvFormats /\ [NextFormats]_formatVars => IInvFormats'
<1> SUFFICES ASSUME IInvFormats, [NextFormats]_formatVars
             PROVE  IInvFormats'
  OBVIOUS
<1>1. CASE Describe
  BY <1>1, DescribeKeeps
<1>2. ASSUME NEW video \in Sendable, NEW audio \in Sendable, SelectBoth(video, audio)
      PROVE  IInvFormats'
  BY <1>2, SelectBothKeeps
<1>3. ASSUME NEW video \in Sendable, NEW audio \in Sendable, SelectVideo(video, audio)
      PROVE  IInvFormats'
  BY <1>3, ChosenKeeps DEF SelectVideo
<1>4. ASSUME NEW video \in Sendable, NEW audio \in Sendable, SelectAudio(video, audio)
      PROVE  IInvFormats'
  BY <1>4, ChosenKeeps DEF SelectAudio
<1>5. CASE UNCHANGED formatVars
  BY <1>5 DEF formatVars, IInvFormats, TypeOKFormats, Reported, AskedIfSeparate, Separate,
              QueuedIsDownloadable, AutoAudioIsBest, UnaskedIsTallest, Audible, Is
<1> QED
  BY <1>1, <1>2, <1>3, <1>4, <1>5 DEF NextFormats

\* The inductive invariant holds whatever yt-dlp lists, however often a report
\* comes and whatever the forms say.
THEOREM FormatInvariance == SpecFormats => []IInvFormats
BY InitFormatsFits, NextFormatsKeeps, PTL DEF SpecFormats

\* FetchMetadata never reports an itag twice: SaveFormats cannot fail on its key.
THEOREM ReportsCanBeStored == SpecFormats => []ReportKeysUnique
<1>1. IInvFormats => ReportKeysUnique
  BY ReportFits DEF IInvFormats, ReportKeysUnique, KeysUnique
<1> QED
  BY <1>1, FormatInvariance, PTL

\* Whatever mode and itags handleFormatSelect accepts or handleWorkerJobMetadata
\* decides upon, the streams are stored ones of the right types.
THEOREM QueuedCanBeDownloaded == SpecFormats => []QueuedIsDownloadable
<1>1. IInvFormats => QueuedIsDownloadable
  BY DEF IInvFormats
<1> QED
  BY <1>1, FormatInvariance, PTL

\* bestAudioItag's two loops find the best audio stream, for any number of
\* formats in any order that GetFormats may return.
THEOREM AutoAudioIsTheBest == SpecFormats => []AutoAudioIsBest
<1>1. IInvFormats => AutoAudioIsBest
  BY DEF IInvFormats
<1> QED
  BY <1>1, FormatInvariance, PTL

\* The choice that handleWorkerJobMetadata makes without asking is the tallest
\* muxed format, if any height is known.
THEOREM UnaskedIsTheTallest == SpecFormats => []UnaskedIsTallest
<1>1. IInvFormats => UnaskedIsTallest
  BY DEF IInvFormats
<1> QED
  BY <1>1, FormatInvariance, PTL

=============================================================================
