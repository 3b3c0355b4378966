-------------------------- MODULE TempFilesProofs --------------------------
(***************************************************************************)
(* What a shared and never emptied directory does to a download whose      *)
(* title meets no other's, for any number of downloads, attempts and       *)
(* stops of the worker, any names, and removals that come late.            *)
(*                                                                         *)
(* Every goroutine stays within the names its download may touch, so the   *)
(* bytes under a download's own names are its own (Own).  Further, unless  *)
(* it was torn, working files and output exist together only while yt-dlp  *)
(* tidies up, and an output is whole, so that yt-dlp's success leaves at   *)
(* most one file to be found; and what was found stays as it is, or is     *)
(* removed, until it is uploaded (Orderly).                                *)
(***************************************************************************)
EXTENDS TempFiles, TLAPS

\* The names that may be taken for an output, and what may be cut of them.
Takable(d) == Matched[d] \cup CutsOf(Matched[d])

\* A goroutine works on a file that its pattern matched, or on the cut of one.
RunFits(d, r) ==
  /\ r.pc \in {"check", "trim", "cut", "swap"} => r.path \in Matched[d]
  /\ r.pc \in {"cut", "swap"} => r.path \in DOMAIN CutOf
  /\ r.pc = "upload" => r.path \in Takable(d)
  /\ r.pc \in {"trim", "cut", "swap"} => d \in Trimmed

PathsFit ==
  \A d \in Downloads : RunFits(d, runs[d]) /\ leaving[d] \subseteq Takable(d)

\* Its own names hold its own bytes only.
Own(d) ==
  /\ \A p \in Touched(d) : dir[p].by \in {d, Nobody}
  /\ uploaded[d].content.by \in {d, Nobody}

\* The conditions of WholeAfterSuccess on the names.
Clear(d) ==
  /\ Apart(d)
  /\ Output[d] \in Matched[d]
  /\ d \in Trimmed => CutsOf(Matched[d]) \cap (Matched[d] \cup WorkOf[d]) = {}

\* An output is whole and, but for yt-dlp's tidying, alone.
OutputAlone(d) ==
  /\ Exists(Output[d]) => dir[Output[d]].whole
  /\ Exists(Output[d]) /\ runs[d].pc # "tidy" => \A p \in WorkOf[d] : ~Exists(p)
  /\ \A p \in Matched[d] : Exists(p) => p \in WorkOf[d] \cup {Output[d]}
  /\ d \notin Trimmed => \A p \in Touched(d) : dir[p].cut = "no"

\* What a goroutine takes for its output after yt-dlp succeeded, as long as
\* nobody removes it.
OutputTaken(d) ==
  LET r == runs[d]
      c == CutOf[r.path]
  IN
  /\ r.pc = "write" => ~Exists(Output[d])
  /\ r.pc = "find" /\ r.exit = "ok" => \A p \in WorkOf[d] : ~Exists(p)
  /\ r.pc \in {"check", "trim", "cut", "swap"} /\ r.exit = "ok" => r.path = Output[d]
  /\ r.pc \in {"cut", "swap"} /\ r.exit = "ok" /\ Exists(c) => dir[c].whole
  /\ r.pc = "swap" /\ r.exit = "ok" /\ Exists(c) => dir[c].cut = "yes"
  /\ r.pc = "upload" /\ r.exit = "ok" =>
       IF d \in Trimmed
       THEN Exists(r.path) => dir[r.path].whole /\ dir[r.path].cut = "yes"
       ELSE r.path = Output[d]

UploadedWhole(d) ==
  uploaded[d].exit = "ok" =>
    uploaded[d].content =
      [by |-> d, whole |-> TRUE, cut |-> IF d \in Trimmed THEN "yes" ELSE "no"]

Orderly(d) ==
  d \notin torn => OutputAlone(d) /\ OutputTaken(d) /\ UploadedWhole(d)

IInvFiles ==
  /\ TypeOKFiles
  /\ PathsFit
  /\ \A d \in Downloads : Apart(d) => Own(d)
  /\ \A d \in Downloads : Clear(d) => Orderly(d)

-----------------------------------------------------------------------------
(* Names. *)

\* Everything a goroutine may name is touched by it, and is a name of a file.
LEMMA NamesTouched ==
  ASSUME NEW d \in Downloads
  PROVE  /\ Takable(d) \subseteq Touched(d)
         /\ \A p \in Matched[d] : p \in Takable(d)
         /\ WorkOf[d] \subseteq Touched(d) /\ Output[d] \in Touched(d)
         /\ Touched(d) \subseteq Paths
         /\ \A p \in Matched[d] : p \in DOMAIN CutOf =>
              CutOf[p] \in CutsOf(Matched[d]) /\ CutOf[p] \in Takable(d)
BY PathAssumption DEF Touched, CutsOf, Takable

\* Its children write to no other files.
LEMMA WritesTouched ==
  ASSUME PathsFit, NEW d \in Downloads
  PROVE  Writing(d) \subseteq Touched(d)
BY NamesTouched DEF PathsFit, RunFits, Writing

\* So nobody disturbs a download whose title meets no other's.
LEMMA ApartUndisturbed ==
  ASSUME PathsFit, NEW d \in Downloads, Apart(d)
  PROVE  ~Disturbed(d)
BY WritesTouched DEF Disturbed, Apart

\* A file that is there is of somebody.
LEMMA RemovalLeaves ==
  ASSUME TypeOKFiles, NEW p \in Paths
  PROVE  /\ Without(p) \in [Paths -> Content]
         /\ \A q \in Paths : q # p => Without(p)[q] = dir[q]
         /\ Without(p)[p] = NoContent
<1>1. dir \in [Paths -> Content] /\ NoContent \in Content
  BY DEF TypeOKFiles, NoContent, Content
<1> QED
  BY <1>1 DEF Without

\* What the steps of ffmpeg and yt-dlp make of a file.
LEMMA ContentsMade ==
  ASSUME NEW c \in Content, NEW b \in BOOLEAN
  PROVE  /\ [c EXCEPT !.whole = b] \in Content
         /\ [c EXCEPT !.whole = b].by = c.by
         /\ [c EXCEPT !.whole = b].whole = b
         /\ [c EXCEPT !.whole = b].cut = c.cut
         /\ [c EXCEPT !.cut = "piece"] \in Content
         /\ [c EXCEPT !.cut = "piece"].by = c.by
         /\ [c EXCEPT !.cut = "piece"].whole = c.whole
         /\ [c EXCEPT !.cut = "yes", !.whole = b] \in Content
         /\ [c EXCEPT !.cut = "yes", !.whole = b].by = c.by
         /\ [c EXCEPT !.cut = "yes", !.whole = b].whole = b
         /\ [c EXCEPT !.cut = "yes", !.whole = b].cut = "yes"
BY DEF Content

-----------------------------------------------------------------------------
(* The steps of a goroutine, by what they do to its record. *)

\* The ways in which a goroutine moves on.
LEMMA RunMoves ==
  ASSUME TypeOKFiles, NEW d \in Downloads
  PROVE  /\ runs[d] \in Run
         /\ \A from : \A to \in {"idle", "start", "trim", "cut", "swap", "upload"} :
              Steps(d, from, to) =>
                /\ runs[d].pc = from
                /\ runs'[d] \in Run /\ runs' = [runs EXCEPT ![d] = runs'[d]]
                /\ runs'[d].pc = to
                /\ to # "idle" => /\ runs'[d].path = runs[d].path
                                  /\ runs'[d].exit = runs[d].exit
         /\ \A exit \in Exits : Exit(d, exit) =>
              /\ runs'[d] \in Run /\ runs' = [runs EXCEPT ![d] = runs'[d]]
              /\ runs'[d].pc = "find" /\ runs'[d].exit = exit
         /\ \A pc \in {"write", "tidy"} :
              runs' = [runs EXCEPT ![d].pc = pc] =>
                /\ runs'[d] \in Run /\ runs' = [runs EXCEPT ![d] = runs'[d]]
                /\ runs'[d].pc = pc
         /\ \A p \in Paths, pc \in {"check", "upload"} :
              runs' = [runs EXCEPT ![d] = [@ EXCEPT !.pc = pc, !.path = p]] =>
                /\ runs'[d] \in Run /\ runs' = [runs EXCEPT ![d] = runs'[d]]
                /\ runs'[d].pc = pc /\ runs'[d].path = p
                /\ runs'[d].exit = runs[d].exit
<1>1. runs \in [Downloads -> Run] /\ runs[d] \in Run /\ NoRun \in Run
      /\ NoRun.pc = "idle"
  BY DEF TypeOKFiles, NoRun, Run, Exits
<1>2. \A r \in Run : runs' = [runs EXCEPT ![d] = r] =>
        runs'[d] = r /\ runs' = [runs EXCEPT ![d] = runs'[d]]
  BY <1>1
<1>3. ASSUME NEW from, NEW to \in {"idle", "start", "trim", "cut", "swap", "upload"},
             Steps(d, from, to)
      PROVE  /\ runs[d].pc = from
             /\ runs'[d] \in Run /\ runs' = [runs EXCEPT ![d] = runs'[d]]
             /\ runs'[d].pc = to
             /\ to # "idle" => /\ runs'[d].path = runs[d].path
                               /\ runs'[d].exit = runs[d].exit
  <2> DEFINE r == IF to = "idle" THEN NoRun ELSE [runs[d] EXCEPT !.pc = to]
  <2>1. /\ r \in Run /\ r.pc = to
        /\ to # "idle" => r.path = runs[d].path /\ r.exit = runs[d].exit
    BY <1>1 DEF Run
  <2>2. runs' = [runs EXCEPT ![d] = r] /\ runs[d].pc = from
    BY <1>3 DEF Steps
  <2> HIDE DEF r
  <2> QED
    BY <1>2, <2>1, <2>2
<1>4. ASSUME NEW exit \in Exits, Exit(d, exit)
      PROVE  /\ runs'[d] \in Run /\ runs' = [runs EXCEPT ![d] = runs'[d]]
             /\ runs'[d].pc = "find" /\ runs'[d].exit = exit
  <2> DEFINE r == [runs[d] EXCEPT !.pc = "find", !.exit = exit]
  <2>1. r \in Run /\ r.pc = "find" /\ r.exit = exit
    BY <1>1 DEF Run
  <2>2. runs' = [runs EXCEPT ![d] = r]
    BY <1>4 DEF Exit
  <2> HIDE DEF r
  <2> QED
    BY <1>2, <2>1, <2>2
<1>5. ASSUME NEW pc \in {"write", "tidy"}, runs' = [runs EXCEPT ![d].pc = pc]
      PROVE  /\ runs'[d] \in Run /\ runs' = [runs EXCEPT ![d] = runs'[d]]
             /\ runs'[d].pc = pc
  <2> DEFINE r == [runs[d] EXCEPT !.pc = pc]
  <2>1. r \in Run /\ r.pc = pc
    BY <1>1 DEF Run
  <2>2. runs' = [runs EXCEPT ![d] = r]
    BY <1>1, <1>5
  <2> HIDE DEF r
  <2> QED
    BY <1>2, <2>1, <2>2
<1>6. ASSUME NEW p \in Paths, NEW pc \in {"check", "upload"},
             runs' = [runs EXCEPT ![d] = [@ EXCEPT !.pc = pc, !.path = p]]
      PROVE  /\ runs'[d] \in Run /\ runs' = [runs EXCEPT ![d] = runs'[d]]
             /\ runs'[d].pc = pc /\ runs'[d].path = p
             /\ runs'[d].exit = runs[d].exit
  <2> DEFINE r == [runs[d] EXCEPT !.pc = pc, !.path = p]
  <2>1. r \in Run /\ r.pc = pc /\ r.path = p /\ r.exit = runs[d].exit
    BY <1>1 DEF Run
  <2>2. runs' = [runs EXCEPT ![d] = r]
    BY <1>6
  <2> HIDE DEF r
  <2> QED
    BY <1>2, <2>1, <2>2
<1> QED
  BY <1>1, <1>3, <1>4, <1>5, <1>6

\* What every step of a goroutine does to the rest: it changes files of its own
\* names only, and of the other records at most its own.
Within(d) ==
  /\ dir' \in [Paths -> Content]
  /\ \A p \in Paths \ Touched(d) : dir'[p] = dir[p]
  /\ runs'[d] \in Run /\ runs' = [runs EXCEPT ![d] = runs'[d]]
  /\ RunFits(d, runs'[d])
  /\ \E L \in SUBSET Takable(d) : leaving' = [leaving EXCEPT ![d] = L]
  /\ torn \subseteq torn' /\ torn' \subseteq torn \cup {d}
  /\ \E u \in [content : Content, exit : Exits] : uploaded' = [uploaded EXCEPT ![d] = u]

\* What a goroutine leaves alone, it has within its bounds.
LEMMA WithinTrivially ==
  ASSUME TypeOKFiles, PathsFit, NEW d \in Downloads
  PROVE  /\ UNCHANGED dir => /\ dir' \in [Paths -> Content]
                             /\ \A p \in Paths \ Touched(d) : dir'[p] = dir[p]
         /\ UNCHANGED runs => /\ runs'[d] \in Run /\ RunFits(d, runs'[d])
                              /\ runs' = [runs EXCEPT ![d] = runs'[d]]
         /\ UNCHANGED leaving =>
              \E L \in SUBSET Takable(d) : leaving' = [leaving EXCEPT ![d] = L]
         /\ UNCHANGED torn => torn \subseteq torn' /\ torn' \subseteq torn \cup {d}
         /\ UNCHANGED uploaded =>
              \E u \in [content : Content, exit : Exits] :
                uploaded' = [uploaded EXCEPT ![d] = u]
<1>1. /\ dir \in [Paths -> Content] /\ runs \in [Downloads -> Run]
      /\ leaving \in [Downloads -> SUBSET Paths]
      /\ uploaded \in [Downloads -> [content : Content, exit : Exits]]
  BY DEF TypeOKFiles
<1>2. RunFits(d, runs[d]) /\ leaving[d] \subseteq Takable(d)
  BY DEF PathsFit
<1>3. leaving = [leaving EXCEPT ![d] = leaving[d]]
      /\ runs = [runs EXCEPT ![d] = runs[d]]
      /\ uploaded = [uploaded EXCEPT ![d] = uploaded[d]]
  BY <1>1
<1>4. runs[d] \in Run /\ uploaded[d] \in [content : Content, exit : Exits]
  BY <1>1
<1>5. UNCHANGED runs => /\ runs'[d] \in Run /\ RunFits(d, runs'[d])
                        /\ runs' = [runs EXCEPT ![d] = runs'[d]]
  BY <1>2, <1>3, <1>4
<1>6. UNCHANGED leaving =>
        \E L \in SUBSET Takable(d) : leaving' = [leaving EXCEPT ![d] = L]
  BY <1>2, <1>3
<1>7. UNCHANGED uploaded =>
        \E u \in [content : Content, exit : Exits] :
          uploaded' = [uploaded EXCEPT ![d] = u]
  BY <1>3, <1>4
<1> QED
  BY <1>1, <1>5, <1>6, <1>7

\* A removal stays within the names that hold what is removed.
LEMMA RemovalWithin ==
  ASSUME TypeOKFiles, NEW d \in Downloads, NEW p \in Touched(d), dir' = Without(p)
  PROVE  /\ dir' \in [Paths -> Content]
         /\ \A q \in Paths \ Touched(d) : dir'[q] = dir[q]
BY NamesTouched, RemovalLeaves

\* Every step of a goroutine stays within its bounds.
LEMMA StaysWithin ==
  ASSUME TypeOKFiles, PathsFit, NEW d \in Downloads, Downloading(d)
  PROVE  Within(d)
<1>1. /\ Takable(d) \subseteq Touched(d) /\ Touched(d) \subseteq Paths
      /\ WorkOf[d] \subseteq Touched(d) /\ Output[d] \in Touched(d)
      /\ \A p \in Matched[d] : p \in Takable(d)
      /\ \A p \in Matched[d] : p \in DOMAIN CutOf => CutOf[p] \in Takable(d)
  BY NamesTouched
<1>2. /\ dir \in [Paths -> Content] /\ NoContent \in Content
      /\ leaving \in [Downloads -> SUBSET Paths]
      /\ RunFits(d, runs[d]) /\ leaving[d] \subseteq Takable(d)
      /\ runs[d] \in Run
  BY RunMoves DEF TypeOKFiles, PathsFit, NoContent, Content
<1>3. ASSUME NEW p \in Touched(d), NEW c \in Content, dir' = [dir EXCEPT ![p] = c]
      PROVE  /\ dir' \in [Paths -> Content]
             /\ \A q \in Paths \ Touched(d) : dir'[q] = dir[q]
  BY <1>1, <1>2, <1>3
<1>4. ASSUME NEW from \in {"check", "trim", "cut", "upload"}, Leaves(d, from)
      PROVE  /\ runs'[d] \in Run /\ runs' = [runs EXCEPT ![d] = runs'[d]]
             /\ RunFits(d, runs'[d])
             /\ \E L \in SUBSET Takable(d) : leaving' = [leaving EXCEPT ![d] = L]
  <2>1. Steps(d, from, "idle")
        /\ leaving' = [leaving EXCEPT ![d] = leaving[d] \cup {runs[d].path}]
    BY <1>2, <1>4 DEF Leaves
  <2>2. /\ runs'[d] \in Run /\ runs' = [runs EXCEPT ![d] = runs'[d]]
        /\ runs[d].pc = from /\ runs'[d].pc = "idle"
    BY <2>1, RunMoves
  <2>3. runs[d].path \in Takable(d)
    BY <1>1, <1>2, <2>2 DEF RunFits
  <2> QED
    BY <1>2, <2>1, <2>2, <2>3 DEF RunFits
<1>5. CASE StartDownload(d) \/ MissOutput(d) \/ NotCanceled(d) \/ UploadFails(d)
  <2>1. /\ UNCHANGED <<dir, leaving, torn, uploaded>>
        /\ \/ Steps(d, "idle", "start") \/ Steps(d, "find", "idle")
           \/ Steps(d, "upload", "idle")
           \/ Steps(d, "check", IF d \in Trimmed THEN "trim" ELSE "upload")
    BY <1>5 DEF StartDownload, MissOutput, NotCanceled, UploadFails
  <2>2. /\ runs'[d] \in Run /\ runs' = [runs EXCEPT ![d] = runs'[d]]
        /\ runs'[d].pc \in {"idle", "start", "trim", "upload"}
        /\ runs'[d].pc = "trim" => d \in Trimmed
        /\ runs'[d].pc \in {"trim", "upload"} =>
             runs[d].pc = "check" /\ runs'[d].path = runs[d].path
    BY <2>1, RunMoves
  <2>3. RunFits(d, runs'[d])
    BY <1>1, <1>2, <2>2 DEF RunFits
  <2> QED
    BY <2>1, <2>2, <2>3, WithinTrivially DEF Within
<1>6. CASE YtdlpHasOutput(d) \/ YtdlpEnds(d) \/ YtdlpFails(d)
  <2>1. /\ UNCHANGED <<dir, leaving, uploaded>>
        /\ \E exit \in Exits : Exit(d, exit)
        /\ torn \subseteq torn' /\ torn' \subseteq torn \cup {d}
    BY <1>6 DEF YtdlpHasOutput, YtdlpEnds, YtdlpFails, Exits
  <2>2. /\ runs'[d] \in Run /\ runs' = [runs EXCEPT ![d] = runs'[d]]
        /\ runs'[d].pc = "find"
    BY <2>1, RunMoves
  <2> QED
    BY <2>1, <2>2, WithinTrivially DEF Within, RunFits
<1>7. CASE YtdlpWrites(d)
  <2>1. PICK p \in WorkOf[d] : \E by \in {d, dir[p].by} \ {Nobody} :
          dir' = [dir EXCEPT ![p] = [NoContent EXCEPT !.by = by]]
    BY <1>7 DEF YtdlpWrites
  <2>2. PICK by \in {d, dir[p].by} \ {Nobody} :
          dir' = [dir EXCEPT ![p] = [NoContent EXCEPT !.by = by]]
    BY <2>1
  <2> DEFINE c == [NoContent EXCEPT !.by = by]
  <2>3. by \in Downloads
    BY <1>1, <1>2, <2>2 DEF Content
  <2>4. c \in Content /\ dir' = [dir EXCEPT ![p] = c]
    BY <2>2, <2>3 DEF NoContent, Content
  <2> HIDE DEF c
  <2>5. /\ dir' \in [Paths -> Content]
        /\ \A q \in Paths \ Touched(d) : dir'[q] = dir[q]
    BY <1>1, <1>3, <2>4
  <2>6. /\ runs'[d] \in Run /\ runs' = [runs EXCEPT ![d] = runs'[d]]
        /\ runs'[d].pc = "write" /\ UNCHANGED <<leaving, torn, uploaded>>
    BY <1>7, RunMoves DEF YtdlpWrites
  <2> QED
    BY <2>5, <2>6, WithinTrivially DEF Within, RunFits
<1>8. CASE YtdlpMakesOutput(d)
  <2>1. PICK p \in WorkOf[d], whole \in BOOLEAN :
          LET made == [dir[p] EXCEPT !.whole = whole] IN
          \/ dir' = [dir EXCEPT ![Output[d]] = made]
          \/ dir' = [Without(p) EXCEPT ![Output[d]] = made]
    BY <1>8 DEF YtdlpMakesOutput
  <2> DEFINE c == [dir[p] EXCEPT !.whole = whole]
  <2>2. c \in Content
    <3>1. dir[p] \in Content
      BY <1>1, <1>2
    <3> QED
      BY <3>1, ContentsMade
  <2>3. dir' = [dir EXCEPT ![Output[d]] = c] \/ dir' = [Without(p) EXCEPT ![Output[d]] = c]
    BY <2>1
  <2> HIDE DEF c
  <2>4. /\ Without(p) \in [Paths -> Content]
        /\ \A q \in Paths \ Touched(d) : Without(p)[q] = dir[q]
    BY <1>1, RemovalLeaves
  <2>5. /\ dir' \in [Paths -> Content]
        /\ \A q \in Paths \ Touched(d) : dir'[q] = dir[q]
    BY <1>1, <1>3, <2>2, <2>3, <2>4
  <2>6. /\ runs'[d] \in Run /\ runs' = [runs EXCEPT ![d] = runs'[d]]
        /\ runs'[d].pc = "tidy" /\ UNCHANGED <<leaving, torn, uploaded>>
    BY <1>8, RunMoves DEF YtdlpMakesOutput
  <2> QED
    BY <2>5, <2>6, WithinTrivially DEF Within, RunFits
<1>9. CASE YtdlpTidies(d)
  <2>1. PICK p \in WorkOf[d] : dir' = Without(p)
    BY <1>9 DEF YtdlpTidies
  <2>2. UNCHANGED <<runs, leaving, torn, uploaded>>
    BY <1>9 DEF YtdlpTidies
  <2> QED
    BY <1>1, <2>1, <2>2, RemovalWithin, WithinTrivially DEF Within
<1>10. CASE TakeOutput(d)
  <2>1. PICK p \in Found(d) :
          runs' = [runs EXCEPT ![d] = [@ EXCEPT !.pc = "check", !.path = p]]
    BY <1>10 DEF TakeOutput
  <2>2. p \in Matched[d] /\ p \in Paths
    BY <1>1, <2>1 DEF Found, First
  <2>3. /\ runs'[d] \in Run /\ runs' = [runs EXCEPT ![d] = runs'[d]]
        /\ runs'[d].pc = "check" /\ runs'[d].path = p
        /\ UNCHANGED <<dir, leaving, torn, uploaded>>
    BY <1>10, <2>1, <2>2, RunMoves DEF TakeOutput
  <2> QED
    BY <2>2, <2>3, WithinTrivially DEF Within, RunFits
<1>11. CASE DropCanceled(d) \/ TrimFails(d)
  <2>1. /\ \E from \in {"check", "trim", "cut", "upload"} : Leaves(d, from)
        /\ UNCHANGED <<dir, torn, uploaded>>
    BY <1>11 DEF DropCanceled, TrimFails
  <2> QED
    BY <1>4, <2>1, WithinTrivially DEF Within
<1>12. CASE TrimStarts(d)
  <2> DEFINE p == runs[d].path
             c == [dir[p] EXCEPT !.cut = "piece"]
  <2>1. /\ Steps(d, "trim", "cut") /\ p \in DOMAIN CutOf
        /\ dir' = [dir EXCEPT ![CutOf[p]] = c]
        /\ UNCHANGED <<leaving, torn, uploaded>>
    BY <1>12 DEF TrimStarts, CanCut
  <2>2. /\ runs'[d] \in Run /\ runs' = [runs EXCEPT ![d] = runs'[d]]
        /\ runs[d].pc = "trim" /\ runs'[d].pc = "cut" /\ runs'[d].path = p
    BY <2>1, RunMoves
  <2>3. p \in Matched[d] /\ d \in Trimmed
    BY <1>2, <2>2 DEF RunFits
  <2>4. CutOf[p] \in Touched(d) /\ c \in Content
    BY <1>1, <1>2, <2>1, <2>3, ContentsMade
  <2>5. RunFits(d, runs'[d])
    BY <2>1, <2>2, <2>3 DEF RunFits
  <2> HIDE DEF p, c
  <2> QED
    BY <1>3, <2>1, <2>2, <2>4, <2>5, WithinTrivially DEF Within
<1>13. CASE TrimEnds(d)
  <2> DEFINE p == runs[d].path
  <2>1. /\ Steps(d, "cut", "swap")
        /\ UNCHANGED <<leaving, torn, uploaded>>
        /\ \/ UNCHANGED dir
           \/ \E whole \in BOOLEAN :
                dir' = [dir EXCEPT ![CutOf[p]] = [@ EXCEPT !.cut = "yes", !.whole = whole]]
    BY <1>13 DEF TrimEnds
  <2>2. /\ runs'[d] \in Run /\ runs' = [runs EXCEPT ![d] = runs'[d]]
        /\ runs[d].pc = "cut" /\ runs'[d].pc = "swap" /\ runs'[d].path = p
    BY <2>1, RunMoves
  <2>3. p \in Matched[d] /\ p \in DOMAIN CutOf /\ d \in Trimmed
    BY <1>2, <2>2 DEF RunFits
  <2>4. CutOf[p] \in Touched(d) /\ dir[CutOf[p]] \in Content
    BY <1>1, <1>2, <2>3
  <2>5. RunFits(d, runs'[d])
    BY <2>2, <2>3 DEF RunFits
  <2>6. CASE UNCHANGED dir
    BY <2>1, <2>2, <2>5, <2>6, WithinTrivially DEF Within
  <2>7. ASSUME NEW whole \in BOOLEAN,
               dir' = [dir EXCEPT ![CutOf[p]] = [@ EXCEPT !.cut = "yes", !.whole = whole]]
        PROVE  Within(d)
    <3> DEFINE c == [dir[CutOf[p]] EXCEPT !.cut = "yes", !.whole = whole]
    <3>1. c \in Content /\ dir' = [dir EXCEPT ![CutOf[p]] = c]
      BY <2>4, <2>7, ContentsMade
    <3> HIDE DEF p, c
    <3> QED
      BY <1>3, <2>1, <2>2, <2>4, <2>5, <3>1, WithinTrivially DEF Within
  <2> QED
    BY <2>1, <2>6, <2>7
<1>14. CASE TrimSwaps(d)
  <2> DEFINE p == runs[d].path
  <2>1. /\ runs[d].pc = "swap" /\ dir' = Without(p)
        /\ runs' = [runs EXCEPT ![d] = [@ EXCEPT !.pc = "upload", !.path = CutOf[p]]]
        /\ UNCHANGED <<leaving, torn, uploaded>>
    BY <1>14 DEF TrimSwaps
  <2>2. p \in Touched(d) /\ CutOf[p] \in Takable(d) /\ CutOf[p] \in Paths
    BY <1>1, <1>2, <2>1 DEF RunFits
  <2>3. /\ runs'[d] \in Run /\ runs' = [runs EXCEPT ![d] = runs'[d]]
        /\ runs'[d].pc = "upload" /\ runs'[d].path = CutOf[p]
    BY <2>1, <2>2, RunMoves
  <2> HIDE DEF p
  <2> QED
    BY <2>1, <2>2, <2>3, RemovalWithin, WithinTrivially DEF Within, RunFits
<1>15. CASE UploadFile(d)
  <2> DEFINE u == [content |-> dir[runs[d].path], exit |-> runs[d].exit]
  <2>1. /\ UNCHANGED <<dir, torn>>
        /\ uploaded' = [uploaded EXCEPT ![d] = u]
        /\ Exists(runs[d].path)
        /\ \/ Leaves(d, "upload")
           \/ Steps(d, "upload", "idle") /\ UNCHANGED leaving
    BY <1>15, Zenon DEF UploadFile
  <2>2. u \in [content : Content, exit : Exits]
    BY <1>2, <2>1 DEF Exists, Run
  <2>3. /\ runs'[d] \in Run /\ runs' = [runs EXCEPT ![d] = runs'[d]]
        /\ RunFits(d, runs'[d])
        /\ \E L \in SUBSET Takable(d) : leaving' = [leaving EXCEPT ![d] = L]
    <3>1. CASE Leaves(d, "upload")
      BY <1>4, <3>1
    <3>2. CASE Steps(d, "upload", "idle") /\ UNCHANGED leaving
      <4>1. /\ runs'[d] \in Run /\ runs' = [runs EXCEPT ![d] = runs'[d]]
            /\ runs'[d].pc = "idle"
        BY <3>2, RunMoves
      <4> QED
        BY <3>2, <4>1, WithinTrivially DEF RunFits
    <3> QED
      BY <2>1, <3>1, <3>2
  <2> HIDE DEF u
  <2> QED
    BY <2>1, <2>2, <2>3, WithinTrivially DEF Within
<1>16. CASE RemovesLate(d)
  <2>1. PICK p \in leaving[d] : /\ dir' = Without(p)
                                /\ leaving' = [leaving EXCEPT ![d] = leaving[d] \ {p}]
    BY <1>2, <1>16 DEF RemovesLate
  <2>2. UNCHANGED <<runs, torn, uploaded>>
    BY <1>16 DEF RemovesLate
  <2>3. p \in Touched(d) /\ leaving[d] \ {p} \in SUBSET Takable(d)
    BY <1>1, <1>2
  <2>4. \E L \in SUBSET Takable(d) : leaving' = [leaving EXCEPT ![d] = L]
    BY <2>1, <2>3
  <2> QED
    BY <2>1, <2>2, <2>3, <2>4, RemovalWithin, WithinTrivially DEF Within
<1> QED
  BY <1>5, <1>6, <1>7, <1>8, <1>9, <1>10, <1>11, <1>12, <1>13, <1>14, <1>15, <1>16
  DEF Downloading

\* So types and paths are kept.
LEMMA FilesTyped ==
  ASSUME TypeOKFiles, PathsFit, NEW d \in Downloads, Downloading(d)
  PROVE  TypeOKFiles' /\ PathsFit'
<1>1. Within(d)
  BY StaysWithin
<1>2. \A e \in Downloads : attempts'[e] \in 0..MaxAttempts[e]
  <2>1. CASE StartDownload(d)
    BY <2>1, PathAssumption DEF StartDownload, TypeOKFiles
  <2>2. CASE UNCHANGED attempts
    BY <2>2 DEF TypeOKFiles
  <2> QED
    BY <2>1, <2>2
    DEF Downloading, YtdlpHasOutput, YtdlpWrites, YtdlpFails, YtdlpMakesOutput,
        YtdlpTidies, YtdlpEnds, TakeOutput, MissOutput, DropCanceled, NotCanceled,
        TrimStarts, TrimEnds, TrimSwaps, TrimFails, UploadFile, UploadFails, RemovesLate
<1>3. /\ runs \in [Downloads -> Run] /\ leaving \in [Downloads -> SUBSET Paths]
      /\ uploaded \in [Downloads -> [content : Content, exit : Exits]]
      /\ torn \subseteq Downloads
  BY DEF TypeOKFiles
<1>4. runs' \in [Downloads -> Run] /\ \A e \in Downloads \ {d} : runs'[e] = runs[e]
  BY <1>1, <1>3 DEF Within
<1>5. PICK L \in SUBSET Takable(d) : leaving' = [leaving EXCEPT ![d] = L]
  BY <1>1 DEF Within
<1>6. /\ leaving' \in [Downloads -> SUBSET Paths] /\ leaving'[d] = L
      /\ \A e \in Downloads \ {d} : leaving'[e] = leaving[e]
  BY <1>3, <1>5, NamesTouched
<1>7. PICK u \in [content : Content, exit : Exits] :
        uploaded' = [uploaded EXCEPT ![d] = u]
  BY <1>1 DEF Within
<1>8. uploaded' \in [Downloads -> [content : Content, exit : Exits]]
  BY <1>3, <1>7
<1>9. TypeOKFiles'
  BY <1>1, <1>2, <1>3, <1>4, <1>6, <1>8 DEF TypeOKFiles, Within
<1>10. ASSUME NEW e \in Downloads
       PROVE  RunFits(e, runs'[e]) /\ leaving'[e] \subseteq Takable(e)
  BY <1>1, <1>4, <1>5, <1>6, <1>10 DEF Within, PathsFit
<1> QED
  BY <1>9, <1>10 DEF PathsFit, RunFits, Takable

\* Who is not touched, is left as it was.
LEMMA Untouched ==
  ASSUME PathsFit, NEW d \in Downloads, runs'[d] = runs[d], uploaded'[d] = uploaded[d],
         torn \subseteq torn', \A p \in Touched(d) : dir'[p] = dir[p]
  PROVE  /\ Own(d) => Own(d)'
         /\ Orderly(d) => Orderly(d)'
<1>1. /\ \A p \in Matched[d] : p \in Touched(d)
      /\ \A p \in WorkOf[d] : p \in Touched(d)
      /\ \A p \in Takable(d) : p \in Touched(d)
      /\ \A p \in Matched[d] : p \in DOMAIN CutOf => CutOf[p] \in Touched(d)
      /\ Output[d] \in Touched(d)
  BY NamesTouched
<1>2. \A p \in Touched(d) : Exists(p)' <=> Exists(p)
  BY DEF Exists
<1>3. Own(d) => Own(d)'
  BY DEF Own
<1>4. OutputAlone(d) => OutputAlone(d)'
  BY <1>1, <1>2 DEF OutputAlone
<1>5. OutputTaken(d) => OutputTaken(d)'
  <2>1. runs[d].pc \in {"cut", "swap"} => CutOf[runs[d].path] \in Touched(d)
    BY <1>1 DEF PathsFit, RunFits
  <2>2. runs[d].pc = "upload" => runs[d].path \in Touched(d)
    BY <1>1 DEF PathsFit, RunFits
  <2> QED
    BY <1>1, <1>2, <2>1, <2>2 DEF OutputTaken
<1>6. UploadedWhole(d) => UploadedWhole(d)'
  BY DEF UploadedWhole
<1>7. d \notin torn' => d \notin torn
  OBVIOUS
<1> QED
  BY <1>3, <1>4, <1>5, <1>6, <1>7 DEF Orderly

-----------------------------------------------------------------------------
(* A download's own steps. *)

\* Its own files stay its own: what it continues or copies is one of them.
LEMMA KeepsOwn ==
  ASSUME TypeOKFiles, PathsFit, NEW d \in Downloads, Own(d), Downloading(d)
  PROVE  Own(d)'
<1>1. /\ \A p \in Matched[d] : p \in Touched(d)
      /\ \A p \in WorkOf[d] : p \in Touched(d)
      /\ \A p \in Takable(d) : p \in Touched(d)
      /\ \A p \in Touched(d) : p \in Paths
      /\ \A p \in Matched[d] : p \in DOMAIN CutOf => CutOf[p] \in Touched(d)
      /\ Output[d] \in Touched(d)
  BY NamesTouched
<1>2. /\ dir \in [Paths -> Content]
      /\ uploaded \in [Downloads -> [content : Content, exit : Exits]]
      /\ \A p \in Touched(d) : dir[p].by \in {d, Nobody}
      /\ uploaded[d].content.by \in {d, Nobody}
      /\ \A p \in Touched(d) : dir[p] \in Content
      /\ NoContent.by = Nobody
      /\ RunFits(d, runs[d]) /\ leaving[d] \subseteq Takable(d)
  BY <1>1 DEF TypeOKFiles, Own, NoContent, PathsFit
<1>3. ASSUME uploaded' = uploaded, \A p \in Touched(d) : dir'[p].by \in {d, Nobody}
      PROVE  Own(d)'
  BY <1>2, <1>3 DEF Own
<1>4. CASE UNCHANGED <<dir, uploaded>>
  BY <1>2, <1>3, <1>4
<1>5. ASSUME NEW p \in Touched(d), dir' = Without(p), uploaded' = uploaded
      PROVE  Own(d)'
  BY <1>1, <1>2, <1>3, <1>5 DEF Without
<1>6. ASSUME NEW p \in Touched(d), NEW c \in Content, c.by \in {d, Nobody},
             uploaded' = uploaded, dir' = [dir EXCEPT ![p] = c]
      PROVE  Own(d)'
  BY <1>1, <1>2, <1>3, <1>6
<1>7. CASE YtdlpWrites(d)
  <2>1. PICK p \in WorkOf[d] : \E by \in {d, dir[p].by} \ {Nobody} :
          dir' = [dir EXCEPT ![p] = [NoContent EXCEPT !.by = by]]
    BY <1>7 DEF YtdlpWrites
  <2>2. PICK by \in {d, dir[p].by} \ {Nobody} :
          dir' = [dir EXCEPT ![p] = [NoContent EXCEPT !.by = by]]
    BY <2>1
  <2> DEFINE c == [NoContent EXCEPT !.by = by]
  <2>3. /\ c \in Content /\ c.by = d
        /\ dir' = [dir EXCEPT ![p] = c] /\ uploaded' = uploaded
    BY <1>1, <1>2, <1>7, <2>2 DEF NoContent, Content, YtdlpWrites
  <2> HIDE DEF c
  <2> QED
    BY <1>1, <1>6, <2>3
<1>8. CASE YtdlpMakesOutput(d)
  <2>1. PICK p \in WorkOf[d], whole \in BOOLEAN :
          LET made == [dir[p] EXCEPT !.whole = whole] IN
          \/ dir' = [dir EXCEPT ![Output[d]] = made]
          \/ dir' = [Without(p) EXCEPT ![Output[d]] = made]
    BY <1>8 DEF YtdlpMakesOutput
  <2> DEFINE c == [dir[p] EXCEPT !.whole = whole]
  <2>2. c.by \in {d, Nobody}
    <3>1. dir[p] \in Content /\ dir[p].by \in {d, Nobody}
      BY <1>1, <1>2
    <3> QED
      BY <3>1 DEF Content
  <2>3. dir' = [dir EXCEPT ![Output[d]] = c] \/ dir' = [Without(p) EXCEPT ![Output[d]] = c]
    BY <2>1
  <2>4. uploaded' = uploaded
    BY <1>8 DEF YtdlpMakesOutput
  <2> HIDE DEF c
  <2>5. \A q \in Touched(d) : Without(p)[q].by \in {d, Nobody}
    BY <1>1, <1>2 DEF Without
  <2>6. \A q \in Touched(d) : dir'[q].by \in {d, Nobody}
    BY <1>1, <1>2, <2>2, <2>3, <2>5, RemovalLeaves
  <2> QED
    BY <1>3, <2>4, <2>6
<1>9. CASE YtdlpTidies(d)
  BY <1>1, <1>5, <1>9 DEF YtdlpTidies
<1>10. CASE TrimStarts(d)
  <2> DEFINE p == runs[d].path
             c == [dir[p] EXCEPT !.cut = "piece"]
  <2>1. /\ p \in Matched[d] /\ p \in DOMAIN CutOf
        /\ dir' = [dir EXCEPT ![CutOf[p]] = c] /\ uploaded' = uploaded
    BY <1>2, <1>10 DEF TrimStarts, CanCut, Steps, RunFits
  <2>2. c \in Content /\ c.by \in {d, Nobody}
    <3>1. p \in Touched(d) /\ dir[p] \in Content /\ dir[p].by \in {d, Nobody}
      BY <1>1, <1>2, <2>1
    <3> QED
      BY <3>1 DEF Content
  <2> HIDE DEF p, c
  <2> QED
    BY <1>1, <1>6, <2>1, <2>2
<1>11. CASE TrimEnds(d) /\ dir' # dir
  <2> DEFINE q == CutOf[runs[d].path]
  <2>1. PICK whole \in BOOLEAN :
          dir' = [dir EXCEPT ![q] = [@ EXCEPT !.cut = "yes", !.whole = whole]]
    BY <1>11 DEF TrimEnds
  <2>2. q \in Touched(d) /\ uploaded' = uploaded
    BY <1>1, <1>2, <1>11 DEF TrimEnds, Steps, RunFits
  <2> DEFINE c == [dir[q] EXCEPT !.cut = "yes", !.whole = whole]
  <2>3. c \in Content /\ c.by \in {d, Nobody}
    <3>1. dir[q] \in Content /\ dir[q].by \in {d, Nobody}
      BY <1>2, <2>2
    <3> QED
      BY <3>1 DEF Content
  <2>4. dir' = [dir EXCEPT ![q] = c]
    BY <2>1
  <2> HIDE DEF q, c
  <2> QED
    BY <1>6, <2>2, <2>3, <2>4
<1>12. CASE TrimSwaps(d)
  <2>1. runs[d].path \in Touched(d)
    BY <1>1, <1>2, <1>12 DEF TrimSwaps, RunFits
  <2> QED
    BY <1>5, <1>12, <2>1 DEF TrimSwaps
<1>13. CASE RemovesLate(d)
  BY <1>1, <1>2, <1>5, <1>13 DEF RemovesLate
<1>14. CASE UploadFile(d)
  <2> DEFINE u == [content |-> dir[runs[d].path], exit |-> runs[d].exit]
  <2>1. dir' = dir /\ uploaded' = [uploaded EXCEPT ![d] = u]
    BY <1>14, Zenon DEF UploadFile
  <2>2. runs[d].pc = "upload"
    BY <1>14 DEF UploadFile, Leaves, Steps
  <2>3. u.content.by \in {d, Nobody}
    BY <1>1, <1>2, <2>2 DEF RunFits
  <2> HIDE DEF u
  <2> QED
    BY <1>2, <2>1, <2>3 DEF Own
<1> QED
  BY <1>4, <1>7, <1>8, <1>9, <1>10, <1>11, <1>12, <1>13, <1>14
  DEF Downloading, StartDownload, YtdlpHasOutput, YtdlpFails, YtdlpEnds, TakeOutput,
      MissOutput, DropCanceled, NotCanceled, TrimEnds, TrimFails, UploadFails

\* The order in a download's files survives its own steps.
LEMMA KeepsOrder ==
  ASSUME TypeOKFiles, PathsFit, NEW d \in Downloads, Clear(d), Own(d), Orderly(d),
         Downloading(d)
  PROVE  Orderly(d)'
<1>1. /\ \A p \in Matched[d] : p \in Touched(d)
      /\ \A p \in WorkOf[d] : p \in Touched(d)
      /\ \A p \in Takable(d) : p \in Touched(d)
      /\ \A p \in Touched(d) : p \in Paths
      /\ Output[d] \in Touched(d) /\ Output[d] \in Matched[d]
      /\ Output[d] \notin WorkOf[d]
      /\ \A p \in Matched[d] : p \in DOMAIN CutOf => /\ CutOf[p] \in CutsOf(Matched[d])
                                                     /\ CutOf[p] \in Touched(d)
                                                     /\ CutOf[p] # p
      /\ d \in Trimmed =>
           \A p \in CutsOf(Matched[d]) : p \notin Matched[d] /\ p \notin WorkOf[d]
  BY NamesTouched, PathAssumption DEF Clear
<1>2. /\ dir \in [Paths -> Content]
      /\ uploaded \in [Downloads -> [content : Content, exit : Exits]]
      /\ NoContent.by = Nobody /\ NoContent.cut = "no" /\ d # Nobody
      /\ \A p \in Touched(d) : dir[p] \in Content /\ dir[p].by \in {d, Nobody}
      /\ RunFits(d, runs[d]) /\ leaving[d] \subseteq Takable(d)
  BY <1>1, PathAssumption DEF TypeOKFiles, Own, NoContent, PathsFit
<1>3. torn \subseteq torn' /\ ~Disturbed(d)
  BY StaysWithin, ApartUndisturbed DEF Within, Clear
<1> SUFFICES ASSUME d \notin torn'
             PROVE  OutputAlone(d)' /\ OutputTaken(d)' /\ UploadedWhole(d)'
  BY DEF Orderly
<1>4. OutputAlone(d) /\ OutputTaken(d) /\ UploadedWhole(d)
  BY <1>3 DEF Orderly
<1>5. UNCHANGED dir /\ (runs[d].pc = "tidy" => runs'[d].pc = "tidy" \/ ~Torn(d))
        => OutputAlone(d)'
  BY <1>4 DEF OutputAlone, Exists, Torn
<1>6. ASSUME NEW p \in Touched(d), dir' = Without(p),
             runs[d].pc = "tidy" => runs'[d].pc = "tidy"
      PROVE  OutputAlone(d)'
  BY <1>1, <1>2, <1>4, <1>6 DEF OutputAlone, Exists, Without
<1>7. ASSUME NEW p \in Touched(d), dir' = Without(p), UNCHANGED runs
      PROVE  OutputTaken(d)'
  <2>1. \A q \in Paths : Exists(q)' => Exists(q) /\ dir'[q] = dir[q]
    BY <1>1, <1>2, <1>7 DEF Exists, Without
  <2>2. \A q : Exists(q)' => q \in Paths
    BY DEF Exists
  <2>3. \A q : Exists(q)' => Exists(q) /\ dir'[q] = dir[q]
    BY <2>1, <2>2
  <2> QED
    BY <1>4, <1>7, <2>3 DEF OutputTaken
<1>8. UNCHANGED uploaded => UploadedWhole(d)'
  BY <1>4 DEF UploadedWhole
<1>9. runs'[d].pc \in {"idle", "start", "tidy"} => OutputTaken(d)'
  BY DEF OutputTaken
<1>10. \A from : Leaves(d, from) => runs[d].pc = from /\ runs'[d].pc = "idle"
  BY RunMoves DEF Leaves
<1>11. CASE StartDownload(d) \/ MissOutput(d) \/ UploadFails(d)
  <2>1. /\ runs[d].pc \in {"idle", "find", "upload"} /\ runs'[d].pc \in {"idle", "start"}
        /\ UNCHANGED <<dir, uploaded>>
    BY <1>11, RunMoves DEF StartDownload, MissOutput, UploadFails
  <2> QED
    BY <1>5, <1>8, <1>9, <2>1
<1>12. CASE DropCanceled(d) \/ TrimFails(d)
  <2>1. /\ runs[d].pc \in {"check", "trim", "cut"} /\ runs'[d].pc = "idle"
        /\ UNCHANGED <<dir, uploaded>>
    BY <1>10, <1>12 DEF DropCanceled, TrimFails
  <2> QED
    BY <1>5, <1>8, <1>9, <2>1
<1>13. CASE YtdlpHasOutput(d)
  <2>1. /\ runs[d].pc = "start" /\ runs'[d].pc = "find" /\ Exists(Output[d])
        /\ UNCHANGED <<dir, uploaded>>
    BY <1>13, RunMoves DEF YtdlpHasOutput, Exits
  <2>2. \A p \in WorkOf[d] : ~Exists(p)
    BY <1>4, <2>1 DEF OutputAlone
  <2>3. OutputTaken(d)'
    BY <2>1, <2>2 DEF OutputTaken, Exists
  <2> QED
    BY <1>5, <1>8, <2>1, <2>3
<1>14. CASE YtdlpEnds(d)
  <2>1. /\ runs[d].pc = "tidy" /\ runs'[d].pc = "find" /\ ~Torn(d)
        /\ UNCHANGED <<dir, uploaded>>
    BY <1>14, RunMoves DEF YtdlpEnds, Exits
  <2>2. OutputTaken(d)'
    BY <2>1 DEF OutputTaken, Exists, Torn
  <2> QED
    BY <1>5, <1>8, <2>1, <2>2
<1>15. CASE YtdlpFails(d)
  <2>1. /\ runs'[d].pc = "find" /\ runs'[d].exit = "error"
        /\ UNCHANGED <<dir, uploaded>> /\ ~Torn(d)
    BY <1>15, RunMoves DEF YtdlpFails, Exits
  <2>2. OutputTaken(d)'
    BY <2>1 DEF OutputTaken
  <2> QED
    BY <1>5, <1>8, <2>1, <2>2
<1>16. CASE YtdlpWrites(d)
  <2>1. ~Exists(Output[d]) /\ runs[d].pc \in {"start", "write"}
    BY <1>4, <1>16 DEF YtdlpWrites, OutputTaken
  <2>2. PICK p \in WorkOf[d] : \E by \in {d, dir[p].by} \ {Nobody} :
          dir' = [dir EXCEPT ![p] = [NoContent EXCEPT !.by = by]]
    BY <1>16 DEF YtdlpWrites
  <2>3. PICK by \in {d, dir[p].by} \ {Nobody} :
          dir' = [dir EXCEPT ![p] = [NoContent EXCEPT !.by = by]]
    BY <2>2
  <2> DEFINE c == [NoContent EXCEPT !.by = by]
  <2>4. c.cut = "no" /\ dir' = [dir EXCEPT ![p] = c]
    BY <2>3 DEF NoContent
  <2> HIDE DEF c
  <2>5. /\ \A q \in Touched(d) : q # p => dir'[q] = dir[q]
        /\ dir'[p].cut = "no"
    BY <1>1, <1>2, <2>4
  <2>6. OutputAlone(d)'
    BY <1>1, <1>4, <2>1, <2>5 DEF OutputAlone, Exists
  <2>7. runs'[d].pc = "write" /\ UNCHANGED uploaded
    BY <1>16, RunMoves DEF YtdlpWrites
  <2>8. OutputTaken(d)'
    BY <1>1, <2>1, <2>5, <2>7 DEF OutputTaken, Exists
  <2> QED
    BY <1>8, <2>6, <2>7, <2>8
<1>17. CASE YtdlpMakesOutput(d)
  <2>1. PICK p \in WorkOf[d], whole \in BOOLEAN :
          LET made == [dir[p] EXCEPT !.whole = whole] IN
          /\ Disturbed(d) \/ whole
          /\ \/ dir' = [dir EXCEPT ![Output[d]] = made]
             \/ WorkOf[d] = {p} /\ dir' = [Without(p) EXCEPT ![Output[d]] = made]
    BY <1>17 DEF YtdlpMakesOutput
  <2> DEFINE c == [dir[p] EXCEPT !.whole = whole]
  <2>2. c \in Content /\ c.whole /\ c.cut = dir[p].cut
    <3>1. dir[p] \in Content /\ whole = TRUE
      BY <1>1, <1>2, <1>3, <2>1
    <3> QED
      BY <3>1 DEF Content
  <2>3. \/ dir' = [dir EXCEPT ![Output[d]] = c]
        \/ dir' = [Without(p) EXCEPT ![Output[d]] = c]
    BY <2>1
  <2> HIDE DEF c
  <2>4. /\ dir'[Output[d]] = c
        /\ \A q \in Paths : q # Output[d] => dir'[q] = dir[q] \/ dir'[q] = NoContent
    BY <1>1, <1>2, <2>3 DEF Without
  <2>5. runs'[d].pc = "tidy" /\ UNCHANGED uploaded
    BY <1>17, RunMoves DEF YtdlpMakesOutput
  <2>6. \A q \in Touched(d) : q # Output[d] => /\ Exists(q)' => Exists(q)
                                               /\ dir'[q].cut \in {"no", dir[q].cut}
    BY <1>1, <1>2, <2>4 DEF Exists
  <2>7. d \notin Trimmed => \A q \in Touched(d) : dir'[q].cut = "no"
    BY <1>1, <1>4, <2>2, <2>4, <2>6 DEF OutputAlone
  <2>8. OutputAlone(d)'
    BY <1>1, <1>4, <2>2, <2>4, <2>5, <2>6, <2>7 DEF OutputAlone
  <2> QED
    BY <1>8, <1>9, <2>5, <2>8
<1>18. CASE YtdlpTidies(d)
  <2>1. PICK p \in WorkOf[d] : dir' = Without(p)
    BY <1>18 DEF YtdlpTidies
  <2>2. UNCHANGED <<runs, uploaded>>
    BY <1>18 DEF YtdlpTidies
  <2> QED
    BY <1>1, <1>6, <1>7, <1>8, <2>1, <2>2
<1>19. CASE TakeOutput(d)
  <2>1. PICK p \in Found(d) :
          runs' = [runs EXCEPT ![d] = [@ EXCEPT !.pc = "check", !.path = p]]
    BY <1>19 DEF TakeOutput
  <2>2. p \in Matched[d] /\ Exists(p)
    BY <2>1 DEF Found, First
  <2>3. /\ runs[d].pc = "find" /\ runs'[d].pc = "check"
        /\ runs'[d].exit = runs[d].exit /\ runs'[d].path = p
        /\ UNCHANGED <<dir, uploaded>>
    BY <1>1, <1>19, <2>1, <2>2, RunMoves DEF TakeOutput
  <2>4. runs[d].exit = "ok" => p = Output[d]
    BY <1>4, <2>2, <2>3 DEF OutputAlone, OutputTaken
  <2>5. OutputTaken(d)'
    BY <2>3, <2>4 DEF OutputTaken
  <2> QED
    BY <1>5, <1>8, <2>3, <2>5
<1>20. CASE NotCanceled(d)
  <2>1. /\ runs[d].pc = "check"
        /\ runs'[d].pc = IF d \in Trimmed THEN "trim" ELSE "upload"
        /\ runs'[d].path = runs[d].path /\ runs'[d].exit = runs[d].exit
        /\ UNCHANGED <<dir, uploaded>>
    <3>1. CASE d \in Trimmed
      <4>1. Steps(d, "check", "trim") /\ UNCHANGED <<dir, uploaded>>
        BY <1>20, <3>1 DEF NotCanceled
      <4>2. /\ runs[d].pc = "check" /\ runs'[d].pc = "trim"
            /\ runs'[d].path = runs[d].path /\ runs'[d].exit = runs[d].exit
        BY <4>1, RunMoves
      <4> QED
        BY <3>1, <4>1, <4>2
    <3>2. CASE d \notin Trimmed
      <4>1. Steps(d, "check", "upload") /\ UNCHANGED <<dir, uploaded>>
        BY <1>20, <3>2 DEF NotCanceled
      <4>2. /\ runs[d].pc = "check" /\ runs'[d].pc = "upload"
            /\ runs'[d].path = runs[d].path /\ runs'[d].exit = runs[d].exit
        BY <4>1, RunMoves
      <4> QED
        BY <3>2, <4>1, <4>2
    <3> QED
      BY <3>1, <3>2
  <2>2. OutputTaken(d)'
    BY <1>4, <2>1 DEF OutputTaken
  <2> QED
    BY <1>5, <1>8, <2>1, <2>2
<1>21. ASSUME NEW q \in CutsOf(Matched[d]), q \in Touched(d), d \in Trimmed, NEW c,
              dir' = [dir EXCEPT ![q] = c], runs[d].pc # "tidy"
       PROVE  OutputAlone(d)' /\ dir'[q] = c
  <2>1. q \notin Matched[d] /\ q \notin WorkOf[d] /\ q # Output[d]
    BY <1>1, <1>21
  <2>2. /\ dir'[q] = c /\ \A p \in Matched[d] : dir'[p] = dir[p]
        /\ \A p \in WorkOf[d] : dir'[p] = dir[p]
    BY <1>1, <1>2, <1>21, <2>1
  <2> QED
    BY <1>1, <1>4, <1>21, <2>2 DEF OutputAlone, Exists
<1>22. CASE TrimStarts(d)
  <2> DEFINE p == runs[d].path
             c == [dir[p] EXCEPT !.cut = "piece"]
  <2>1. /\ Steps(d, "trim", "cut") /\ p \in DOMAIN CutOf
        /\ dir' = [dir EXCEPT ![CutOf[p]] = c]
        /\ UNCHANGED uploaded /\ Exists(p)
    BY <1>22 DEF TrimStarts, CanCut
  <2>2. /\ runs[d].pc = "trim" /\ runs'[d].pc = "cut" /\ runs'[d].path = p
        /\ runs'[d].exit = runs[d].exit
    BY <2>1, RunMoves
  <2>3. p \in Matched[d] /\ d \in Trimmed
    BY <1>2, <2>2 DEF RunFits
  <2>4. c.whole = dir[p].whole
    <3>1. dir[p] \in Content
      BY <1>1, <1>2, <2>3
    <3> QED
      BY <3>1 DEF Content
  <2>5. runs[d].exit = "ok" => dir[p].whole
    BY <1>4, <2>1, <2>2 DEF OutputAlone, OutputTaken
  <2>6. runs[d].exit = "ok" => p = Output[d]
    BY <1>4, <2>2 DEF OutputTaken
  <2> HIDE DEF p, c
  <2>7. OutputAlone(d)' /\ dir'[CutOf[p]] = c
    BY <1>1, <1>21, <2>1, <2>2, <2>3
  <2>8. OutputTaken(d)'
    BY <2>2, <2>4, <2>5, <2>6, <2>7 DEF OutputTaken
  <2> QED
    BY <1>8, <2>1, <2>7, <2>8
<1>23. CASE TrimEnds(d)
  <2> DEFINE p == runs[d].path
             q == CutOf[p]
  <2>1. /\ Steps(d, "cut", "swap") /\ UNCHANGED uploaded
        /\ \/ ~Exists(q) /\ UNCHANGED dir
           \/ Exists(q) /\ dir' = [dir EXCEPT ![q] =
                                     [@ EXCEPT !.cut = "yes", !.whole = dir[q].whole]]
    BY <1>3, <1>23 DEF TrimEnds
  <2>2. /\ runs[d].pc = "cut" /\ runs'[d].pc = "swap" /\ runs'[d].path = p
        /\ runs'[d].exit = runs[d].exit
    BY <2>1, RunMoves
  <2>3. p \in Matched[d] /\ p \in DOMAIN CutOf /\ d \in Trimmed
    BY <1>2, <2>2 DEF RunFits
  <2>4. runs[d].exit = "ok" => p = Output[d] /\ (Exists(q) => dir[q].whole)
    BY <1>4, <2>2 DEF OutputTaken
  <2>5. CASE ~Exists(q) /\ UNCHANGED dir
    <3>1. OutputTaken(d)'
      BY <2>2, <2>4, <2>5 DEF OutputTaken, Exists
    <3> QED
      BY <1>5, <1>8, <2>1, <2>2, <2>5, <3>1
  <2>6. CASE Exists(q) /\ dir' = [dir EXCEPT ![q] =
                                    [@ EXCEPT !.cut = "yes", !.whole = dir[q].whole]]
    <3> DEFINE c == [dir[q] EXCEPT !.cut = "yes", !.whole = dir[q].whole]
    <3>1. c.cut = "yes" /\ c.whole = dir[q].whole
      <4>1. dir[q] \in Content
        BY <1>1, <1>2, <2>3
      <4> QED
        BY <4>1 DEF Content
    <3>2. dir' = [dir EXCEPT ![q] = c] /\ q \in Touched(d) /\ q \in CutsOf(Matched[d])
      BY <1>1, <2>3, <2>6
    <3>3. q = CutOf[runs'[d].path]
      BY <2>2
    <3> HIDE DEF p, q, c
    <3>4. OutputAlone(d)' /\ dir'[q] = c
      BY <1>21, <2>2, <2>3, <3>2
    <3>5. OutputTaken(d)'
      BY <2>2, <2>4, <2>6, <3>1, <3>3, <3>4 DEF OutputTaken
    <3> QED
      BY <1>8, <2>1, <3>4, <3>5
  <2> QED
    BY <2>1, <2>5, <2>6
<1>24. CASE TrimSwaps(d)
  <2> DEFINE p == runs[d].path
  <2>1. /\ runs[d].pc = "swap" /\ dir' = Without(p) /\ UNCHANGED uploaded
        /\ runs' = [runs EXCEPT ![d] = [@ EXCEPT !.pc = "upload", !.path = CutOf[p]]]
    BY <1>24 DEF TrimSwaps
  <2>2. p \in Matched[d] /\ p \in DOMAIN CutOf /\ d \in Trimmed
    BY <1>2, <2>1 DEF RunFits
  <2>3. /\ runs'[d].pc = "upload" /\ runs'[d].path = CutOf[p]
        /\ runs'[d].exit = runs[d].exit
    BY <1>1, <2>1, <2>2, RunMoves
  <2>4. runs[d].exit = "ok" /\ Exists(CutOf[p]) =>
          dir[CutOf[p]].whole /\ dir[CutOf[p]].cut = "yes"
    BY <1>4, <2>1 DEF OutputTaken
  <2> HIDE DEF p
  <2>5. dir'[CutOf[p]] = dir[CutOf[p]]
    BY <1>1, <1>2, <2>1, <2>2 DEF Without
  <2>6. OutputTaken(d)'
    BY <2>2, <2>3, <2>4, <2>5 DEF OutputTaken, Exists
  <2> QED
    BY <1>1, <1>6, <1>8, <2>1, <2>2, <2>6
<1>25. CASE UploadFile(d)
  <2> DEFINE p == runs[d].path
             u == [content |-> dir[p], exit |-> runs[d].exit]
  <2>1. /\ Exists(p) /\ UNCHANGED dir /\ uploaded' = [uploaded EXCEPT ![d] = u]
        /\ Leaves(d, "upload") \/ Steps(d, "upload", "idle")
    BY <1>25, Zenon DEF UploadFile
  <2>2. runs[d].pc = "upload" /\ runs'[d].pc = "idle"
    BY <1>10, <2>1, RunMoves
  <2>3. p \in Touched(d)
    BY <1>1, <1>2, <2>2 DEF RunFits
  <2>4. runs[d].exit = "ok" =>
          /\ dir[p].by = d /\ dir[p].whole = TRUE
          /\ dir[p].cut = IF d \in Trimmed THEN "yes" ELSE "no"
    BY <1>1, <1>2, <1>4, <2>1, <2>2, <2>3 DEF OutputAlone, OutputTaken, Exists, Content
  <2>5. runs[d].exit = "ok" =>
          dir[p] = [by |-> d, whole |-> TRUE,
                    cut |-> IF d \in Trimmed THEN "yes" ELSE "no"]
    BY <1>2, <2>3, <2>4 DEF Content
  <2>6. uploaded'[d].content = dir[p] /\ uploaded'[d].exit = runs[d].exit
    BY <1>2, <2>1
  <2>7. UploadedWhole(d)'
    BY <2>5, <2>6 DEF UploadedWhole
  <2> QED
    BY <1>5, <1>9, <2>1, <2>2, <2>7
<1>26. CASE RemovesLate(d)
  <2>1. PICK p \in leaving[d] : dir' = Without(p)
    BY <1>26 DEF RemovesLate
  <2>2. UNCHANGED <<runs, uploaded>>
    BY <1>26 DEF RemovesLate
  <2> QED
    BY <1>1, <1>2, <1>6, <1>7, <1>8, <2>1, <2>2
<1> QED
  BY <1>11, <1>12, <1>13, <1>14, <1>15, <1>16, <1>17, <1>18, <1>19, <1>20, <1>22, <1>23,
     <1>24, <1>25, <1>26
  DEF Downloading

-----------------------------------------------------------------------------
(* The invariant. *)

\* An empty directory satisfies the invariant.
LEMMA InitialFiles == InitFiles => IInvFiles
<1> SUFFICES ASSUME InitFiles PROVE IInvFiles
  OBVIOUS
<1>1. TypeOKFiles
  BY PathAssumption DEF InitFiles, TypeOKFiles, NoContent, Content, NoRun, Run, Exits
<1>2. \A d \in Downloads : /\ runs[d].pc = "idle" /\ uploaded[d].exit = "none"
                           /\ leaving[d] = {}
  BY DEF InitFiles, NoRun
<1>3. \A p \in Paths : dir[p].by = Nobody /\ dir[p].cut = "no"
  BY DEF InitFiles, NoContent
<1>4. ASSUME NEW d \in Downloads PROVE Own(d) /\ Orderly(d)
  <2>1. \A p \in Touched(d) : p \in Paths
    BY NamesTouched
  <2>2. Own(d)
    BY <1>3, <2>1 DEF Own, InitFiles, NoContent
  <2>3. Orderly(d)
    BY <1>2, <1>3, <2>1
    DEF Orderly, OutputAlone, OutputTaken, UploadedWhole, Exists
  <2> QED
    BY <2>2, <2>3
<1> QED
  BY <1>1, <1>2, <1>4 DEF IInvFiles, PathsFit, RunFits

\* A stop of the worker ends its goroutines; what it leaves is orderly unless
\* it left a download torn.
LEMMA StopKeeps ==
  ASSUME TypeOKFiles, PathsFit, WorkerStops
  PROVE  /\ TypeOKFiles' /\ PathsFit'
         /\ \A d \in Downloads : (Own(d) => Own(d)') /\ (Orderly(d) => Orderly(d)')
<1>1. /\ UNCHANGED <<dir, attempts, uploaded>> /\ runs' = [d \in Downloads |-> NoRun]
      /\ leaving' = [d \in Downloads |-> {}]
      /\ torn' = torn \cup {d \in Downloads : Torn(d)}
  BY DEF WorkerStops
<1>2. TypeOKFiles' /\ PathsFit'
  BY <1>1 DEF TypeOKFiles, PathsFit, RunFits, NoRun, Run, Exits
<1>3. ASSUME NEW d \in Downloads PROVE Own(d) => Own(d)'
  BY <1>1 DEF Own
<1>4. ASSUME NEW d \in Downloads, Orderly(d), d \notin torn'
      PROVE  OutputAlone(d)' /\ OutputTaken(d)' /\ UploadedWhole(d)'
  <2>1. d \notin torn /\ ~Torn(d) /\ runs'[d].pc = "idle"
    BY <1>1, <1>4 DEF NoRun
  <2>2. OutputAlone(d) /\ UploadedWhole(d)
    BY <1>4, <2>1 DEF Orderly
  <2>3. OutputAlone(d)'
    BY <1>1, <2>1, <2>2 DEF OutputAlone, Exists, Torn
  <2> QED
    BY <1>1, <2>1, <2>2, <2>3 DEF OutputTaken, UploadedWhole
<1> QED
  BY <1>2, <1>3, <1>4 DEF Orderly

\* What others do stays among their names, what the download does keeps its own.
LEMMA NextKeepsFiles == IInvFiles /\ [NextFiles]_filesVars => IInvFiles'
<1> SUFFICES ASSUME IInvFiles, [NextFiles]_filesVars PROVE IInvFiles'
  OBVIOUS
<1>1. TypeOKFiles /\ PathsFit
  BY DEF IInvFiles
<1>2. CASE UNCHANGED filesVars
  <2>1. UNCHANGED <<dir, runs, attempts, leaving, torn, uploaded>>
    BY <1>2 DEF filesVars
  <2>2. TypeOKFiles' /\ PathsFit'
    BY <1>1, <2>1 DEF TypeOKFiles, PathsFit, RunFits
  <2>3. ASSUME NEW d \in Downloads
        PROVE  (Own(d) => Own(d)') /\ (Orderly(d) => Orderly(d)')
    BY <1>1, <2>1, Untouched
  <2>4. \A d \in Downloads : (Apart(d) => Own(d)') /\ (Clear(d) => Orderly(d)')
    BY <2>3 DEF IInvFiles
  <2> QED
    BY <2>2, <2>4 DEF IInvFiles, Apart, Clear
<1>3. CASE WorkerStops
  <2>1. \A d \in Downloads : (Apart(d) => Own(d)') /\ (Clear(d) => Orderly(d)')
    BY <1>1, <1>3, StopKeeps DEF IInvFiles
  <2> QED
    BY <1>1, <1>3, <2>1, StopKeeps DEF IInvFiles, Apart, Clear
<1>4. ASSUME NEW d \in Downloads, Downloading(d) PROVE IInvFiles'
  <2>1. TypeOKFiles' /\ PathsFit'
    BY <1>1, <1>4, FilesTyped
  <2>2. ASSUME NEW e \in Downloads, Apart(e)
        PROVE  Own(e)' /\ (Clear(e) => Orderly(e)')
    <3>1. Own(e) /\ (Clear(e) => Orderly(e))
      BY <2>2 DEF IInvFiles
    <3>2. CASE e = d
      BY <1>1, <1>4, <3>1, <3>2, KeepsOwn, KeepsOrder
    <3>3. CASE e # d
      <4>1. Within(d)
        BY <1>1, <1>4, StaysWithin
      <4>2. runs'[e] = runs[e] /\ uploaded'[e] = uploaded[e] /\ torn \subseteq torn'
        BY <1>1, <3>3, <4>1 DEF Within, TypeOKFiles
      <4>3. \A p \in Touched(e) : p \in Paths /\ p \notin Touched(d)
        BY <2>2, <3>3, NamesTouched DEF Apart
      <4>4. \A p \in Touched(e) : dir'[p] = dir[p]
        BY <4>1, <4>3 DEF Within
      <4> QED
        BY <1>1, <3>1, <4>2, <4>4, Untouched
    <3> QED
      BY <3>2, <3>3
  <2>3. \A e \in Downloads : (Apart(e) => Own(e)') /\ (Clear(e) => Orderly(e)')
    BY <2>2 DEF Clear
  <2> QED
    BY <2>1, <2>3 DEF IInvFiles, Apart, Clear
<1> QED
  BY <1>2, <1>3, <1>4 DEF NextFiles

\* The inductive invariant holds in every state of a worker's directory.
THEOREM FilesInvariance == SpecFiles => []IInvFiles
<1>1. InitFiles => IInvFiles
  BY InitialFiles
<1>2. IInvFiles /\ [NextFiles]_filesVars => IInvFiles'
  BY NextKeepsFiles
<1> QED
  BY <1>1, <1>2, PTL DEF SpecFiles

\* A download whose title meets no other's uploads no other's bytes
\* (findOutput and TrimFile in downloader.go), however many goroutines share
\* the directory and whatever earlier ones left there.
THEOREM UploadsOwnContent == SpecFiles => []OwnContent
<1>1. IInvFiles => OwnContent
  BY DEF IInvFiles, Own, OwnContent
<1> QED
  BY <1>1, FilesInvariance, PTL

\* If yt-dlp succeeded as well, and never stopped between making an output of
\* its working files and deleting them, the file is whole, and cut exactly if a
\* part of it was asked for, whenever ffmpeg fails, the worker stops, or an
\* earlier goroutine's os.Remove comes (downloader.go:234-307, worker.go:183-214).
THEOREM UploadsWhole == SpecFiles => []WholeAfterSuccess
<1>1. IInvFiles => WholeAfterSuccess
  BY DEF IInvFiles, Clear, Orderly, UploadedWhole, WholeAfterSuccess
<1> QED
  BY <1>1, FilesInvariance, PTL

=============================================================================
