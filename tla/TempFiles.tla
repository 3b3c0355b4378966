----------------------------- MODULE TempFiles -----------------------------
(***************************************************************************)
(* One worker's temporary directory, shared by its downloads.  The output  *)
(* of a download is named after the title of the video and found again by  *)
(* a pattern made of the title, so what a goroutine finds depends on what  *)
(* the others, earlier attempts and an earlier life of the process have    *)
(* left there.                                                             *)
(*                                                                         *)
(* yt-dlp and ffmpeg are external: yt-dlp writes into working files, a     *)
(* partial one or one for each stream, makes the output of them by a       *)
(* rename, a merge or a conversion, deletes them one by one afterwards, is *)
(* content with an output that exists, and may fail at any point; ffmpeg   *)
(* writes a range of its input to another file, and may fail before it has *)
(* begun or half-way.  Both stop with the worker.                          *)
(*                                                                         *)
(* A download may be tried again once its failure is reported, which may   *)
(* be before the goroutine that reported it has removed its file; a job    *)
(* that is handed out twice is two downloads with the same names.          *)
(***************************************************************************)
EXTENDS Naturals

CONSTANTS
  Downloads,   \* the downloads of this worker
  Nobody,      \* whose bytes a name without a file holds
  Paths,       \* names a file may have
  NoPath,      \* no name
  Output,      \* what yt-dlp calls each download's finished file
  WorkOf,      \* what yt-dlp calls the files that it makes the output of
  CutOf,       \* what TrimFile calls the cut of a file that ffmpeg accepts
  Matched,     \* the names that match each download's pattern
  Place,       \* the place of every name in lexical order
  Trimmed,     \* the downloads of which only a part is wanted
  MaxAttempts  \* bound: attempts of each download

ASSUME PathAssumption ==
  /\ NoPath \notin Paths /\ Nobody \notin Downloads
  /\ Output \in [Downloads -> Paths] /\ WorkOf \in [Downloads -> SUBSET Paths]
  /\ \A d \in Downloads : Output[d] \notin WorkOf[d]
  /\ DOMAIN CutOf \subseteq Paths /\ \A p \in DOMAIN CutOf : CutOf[p] \in Paths \ {p}
  /\ Matched \in [Downloads -> SUBSET Paths]
  /\ Place \in [Paths -> Nat]
  /\ \A p, q \in Paths : Place[p] = Place[q] => p = q
  /\ Trimmed \subseteq Downloads /\ MaxAttempts \in [Downloads -> Nat]

VARIABLES
  dir,       \* the directory: what each name holds
  runs,      \* the goroutine of each download
  attempts,  \* how often each was started
  leaving,   \* what goroutines that are done otherwise will still remove
  torn,      \* history: downloads that stopped beside their working files
  uploaded   \* history: what was last uploaded, and how yt-dlp had ended

filesVars == <<dir, runs, attempts, leaving, torn, uploaded>>

\* A cut is of a whole file or not, and a piece until ffmpeg is done with it.
Content == [by : Downloads \cup {Nobody}, whole : BOOLEAN, cut : {"no", "piece", "yes"}]

NoContent == [by |-> Nobody, whole |-> FALSE, cut |-> "no"]

Exits == {"none", "ok", "error"}

Run == [pc : {"idle", "start", "write", "tidy", "find", "check",
              "trim", "cut", "swap", "upload"},
        exit : Exits,
        path : Paths \cup {NoPath}]

NoRun == [pc |-> "idle", exit |-> "none", path |-> NoPath]

InitFiles ==
  /\ dir = [p \in Paths |-> NoContent]
  /\ runs = [d \in Downloads |-> NoRun]
  /\ attempts = [d \in Downloads |-> 0]
  /\ leaving = [d \in Downloads |-> {}]
  /\ torn = {}
  /\ uploaded = [d \in Downloads |-> [content |-> NoContent, exit |-> "none"]]

Exists(p) == p \in Paths /\ dir[p].by # Nobody

\* os.Remove: a name without a file is no error.
Without(p) == [dir EXCEPT ![p] = NoContent]

Steps(d, from, to) ==
  /\ runs[d].pc = from
  /\ runs' = [runs EXCEPT ![d] = IF to = "idle" THEN NoRun ELSE [@ EXCEPT !.pc = to]]

Exit(d, exit) == runs' = [runs EXCEPT ![d] = [@ EXCEPT !.pc = "find", !.exit = exit]]

\* The goroutine is done but for the removal of its file.  The next attempt may
\* begin before that.
Leaves(d, from) ==
  /\ Steps(d, from, "idle")
  /\ leaving' = [leaving EXCEPT ![d] = @ \cup {runs[d].path}]

\* The files that a goroutine's child is writing to.
Writing(d) ==
  CASE runs[d].pc = "write" -> WorkOf[d]
    [] runs[d].pc = "cut"   -> {CutOf[runs[d].path]}
    [] OTHER                -> {}

Disturbed(d) == \E e \in Downloads \ {d} : Writing(e) \cap Writing(d) # {}

\* The output is there, and so are files that it was made of.
Torn(d) == runs[d].pc = "tidy" /\ \E p \in WorkOf[d] : Exists(p)

-----------------------------------------------------------------------------
(* Download: yt-dlp, then the search for its output. *)

StartDownload(d) ==
  /\ attempts[d] < MaxAttempts[d]
  /\ Steps(d, "idle", "start")
  /\ attempts' = [attempts EXCEPT ![d] = @ + 1]
  /\ UNCHANGED <<dir, leaving, torn, uploaded>>

YtdlpHasOutput(d) ==
  /\ runs[d].pc = "start"
  /\ Exists(Output[d])
  /\ Exit(d, "ok")
  /\ UNCHANGED <<dir, attempts, leaving, torn, uploaded>>

\* A working file is continued, whoever began it.
YtdlpWrites(d) ==
  /\ \/ runs[d].pc = "start" /\ ~Exists(Output[d])
     \/ runs[d].pc = "write"
  /\ runs' = [runs EXCEPT ![d].pc = "write"]
  /\ \E p \in WorkOf[d] : \E by \in {d, dir[p].by} \ {Nobody} :
       dir' = [dir EXCEPT ![p] = [NoContent EXCEPT !.by = by]]
  /\ UNCHANGED <<attempts, leaving, torn, uploaded>>

\* A rename takes the only working file away; a merge of several or a
\* conversion of one leaves them where they are.
YtdlpMakesOutput(d) ==
  /\ runs[d].pc = "write"
  /\ \A p \in WorkOf[d] : Exists(p)
  /\ \E p \in WorkOf[d], whole \in BOOLEAN :
       LET made == [dir[p] EXCEPT !.whole = whole] IN
       /\ Disturbed(d) \/ whole
       /\ \/ dir' = [dir EXCEPT ![Output[d]] = made]
          \/ WorkOf[d] = {p} /\ dir' = [Without(p) EXCEPT ![Output[d]] = made]
  /\ runs' = [runs EXCEPT ![d].pc = "tidy"]
  /\ UNCHANGED <<attempts, leaving, torn, uploaded>>

YtdlpTidies(d) ==
  /\ runs[d].pc = "tidy"
  /\ \E p \in WorkOf[d] : Exists(p) /\ dir' = Without(p)
  /\ UNCHANGED <<runs, attempts, leaving, torn, uploaded>>

YtdlpEnds(d) ==
  /\ runs[d].pc = "tidy" /\ ~Torn(d)
  /\ \E exit \in {"ok", "error"} : Exit(d, exit)
  /\ UNCHANGED <<dir, attempts, leaving, torn, uploaded>>

YtdlpFails(d) ==
  /\ runs[d].pc \in {"start", "write", "tidy"}
  /\ Exit(d, "error")
  /\ torn' = IF Torn(d) THEN torn \cup {d} ELSE torn
  /\ UNCHANGED <<dir, attempts, leaving, uploaded>>

\* filepath.Glob lists in lexical order; the first name is taken.
First(S) == {p \in S : \A q \in S : Place[p] <= Place[q]}

\* Mutant: anything in the directory will do.
FoundAnything(d) == First({p \in Paths : Exists(p)})

Found(d) == First({p \in Matched[d] : Exists(p)})

\* Whether yt-dlp failed or not: a file is taken for its output.
TakeOutput(d) ==
  /\ \E p \in Found(d) :
       runs' = [runs EXCEPT ![d] = [@ EXCEPT !.pc = "check", !.path = p]]
  /\ runs[d].pc = "find"
  /\ UNCHANGED <<dir, attempts, leaving, torn, uploaded>>

MissOutput(d) ==
  /\ Found(d) = {}
  /\ Steps(d, "find", "idle")
  /\ UNCHANGED <<dir, attempts, leaving, torn, uploaded>>

-----------------------------------------------------------------------------
(* downloadJob from there on. *)

DropCanceled(d) ==
  /\ Leaves(d, "check")
  /\ UNCHANGED <<dir, attempts, torn, uploaded>>

NotCanceled(d) ==
  /\ Steps(d, "check", IF d \in Trimmed THEN "trim" ELSE "upload")
  /\ UNCHANGED <<dir, attempts, leaving, torn, uploaded>>

CanCut(p) == p \in DOMAIN CutOf /\ Exists(p)

\* ffmpeg -y overwrites an earlier cut.
TrimStarts(d) ==
  LET p == runs[d].path IN
  /\ CanCut(p)
  /\ Steps(d, "trim", "cut")
  /\ dir' = [dir EXCEPT ![CutOf[p]] = [dir[p] EXCEPT !.cut = "piece"]]
  /\ UNCHANGED <<attempts, leaving, torn, uploaded>>

\* A cut that was removed meanwhile does not come back.
TrimEnds(d) ==
  LET cut == CutOf[runs[d].path] IN
  /\ Steps(d, "cut", "swap")
  /\ \/ ~Exists(cut) /\ UNCHANGED dir
     \/ /\ Exists(cut)
        /\ \E whole \in BOOLEAN :
             /\ Disturbed(d) \/ whole = dir[cut].whole
             /\ dir' = [dir EXCEPT ![cut] = [@ EXCEPT !.cut = "yes", !.whole = whole]]
  /\ UNCHANGED <<attempts, leaving, torn, uploaded>>

\* The cut takes the place of its input.
TrimSwaps(d) ==
  LET p == runs[d].path IN
  /\ runs[d].pc = "swap"
  /\ dir' = Without(p)
  /\ runs' = [runs EXCEPT ![d] = [@ EXCEPT !.pc = "upload", !.path = CutOf[p]]]
  /\ UNCHANGED <<attempts, leaving, torn, uploaded>>

\* Mutant: a failure half-way goes unseen.
TrimFailsUnseen(d) ==
  /\ Steps(d, "cut", "swap")
  /\ UNCHANGED <<dir, attempts, leaving, torn, uploaded>>

\* Reported first; then the input is removed, a piece of the cut is not.
TrimFails(d) ==
  /\ \E from \in {"trim", "cut"} : Leaves(d, from)
  /\ UNCHANGED <<dir, attempts, torn, uploaded>>

\* The controller may have got the file even if the worker does not learn it;
\* only after a success the file is removed.
UploadFile(d) ==
  LET p == runs[d].path IN
  /\ Exists(p)
  /\ \/ Leaves(d, "upload")
     \/ Steps(d, "upload", "idle") /\ UNCHANGED leaving
  /\ uploaded' = [uploaded EXCEPT ![d] = [content |-> dir[p], exit |-> runs[d].exit]]
  /\ UNCHANGED <<dir, attempts, torn>>

\* The file is gone, or the upload fails at once.
UploadFails(d) ==
  /\ Steps(d, "upload", "idle")
  /\ UNCHANGED <<dir, attempts, leaving, torn, uploaded>>

RemovesLate(d) ==
  /\ \E p \in leaving[d] :
       /\ dir' = Without(p)
       /\ leaving' = [leaving EXCEPT ![d] = @ \ {p}]
  /\ UNCHANGED <<runs, attempts, torn, uploaded>>

-----------------------------------------------------------------------------
\* The process stops; its directory is used again by the next one.
WorkerStops ==
  /\ runs' = [d \in Downloads |-> NoRun]
  /\ leaving' = [d \in Downloads |-> {}]
  /\ torn' = torn \cup {d \in Downloads : Torn(d)}
  /\ UNCHANGED <<dir, attempts, uploaded>>

Downloading(d) ==
  \/ StartDownload(d)
  \/ YtdlpHasOutput(d) \/ YtdlpWrites(d) \/ YtdlpFails(d)
  \/ YtdlpMakesOutput(d) \/ YtdlpTidies(d) \/ YtdlpEnds(d)
  \/ TakeOutput(d) \/ MissOutput(d)
  \/ DropCanceled(d) \/ NotCanceled(d)
  \/ TrimStarts(d) \/ TrimEnds(d) \/ TrimSwaps(d) \/ TrimFails(d)
  \/ UploadFile(d) \/ UploadFails(d)
  \/ RemovesLate(d)

NextFiles == WorkerStops \/ \E d \in Downloads : Downloading(d)

SpecFiles == InitFiles /\ [][NextFiles]_filesVars

-----------------------------------------------------------------------------
(* Properties. *)

TypeOKFiles ==
  /\ dir \in [Paths -> Content]
  /\ runs \in [Downloads -> Run]
  /\ \A d \in Downloads : attempts[d] \in 0..MaxAttempts[d]
  /\ leaving \in [Downloads -> SUBSET Paths]
  /\ torn \subseteq Downloads
  /\ uploaded \in [Downloads -> [content : Content, exit : Exits]]

\* Every name a download may read or write.
CutsOf(names) == {CutOf[p] : p \in names \cap DOMAIN CutOf}

Touched(d) ==
  LET names == Matched[d] \cup {Output[d]} \cup WorkOf[d] IN names \cup CutsOf(names)

\* Its title does not meet another's, by name or by pattern.
Apart(d) == \A e \in Downloads \ {d} : Touched(d) \cap Touched(e) = {}

\* A download whose title meets no other's uploads its own bytes only, although
\* the directory is shared and keeps what failed, canceled and crashed attempts
\* of all downloads left there.
OwnContent ==
  \A d \in Downloads : Apart(d) => uploaded[d].content.by \in {d, Nobody}

\* If besides yt-dlp succeeded and the pattern matches the output, the file is
\* whole, and cut if and only if that was asked for, whatever earlier attempts
\* left or are about to remove: working files, a whole output, an old cut or a
\* piece of one.  Two things are excepted, for they do go wrong: a download that
\* was stopped between making its output and deleting the streams (the next
\* attempt finds the output, but takes the stream that comes before it), and a
\* cut that is itself taken for an output (the cut of a stream of which an
\* earlier attempt failed to make one).
WholeAfterSuccess ==
  \A d \in Downloads :
    /\ Apart(d) /\ Output[d] \in Matched[d]
    /\ d \in Trimmed => CutsOf(Matched[d]) \cap (Matched[d] \cup WorkOf[d]) = {}
    /\ d \notin torn
    /\ uploaded[d].exit = "ok"
    => uploaded[d].content =
         [by |-> d, whole |-> TRUE, cut |-> IF d \in Trimmed THEN "yes" ELSE "no"]

\* "Find the output file (yt-dlp resolves %(ext)s)" (downloader.go:248): after a
\* success, the file that is found is the output of this download.
FindsOutput ==
  \A d \in Downloads :
    runs[d].pc = "find" /\ runs[d].exit = "ok" => Found(d) = {Output[d]}

=============================================================================
