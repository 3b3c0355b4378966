---------------------------- MODULE FormatChoice ----------------------------
(***************************************************************************)
(* Which streams a job ends up asking yt-dlp for: how FetchMetadata sorts  *)
(* the formats it is told of, what the controller makes of the list, and   *)
(* how the user's selection is checked and completed.                      *)
(*                                                                         *)
(* A format is reduced to what these steps look at.  rate is the bitrate   *)
(* of the format's own type, height 0 stands for an unknown one, note says *)
(* whether there is a format note.  A video offers the same list whenever  *)
(* it is asked, so a report that comes late stores the same formats again. *)
(***************************************************************************)
EXTENDS Naturals, SequencesExt

CONSTANTS
  RawFormats,  \* the formats yt-dlp may list
  MaxListed    \* bound: how many it lists

ASSUME RawAssumption ==
  /\ RawFormats \subseteq [id : STRING, video : BOOLEAN, audio : BOOLEAN,
                           height : Nat, rate : Nat, note : BOOLEAN, ext : STRING]
  /\ MaxListed \in Nat

VARIABLES
  listed,  \* what yt-dlp lists for the video
  stage,   \* "fetching", "ready" or "queued"
  stored,  \* the rows of job_formats
  choice   \* mode and itags; history: how the audio stream was chosen

formatVars == <<listed, stage, stored, choice>>

\* The audio stream is the user's or the automatic choice, or that failed.
NoChoice == [mode |-> "", video |-> "", audio |-> "", by |-> "user"]

InitFormats ==
  /\ listed \in BoundedSeq(RawFormats, MaxListed)
  /\ stage = "fetching"
  /\ stored = {}
  /\ choice = NoChoice

-----------------------------------------------------------------------------
(* FetchMetadata. *)

\* Without codecs, a resolution or a bitrate makes a format a muxed one.
TypeOf(f) ==
  CASE f.video /\ ~f.audio -> "video"
    [] f.audio /\ ~f.video -> "audio"
    [] f.video /\ f.audio  -> "muxed"
    [] OTHER -> IF f.height > 0 \/ f.rate > 0 THEN "muxed" ELSE "unknown"

\* What has neither bitrate nor quality is left out.
Usable(f) ==
  /\ TypeOf(f) # "unknown"
  /\ f.rate > 0 \/ f.note \/ f.height > 0

Parsed(f) == [itag |-> f.id, type |-> TypeOf(f), rate |-> f.rate,
              height |-> f.height, ext |-> f.ext]

\* Mutant: identifiers are not remembered.
TakeAll(acc, f) ==
  IF Usable(f) THEN [acc EXCEPT !.out = Append(@, Parsed(f))] ELSE acc

\* The first format of an identifier counts, even if it is then left out.
Take(acc, f) ==
  IF f.id = "" \/ f.id \in acc.seen THEN acc
  ELSE [seen |-> acc.seen \cup {f.id},
        out  |-> IF Usable(f) THEN Append(acc.out, Parsed(f)) ELSE acc.out]

Posted(list) ==
  LET taken[i \in 0..Len(list)] ==
        IF i = 0 THEN [seen |-> {}, out |-> <<>>] ELSE Take(taken[i - 1], list[i])
  IN  taken[Len(list)].out

-----------------------------------------------------------------------------
(* handleWorkerJobMetadata. *)

NoFormat == [itag |-> "", type |-> "", rate |-> 0, height |-> 0, ext |-> ""]

OfType(S, type) == {f \in S : f.type = type}

\* Mutant: whatever comes later replaces what was found.
BetterOrLater(values, best, i) == IF values[i] > 0 THEN i ELSE best

\* Every comparison is strict and starts from no format, of value 0.
Better(values, best, i) ==
  IF values[i] > (IF best = 0 THEN 0 ELSE values[best]) THEN i ELSE best

\* The loops for a best format: the place of the first greatest value, or 0.
FirstGreatest(values) ==
  LET best[i \in 0..Len(values)] ==
        IF i = 0 THEN 0 ELSE Better(values, best[i - 1], i)
  IN  best[Len(values)]

FormatAt(formats, i) == IF i = 0 THEN NoFormat ELSE formats[i]

Heights(formats) ==
  [i \in DOMAIN formats |-> IF formats[i].type = "muxed" THEN formats[i].height ELSE 0]

TallestMuxed(formats) == FormatAt(formats, FirstGreatest(Heights(formats)))

\* The picker for separate streams, else the tallest muxed one, else anything.
\* SaveFormats replaces all rows; what is not assigned keeps its value.
Describe ==
  LET formats == Posted(listed)
      muxed == TallestMuxed(formats) IN
  /\ stored' = ToSet(formats)
  /\ IF OfType(stored', "video") # {} /\ OfType(stored', "audio") # {}
     THEN stage' = "ready" /\ UNCHANGED choice
     ELSE /\ stage' = "queued"
          /\ choice' = IF muxed.itag # ""
                       THEN [choice EXCEPT !.mode = "video", !.video = muxed.itag]
                       ELSE [choice EXCEPT !.mode = "best"]
  /\ UNCHANGED listed

-----------------------------------------------------------------------------
(* handleFormatSelect. *)

\* GetFormats orders by bitrate; equal ones come in any order.
Listings == {l \in SetToSeqs(stored) : IsSorted(l, LAMBDA f, g : f.rate >= g.rate)}

Compatible(box, ext) ==
  CASE box = "mp4"  -> ext \in {"m4a", "mp4"}
    [] box = "webm" -> ext \in {"webm", "opus"}
    [] OTHER        -> TRUE

\* The bitrates of the audio formats for a container, any audio if that is "".
Rates(formats, box) ==
  [i \in DOMAIN formats |->
     IF formats[i].type = "audio" /\ Compatible(box, formats[i].ext)
     THEN formats[i].rate ELSE 0]

Loudest(formats, box) == FormatAt(formats, FirstGreatest(Rates(formats, box)))

ContainerOf(formats, itag) ==
  LET named == {i \in DOMAIN formats : formats[i].itag = itag}
  IN  IF named = {} THEN "" ELSE formats[Min(named)].ext

\* Mutant: the video's container is not looked at.
BestAudioOfAll(formats, video) == Loudest(formats, "").itag

BestAudio(formats, video) ==
  LET best == Loudest(formats, ContainerOf(formats, video))
  IN  IF best.itag # "" THEN best.itag ELSE Loudest(formats, "").itag

Is(itag, types) == \E f \in stored : f.itag = itag /\ f.type \in types

Chosen(mode, video, audio, by) ==
  /\ choice' = [mode |-> mode, video |-> video, audio |-> audio, by |-> by]
  /\ stage' = "queued"
  /\ UNCHANGED <<listed, stored>>

\* A mode only looks at its own itags and keeps what else the form sent.  If the
\* formats cannot be read again for the automatic choice, no audio is chosen.
SelectBoth(video, audio) ==
  /\ stage = "ready"
  /\ Is(video, {"video"})
  /\ \/ /\ audio = ""
        /\ \/ \E l \in Listings : Chosen("video+audio", video, BestAudio(l, video), "auto")
           \/ Chosen("video+audio", video, "", "error")
     \/ /\ Is(audio, {"audio"})
        /\ Chosen("video+audio", video, audio, "user")

SelectVideo(video, audio) ==
  /\ stage = "ready"
  /\ Is(video, {"video", "muxed"})
  /\ Chosen("video", video, audio, "user")

\* Mutant: the type of the itag is not looked at.
SelectAudioAny(video, audio) ==
  /\ stage = "ready"
  /\ Is(audio, {"video", "audio", "muxed"})
  /\ Chosen("audio", video, audio, "user")

SelectAudio(video, audio) ==
  /\ stage = "ready"
  /\ Is(audio, {"audio"})
  /\ Chosen("audio", video, audio, "user")

\* What a form may send: nothing, or any identifier.
Sendable == {""} \cup {f.id : f \in RawFormats}

NextFormats ==
  \/ Describe
  \/ \E video, audio \in Sendable :
       SelectBoth(video, audio) \/ SelectVideo(video, audio) \/ SelectAudio(video, audio)

SpecFormats == InitFormats /\ [][NextFormats]_formatVars

-----------------------------------------------------------------------------
(* Properties. *)

TypeOKFormats ==
  /\ listed \in BoundedSeq(RawFormats, MaxListed)
  /\ stage \in {"fetching", "ready", "queued"}
  /\ stored \subseteq {Parsed(f) : f \in RawFormats}
  /\ choice \in [mode : {"", "best", "video+audio", "video", "audio"},
                 video : Sendable, audio : Sendable, by : {"user", "auto", "error"}]

\* SaveFormats inserts under the key (job, itag) and fails on a second row of
\* one key, which would leave the job pending: whatever yt-dlp lists, no two
\* formats of the report share an itag and none is without.
ReportKeysUnique ==
  LET formats == Posted(listed) IN
  \A i, k \in DOMAIN formats :
    formats[i].itag # "" /\ (formats[i].itag = formats[k].itag => i = k)

Audible == {f \in OfType(stored, "audio") : f.rate > 0}

\* What is queued names stored streams of the right types, in every mode and
\* after any number of late reports.  Only the automatic choice of an audio
\* stream may come to nothing: if the formats could not be read again, or if no
\* stored one has a bitrate.
QueuedIsDownloadable ==
  stage = "queued" =>
    CASE choice.mode = "best" -> TRUE
      [] choice.mode = "video" -> Is(choice.video, {"video", "muxed"})
      [] choice.mode = "audio" -> Is(choice.audio, {"audio"})
      [] choice.mode = "video+audio" ->
           /\ Is(choice.video, {"video"})
           /\ \/ Is(choice.audio, {"audio"})
              \/ /\ choice.audio = ""
                 /\ \/ choice.by = "error"
                    \/ choice.by = "auto" /\ Audible = {}

Highest(S) == {f \in S : \A g \in S : g.rate <= f.rate}

\* The automatic choice is an audio stream of the highest bitrate among those
\* that fit the video's container, among all if none fits, however the database
\* orders equal ones.
AutoAudioIsBest ==
  choice.by = "auto" =>
    \A v \in {f \in stored : f.itag = choice.video} :
      LET fitting == {f \in Audible : Compatible(v.ext, f.ext)}
          best == Highest(IF fitting # {} THEN fitting ELSE Audible)
      IN  best # {} => \E f \in best : f.itag = choice.audio

\* A job is queued without asking the user only if there is no choice between
\* streams, and then with a muxed format that no other one exceeds in height.
UnaskedIsTallest ==
  stage = "queued" /\ (OfType(stored, "video") = {} \/ OfType(stored, "audio") = {}) =>
    LET tall == {f \in OfType(stored, "muxed") : f.height > 0} IN
    IF tall = {} THEN choice.mode = "best"
    ELSE /\ choice.mode = "video"
         /\ \E f \in tall : /\ f.itag = choice.video
                            /\ \A g \in tall : g.height <= f.height

=============================================================================
