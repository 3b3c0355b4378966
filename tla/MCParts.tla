------------------------------- MODULE MCParts -------------------------------
(***************************************************************************)
(* Small instances of the parts that share no state: the submission        *)
(* limiter, the admission of jobs, the upload throttle, a worker's         *)
(* directory and the choice of formats.  A behaviour is one of a single    *)
(* part, chosen at the start, while the others stay as they began: the     *)
(* instance is the sum of the parts', not their product.                   *)
(***************************************************************************)
EXTENDS RateLimiter, Admission, UploadThrottle, TempFiles, FormatChoice, TLC

CONSTANTS
  Parts,  \* the parts to be checked
  c1, c2, r1, r2, r3, u1, u2

VARIABLE part

partsVars ==
  <<part, limiterVars, admissionVars, throttleVars, filesVars, formatVars>>

\* Initial states that are given by a choice have a single one when idle.
InitParts ==
  /\ part \in Parts
  /\ InitLimiter /\ InitAdmission /\ InitThrottle /\ InitFiles /\ InitFormats
  /\ part # "throttle" => limit = Max(Limits)
  /\ part # "formats" => listed = <<>>

NextParts ==
  /\ \/ /\ part = "limiter"
        /\ NextLimiter
        /\ UNCHANGED <<admissionVars, throttleVars, filesVars, formatVars>>
     \/ /\ part = "admission"
        /\ NextAdmission
        /\ UNCHANGED <<limiterVars, throttleVars, filesVars, formatVars>>
     \/ /\ part = "throttle"
        /\ NextThrottle
        /\ UNCHANGED <<limiterVars, admissionVars, filesVars, formatVars>>
     \/ /\ part = "files"
        /\ NextFiles
        /\ UNCHANGED <<limiterVars, admissionVars, throttleVars, formatVars>>
     \/ /\ part = "formats"
        /\ NextFormats
        /\ UNCHANGED <<limiterVars, admissionVars, throttleVars, filesVars>>
  /\ UNCHANGED part

SpecParts == InitParts /\ [][NextParts]_partsVars

\* The fairness of UploadThrottle.
FairParts == SpecParts /\ WF_partsVars(part = "throttle" /\ ReadSome /\ NextParts)

TypeOKParts ==
  /\ part \in Parts
  /\ TypeOKLimiter /\ TypeOKAdmission /\ TypeOKThrottle /\ TypeOKFiles /\ TypeOKFormats

\* UploadEnds, claimed of the behaviours in which there is an upload.
ThrottledUploadEnds == part = "throttle" => UploadEnds

-----------------------------------------------------------------------------
(* Titles.  "p" is one file, "q" is made of two streams.  "[q]" is a       *)
(* pattern that matches the files of the title "q" and not its own.        *)

FileNames == <<"[q].mp4", "[q].mp4.part", "[q]_cut.mp4",
               "p.mp4", "p.mp4.part", "p_cut.mp4",
               "q.f137.mp4", "q.f137_cut.mp4", "q.f140.m4a", "q.mp4", "q_cut.mp4">>

AllPaths == {FileNames[i] : i \in DOMAIN FileNames}

PlaceOf == [p \in AllPaths |-> CHOOSE i \in DOMAIN FileNames : FileNames[i] = p]

OutputOf == [d \in Downloads |->
               CASE d = "p" -> "p.mp4" [] d = "q" -> "q.mp4" [] OTHER -> "[q].mp4"]

WorkFiles == [d \in Downloads |->
                CASE d = "p" -> {"p.mp4.part"}
                  [] d = "q" -> {"q.f137.mp4", "q.f140.m4a"}
                  [] OTHER -> {"[q].mp4.part"}]

\* ffmpeg does not know the type of a partial file's cut.
CutName == "[q].mp4" :> "[q]_cut.mp4" @@ "p.mp4" :> "p_cut.mp4"
             @@ "q.mp4" :> "q_cut.mp4" @@ "q.f137.mp4" :> "q.f137_cut.mp4"

MatchedBy == [d \in Downloads |->
                IF d = "p" THEN {"p.mp4", "p.mp4.part"}
                ELSE {"q.f137.mp4", "q.f137_cut.mp4", "q.f140.m4a", "q.mp4"}]

Twice == [d \in Downloads |-> 2]

-----------------------------------------------------------------------------
(* Formats: of every type and container, without a bitrate, a height, a    *)
(* note, codecs or an identifier, and some that share one.                 *)

Raw(id, codecs, height, rate, note, ext) ==
  [id |-> id, video |-> "video" \in codecs, audio |-> "audio" \in codecs,
   height |-> height, rate |-> rate, note |-> note, ext |-> ext]

ManyFormats ==
  {Raw("137", {"video"}, 2, 2, TRUE, "mp4"),
   Raw("137", {}, 0, 0, TRUE, "mp4"),
   Raw("248", {"video"}, 1, 0, FALSE, "webm"),
   Raw("140", {"audio"}, 0, 1, TRUE, "m4a"),
   Raw("140", {"audio"}, 0, 0, TRUE, "m4a"),
   Raw("251", {"audio"}, 0, 2, FALSE, "webm"),
   Raw("250", {"audio"}, 0, 1, FALSE, "opus"),
   Raw("18",  {"video", "audio"}, 1, 1, TRUE, "mp4"),
   Raw("http", {}, 2, 0, FALSE, "mp4"),
   Raw("hls", {"video", "audio"}, 0, 1, FALSE, "mp4"),
   Raw("", {"video", "audio"}, 2, 2, TRUE, "mp4")}

=============================================================================
