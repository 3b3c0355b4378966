---------------------------- MODULE PartsProofs ----------------------------
(***************************************************************************)
(* The types of the parts that share no state, side by side as MCParts     *)
(* checks them: each part's own theorem says it of the part, and the sum   *)
(* adds no behaviour to any of them.                                       *)
(***************************************************************************)
EXTENDS MCParts, LimitProofs, TempFilesProofs, FormatProofs

\* The sum adds no behaviour to any part: one of them moves, the others rest.
LEMMA SumOfParts ==
  SpecParts => /\ SpecLimiter /\ SpecAdmission /\ SpecThrottle
               /\ SpecFiles /\ SpecFormats
<1>1. InitParts => /\ InitLimiter /\ InitAdmission /\ InitThrottle
                   /\ InitFiles /\ InitFormats
  BY DEF InitParts
<1>2. [NextParts]_partsVars => /\ [NextLimiter]_limiterVars
                               /\ [NextAdmission]_admissionVars
                               /\ [NextThrottle]_throttleVars
                               /\ [NextFiles]_filesVars
                               /\ [NextFormats]_formatVars
  BY DEF NextParts, partsVars
<1> QED
  BY <1>1, <1>2, PTL
  DEF SpecParts, SpecLimiter, SpecAdmission, SpecThrottle, SpecFiles, SpecFormats

\* The rate limiter's slots, the counts of the caps, the throttle's bucket, the
\* worker's directory and the formats have their types, for any sizes of them.
THEOREM PartsTypeCorrect == SpecParts => []TypeOKParts
<1>1. InitParts => part \in Parts
  BY DEF InitParts
<1>2. part \in Parts /\ [NextParts]_partsVars => (part \in Parts)'
  BY DEF NextParts, partsVars
<1>3. /\ IInvLimiter => TypeOKLimiter
      /\ IInvAdmission => TypeOKAdmission
      /\ IInvThrottle => TypeOKThrottle
      /\ IInvFiles => TypeOKFiles
      /\ IInvFormats => TypeOKFormats
  BY DEF IInvLimiter, IInvAdmission, IInvThrottle, IInvFiles, IInvFormats
<1>4. (/\ part \in Parts
       /\ TypeOKLimiter /\ TypeOKAdmission /\ TypeOKThrottle
       /\ TypeOKFiles /\ TypeOKFormats) => TypeOKParts
  BY DEF TypeOKParts
<1> QED
  BY <1>1, <1>2, <1>3, <1>4, SumOfParts, LimiterInvariance, AdmissionInvariance,
     ThrottleInvariance, FilesInvariance, FormatInvariance, PTL
  DEF SpecParts

=============================================================================
