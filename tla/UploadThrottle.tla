--------------------------- MODULE UploadThrottle ---------------------------
(***************************************************************************)
(* rateLimitedReader, through which the HTTP client reads a file that is   *)
(* uploaded under UPLOAD_LIMIT.  One reader serves one upload, and one     *)
(* goroutine calls it; what varies is the time that passes between reads,  *)
(* how many of the bytes it may read a call returns, and how long a sleep  *)
(* takes beyond what was asked for.                                        *)
(***************************************************************************)
EXTENDS Integers, FiniteSetsExt

CONSTANTS
  Limits,    \* the configured limits, in bytes per second
  Second,    \* ticks per second
  MinWait,   \* the shortest sleep, a millisecond, in ticks
  Size,      \* bytes of the file
  Buffer,    \* bytes of the caller's buffer
  MaxGap,    \* bound: ticks from one read to the next
  MaxClock   \* bound: ticks counted

ASSUME ThrottleAssumption ==
  /\ Limits \subseteq Nat \ {0}
  /\ Second \in Nat \ {0} /\ MinWait \in Nat \ {0}
  /\ Size \in Nat \ {0} /\ Buffer \in Nat \ {0}
  /\ MaxGap \in Nat /\ MaxClock \in Nat

VARIABLES
  limit,   \* bytesPerSec
  bucket,  \* bytes that may be read
  gap,     \* ticks since last
  sent,    \* history: bytes read
  clock    \* history: ticks since the upload began

throttleVars == <<limit, bucket, gap, sent, clock>>

InitThrottle ==
  /\ limit \in Limits
  /\ bucket = limit
  /\ gap = 0 /\ sent = 0 /\ clock = 0

\* The bucket never holds more than a second's bytes; fractions of a byte are
\* lost with every call.
Refilled == Min({bucket + (gap * limit) \div Second, limit})

\* An empty bucket is waited for.
Wait(owed) == Max({(owed * Second) \div limit, MinWait})

Grant == limit \div 10

Sent(n, left) ==
  /\ sent' = sent + n
  /\ bucket' = left - n
  /\ gap' = 0
  /\ UNCHANGED limit

\* Mutant: an empty bucket lets nothing through.
MayReadNothing(left) == 1..Min({left, Buffer, Size - sent})

\* A file returns at least a byte until its end; one byte is read at least.
MayRead(left) == 1..Min({Max({left, 1}), Buffer, Size - sent})

ReadAtOnce ==
  /\ Refilled > 0
  /\ \E n \in MayRead(Refilled) : Sent(n, Refilled)
  /\ UNCHANGED clock

\* Mutant: the bytes granted are added to a full second's worth.
ReadAfterWaitFull ==
  /\ Refilled <= 0
  /\ \E n \in MayRead(limit) : Sent(n, limit)
  /\ clock' = clock + Wait(-Refilled)

\* The sleep is followed by a fixed grant, whatever was owed.
ReadAfterWait ==
  /\ Refilled <= 0
  /\ \E n \in MayRead(Grant) : Sent(n, Grant)
  /\ clock' = clock + Wait(-Refilled)

ReadSome == sent < Size /\ (ReadAtOnce \/ ReadAfterWait)

\* Also the time by which a sleep lasts longer than asked.
TimePasses ==
  /\ sent < Size
  /\ gap < MaxGap /\ clock < MaxClock
  /\ gap' = gap + 1
  /\ clock' = clock + 1
  /\ UNCHANGED <<limit, bucket, sent>>

NextThrottle == ReadSome \/ TimePasses

SpecThrottle == InitThrottle /\ [][NextThrottle]_throttleVars

\* The client reads until the file's end or until the connection breaks, which
\* ends the reader too and is left out.
FairThrottle == SpecThrottle /\ WF_throttleVars(ReadSome)

-----------------------------------------------------------------------------
(* Properties. *)

TypeOKThrottle ==
  /\ limit \in Limits
  /\ bucket \in -1..limit
  /\ gap \in 0..MaxGap /\ sent \in 0..Size /\ clock \in Nat

\* A second's bytes at once, the configured rate from then on, and a tenth of a
\* second's bytes, though at least one, for every shortest wait that fits in.
Allowed(t) ==
  limit + (limit * t) \div Second + Max({Grant, 1}) * (t \div MinWait)

\* What the reader does guarantee.
BurstBound == sent <= Allowed(clock)

\* However small the limit and wherever rounding leaves the bucket, the upload
\* reaches the end of the file.
UploadEnds == <>(sent = Size)

\* The reader "limits throughput to bytesPerSec" (ratelimit.go:8): even with two
\* seconds' worth of slack, no more bytes than the limit allows for the time.
ThroughputLimited == sent <= 2 * limit + (limit * clock) \div Second

=============================================================================
