---------------------------- MODULE RateLimiter ----------------------------
(***************************************************************************)
(* The fixed-window limiter of submissions.  Allow and the cleaning of     *)
(* slots hold the same mutex, so each is one step; requests come from      *)
(* whom and when they like.  The slots are in memory only: a restart of    *)
(* the controller forgets them.                                            *)
(*                                                                         *)
(* Time is relative: a slot holds the ticks left until its reset, negative *)
(* once that lies in the past.                                             *)
(***************************************************************************)
EXTENDS Integers

CONSTANTS
  Clients,    \* IP addresses
  RateLimit,  \* requests per window
  Window      \* the window, in ticks

\* A limit of 0 switches the limiter off: it keeps no state then.
ASSUME LimiterAssumption == RateLimit \in Nat \ {0} /\ Window \in Nat \ {0}

VARIABLES
  slots,    \* the slot of each client
  ages,     \* history: how long ago each client's latest requests were allowed
            \* by the controller as it now runs
  limited   \* history: the client the last step turned away, or none

limiterVars == <<slots, ages, limited>>

\* The latest request comes first.  An age beyond the window no longer grows,
\* and stands for a request that never was, too.
Latest == 1..2 * RateLimit
Ages == 0..Window + 1

\* No slot at all counts for as much as an expired one.
NoSlot == [count |-> 0, left |-> -1]

Over(slot) == slot.left < 0

\* Mutant: one more than the limit.
FullLate(slot) == ~Over(slot) /\ slot.count > RateLimit

Full(slot) == ~Over(slot) /\ slot.count >= RateLimit

InitLimiter ==
  /\ slots = [c \in Clients |-> NoSlot]
  /\ ages = [c \in Clients |-> [i \in Latest |-> Window + 1]]
  /\ limited = {}

Counts(c) ==
  /\ ages' = [ages EXCEPT ![c] =
                [i \in Latest |-> IF i = 1 THEN 0 ELSE ages[c][i - 1]]]
  /\ limited' = {}

\* Mutant: every request moves the end of the window.
AllowSliding(c) ==
  /\ ~Full(slots[c])
  /\ slots' = [slots EXCEPT ![c] =
                 [count |-> IF Over(@) THEN 1 ELSE @.count + 1, left |-> Window]]
  /\ Counts(c)

\* A window starts with the first request after the last one's end.
Allow(c) ==
  /\ ~Full(slots[c])
  /\ slots' = [slots EXCEPT ![c] =
                 IF Over(@) THEN [count |-> 1, left |-> Window]
                 ELSE [count |-> @.count + 1, left |-> @.left]]
  /\ Counts(c)

Refuse(c) ==
  /\ Full(slots[c])
  /\ limited' = {c}
  /\ UNCHANGED <<slots, ages>>

\* Mutant: every slot is removed, not only the expired ones.
CleanAllSlots ==
  /\ slots' = [c \in Clients |-> NoSlot]
  /\ limited' = {}
  /\ UNCHANGED ages

\* The cleaner's ticker.
CleanSlots ==
  /\ slots' = [c \in Clients |-> IF Over(slots[c]) THEN NoSlot ELSE slots[c]]
  /\ limited' = {}
  /\ UNCHANGED ages

\* The controller stops and starts again, with an empty map of slots.
LimiterRestarts ==
  /\ slots' = [c \in Clients |-> NoSlot]
  /\ ages' = [c \in Clients |-> [i \in Latest |-> Window + 1]]
  /\ limited' = {}

Tick ==
  /\ slots' = [c \in Clients |->
                 [slots[c] EXCEPT !.left = IF Over(slots[c]) THEN @ ELSE @ - 1]]
  /\ ages' = [c \in Clients |->
                [i \in Latest |-> IF ages[c][i] > Window THEN Window + 1
                                  ELSE ages[c][i] + 1]]
  /\ limited' = {}

NextLimiter ==
  \/ \E c \in Clients : Allow(c) \/ Refuse(c)
  \/ CleanSlots
  \/ LimiterRestarts
  \/ Tick

SpecLimiter == InitLimiter /\ [][NextLimiter]_limiterVars

-----------------------------------------------------------------------------
(* Properties. *)

TypeOKLimiter ==
  /\ slots \in [Clients -> [count : 0..RateLimit, left : -1..Window]]
  /\ ages \in [Clients -> [Latest -> Ages]]
  /\ limited \subseteq Clients

\* At least n requests were allowed within the last window's length, borders
\* included.
Lately(c, n) == ages[c][n] <= Window

\* The code counts from a client's first request, so "max URL submissions per IP
\* per minute" (README.md:47) holds of its own windows only.  Across the border
\* of two of them, and with slots cleaned at any moment, no stretch of a window's
\* length sees twice the limit, as long as the controller runs.  A restart
\* forgets the slots and lets as many through once more: what its clients got
\* before it is not counted.
WindowBound == \A c \in Clients : ~Lately(c, 2 * RateLimit)

\* Whoever is turned away did have that many requests allowed within the last
\* window, and since the last restart: no slot outlives its time or the process,
\* or counts somebody else's requests.
LimitedOnlyWhenFull == \A c \in limited : Lately(c, RateLimit)

=============================================================================
