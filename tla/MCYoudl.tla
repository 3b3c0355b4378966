------------------------------- MODULE MCYoudl -------------------------------
(* Small instances of the whole system. *)
EXTENDS Youdl

CONSTANTS w1, w2, t1, t2, u1

OneJob == 1..1
OneSubmitter == [j \in {1} |-> u1]

\* A slot for every client, and for what outlives its client.
AllSlots == Workers \cup Tasks \cup Strays \cup {User}

\* Who the goroutines belong to.
OneTask == [t \in {t1} |-> w1]
OnePerWorker == [t \in {t1, t2} |-> IF t = t1 THEN w1 ELSE w2]
BothOnOne == [t \in {t1, t2} |-> w1]

=============================================================================
