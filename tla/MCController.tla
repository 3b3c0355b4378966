---------------------------- MODULE MCController ----------------------------
(* Small instances of the controller, serving arbitrary clients. *)
EXTENDS Controller, TLC

CONSTANTS w1, w2, n1, n2, u1, s1, s2

OneJob == 1..1
OneSubmitter == [j \in {1} |-> u1]

\* Slots are only compared for equality, and no liveness is checked here.
Symmetry == Permutations(Slots)

=============================================================================
