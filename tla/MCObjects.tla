----------------------------- MODULE MCObjects -----------------------------
(* Two privileged tasks and one that is not share MRMs in one slot.         *)
EXTENDS RKObjects, TLC

CONSTANTS P, Q, A, s1, b1, b2, b3, v1, v2

MCTask == {P, Q, A}
Symmetry == Permutations({b1, b2, b3}) \cup Permutations({P, Q})
=============================================================================
