------------------------------ MODULE MCTimeout ------------------------------
(* Four nodes and words of four bits: room for equal, first, middle and last *)
(* positions, and for the longest period next to the shortest.               *)
EXTENDS RKTimeout

CONSTANTS n1, n2, n3, n4

MCNode == {n1, n2, n3, n4}
==============================================================================
