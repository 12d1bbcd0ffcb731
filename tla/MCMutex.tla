------------------------------- MODULE MCMutex -------------------------------
(* Four user tasks, two of them equally urgent, the idle task and two mutexes: *)
(* room for a waiter to be boosted past another while it waits.  Runs about    *)
(* inversion take three user tasks of different urgency.                       *)
EXTENDS RKMutex

CONSTANTS A, B, C, D, H, M, L, Idle, m1, m2

MCTask == {A, B, C, D, Idle}
MCNominal == (A :> 0) @@ (B :> 1) @@ (C :> 2) @@ (D :> 2) @@ (Idle :> 3)
MCThree == {H, M, L, Idle}
MCThreeNominal == (H :> 0) @@ (M :> 1) @@ (L :> 2) @@ (Idle :> 3)
MCPeers == [t \in Task |-> {}]
MCRank == (m1 :> 1) @@ (m2 :> 2)
==============================================================================
