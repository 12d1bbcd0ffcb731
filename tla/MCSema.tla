------------------------------- MODULE MCSema --------------------------------
(* Three user tasks and the idle task, a mutex with inheritance and a        *)
(* counting semaphore; and, for MCSemaStale.cfg, a fourth task and a binary  *)
(* semaphore on which every pend is for ever.                                *)
EXTENDS RKSema

CONSTANTS H, M, L, D, Idle, m1, s1

MCTask == {H, M, L, Idle}
MCNominal == (H :> 0) @@ (M :> 1) @@ (L :> 2) @@ (Idle :> 3)
MCPeers == [t \in MCTask |-> {}]
MCRank == m1 :> 1
MCMax == s1 :> 2
MCInit == s1 :> 1

StaleTask == MCTask \cup {D}
StaleNominal == (H :> 0) @@ (M :> 1) @@ (L :> 2) @@ (D :> 3) @@ (Idle :> 4)
StalePeers == [t \in StaleTask |-> {}]
StaleMax == s1 :> 1
StaleInit == s1 :> 0
==============================================================================
