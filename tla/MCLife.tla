-------------------------------- MODULE MCLife -------------------------------
(* Three user tasks, the idle task, PostProc and two mutexes.  A and B are as *)
(* urgent as PostProc; B is spawned, C is not, and both may fault.            *)
EXTENDS RKLife

CONSTANTS A, B, C, Idle, PP, m1, m2

MCTask == {A, B, C, Idle, PP}
MCNominal == (PP :> 0) @@ (A :> 0) @@ (B :> 0) @@ (C :> 1) @@ (Idle :> 2)
MCPeers == [t \in MCTask |-> {}]
MCRank == (m1 :> 1) @@ (m2 :> 2)
==============================================================================
