------------------------------- MODULE MCMesgQ -------------------------------
(* Three user tasks, the idle task, PostProc, and a message queue that is a  *)
(* mailbox or has room for two.                                              *)
EXTENDS RKMesgQ

CONSTANTS H, M, L, Idle, PP, q1, snd, rcv, a, b

MCTask == {H, M, L, Idle, PP}
MCNominal == (PP :> 0) @@ (H :> 1) @@ (M :> 2) @@ (L :> 3) @@ (Idle :> 4)
MCRank == <<>>
MCPeers == [t \in MCTask |-> {}]
MCSenders == q1 :> snd
MCSymmetry == Permutations({a, b})
MCReceivers == q1 :> rcv
==============================================================================
