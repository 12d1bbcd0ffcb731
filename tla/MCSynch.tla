------------------------------- MODULE MCSynch -------------------------------
(* Three user tasks, the idle task, PostProc and a mutex; two clients and a  *)
(* server, or a chain of them.                                               *)
EXTENDS RKSynch

CONSTANTS H, M, L, Idle, PP, m1, sH, cH, aH, sM, cM, aM, sL, cL, aL

MCUser == {H, M, L}
MCTask == MCUser \cup {Idle, PP}
MCNominal == (PP :> 0) @@ (H :> 1) @@ (M :> 2) @@ (L :> 3) @@ (Idle :> 4)
MCRank == m1 :> 1
MCSenders == (H :> sH) @@ (M :> sM) @@ (L :> sL)
MCCallers == (H :> cH) @@ (M :> cM) @@ (L :> cL)
MCAcceptors == (H :> aH) @@ (M :> aM) @@ (L :> aL)
MCPeers == [t \in MCTask |-> IF t \in MCUser THEN {MCSenders[t], MCCallers[t]} ELSE {}]
Peers(h, m, l) == (H :> h) @@ (M :> m) @@ (L :> l)
MCApp == {
  [peers |-> Peers({L}, {L}, {}),  lock |-> {},     fault |-> {}],
  [peers |-> Peers({L}, {}, {}),   lock |-> {M, L}, fault |-> {}],
  [peers |-> Peers({M}, {L}, {}),  lock |-> {},     fault |-> {}],
  [peers |-> Peers({M}, {L}, {M}), lock |-> {},     fault |-> {}],
  [peers |-> Peers({}, {}, {H}),   lock |-> {},     fault |-> {}],
  [peers |-> Peers({L}, {L}, {}),  lock |-> {},     fault |-> {M, L}],
  [peers |-> Peers({M}, {L}, {}),  lock |-> {},     fault |-> {M, L}],
  [peers |-> Peers({L}, {}, {}),   lock |-> {M, L}, fault |-> {M, L}]}
==============================================================================
