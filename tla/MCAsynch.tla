------------------------------- MODULE MCAsynch ------------------------------
(* Three user tasks, the idle task and PostProc; a pool of two blocks with a *)
(* ceiling, or copies; a mutex where no task faults.                         *)
EXTENDS RKAsynch

CONSTANTS H, M, L, Idle, PP, m1, p1, x, y, wH, wM, wL

MCTask == {H, M, L, Idle, PP}
MCNominal == (PP :> 0) @@ (H :> 1) @@ (M :> 2) @@ (L :> 3) @@ (Idle :> 4)
MCPeers == [t \in MCTask |-> {}]
MCRank == m1 :> 1
MCPoolOf == (x :> p1) @@ (y :> p1)
MCCeiling == p1 :> 1
MCWaiters == (H :> wH) @@ (M :> wM) @@ (L :> wL)
SendTo(h, m, l) == (H :> h) @@ (M :> m) @@ (L :> l)
MCApp == {
  [peers |-> SendTo({L}, {L}, {}), copy |-> {}, filter |-> {L}, sched |-> {M},
   lock |-> {}, fault |-> {L}],
  [peers |-> SendTo({M}, {}, {M}), copy |-> {}, filter |-> {}, sched |-> {},
   lock |-> {}, fault |-> {M, L}],
  [peers |-> SendTo({M}, {L}, {}), copy |-> {}, filter |-> {}, sched |-> {},
   lock |-> {M, L}, fault |-> {}],
  [peers |-> SendTo({L}, {L}, {}), copy |-> {L}, filter |-> {L}, sched |-> {H, M},
   lock |-> {}, fault |-> {M, L}]}
Symmetry == Permutations({x, y})
==============================================================================
