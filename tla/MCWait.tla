------------------------------- MODULE MCWait --------------------------------
(* Three user tasks, the idle task, PostProc, a mutex, a condition variable  *)
(* of that mutex and a sleep queue; one task waits for events.               *)
EXTENDS RKWait

CONSTANTS H, M, L, Idle, PP, m1, cv, sq

MCUser == {H, M, L}
MCTask == MCUser \cup {Idle, PP}
MCNominal == (PP :> 0) @@ (H :> 1) @@ (M :> 2) @@ (L :> 3) @@ (Idle :> 4)
MCRank == m1 :> 1
MCPeers == [t \in MCTask |-> {}]
MCApp == {[wait |-> (H :> {cv, sq}) @@ (M :> {}) @@ (L :> {cv}),
           unready |-> {M}, event |-> {}, lock |-> MCUser, signal |-> {}],
          [wait |-> [t \in MCUser |-> {}],
           unready |-> {}, event |-> {H, M}, lock |-> {}, signal |-> {H}]}
MCAppSignal == {[wait |-> (H :> {sq}) @@ (M :> {}) @@ (L :> {}),
                 unready |-> {}, event |-> {}, lock |-> {}, signal |-> {H}]}
MCRequest == {[req |-> {1, 2}, all |-> TRUE], [req |-> {1}, all |-> FALSE]}
MCMonitor == (cv :> m1) @@ (sq :> None)
==============================================================================
