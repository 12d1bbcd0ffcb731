------------------------------ MODULE MCCallout ------------------------------
(* Two timers that reload, one of them after a phase, and one that does not. *)
EXTENDS RKCallout

CONSTANTS fast, slow, once

MCTimer == {fast, slow, once}
MCPhase == [t \in MCTimer |-> IF t = slow THEN 1 ELSE 0]
MCPeriod == [t \in MCTimer |-> IF t = fast THEN 2 ELSE 3]
==============================================================================
