----------------------------- MODULE TimeoutAbs -----------------------------
(***************************************************************************)
(* What the timeout list promises: an armed node leaves the list after as  *)
(* many ticks as it was armed for, unless it is disarmed before, and nodes *)
(* that expire at the same tick leave it in a fixed order, last armed      *)
(* first.  `left` counts the ticks of every node by itself; there are no   *)
(* deltas here.                                                            *)
(***************************************************************************)
EXTENDS Integers, FiniteSets, SequencesExt

CONSTANTS Node, MaxTicks

VARIABLES
  order,     \* the armed nodes, next to expire first
  left,      \* the ticks left to each node, 0 when it is not armed
  expiring   \* a tick is being handled

absVars == <<order, left, expiring>>

Armed(n) == n \in ToSet(order)

Init == order = <<>> /\ left = [n \in Node |-> 0] /\ expiring = FALSE

\* Ticks left keep `order` sorted; a new node goes before its equals.
Arm(n, ticks) ==
  /\ ~expiring /\ ~Armed(n)
  /\ LET earlier == {i \in DOMAIN order : left[order[i]] < ticks}
     IN  order' = InsertAt(order, Cardinality(earlier) + 1, n)
  /\ left' = [left EXCEPT ![n] = ticks]
  /\ UNCHANGED expiring

\* A node is disarmed before it expires.
Disarm(n) ==
  /\ ~expiring /\ Armed(n)
  /\ \E i \in DOMAIN order : order[i] = n /\ order' = RemoveAt(order, i)
  /\ left' = [left EXCEPT ![n] = 0]
  /\ UNCHANGED expiring

Tick ==
  /\ ~expiring /\ order # <<>>
  /\ left' = [n \in Node |-> IF Armed(n) THEN left[n] - 1 ELSE left[n]]
  /\ expiring' = TRUE
  /\ UNCHANGED order

Expire ==
  /\ expiring /\ order # <<>> /\ left[Head(order)] = 0
  /\ order' = Tail(order)
  /\ UNCHANGED <<left, expiring>>

TickEnd ==
  /\ expiring /\ (order # <<>> => left[Head(order)] # 0)
  /\ expiring' = FALSE
  /\ UNCHANGED <<order, left>>

Next ==
  \/ Tick \/ Expire \/ TickEnd
  \/ \E n \in Node : Disarm(n) \/ \E ticks \in 1 .. MaxTicks : Arm(n, ticks)

Spec == Init /\ [][Next]_absVars
=============================================================================
