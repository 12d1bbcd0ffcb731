------------------------------ MODULE RKTimeout ------------------------------
(***************************************************************************)
(* The delta list of armed timeout nodes (ktimer.c).  A node holds only    *)
(* the ticks between its expiry and that of the node before it, so a tick  *)
(* decrements one counter, and whoever links or unlinks a node must move   *)
(* its share to the next.  The counters are unsigned words.                *)
(***************************************************************************)
EXTENDS Integers, FiniteSets, SequencesExt

CONSTANTS
  Node,    \* the timeout nodes of the tasks
  Width    \* the width of RK_TICK, in bits

ASSUME TimeoutConstants == IsFiniteSet(Node) /\ Width \in Nat \ {0, 1}

Word == 0 .. 2^Width - 1
RK_MAX_PERIOD == 2^(Width - 1) - 1
Wrapped(x) == x % 2^Width

VARIABLES
  list,      \* the nodes from RK_gTimeOutListHeadPtr on
  dtick,     \* node.dtick
  expiring   \* the critical region of kHandleTimeoutList is under way

vars == <<list, dtick, expiring>>

\* What the first i nodes of the list amount to: the ticks until node i expires.
TicksTo[i \in 0 .. Len(list)] ==
  IF i = 0 THEN 0 ELSE TicksTo[i - 1] + dtick[list[i]]

\* Mutant: the insertion also passes the nodes that expire at the same tick.
PosAfterEqual(ticks) == Cardinality({i \in DOMAIN list : TicksTo[i] <= ticks}) + 1

\* kTimeoutListInsertDelta_ passes every node that expires earlier.
DeltaPos(ticks) == Cardinality({i \in DOMAIN list : TicksTo[i] < ticks}) + 1

\* Mutant: the successor keeps its delta.
InsertKeepsSuccessor(n, ticks) ==
  LET pos == DeltaPos(ticks)
  IN  /\ list' = InsertAt(list, pos, n)
      /\ dtick' = [dtick EXCEPT ![n] = Wrapped(ticks - TicksTo[pos - 1])]

\* The node consumes the deltas before it; its own comes off its successor's.
kTimeoutListInsertDelta_(n, ticks) ==
  LET pos  == DeltaPos(ticks)
      own  == Wrapped(ticks - TicksTo[pos - 1])
  IN  /\ list' = InsertAt(list, pos, n)
      /\ dtick' = [m \in Node |->
                     CASE m = n -> own
                       [] pos <= Len(list) /\ m = list[pos] -> Wrapped(dtick[m] - own)
                       [] OTHER -> dtick[m]]

\* Mutants: the successor is left alone; the node keeps its delta.
RemoveDropsDelta(n) ==
  /\ list' = Remove(list, n)
  /\ dtick' = [dtick EXCEPT ![n] = 0]
RemoveKeepsDelta(n) == list' = Remove(list, n) /\ UNCHANGED dtick

\* kRemoveTimeoutNode: the rest of its delta goes to its successor.
kRemoveTimeoutNode(n) ==
  LET pos == CHOOSE i \in DOMAIN list : list[i] = n
  IN  /\ list' = RemoveAt(list, pos)
      /\ dtick' = [m \in Node |->
                     CASE m = n -> 0
                       [] pos < Len(list) /\ m = list[pos + 1] -> Wrapped(dtick[m] + dtick[n])
                       [] OTHER -> dtick[m]]

\* kTimeoutNodeAdd, of a node that is not armed.
kTimeoutNodeAdd(n, ticks) ==
  /\ ~expiring /\ n \notin ToSet(list)
  /\ kTimeoutListInsertDelta_(n, ticks)
  /\ UNCHANGED expiring

kTimeoutNodeDisarm(n) ==
  /\ ~expiring /\ n \in ToSet(list)
  /\ kRemoveTimeoutNode(n)
  /\ UNCHANGED expiring

\* kHandleTimeoutList: the head counts down, then every node at 0 expires.
Tick ==
  /\ ~expiring /\ list # <<>>
  /\ dtick' = [dtick EXCEPT ![Head(list)] = IF @ > 0 THEN @ - 1 ELSE @]
  /\ expiring' = TRUE
  /\ UNCHANGED list

Due == list # <<>> /\ dtick[Head(list)] = 0

Expire ==
  /\ expiring /\ Due
  /\ kRemoveTimeoutNode(Head(list))
  /\ UNCHANGED expiring

TickEnd == expiring /\ ~Due /\ expiring' = FALSE /\ UNCHANGED <<list, dtick>>

Init == list = <<>> /\ dtick = [n \in Node |-> 0] /\ expiring = FALSE

Next ==
  \/ Tick \/ Expire \/ TickEnd
  \/ \E n \in Node :
       kTimeoutNodeDisarm(n) \/ \E ticks \in 1 .. RK_MAX_PERIOD : kTimeoutNodeAdd(n, ticks)

Spec == Init /\ [][Next]_vars

\* The list links no node twice, an unarmed node counts nothing, and the
\* counters are words.
TypeOK ==
  /\ list \in Seq(Node) /\ IsInjective(list)
  /\ dtick \in [Node -> Word]
  /\ \A n \in Node \ ToSet(list) : dtick[n] = 0
  /\ expiring \in BOOLEAN

\* Whatever is armed and disarmed in between, no node is further away than the
\* longest timeout that may be asked for: a difference never wraps below zero.
WithinMaxPeriod == TicksTo[Len(list)] <= RK_MAX_PERIOD

Remaining == [n \in Node |->
  IF n \in ToSet(list) THEN TicksTo[CHOOSE i \in DOMAIN list : list[i] = n] ELSE 0]

Abs == INSTANCE TimeoutAbs
         WITH order <- list, left <- Remaining, MaxTicks <- RK_MAX_PERIOD

\* With its deltas the list does what TimeoutAbs promises with a counter for
\* each node: every node expires after exactly the ticks it was armed for,
\* however many nodes are linked before it, removed or expire meanwhile.
ImplementsTimeoutAbs == Abs!Spec
=============================================================================
