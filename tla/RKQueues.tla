------------------------------ MODULE RKQueues ------------------------------
(***************************************************************************)
(* Task queues (RK_TCBQ): the intrusive doubly linked lists on which the   *)
(* scheduler keeps READY tasks and every kernel object its waiters.  A     *)
(* queue is the sequence of the tasks linked on it, head first.  A lower   *)
(* number is a more urgent priority.                                       *)
(***************************************************************************)
EXTENDS Integers, FiniteSets, SequencesExt

\* kTCBQEnq: kListAddTail.
kTCBQEnq(q, t) == Append(q, t)

\* kTCBQJam: kListAddHead.
kTCBQJam(q, t) == <<t>> \o q

\* Where the scan of kTCBQEnqByPrio stops: before the first task that is less
\* urgent than p, or at the tail.  Equal priorities therefore stay FIFO.
InsertPos(q, p, prio) ==
  LET later == {i \in DOMAIN q : prio[q[i]] > p}
  IN  IF later = {} THEN Len(q) + 1
      ELSE CHOOSE i \in later : \A j \in later : i <= j

\* Mutant: waiters queue in the order of arrival.
EnqInArrivalOrder(q, t, prio) == Append(q, t)

\* kTCBQEnqByPrio: t enters q with priority prio[t].
kTCBQEnqByPrio(q, t, prio) == InsertAt(q, InsertPos(q, prio[t], prio), t)

\* kTCBQRem / kListRemove: unlink t from the list that holds it.  Its callers
\* test the links of the node first (kTaskNodeLinked_): a task that is on no
\* list stays on none.
kTCBQRem(q, t) ==
  IF t \in ToSet(q) THEN RemoveAt(q, CHOOSE i \in DOMAIN q : q[i] = t) ELSE q

\* The tasks of S that are on q, in their order: what a scan of the list finds.
Among(q, S) ==
  LET found[n \in 0 .. Len(q)] ==
        IF n = 0 THEN <<>>
        ELSE IF q[n] \in S THEN Append(found[n - 1], q[n]) ELSE found[n - 1]
  IN  found[Len(q)]

\* q is ordered by urgency, most urgent first.
OrderedBy(q, prio) ==
  \A i, j \in DOMAIN q : i < j => prio[q[i]] <= prio[q[j]]

\* No task is linked twice on q.
NoDuplicates(q) == \A i, j \in DOMAIN q : q[i] = q[j] => i = j
=============================================================================
