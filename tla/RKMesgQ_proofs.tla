--------------------------- MODULE RKMesgQ_proofs ---------------------------
(***************************************************************************)
(* Message queues, for every set of tasks, queues, capacities and messages:*)
(* a broadcast reserves its slot for exactly those who are to read it,     *)
(* nobody waits beside a message, and with its waits, restarts, timeouts   *)
(* and direct deliveries the service does what MesgQAbs promises.          *)
(***************************************************************************)
EXTENDS RKMesgQ, RKMutex_proofs

(***************************************************************************)
(* The inductive invariant.                                                *)
(***************************************************************************)
\* Nobody but mutexes changes a priority, and here no task has one.
NoBoost ==
  /\ prio = NominalPrio
  /\ waitingFor = [t \in Task |-> None]

WaitTypes ==
  /\ waitQ \in [WaitObj -> Seq(Task)] /\ wqp \in [Task -> WaitObj \cup {None}]
  /\ tmo \in Seq(Task) /\ ttype \in [Task -> TimeoutType]
  /\ call \in [Task -> Suspension]
  /\ \A o \in WaitObj : NoDuplicates(waitQ[o])
  /\ NoDuplicates(tmo)

\* A task on a queue of a message queue is suspended in a call on it, and its
\* timeout node, when armed, names that queue.
SendNumber == {"MESG_QUEUE_SEND", "MESG_QUEUE_JAM"}

Sending(t, q) ==
  /\ call[t].arg = Senders[q] /\ call[t].number \in SendNumber
  /\ call[t].phase = "WAIT"

Receiving(t, q) ==
  /\ call[t].arg = Receivers[q]
  /\ \/ call[t].number = "MESG_QUEUE_RECV" /\ call[t].phase = "WAIT"
     \/ /\ call[t].number = "MESG_QUEUE_BROADCAST_RECV"
        /\ call[t].phase \in {"BROADCAST", "BROADCAST_DELIVER"}

WaiterInv ==
  \A o \in WaitObj : \A t \in ToSet(waitQ[o]) :
    /\ t \in UserTask /\ status[t] \in {"SENDING", "RECEIVING"}
    /\ \E q \in Queue : \/ o = Senders[q] /\ Sending(t, q)
                        \/ o = Receivers[q] /\ Receiving(t, q)
    /\ wqp[t] \in {None, o}
    /\ t \in ToSet(tmo) => ttype[t] = "BLOCKING"

\* Only a timed wait on a queue lets the node name it, as long as it lasts, and
\* only a suspended task has a node armed.
NodeInv ==
  \A t \in Task :
    /\ wqp[t] # None <=> ttype[t] = "BLOCKING"
    /\ wqp[t] # None => status[t] \in {"SENDING", "RECEIVING"}
    /\ t \in ToSet(tmo) => status[t] \in {"SENDING", "RECEIVING", "SLEEPING_DELAY"}

\* The calls in the middle of which a task is: what a broadcast prepared has no
\* timeout any more, and a sender has its message at hand.
CallInv ==
  \A t \in Task :
    /\ call[t].phase \in {"BROADCAST", "BROADCAST_DELIVER"} =>
         call[t].number = "MESG_QUEUE_BROADCAST_RECV"
    /\ call[t].phase = "BROADCAST_DELIVER" =>
         t \in UserTask /\ t \notin ToSet(tmo) /\ wqp[t] = None
    /\ call[t].number \in SendNumber => t \in UserTask /\ outgoing[t] \in Mesg

\* What the critical region still does: whom it makes ready is on no list by
\* then, and each is made ready once.
RegionCall == [op : WakeOps, task : Task] \cup [op : {"handleTimeouts"}, expired : BOOLEAN]

OnceEach(calls) ==
  \A i, j \in DOMAIN calls :
    calls[i].op \in WakeOps /\ calls[j].op \in WakeOps /\ calls[i].task = calls[j].task
      => i = j

RegionInv ==
  /\ todo \in Seq(RegionCall) /\ OnceEach(todo)
  /\ \A c \in ToSet(todo) : c.op \in WakeOps =>
       /\ status[c.task] \notin {"READY", "RUNNING"}
       /\ \A o \in WaitObj : c.task \notin ToSet(waitQ[o])
       /\ c.op # "signalReady" => c.task \notin ToSet(tmo)
       /\ c.op = "ready" => wqp[c.task] = None
       /\ c.op # "ready" => call[c.task].phase # "BROADCAST_DELIVER"

\* PostProc resets only what an interrupt was allowed to have reset.
Job == [job : {"MESGQ_BROADCAST_WAKE", "MESGQ_RESET"}, obj : Queue, n : Nat]

DeferredInv ==
  /\ jobs \in Seq(Job)
  /\ \A j \in ToSet(jobs) : j.job = "MESGQ_RESET" => MayReset(j.obj)

\* Those who are still to read the broadcast in the slot of q.
Readers(q) == {t \in Task : call[t].arg = Receivers[q] /\ call[t].phase = "BROADCAST_DELIVER"}

ContentInv ==
  /\ maxBuf \in [Queue -> Nat \ {0}] /\ ring \in [Queue -> Seq(Mesg)]
  /\ broadcastReceivers \in [Queue -> Nat] /\ outgoing \in [UserTask -> Mesg \cup {None}]
  /\ \A q \in Queue :
       /\ broadcastReceivers[q] = Cardinality(Readers(q))
       /\ broadcastReceivers[q] > 0 => Len(ring[q]) = 1 /\ Mailbox(q)

\* A message that no broadcast holds has nobody waiting beside it.
ServedInv ==
  \A q \in Queue : ring[q] # <<>> /\ broadcastReceivers[q] = 0 =>
    \A t \in ToSet(waitQ[Receivers[q]]) : call[t].phase # "WAIT"

MesgQInv ==
  /\ NoBoost /\ DispatchInv /\ LockInv /\ WaitTypes /\ WaiterInv /\ NodeInv /\ CallInv
  /\ RegionInv /\ DeferredInv /\ ContentInv /\ ServedInv

\* Every task has its nominal priority, and so a ready queue.
LEMMA Priorities ==
  ASSUME NoBoost
  PROVE  \A t \in Task : prio[t] \in Prio /\ prio[t] \in Nat
BY NominalPrioType DEF NoBoost

(***************************************************************************)
(* The queues of waiting tasks, their timeouts and what is left to do.     *)
(***************************************************************************)
ServiceInv == WaitTypes /\ WaiterInv /\ NodeInv /\ CallInv /\ RegionInv

OnQueue(t) == \E o \in WaitObj : t \in ToSet(waitQ[o])

\* Only tasks are on the lists.
LEMMA ListedAreTasks ==
  ASSUME WaitTypes
  PROVE  ToSet(tmo) \subseteq Task /\ \A o \in WaitObj : ToSet(waitQ[o]) \subseteq Task
<1>1. ASSUME NEW q \in Seq(Task) PROVE ToSet(q) \subseteq Task
  BY LenProperties, ElementOfSeq DEF ToSet
<1> QED BY <1>1 DEF WaitTypes

\* A task is on the queue its call names, so on one at most.
LEMMA OneQueue ==
  ASSUME WaiterInv
  PROVE  \A o \in WaitObj : \A t \in ToSet(waitQ[o]) : call[t].arg = o
BY DEF WaiterInv, Sending, Receiving

\* No two message queues share a queue of waiters.
LEMMA QueueObjects ==
  /\ \A q \in Queue : Senders[q] \in WaitObj /\ Receivers[q] \in WaitObj
  /\ \A q, r \in Queue : /\ Senders[q] # Receivers[r]
                         /\ Senders[q] = Senders[r] => q = r
                         /\ Receivers[q] = Receivers[r] => q = r
BY MesgQConstants DEF WaitObj

\* The tasks of Q leave the queues they are on; the nodes of N are no longer
\* armed and name no queue.
QueuesLose(Q) ==
  /\ waitQ' \in [WaitObj -> Seq(Task)]
  /\ \A o \in WaitObj : NoDuplicates(waitQ'[o]) /\ ToSet(waitQ'[o]) = ToSet(waitQ[o]) \ Q

NodesLose(N) ==
  /\ tmo' \in Seq(Task) /\ NoDuplicates(tmo') /\ ToSet(tmo') = ToSet(tmo) \ N
  /\ wqp' \in [Task -> WaitObj \cup {None}] /\ ttype' \in [Task -> TimeoutType]
  /\ \A t \in Task : IF t \in N THEN wqp'[t] = None /\ ttype'[t] # "BLOCKING"
                                ELSE wqp'[t] = wqp[t] /\ ttype'[t] = ttype[t]

\* The critical region still makes the tasks of S ready, each once.
Readies(calls, S) ==
  /\ calls \in Seq(RegionCall) /\ OnceEach(calls)
  /\ \A c \in ToSet(calls) : c.op = "ready" /\ c.task \in S

\* What is not touched loses nobody.
LEMMA NothingLost ==
  ASSUME WaitTypes
  PROVE  /\ UNCHANGED waitQ => QueuesLose({})
         /\ UNCHANGED <<wqp, tmo, ttype>> => NodesLose({})
BY DEF WaitTypes, QueuesLose, NodesLose

\* The lists of tasks to make ready that the operations write.
LEMMA ReadyLists ==
  /\ Readies(<<>>, {})
  /\ \A t \in Task : Readies(<<ReadySwtchOf(t)>>, {t})
  /\ \A q \in Seq(Task) : NoDuplicates(q) => Readies(ReadyAll(q), ToSet(q))
<1>1. Readies(<<>>, {})
  <2> HIDE DEF RegionCall
  <2> QED BY SmallSequences DEF Readies, OnceEach
<1>2. \A t \in Task : /\ ReadySwtchOf(t) \in RegionCall
                      /\ ReadySwtchOf(t).op = "ready" /\ ReadySwtchOf(t).task = t
  BY DEF ReadySwtchOf, RegionCall, WakeOps
<1>3. ASSUME NEW t \in Task PROVE Readies(<<ReadySwtchOf(t)>>, {t})
  <2> DEFINE c == ReadySwtchOf(t)
  <2> HIDE DEF c, RegionCall
  <2>1. c \in RegionCall /\ c.op = "ready" /\ c.task = t
    BY <1>2 DEF c
  <2>2. <<c>> \in Seq(RegionCall) /\ ToSet(<<c>>) = {c} /\ OnceEach(<<c>>)
    <3>1. OnceEach(<<c>>)
      BY DEF OnceEach
    <3> QED BY <2>1, <3>1, SmallSequences
  <2>3. Readies(<<c>>, {t})
    BY <2>1, <2>2 DEF Readies
  <2> QED BY <2>3 DEF c
<1>4. ASSUME NEW q \in Seq(Task), NoDuplicates(q) PROVE Readies(ReadyAll(q), ToSet(q))
  <2> DEFINE r == ReadyAll(q)
  <2>1. /\ Len(q) \in Nat /\ DOMAIN q = 1 .. Len(q)
        /\ \A i \in 1 .. Len(q) : q[i] \in Task /\ q[i] \in ToSet(q)
    BY LenProperties, ElementOfSeq DEF ToSet
  <2>2. /\ r = [i \in 1 .. Len(q) |-> r[i]] /\ DOMAIN r = 1 .. Len(q)
        /\ \A i \in 1 .. Len(q) : r[i] = ReadySwtchOf(q[i])
    BY <2>1 DEF ReadyAll
  <2> HIDE DEF r, RegionCall
  <2>3. \A i \in 1 .. Len(q) : r[i] \in RegionCall /\ r[i].op = "ready" /\ r[i].task = q[i]
    BY <1>2, <2>1, <2>2
  <2>4. r \in Seq(RegionCall)
    BY <2>1, <2>2, <2>3, SeqDef
  <2>5. OnceEach(r)
    BY <1>4, <2>1, <2>2, <2>3 DEF OnceEach, NoDuplicates
  <2>6. \A c \in ToSet(r) : c.op = "ready" /\ c.task \in ToSet(q)
    BY <2>1, <2>2, <2>3 DEF ToSet
  <2>7. Readies(r, ToSet(q))
    BY <2>4, <2>5, <2>6 DEF Readies
  <2> QED BY <2>7 DEF r
<1> QED BY <1>1, <1>3, <1>4

\* kMesgQueueClearBlockingTimeout_ for a set of waiters.
LEMMA ClearLosesNodes ==
  ASSUME ServiceInv, NEW N, \A t \in N : t \in Task /\ OnQueue(t), ClearTimeouts(N)
  PROVE  NodesLose(N)
<1> USE DEF ServiceInv
<1> DEFINE timed == {t \in N : ttype[t] = "BLOCKING"}
<1>1. /\ tmo' = Among(tmo, Task \ timed)
      /\ ttype' = [t \in Task |-> IF t \in timed THEN "NONE" ELSE ttype[t]]
      /\ wqp'   = [t \in Task |-> IF t \in timed THEN None ELSE wqp[t]]
  BY DEF ClearTimeouts
<1>2. /\ tmo' \in Seq(Task) /\ NoDuplicates(tmo')
      /\ ToSet(tmo') = ToSet(tmo) \cap (Task \ timed)
  <2> HIDE DEF timed
  <2> QED BY <1>1, AmongProperties DEF WaitTypes
<1>3. \A t \in N : t \in ToSet(tmo) => t \in timed
  BY DEF OnQueue, WaiterInv
<1>4. ToSet(tmo') = ToSet(tmo) \ N
  <2>1. ToSet(tmo) \subseteq Task
    BY ListedAreTasks
  <2> QED BY <1>2, <1>3, <2>1
<1>5. \A t \in N : t \notin timed => wqp[t] = None /\ ttype[t] # "BLOCKING"
  BY DEF NodeInv
<1>6. wqp' \in [Task -> WaitObj \cup {None}] /\ ttype' \in [Task -> TimeoutType]
  BY <1>1 DEF WaitTypes, TimeoutType
<1>7. \A t \in Task : IF t \in N THEN wqp'[t] = None /\ ttype'[t] # "BLOCKING"
                                ELSE wqp'[t] = wqp[t] /\ ttype'[t] = ttype[t]
  BY <1>1, <1>5
<1> QED BY <1>2, <1>4, <1>6, <1>7 DEF NodesLose

\* The queue of o becomes q: it loses what is not on q any more.
LEMMA OneLosesTasks ==
  ASSUME ServiceInv, NEW o \in WaitObj, NEW q \in Seq(Task), NoDuplicates(q),
         NEW Q, Q \subseteq ToSet(waitQ[o]), ToSet(q) = ToSet(waitQ[o]) \ Q,
         waitQ' = [waitQ EXCEPT ![o] = q]
  PROVE  QueuesLose(Q)
<1>1. waitQ \in [WaitObj -> Seq(Task)] /\ \A p \in WaitObj : NoDuplicates(waitQ[p])
  BY DEF ServiceInv, WaitTypes
<1>2. \A p \in WaitObj \ {o} : ToSet(waitQ[p]) \cap Q = {}
  BY OneQueue DEF ServiceInv
<1>3. ASSUME NEW p \in WaitObj
      PROVE  NoDuplicates(waitQ'[p]) /\ ToSet(waitQ'[p]) = ToSet(waitQ[p]) \ Q
  <2>1. waitQ'[p] = IF p = o THEN q ELSE waitQ[p]
    BY <1>1
  <2> QED BY <1>1, <1>2, <2>1
<1> QED BY <1>1, <1>3 DEF QueuesLose

\* One task is taken off the queue it is on.
LEMMA RemLosesTask ==
  ASSUME ServiceInv, NEW o \in WaitObj, NEW t \in ToSet(waitQ[o]),
         waitQ' = [waitQ EXCEPT ![o] = kTCBQRem(@, t)]
  PROVE  QueuesLose({t})
<1> DEFINE q == kTCBQRem(waitQ[o], t)
<1>1. waitQ' = [waitQ EXCEPT ![o] = q]
  OBVIOUS
<1>2. q \in Seq(Task) /\ NoDuplicates(q) /\ ToSet(q) = ToSet(waitQ[o]) \ {t}
  BY RemProperties DEF ServiceInv, WaitTypes
<1> HIDE DEF q
<1> QED BY <1>1, <1>2, OneLosesTasks

\* The head of a queue is woken.
LEMMA HeadWoken ==
  ASSUME ServiceInv, NEW o \in WaitObj, waitQ[o] # <<>>, WakeHead(o)
  PROVE  LET w == Head(waitQ[o])
         IN  w \in ToSet(waitQ[o]) /\ QueuesLose({w}) /\ NodesLose({w}) /\ Readies(todo', {w})
<1> DEFINE w == Head(waitQ[o])
<1>1. /\ w \in Task /\ Tail(waitQ[o]) \in Seq(Task) /\ NoDuplicates(Tail(waitQ[o]))
      /\ ToSet(waitQ[o]) = {w} \cup ToSet(Tail(waitQ[o])) /\ w \notin ToSet(Tail(waitQ[o]))
  BY TailFacts DEF ServiceInv, WaitTypes
<1>2. /\ waitQ' = [waitQ EXCEPT ![o] = Tail(waitQ[o])]
      /\ todo' = <<ReadySwtchOf(w)>>
      /\ IF ttype[w] = "BLOCKING"
         THEN DisarmTimeout(w) /\ wqp' = [wqp EXCEPT ![w] = None]
         ELSE UNCHANGED <<tmo, ttype, wqp>>
  BY DEF WakeHead, timeVars
<1> HIDE DEF w
<1>3. QueuesLose({w})
  <2>1. ToSet(Tail(waitQ[o])) = ToSet(waitQ[o]) \ {w} /\ {w} \subseteq ToSet(waitQ[o])
    BY <1>1
  <2> QED BY <1>1, <1>2, <2>1, OneLosesTasks
<1>4. NodesLose({w})
  <2>1. w \in ToSet(tmo) => ttype[w] = "BLOCKING"
    BY <1>1 DEF ServiceInv, WaiterInv
  <2>2. wqp[w] # None <=> ttype[w] = "BLOCKING"
    BY <1>1 DEF ServiceInv, NodeInv
  <2>3. CASE ttype[w] = "BLOCKING"
    <3>1. /\ kTCBQRem(tmo, w) \in Seq(Task) /\ NoDuplicates(kTCBQRem(tmo, w))
          /\ ToSet(kTCBQRem(tmo, w)) = ToSet(tmo) \ {w}
      BY RemProperties DEF ServiceInv, WaitTypes
    <3> QED BY <1>1, <1>2, <2>3, <3>1 DEF DisarmTimeout, NodesLose, ServiceInv, WaitTypes, TimeoutType
  <2>4. CASE ttype[w] # "BLOCKING"
    <3>1. ToSet(tmo) = ToSet(tmo) \ {w}
      BY <2>1, <2>4
    <3> QED BY <1>2, <2>2, <2>4, <3>1 DEF NodesLose, ServiceInv, WaitTypes
  <2> QED BY <2>3, <2>4
<1>5. Readies(todo', {w})
  BY <1>1, <1>2, ReadyLists
<1> QED BY <1>1, <1>3, <1>4, <1>5 DEF w

(***************************************************************************)
(* A call that serves others: it takes the tasks of Q off their queues,    *)
(* ends the timeouts of N, and makes the tasks of R ready.                 *)
(***************************************************************************)
\* What it does to the suspended calls: that of the running task may end, and
\* the tasks it serves learn how their message reaches them.
ServedCall(t, Q, N) ==
  \/ call'[t] = call[t]
  \/ t = run /\ status[run] = "RUNNING" /\ call'[t] = NoCall
  \/ t \in Q /\ \E ph \in {"DELIVERED", "WAIT"} : call'[t] = [call[t] EXCEPT !.phase = ph]
  \/ /\ t \in N /\ call[t].phase = "BROADCAST"
     /\ call'[t] = [call[t] EXCEPT !.phase = "BROADCAST_DELIVER"]

Serves(Q, N, R) ==
  /\ todo = <<>> /\ UNCHANGED <<run, status, prio, readyQ, waitingFor>> /\ PendKept
  /\ Q \subseteq N /\ \A t \in N : t \in Task /\ OnQueue(t)
  /\ QueuesLose(Q) /\ NodesLose(N) /\ Readies(todo', R)
  /\ \A t \in R :
           t \in Q \/ (t \in Task /\ status[t] \in {"SLEEPING_EV_FLAG", "SELF_SUSPENDED"})
  /\ \A t \in Task : call'[t] \in Suspension /\ ServedCall(t, Q, N)
  /\ call' = [t \in Task |-> call'[t]]
  /\ \A t \in UserTask : outgoing'[t] = outgoing[t] \/ call'[t] = NoCall

\* The running task is on no list.
LEMMA RunsNowhere ==
  ASSUME WaiterInv, NodeInv, NEW t \in Task, status[t] \notin {"SENDING", "RECEIVING"}
  PROVE  /\ \A o \in WaitObj : t \notin ToSet(waitQ[o])
         /\ status[t] # "SLEEPING_DELAY" => t \notin ToSet(tmo)
         /\ wqp[t] = None
BY DEF WaiterInv, NodeInv

\* A call that serves others keeps what is known of tasks and their waits.
LEMMA ServeStep ==
  ASSUME NoBoost, DispatchInv, ServiceInv, NEW Q, NEW N, NEW R, Serves(Q, N, R)
  PROVE  NoBoost' /\ DispatchInv' /\ ServiceInv'
<1> USE DEF ServiceInv
<1>1. /\ todo = <<>> /\ UNCHANGED <<run, status, prio, readyQ, waitingFor>> /\ PendKept
      /\ Q \subseteq N /\ \A t \in N : t \in Task /\ OnQueue(t)
      /\ QueuesLose(Q) /\ NodesLose(N) /\ Readies(todo', R)
      /\ \A t \in R :
           t \in Q \/ (t \in Task /\ status[t] \in {"SLEEPING_EV_FLAG", "SELF_SUSPENDED"})
      /\ \A t \in Task : call'[t] \in Suspension /\ ServedCall(t, Q, N)
      /\ call' = [t \in Task |-> call'[t]]
      /\ \A t \in UserTask : outgoing'[t] = outgoing[t] \/ call'[t] = NoCall
  BY DEF Serves
<1>2. NoBoost' /\ DispatchInv'
  BY <1>1, DispatchFrame DEF NoBoost
<1>3. /\ \A o \in WaitObj : ToSet(waitQ'[o]) = ToSet(waitQ[o]) \ Q
      /\ ToSet(tmo') = ToSet(tmo) \ N
      /\ \A t \in Task : IF t \in N THEN wqp'[t] = None /\ ttype'[t] # "BLOCKING"
                                    ELSE wqp'[t] = wqp[t] /\ ttype'[t] = ttype[t]
  BY <1>1 DEF QueuesLose, NodesLose
<1>4. WaitTypes'
  <2>1. call' \in [Task -> Suspension]
    BY <1>1
  <2> QED BY <1>1, <2>1 DEF QueuesLose, NodesLose, WaitTypes
<1>5. WaiterInv'
  <2>1. SUFFICES ASSUME NEW o \in WaitObj, NEW t \in ToSet(waitQ'[o])
        PROVE  /\ t \in UserTask /\ status'[t] \in {"SENDING", "RECEIVING"}
               /\ \E q \in Queue : \/ o = Senders[q] /\ Sending(t, q)'
                                   \/ o = Receivers[q] /\ Receiving(t, q)'
               /\ wqp'[t] \in {None, o}
               /\ t \in ToSet(tmo') => ttype'[t] = "BLOCKING"
    BY DEF WaiterInv
  <2>2. t \in ToSet(waitQ[o]) /\ t \notin Q
    BY <1>3
  <2>3. /\ t \in UserTask /\ status[t] \in {"SENDING", "RECEIVING"} /\ wqp[t] \in {None, o}
        /\ t \in ToSet(tmo) => ttype[t] = "BLOCKING"
    BY <2>2 DEF WaiterInv
  <2>4. t \in Task
    BY <2>3 DEF UserTask
  <2>5. PICK q \in Queue : \/ o = Senders[q] /\ Sending(t, q)
                           \/ o = Receivers[q] /\ Receiving(t, q)
    BY <2>2 DEF WaiterInv
  <2>6. \/ call'[t] = call[t]
        \/ call[t].phase = "BROADCAST" /\ call'[t] = [call[t] EXCEPT !.phase = "BROADCAST_DELIVER"]
    BY <1>1, <2>2, <2>3, <2>4 DEF ServedCall
  <2>7. \/ o = Senders[q] /\ Sending(t, q)'
        \/ o = Receivers[q] /\ Receiving(t, q)'
    <3>1. CASE call'[t] = call[t]
      BY <2>5, <3>1 DEF Sending, Receiving
    <3>2. CASE call[t].phase = "BROADCAST" /\ call'[t] = [call[t] EXCEPT !.phase = "BROADCAST_DELIVER"]
      <4>1. call[t] \in Suspension
        BY <2>4 DEF WaitTypes
      <4>2. /\ call'[t].phase = "BROADCAST_DELIVER" /\ call'[t].arg = call[t].arg
            /\ call'[t].number = call[t].number
        BY <3>2, <4>1 DEF Suspension
      <4> QED BY <2>5, <3>2, <4>2 DEF Sending, Receiving
    <3> QED BY <2>6, <3>1, <3>2
  <2> QED BY <1>1, <1>3, <2>3, <2>4, <2>7
<1>6. NodeInv'
  <2>1. \A t \in N : wqp'[t] = None /\ ttype'[t] # "BLOCKING"
    BY <1>1, <1>3
  <2> QED BY <1>1, <1>3, <2>1 DEF NodeInv
<1>7. CallInv'
  <2>1. SUFFICES ASSUME NEW t \in Task
        PROVE  /\ call'[t].phase \in {"BROADCAST", "BROADCAST_DELIVER"} =>
                    call'[t].number = "MESG_QUEUE_BROADCAST_RECV"
               /\ call'[t].phase = "BROADCAST_DELIVER" =>
                    t \in UserTask /\ t \notin ToSet(tmo') /\ wqp'[t] = None
               /\ call'[t].number \in SendNumber => t \in UserTask /\ outgoing'[t] \in Mesg
    BY DEF CallInv
  <2>2. call[t] \in Suspension /\ ServedCall(t, Q, N)
    BY <1>1 DEF WaitTypes
  <2>3. CASE call'[t] = call[t]
    BY <1>1, <1>3, <2>3 DEF CallInv, SendNumber, NoCall
  <2>4. CASE call'[t] = NoCall
    BY <2>4 DEF NoCall, SendNumber
  <2>5. CASE t \in Q /\ \E ph \in {"DELIVERED", "WAIT"} : call'[t] = [call[t] EXCEPT !.phase = ph]
    <3>1. /\ call'[t].phase \in {"DELIVERED", "WAIT"} /\ call'[t].number = call[t].number
      BY <2>2, <2>5 DEF Suspension
    <3> QED BY <1>1, <3>1 DEF CallInv, SendNumber, NoCall
  <2>6. CASE /\ t \in N /\ call[t].phase = "BROADCAST"
             /\ call'[t] = [call[t] EXCEPT !.phase = "BROADCAST_DELIVER"]
    <3>1. /\ call'[t].phase = "BROADCAST_DELIVER" /\ call'[t].number = call[t].number
      BY <2>2, <2>6 DEF Suspension
    <3>2. t \in UserTask
      BY <1>1, <2>6 DEF OnQueue, WaiterInv
    <3> QED BY <1>1, <1>3, <2>6, <3>1, <3>2 DEF CallInv, SendNumber
  <2> QED BY <2>2, <2>3, <2>4, <2>5, <2>6 DEF ServedCall
<1>8. RegionInv'
  <2>1. \A t \in Q : t \in Task /\ status[t] \in {"SENDING", "RECEIVING"}
    BY <1>1 DEF OnQueue, WaiterInv
  <2>2. ASSUME NEW t \in R
        PROVE  /\ status'[t] \notin {"READY", "RUNNING"} /\ t \notin ToSet(tmo')
               /\ wqp'[t] = None /\ \A o \in WaitObj : t \notin ToSet(waitQ'[o])
    <3>1. CASE t \in Q
      BY <1>1, <1>3, <2>1, <3>1
    <3>2. CASE t \in Task /\ status[t] \in {"SLEEPING_EV_FLAG", "SELF_SUSPENDED"}
      BY <1>1, <1>3, <3>2, RunsNowhere
    <3> QED BY <1>1, <3>1, <3>2
  <2>3. /\ todo' \in Seq(RegionCall) /\ OnceEach(todo')
        /\ \A c \in ToSet(todo') : c.op = "ready" /\ c.task \in R
    BY <1>1 DEF Readies
  <2> QED BY <2>2, <2>3 DEF RegionInv
<1> QED BY <1>2, <1>4, <1>5, <1>6, <1>7, <1>8

(***************************************************************************)
(* A call that suspends the running task.                                  *)
(***************************************************************************)
\* The node of the running task joins the others, or is left alone.
LEMMA ArmJoins ==
  ASSUME WaitTypes, run \in Task, run \notin ToSet(tmo), NEW ticks,
         NEW type \in {"BLOCKING", "TIME_EVENT"}, ArmTimeout(run, type, ticks)
  PROVE  /\ tmo' \in Seq(Task) /\ NoDuplicates(tmo')
         /\ ToSet(tmo') = IF ticks = Forever THEN ToSet(tmo) ELSE ToSet(tmo) \cup {run}
         /\ ttype' = IF ticks = Forever THEN ttype ELSE [ttype EXCEPT ![run] = type]
<1>1. CASE ticks = Forever
  BY <1>1 DEF ArmTimeout, timeVars, WaitTypes
<1>2. CASE ticks # Forever
  <2> DEFINE notEarlier == {i \in DOMAIN tmo : left[tmo[i]] >= ticks}
             pos == IF notEarlier = {} THEN Len(tmo) + 1
                    ELSE CHOOSE i \in notEarlier : \A j \in notEarlier : i <= j
  <2>1. tmo' = InsertAt(tmo, pos, run) /\ ttype' = [ttype EXCEPT ![run] = type]
    BY <1>2 DEF ArmTimeout, TimeoutInsert
  <2>2. Len(tmo) \in Nat /\ DOMAIN tmo = 1 .. Len(tmo)
    BY LenProperties DEF WaitTypes
  <2>3. pos \in 1 .. Len(tmo) + 1
    <3>1. CASE notEarlier = {}
      BY <2>2, <3>1
    <3>2. CASE notEarlier # {}
      <4>1. notEarlier \in SUBSET Nat
        BY <2>2
      <4> HIDE DEF notEarlier
      <4>2. \E i \in notEarlier : \A j \in notEarlier : i <= j
        BY <3>2, <4>1, LeastExists
      <4>3. pos \in notEarlier
        BY <3>2, <4>2
      <4> QED BY <2>2, <4>3 DEF notEarlier
    <3> QED BY <3>1, <3>2
  <2> HIDE DEF pos
  <2>4. /\ tmo' \in Seq(Task) /\ ToSet(tmo') = ToSet(tmo) \cup {run} /\ NoDuplicates(tmo')
    <3>1. tmo' \in Seq(Task)
      BY <2>1, <2>3, InsertAtProperties DEF WaitTypes
    <3>2. ToSet(tmo') = ToSet(tmo) \cup {run} /\ NoDuplicates(tmo')
      BY <2>1, <2>3, InsertAtSet DEF WaitTypes
    <3> QED BY <3>1, <3>2
  <2> QED BY <1>2, <2>1, <2>4
<1> QED BY <1>1, <1>2

\* The running task waits on a queue of a message queue.
LEMMA WaitStep ==
  ASSUME NoBoost, DispatchInv, ServiceInv, todo = <<>>, run \in UserTask, status[run] = "RUNNING",
         NEW q \in Queue, NEW o, NEW st, NEW number, NEW phase, NEW timeout,
         WaitOn(o, st, number, phase, timeout),
         \/ /\ o = Senders[q] /\ number \in SendNumber /\ phase = "WAIT" /\ st = "SENDING"
            /\ \E m \in Mesg : outgoing' = [outgoing EXCEPT ![run] = m]
            /\ outgoing \in [UserTask -> Mesg \cup {None}]
         \/ /\ o = Receivers[q] /\ st = "RECEIVING" /\ outgoing' = outgoing
            /\ \/ number = "MESG_QUEUE_RECV" /\ phase = "WAIT"
               \/ number = "MESG_QUEUE_BROADCAST_RECV" /\ phase = "BROADCAST"
  PROVE  /\ NoBoost' /\ DispatchInv' /\ ServiceInv'
         /\ \A p \in WaitObj : ToSet(waitQ'[p]) = IF p = o THEN ToSet(waitQ[p]) \cup {run}
                                                           ELSE ToSet(waitQ[p])
         /\ call'[run].phase = phase /\ \A t \in Task \ {run} : call'[t] = call[t]
<1> USE DEF ServiceInv
<1> DEFINE new == [number |-> number, arg |-> o, phase |-> phase, wake |-> "SUCCESS"]
           line == kTCBQEnqByPrio(waitQ[o], run, prio)
<1>1. /\ ArmTimeout(run, "BLOCKING", timeout)
      /\ wqp' = IF timeout = Forever THEN wqp ELSE [wqp EXCEPT ![run] = o]
      /\ status' = [status EXCEPT ![run] = st]
      /\ waitQ' = [waitQ EXCEPT ![o] = line]
      /\ call' = [call EXCEPT ![run] = new]
      /\ kPendCtxSwtch(st)
      /\ UNCHANGED <<run, prio, readyQ, waitingFor, todo>>
  BY DEF WaitOn, mutexVars
<1>2. /\ o \in WaitObj /\ st \in {"SENDING", "RECEIVING"}
      /\ run \in Task /\ run # IdleTask /\ None \notin WaitObj
  <2>1. o \in WaitObj /\ st \in {"SENDING", "RECEIVING"}
    BY QueueObjects
  <2> QED BY <2>1, KernelConstants DEF UserTask, WaitObj
<1>3. /\ \A p \in WaitObj : run \notin ToSet(waitQ[p])
      /\ run \notin ToSet(tmo) /\ wqp[run] = None /\ ttype[run] # "BLOCKING"
  BY <1>2, RunsNowhere DEF NodeInv
<1>4. NoBoost' /\ DispatchInv'
  <2>1. st \in Status \ {"READY", "RUNNING"} /\ pendSV' = TRUE
    BY <1>1, <1>2 DEF Status, kPendCtxSwtch, kPendCtxSwtchNow_
  <2> QED BY <1>1, <1>2, <2>1, DispatchSuspend DEF NoBoost
<1>5. new \in Suspension
  BY <1>2 DEF Suspension, CallNumber, RunsAgainCall, SendNumber, CallPhase, Err
<1>6. /\ line \in Seq(Task) /\ NoDuplicates(line) /\ ToSet(line) = ToSet(waitQ[o]) \cup {run}
  <2>1. waitQ[o] \in Seq(Task) /\ NoDuplicates(waitQ[o]) /\ prio \in [Task -> Nat]
    BY <1>2, Priorities, KernelConstants DEF WaitTypes, NoBoost
  <2> QED BY <1>2, <1>3, <2>1, EnqByPrioProperties
<1>7. /\ tmo' \in Seq(Task) /\ NoDuplicates(tmo')
      /\ ToSet(tmo') = IF timeout = Forever THEN ToSet(tmo) ELSE ToSet(tmo) \cup {run}
      /\ ttype' = IF timeout = Forever THEN ttype ELSE [ttype EXCEPT ![run] = "BLOCKING"]
  BY <1>1, <1>2, <1>3, ArmJoins
<1> HIDE DEF line, new
<1>8. \A p \in WaitObj : ToSet(waitQ'[p]) = IF p = o THEN ToSet(waitQ[p]) \cup {run}
                                                     ELSE ToSet(waitQ[p])
  BY <1>1, <1>2, <1>6 DEF WaitTypes
<1>9. WaitTypes'
  BY <1>1, <1>2, <1>5, <1>6, <1>7 DEF WaitTypes, TimeoutType
<1>10. /\ call'[run] = new /\ \A t \in Task \ {run} : call'[t] = call[t]
       /\ status'[run] = st /\ \A t \in Task \ {run} : status'[t] = status[t]
       /\ \A t \in Task \ {run} : wqp'[t] = wqp[t] /\ ttype'[t] = ttype[t]
       /\ wqp'[run] = IF timeout = Forever THEN None ELSE o
       /\ ttype'[run] = IF timeout = Forever THEN ttype[run] ELSE "BLOCKING"
       /\ \A t \in Task \ {run} : t \in ToSet(tmo') <=> t \in ToSet(tmo)
       /\ run \in ToSet(tmo') => timeout # Forever
  BY <1>1, <1>2, <1>3, <1>7 DEF WaitTypes, DispatchInv
<1>11. new.number = number /\ new.arg = o /\ new.phase = phase
  BY DEF new
<1>12. WaiterInv'
  <2>1. SUFFICES ASSUME NEW p \in WaitObj, NEW t \in ToSet(waitQ'[p])
        PROVE  /\ t \in UserTask /\ status'[t] \in {"SENDING", "RECEIVING"}
               /\ \E r \in Queue : \/ p = Senders[r] /\ Sending(t, r)'
                                   \/ p = Receivers[r] /\ Receiving(t, r)'
               /\ wqp'[t] \in {None, p}
               /\ t \in ToSet(tmo') => ttype'[t] = "BLOCKING"
    BY DEF WaiterInv
  <2>2. CASE t = run
    <3>1. p = o
      BY <1>3, <1>8, <2>2
    <3>2. \/ p = Senders[q] /\ Sending(t, q)'
          \/ p = Receivers[q] /\ Receiving(t, q)'
      BY <1>10, <1>11, <2>2, <3>1 DEF Sending, Receiving
    <3> QED BY <1>2, <1>10, <2>2, <3>1, <3>2
  <2>3. CASE t # run
    <3>1. t \in ToSet(waitQ[p])
      BY <1>8, <2>3
    <3>2. t \in Task
      BY <3>1 DEF WaiterInv, UserTask
    <3>3. UNCHANGED <<call[t], status[t], wqp[t], ttype[t]>>
      BY <1>10, <2>3, <3>2
    <3>4. \E r \in Queue : \/ p = Senders[r] /\ Sending(t, r)'
                           \/ p = Receivers[r] /\ Receiving(t, r)'
      BY <3>1, <3>3 DEF WaiterInv, Sending, Receiving
    <3> QED BY <1>10, <2>3, <3>1, <3>2, <3>3, <3>4 DEF WaiterInv
  <2> QED BY <2>2, <2>3
<1>13. NodeInv'
  <2>1. SUFFICES ASSUME NEW t \in Task
        PROVE  /\ wqp'[t] # None <=> ttype'[t] = "BLOCKING"
               /\ wqp'[t] # None => status'[t] \in {"SENDING", "RECEIVING"}
               /\ t \in ToSet(tmo') => status'[t] \in {"SENDING", "RECEIVING", "SLEEPING_DELAY"}
    BY DEF NodeInv
  <2> QED BY <1>2, <1>3, <1>10 DEF NodeInv
<1>14. CallInv'
  <2>1. SUFFICES ASSUME NEW t \in Task
        PROVE  /\ call'[t].phase \in {"BROADCAST", "BROADCAST_DELIVER"} =>
                    call'[t].number = "MESG_QUEUE_BROADCAST_RECV"
               /\ call'[t].phase = "BROADCAST_DELIVER" =>
                    t \in UserTask /\ t \notin ToSet(tmo') /\ wqp'[t] = None
               /\ call'[t].number \in SendNumber => t \in UserTask /\ outgoing'[t] \in Mesg
    BY DEF CallInv
  <2>2. CASE t = run
    BY <1>10, <1>11, <2>2 DEF SendNumber
  <2>3. CASE t # run
    <3>1. t \in UserTask => outgoing'[t] = outgoing[t]
      BY <2>3
    <3> QED BY <1>10, <2>3, <3>1 DEF CallInv
  <2> QED BY <2>2, <2>3
<1>15. RegionInv'
  BY <1>1 DEF RegionInv, ToSet
<1> QED BY <1>4, <1>8, <1>9, <1>10, <1>11, <1>12, <1>13, <1>14, <1>15

(***************************************************************************)
(* The steps of the kernel.                                                *)
(***************************************************************************)
BaseInv == NoBoost /\ DispatchInv /\ ServiceInv

\* Who is to read a broadcast is not changed, and nobody joins a queue or waits
\* for something else than before.
ReadersKept ==
  \A t \in Task :
    call[t].phase = "BROADCAST_DELIVER" \/ call'[t].phase = "BROADCAST_DELIVER" =>
      call'[t].phase = call[t].phase /\ call'[t].arg = call[t].arg

NobodyJoins ==
  \A o \in WaitObj : \A t \in ToSet(waitQ'[o]) :
    t \in ToSet(waitQ[o]) /\ (call'[t].phase = "WAIT" => call[t].phase = "WAIT")

\* What kSyscallTaskWake and its like do to the call of a task that is made
\* ready.
EndedOrRestarted(t) ==
  /\ call' = [call EXCEPT ![t] = call'[t]] /\ call'[t] \in Suspension
  /\ \/ call'[t] = NoCall /\ call[t].phase # "BROADCAST_DELIVER"
     \/ /\ call'[t].number = call[t].number /\ call'[t].arg = call[t].arg
        /\ \/ call'[t].phase = call[t].phase
           \/ call'[t].phase = "RELOCK" /\ call[t].number = "CONDVAR_WAIT"

\* A call that is done leaves the others, each of them once.
LEMMA TailOnce ==
  ASSUME NEW q \in Seq(RegionCall), q # <<>>, OnceEach(q)
  PROVE  /\ OnceEach(Tail(q))
         /\ \A c \in ToSet(Tail(q)) :
              c.op \in WakeOps /\ Head(q).op \in WakeOps => c.task # Head(q).task
<1>1. /\ Len(q) \in Nat /\ Len(q) > 0 /\ DOMAIN q = 1 .. Len(q) /\ Head(q) = q[1]
      /\ DOMAIN Tail(q) = 1 .. Len(q) - 1
      /\ \A i \in 1 .. Len(q) - 1 : Tail(q)[i] = q[i + 1]
  <2> HIDE DEF RegionCall
  <2>1. Len(q) \in Nat /\ DOMAIN q = 1 .. Len(q) /\ Len(q) # 0
    BY LenProperties, EmptySeq
  <2>2. /\ Tail(q) \in Seq(RegionCall) /\ Len(Tail(q)) = Len(q) - 1 /\ Head(q) = q[1]
        /\ \A i \in 1 .. Len(q) - 1 : Tail(q)[i] = q[i + 1]
    BY <2>1, HeadTailProperties
  <2>3. DOMAIN Tail(q) = 1 .. Len(q) - 1
    BY <2>2, LenProperties
  <2> QED BY <2>1, <2>2, <2>3
<1>2. OnceEach(Tail(q))
  <2>1. SUFFICES ASSUME NEW i \in 1 .. Len(q) - 1, NEW j \in 1 .. Len(q) - 1,
                        Tail(q)[i].op \in WakeOps, Tail(q)[j].op \in WakeOps,
                        Tail(q)[i].task = Tail(q)[j].task
                 PROVE  i = j
    BY <1>1 DEF OnceEach
  <2>2. i + 1 = j + 1
    BY <1>1, <2>1 DEF OnceEach
  <2> QED BY <2>2
<1>3. ASSUME NEW c \in ToSet(Tail(q)), c.op \in WakeOps, Head(q).op \in WakeOps
      PROVE  c.task # Head(q).task
  <2>1. PICK i \in 1 .. Len(q) - 1 : c = q[i + 1]
    BY <1>1 DEF ToSet
  <2>2. c.task = Head(q).task => i + 1 = 1
    BY <1>1, <1>3, <2>1 DEF OnceEach
  <2> QED BY <2>2
<1> QED BY <1>2, <1>3

\* The task at the head of todo is made ready, which ends its wait.
LEMMA HeadDone ==
  ASSUME BaseInv, todo # <<>>, Head(todo).op \in WakeOps, NEW t, t = Head(todo).task,
         status' = [status EXCEPT ![t] = "READY"],
         \/ readyQ' = ReadyEnq(readyQ, t)
         \/ readyQ' = [readyQ EXCEPT ![prio[t]] = kTCBQEnq(@, t)],
         NodesLose({t}), EndedOrRestarted(t), todo' = Tail(todo),
         UNCHANGED <<run, prio, waitQ, waitingFor, outgoing>>, PendKept
  PROVE  BaseInv' /\ ReadersKept /\ NobodyJoins
<1> USE DEF BaseInv, ServiceInv
<1>1. /\ Head(todo) \in RegionCall /\ Tail(todo) \in Seq(RegionCall)
      /\ ToSet(todo) = {Head(todo)} \cup ToSet(Tail(todo))
      /\ todo \in Seq(RegionCall)
  <2> HIDE DEF RegionCall
  <2> QED BY TailFacts DEF RegionInv
<1>2. /\ t \in Task /\ status[t] \notin {"READY", "RUNNING"} /\ Head(todo) \in ToSet(todo)
      /\ \A o \in WaitObj : t \notin ToSet(waitQ[o])
  <2>1. t \in Task
    BY <1>1 DEF RegionCall, WakeOps
  <2> QED BY <1>1, <2>1 DEF RegionInv
<1>3. /\ tmo' \in Seq(Task) /\ NoDuplicates(tmo') /\ ToSet(tmo') = ToSet(tmo) \ {t}
      /\ wqp' \in [Task -> WaitObj \cup {None}] /\ ttype' \in [Task -> TimeoutType]
      /\ wqp'[t] = None /\ ttype'[t] # "BLOCKING"
      /\ \A u \in Task \ {t} : wqp'[u] = wqp[u] /\ ttype'[u] = ttype[u]
  BY <1>2 DEF NodesLose
<1>4. NoBoost' /\ DispatchInv'
  BY <1>2, DispatchReady DEF NoBoost
<1>5. /\ call' \in [Task -> Suspension] /\ \A u \in Task \ {t} : call'[u] = call[u]
      /\ status'[t] = "READY" /\ \A u \in Task \ {t} : status'[u] = status[u]
  <2>1. call' \in [Task -> Suspension]
    BY <1>2 DEF EndedOrRestarted, WaitTypes
  <2> QED BY <1>2, <2>1 DEF EndedOrRestarted, WaitTypes, DispatchInv
<1>6. WaitTypes'
  BY <1>3, <1>5 DEF WaitTypes
<1>7. WaiterInv'
  <2>1. SUFFICES ASSUME NEW o \in WaitObj, NEW u \in ToSet(waitQ'[o])
        PROVE  /\ u \in UserTask /\ status'[u] \in {"SENDING", "RECEIVING"}
               /\ \E q \in Queue : \/ o = Senders[q] /\ Sending(u, q)'
                                   \/ o = Receivers[q] /\ Receiving(u, q)'
               /\ wqp'[u] \in {None, o}
               /\ u \in ToSet(tmo') => ttype'[u] = "BLOCKING"
    BY DEF WaiterInv
  <2>2. u # t /\ u \in ToSet(waitQ[o]) /\ u \in Task
    BY <1>2 DEF WaiterInv, UserTask
  <2>3. UNCHANGED <<call[u], status[u], wqp[u], ttype[u]>>
    BY <1>3, <1>5, <2>2
  <2>4. \E q \in Queue : \/ o = Senders[q] /\ Sending(u, q)'
                         \/ o = Receivers[q] /\ Receiving(u, q)'
    BY <2>2, <2>3 DEF WaiterInv, Sending, Receiving
  <2> QED BY <1>3, <2>2, <2>3, <2>4 DEF WaiterInv
<1>8. NodeInv'
  BY <1>3, <1>5 DEF NodeInv
<1>9. CallInv'
  <2>1. SUFFICES ASSUME NEW u \in Task
        PROVE  /\ call'[u].phase \in {"BROADCAST", "BROADCAST_DELIVER"} =>
                    call'[u].number = "MESG_QUEUE_BROADCAST_RECV"
               /\ call'[u].phase = "BROADCAST_DELIVER" =>
                    u \in UserTask /\ u \notin ToSet(tmo') /\ wqp'[u] = None
               /\ call'[u].number \in SendNumber => u \in UserTask /\ outgoing'[u] \in Mesg
    BY DEF CallInv
  <2>2. CASE u # t
    BY <1>3, <1>5, <2>2 DEF CallInv
  <2>3. CASE u = t
    BY <1>3, <2>3 DEF CallInv, EndedOrRestarted, NoCall, SendNumber
  <2> QED BY <2>2, <2>3
<1>10. RegionInv'
  <2>1. OnceEach(Tail(todo)) /\ \A c \in ToSet(Tail(todo)) : c.op \in WakeOps => c.task # t
    BY <1>1, TailOnce DEF RegionInv
  <2>2. ASSUME NEW c \in ToSet(Tail(todo)), c.op \in WakeOps
        PROVE  /\ status'[c.task] \notin {"READY", "RUNNING"}
               /\ \A o \in WaitObj : c.task \notin ToSet(waitQ'[o])
               /\ c.op # "signalReady" => c.task \notin ToSet(tmo')
               /\ c.op = "ready" => wqp'[c.task] = None
               /\ c.op # "ready" => call'[c.task].phase # "BROADCAST_DELIVER"
    <3>1. c.task \in Task \ {t}
      <4>1. c \in RegionCall
        <5>1. \A d \in ToSet(Tail(todo)) : d \in RegionCall
          <6> HIDE DEF RegionCall
          <6> QED BY <1>1, LenProperties, ElementOfSeq DEF ToSet
        <5> QED BY <5>1
      <4> QED BY <2>1, <2>2, <4>1 DEF RegionCall, WakeOps
    <3>2. c \in ToSet(todo)
      BY <1>1
    <3> QED BY <1>3, <1>5, <2>2, <3>1, <3>2 DEF RegionInv
  <2> QED BY <1>1, <2>1, <2>2 DEF RegionInv
<1>11. ReadersKept
  <2>1. SUFFICES ASSUME NEW u \in Task,
                        call[u].phase = "BROADCAST_DELIVER" \/ call'[u].phase = "BROADCAST_DELIVER"
                 PROVE  call'[u].phase = call[u].phase /\ call'[u].arg = call[u].arg
    BY DEF ReadersKept
  <2>2. CASE u # t
    BY <1>5, <2>2
  <2>3. CASE u = t
    BY <2>1, <2>3 DEF CallInv, EndedOrRestarted, NoCall
  <2> QED BY <2>2, <2>3
<1>12. NobodyJoins
  <2>1. \A o \in WaitObj : \A u \in ToSet(waitQ[o]) : u \in Task
    BY DEF WaiterInv, UserTask
  <2> QED BY <1>2, <1>5, <2>1 DEF NobodyJoins
<1> QED BY <1>4, <1>6, <1>7, <1>8, <1>9, <1>10, <1>11, <1>12

\* A completed call is over, a restarted one keeps its number and argument.
LEMMA CompleteEnds ==
  ASSUME WaitTypes, NEW t \in Task, NEW e, kSyscallTaskComplete_(t, e),
         call[t].phase # "BROADCAST_DELIVER"
  PROVE  EndedOrRestarted(t)
<1>1. NoCall \in Suspension
  BY DEF NoCall, Suspension, CallNumber, CallPhase, Err
<1> QED BY <1>1 DEF kSyscallTaskComplete_, EndedOrRestarted, WaitTypes

\* A call that is to run again keeps its number and argument.
LEMMA RestartKeeps ==
  ASSUME WaitTypes, NEW t \in Task, NEW ph \in CallPhase, NEW w \in Err, RestartWith(t, ph, w),
         ph = call[t].phase \/ (ph = "RELOCK" /\ call[t].number = "CONDVAR_WAIT")
  PROVE  EndedOrRestarted(t)
<1> DEFINE new == [call[t] EXCEPT !.phase = ph, !.wake = w]
<1>1. call' = [call EXCEPT ![t] = new] /\ call[t] \in Suspension
  BY DEF RestartWith, WaitTypes
<1>2. /\ new \in Suspension /\ new.number = call[t].number /\ new.arg = call[t].arg
      /\ new.phase = ph
  BY <1>1 DEF Suspension
<1> HIDE DEF new
<1>3. call'[t] = new
  BY <1>1 DEF WaitTypes
<1> QED BY <1>1, <1>2, <1>3 DEF EndedOrRestarted

\* Each way to wake a task ends its call or lets it run again.
LEMMA WakeEnds ==
  ASSUME BaseInv, NEW t \in Task,
         \/ kSyscallTaskWake(t)
         \/ kSyscallTaskTimeout(t) /\ call[t].phase # "BROADCAST_DELIVER"
         \/ kSyscallTaskSignal(t) /\ call[t].phase # "BROADCAST_DELIVER"
  PROVE  EndedOrRestarted(t)
<1>1. /\ WaitTypes /\ call[t] \in Suspension
      /\ call[t].phase = "BROADCAST_DELIVER" => call[t].number = "MESG_QUEUE_BROADCAST_RECV"
  BY DEF BaseInv, ServiceInv, WaitTypes, CallInv
<1>2. /\ call[t].phase \in CallPhase /\ call[t].wake \in Err
      /\ "RELOCK" \in CallPhase /\ "SUCCESS" \in Err /\ "TIMEOUT" \in Err
  BY <1>1 DEF Suspension, CallPhase, Err
<1>3. \/ call' = call
      \/ call[t].phase # "BROADCAST_DELIVER" /\ \E e : kSyscallTaskComplete_(t, e)
      \/ /\ call[t].number = "CONDVAR_WAIT"
         /\ RestartWith(t, "RELOCK", "SUCCESS") \/ RestartWith(t, "RELOCK", "TIMEOUT")
      \/ RestartWith(t, call[t].phase, call[t].wake)
  <2>1. CASE kSyscallTaskWake(t)
    BY <1>1, <2>1 DEF kSyscallTaskWake, WakeResultCall, RunsAgainCall, callVars
  <2>2. CASE kSyscallTaskTimeout(t) /\ call[t].phase # "BROADCAST_DELIVER"
    BY <2>2 DEF kSyscallTaskTimeout, callVars
  <2>3. CASE kSyscallTaskSignal(t) /\ call[t].phase # "BROADCAST_DELIVER"
    BY <2>3 DEF kSyscallTaskSignal, callVars
  <2> QED BY <2>1, <2>2, <2>3
<1>4. CASE call' = call
  BY <1>1, <1>4 DEF EndedOrRestarted, WaitTypes
<1>5. CASE call[t].phase # "BROADCAST_DELIVER" /\ \E e : kSyscallTaskComplete_(t, e)
  BY <1>1, <1>5, CompleteEnds
<1>6. CASE /\ call[t].number = "CONDVAR_WAIT"
           /\ RestartWith(t, "RELOCK", "SUCCESS") \/ RestartWith(t, "RELOCK", "TIMEOUT")
  BY <1>1, <1>2, <1>6, RestartKeeps
<1>7. CASE RestartWith(t, call[t].phase, call[t].wake)
  <2>1. PICK ph \in CallPhase, w \in Err : ph = call[t].phase /\ RestartWith(t, ph, w)
    BY <1>2, <1>7
  <2> QED BY <1>1, <2>1, RestartKeeps
<1> QED BY <1>3, <1>4, <1>5, <1>6, <1>7

\* Nobody waits for a mutex.
LEMMA WaitsForNone ==
  ASSUME NoBoost, NEW t \in Task,
         kSyscallTaskTimeout(t) \/ kSyscallTaskSignal(t)
  PROVE  UNCHANGED waitingFor
<1>1. UNCHANGED waitingFor \/ waitingFor' = [waitingFor EXCEPT ![t] = None]
  BY DEF kSyscallTaskTimeout, kSyscallTaskSignal
<1> QED BY <1>1 DEF NoBoost

\* The task at the head of todo.
LEMMA HeadFacts ==
  ASSUME BaseInv, todo # <<>>, Head(todo).op \in WakeOps
  PROVE  LET t == Head(todo).task
         IN  /\ t \in Task /\ status[t] \notin {"READY", "RUNNING"}
             /\ \A o \in WaitObj : t \notin ToSet(waitQ[o])
             /\ Head(todo).op # "signalReady" => t \notin ToSet(tmo)
             /\ Head(todo).op = "ready" => wqp[t] = None /\ ttype[t] # "BLOCKING"
             /\ Head(todo).op # "ready" => call[t].phase # "BROADCAST_DELIVER"
<1>1. Head(todo) \in RegionCall /\ Head(todo) \in ToSet(todo)
  <2> HIDE DEF RegionCall
  <2> QED BY TailFacts DEF BaseInv, ServiceInv, RegionInv
<1>2. Head(todo).task \in Task
  BY <1>1 DEF RegionCall, WakeOps
<1> QED BY <1>1, <1>2 DEF BaseInv, ServiceInv, RegionInv, NodeInv

\* The three ways in which a suspended task is made ready.
LEMMA MadeReady ==
  ASSUME BaseInv, UNCHANGED outgoing, ReadySwtch \/ TimeoutReady \/ SignalReady
  PROVE  BaseInv' /\ ReadersKept /\ NobodyJoins
<1> DEFINE t == Head(todo).task
<1>1. todo # <<>> /\ Head(todo).op \in WakeOps
  BY DEF ReadySwtch, TimeoutReady, SignalReady, WakeOps
<1>2. /\ t \in Task
      /\ Head(todo).op # "signalReady" => t \notin ToSet(tmo)
      /\ Head(todo).op = "ready" => wqp[t] = None /\ ttype[t] # "BLOCKING"
      /\ Head(todo).op # "ready" => call[t].phase # "BROADCAST_DELIVER"
  BY <1>1, HeadFacts
<1>3. /\ status' = [status EXCEPT ![t] = "READY"]
      /\ \/ readyQ' = ReadyEnq(readyQ, t)
         \/ readyQ' = [readyQ EXCEPT ![prio[t]] = kTCBQEnq(@, t)]
      /\ todo' = Tail(todo) /\ UNCHANGED <<run, prio, waitQ>>
  BY DEF ReadySwtch, TimeoutReady, SignalReady, waitVars
<1>4. WaitTypes
  BY DEF BaseInv, ServiceInv
<1>5. CASE ReadySwtch
  <2>1. /\ kSyscallTaskWake(t) /\ kReschedTask(prio[t], prio)
        /\ UNCHANGED <<wqp, tmo, ttype, waitingFor>> /\ Head(todo).op = "ready"
    BY <1>5 DEF ReadySwtch, waitVars, mutexVars, timeVars
  <2>2. NodesLose({t})
    <3>1. ToSet(tmo) = ToSet(tmo) \ {t}
      BY <1>2, <2>1
    <3> QED BY <1>2, <1>4, <2>1, <3>1 DEF NodesLose, WaitTypes
  <2>3. EndedOrRestarted(t) /\ PendKept
    BY <1>2, <2>1, WakeEnds, PendRequests
  <2> QED BY <1>1, <1>3, <2>1, <2>2, <2>3, HeadDone
<1>6. CASE TimeoutReady
  <2>1. /\ kSyscallTaskTimeout(t) /\ ttype' = [ttype EXCEPT ![t] = "NONE"]
        /\ wqp' = [wqp EXCEPT ![t] = None]
        /\ UNCHANGED <<pendSV, tmo>> /\ Head(todo).op = "timeoutReady"
    BY <1>6 DEF TimeoutReady
  <2>2. NodesLose({t})
    <3>1. ToSet(tmo) = ToSet(tmo) \ {t}
      BY <1>2, <2>1
    <3> QED BY <1>2, <1>4, <2>1, <3>1 DEF NodesLose, WaitTypes, TimeoutType
  <2>3. EndedOrRestarted(t) /\ UNCHANGED waitingFor /\ PendKept
    BY <1>2, <2>1, WakeEnds, WaitsForNone DEF PendKept, BaseInv
  <2> QED BY <1>1, <1>3, <2>2, <2>3, HeadDone
<1>7. CASE SignalReady
  <2>1. /\ kSyscallTaskSignal(t) /\ DisarmTimeout(t) /\ wqp' = [wqp EXCEPT ![t] = None]
        /\ kReschedTask(prio[t], prio) /\ Head(todo).op = "signalReady"
    BY <1>7 DEF SignalReady
  <2>2. NodesLose({t})
    <3>1. /\ kTCBQRem(tmo, t) \in Seq(Task) /\ NoDuplicates(kTCBQRem(tmo, t))
          /\ ToSet(kTCBQRem(tmo, t)) = ToSet(tmo) \ {t}
      BY <1>4, RemProperties DEF WaitTypes
    <3> QED BY <1>2, <1>4, <2>1, <3>1 DEF DisarmTimeout, NodesLose, WaitTypes, TimeoutType
  <2>3. EndedOrRestarted(t) /\ UNCHANGED waitingFor /\ PendKept
    BY <1>2, <2>1, WakeEnds, WaitsForNone, PendRequests DEF BaseInv
  <2> QED BY <1>1, <1>3, <2>2, <2>3, HeadDone
<1> QED BY <1>5, <1>6, <1>7

\* A wait that ends early: the task leaves its queue, and is still to be made
\* ready.
LEMMA WaitBroken ==
  ASSUME BaseInv, NEW t \in Task, status[t] \notin {"READY", "RUNNING"},
         call[t].phase # "BROADCAST_DELIVER", QueuesLose({t}),
         tmo' \in Seq(Task), NoDuplicates(tmo'), ToSet(tmo') \subseteq ToSet(tmo),
         todo' \in Seq(RegionCall), OnceEach(todo'),
         \A c \in ToSet(todo') : c.op \in WakeOps =>
           /\ c.task = t
           /\ c.op = "signalReady" \/ (c.op = "timeoutReady" /\ t \notin ToSet(tmo')),
         UNCHANGED <<run, status, prio, readyQ, wqp, ttype, call, waitingFor, outgoing>>,
         PendKept
  PROVE  BaseInv' /\ ReadersKept /\ NobodyJoins
<1> USE DEF BaseInv, ServiceInv
<1>1. /\ NoBoost' /\ DispatchInv'
      /\ \A o \in WaitObj : ToSet(waitQ'[o]) = ToSet(waitQ[o]) \ {t}
  BY DispatchFrame DEF NoBoost, QueuesLose
<1>2. WaitTypes'
  BY DEF WaitTypes, QueuesLose
<1>3. WaiterInv'
  <2>1. SUFFICES ASSUME NEW o \in WaitObj, NEW u \in ToSet(waitQ'[o])
        PROVE  /\ u \in UserTask /\ status'[u] \in {"SENDING", "RECEIVING"}
               /\ \E q \in Queue : \/ o = Senders[q] /\ Sending(u, q)'
                                   \/ o = Receivers[q] /\ Receiving(u, q)'
               /\ wqp'[u] \in {None, o}
               /\ u \in ToSet(tmo') => ttype'[u] = "BLOCKING"
    BY DEF WaiterInv
  <2>2. u \in ToSet(waitQ[o])
    BY <1>1
  <2>3. \E q \in Queue : \/ o = Senders[q] /\ Sending(u, q)'
                         \/ o = Receivers[q] /\ Receiving(u, q)'
    BY <2>2 DEF WaiterInv, Sending, Receiving
  <2> QED BY <2>2, <2>3 DEF WaiterInv
<1>4. NodeInv'
  BY DEF NodeInv
<1>5. CallInv'
  BY DEF CallInv, UserTask
<1>6. RegionInv'
  BY <1>1 DEF RegionInv
<1>7. ReadersKept /\ NobodyJoins
  BY <1>1 DEF ReadersKept, NobodyJoins
<1> QED BY <1>1, <1>2, <1>3, <1>4, <1>5, <1>6, <1>7

\* Whoever waits with a timeout is where its node says.
LEMMA NodeNames ==
  ASSUME BaseInv, NEW t \in Task,
         waitQ' = IF wqp[t] # None THEN [waitQ EXCEPT ![wqp[t]] = kTCBQRem(@, t)] ELSE waitQ,
         wqp[t] # None \/ t \in ToSet(tmo)
  PROVE  QueuesLose({t})
<1> USE DEF BaseInv, ServiceInv
<1>1. wqp[t] \in WaitObj \cup {None} /\ None \notin WaitObj
  BY KernelConstants DEF WaitTypes, WaitObj
<1>2. \A o \in WaitObj : t \in ToSet(waitQ[o]) => o = wqp[t]
  BY DEF WaiterInv, NodeInv
<1>3. CASE wqp[t] # None
  <2> DEFINE o == wqp[t]
             q == kTCBQRem(waitQ[o], t)
  <2>1. o \in WaitObj /\ waitQ' = [waitQ EXCEPT ![o] = q]
    BY <1>1, <1>3
  <2>2. q \in Seq(Task) /\ NoDuplicates(q) /\ ToSet(q) = ToSet(waitQ[o]) \ {t}
    <3> HIDE DEF o
    <3> QED BY <2>1, RemProperties DEF WaitTypes
  <2> HIDE DEF q
  <2>3. ASSUME NEW p \in WaitObj
        PROVE  NoDuplicates(waitQ'[p]) /\ ToSet(waitQ'[p]) = ToSet(waitQ[p]) \ {t}
    <3>1. waitQ'[p] = IF p = o THEN q ELSE waitQ[p]
      BY <2>1 DEF WaitTypes
    <3> QED BY <1>2, <2>2, <3>1 DEF WaitTypes
  <2>4. waitQ' \in [WaitObj -> Seq(Task)]
    BY <2>1, <2>2 DEF WaitTypes
  <2> QED BY <2>3, <2>4 DEF QueuesLose
<1>4. CASE wqp[t] = None
  BY <1>1, <1>2, <1>4 DEF QueuesLose, WaitTypes
<1> QED BY <1>3, <1>4

\* A node expires.
LEMMA ExpireStep ==
  ASSUME BaseInv, UNCHANGED outgoing, TimeoutExpire
  PROVE  BaseInv' /\ ReadersKept /\ NobodyJoins
<1> DEFINE t == Head(tmo)
           x == [op |-> "timeoutReady", task |-> t]
           y == HandleTimeoutsOf(TRUE)
<1>1. /\ t \in Task /\ Tail(tmo) \in Seq(Task) /\ NoDuplicates(Tail(tmo))
      /\ ToSet(tmo) = {t} \cup ToSet(Tail(tmo)) /\ t \notin ToSet(Tail(tmo))
  BY TailFacts DEF BaseInv, ServiceInv, WaitTypes, TimeoutExpire
<1>2. /\ status[t] \notin {"READY", "RUNNING"} /\ call[t].phase # "BROADCAST_DELIVER"
      /\ ttype[t] = "BLOCKING" <=> wqp[t] # None
  BY <1>1 DEF BaseInv, ServiceInv, NodeInv, CallInv
<1>3. todo' = <<x, y>>
  <2>1. WaiterRemoved(t) = <<>>
    BY <1>1 DEF WaiterRemoved, BaseInv, NoBoost
  <2>2. todo' = <<>> \o <<x, y>>
    BY <2>1 DEF TimeoutExpire
  <2> QED BY <2>2
<1>4. todo' \in Seq(RegionCall) /\ OnceEach(todo') /\ ToSet(todo') = {x, y}
  <2>1. x \in RegionCall /\ y \in RegionCall /\ y.op \notin WakeOps
    BY <1>1 DEF RegionCall, HandleTimeoutsOf, WakeOps
  <2> HIDE DEF x, y, RegionCall
  <2>2. OnceEach(<<x, y>>)
    BY <2>1 DEF OnceEach
  <2> QED BY <1>3, <2>1, <2>2, SmallSequences
<1>5. /\ \A c \in {x, y} : c.op \in WakeOps => c.task = t /\ c.op = "timeoutReady"
      /\ tmo' = Tail(tmo)
      /\ waitQ' = IF wqp[t] # None THEN [waitQ EXCEPT ![wqp[t]] = kTCBQRem(@, t)] ELSE waitQ
      /\ UNCHANGED <<run, status, prio, readyQ, wqp, ttype, call, waitingFor, outgoing>>
      /\ PendKept
  BY <1>2 DEF TimeoutExpire, HandleTimeoutsOf, WakeOps, schedVars, mutexVars, callVars, PendKept
<1>6. QueuesLose({t})
  BY <1>1, <1>5, NodeNames
<1> HIDE DEF t, x, y
<1> QED BY <1>1, <1>2, <1>4, <1>5, <1>6, WaitBroken

\* A wait that has a timeout is interrupted by a signal.
LEMMA SignalStep ==
  ASSUME BaseInv, UNCHANGED outgoing, NEW t \in Task, wqp[t] # None, kTaskSignalReady(t)
  PROVE  BaseInv' /\ ReadersKept /\ NobodyJoins
<1> DEFINE x == [op |-> "signalReady", task |-> t]
<1>1. todo' = <<x>>
  <2>1. WaiterRemoved(t) = <<>>
    BY DEF WaiterRemoved, BaseInv, NoBoost
  <2>2. todo' = <<>> \o <<x>>
    BY <2>1 DEF kTaskSignalReady
  <2> QED BY <2>2
<1>2. todo' \in Seq(RegionCall) /\ OnceEach(todo') /\ ToSet(todo') = {x}
  <2>1. x \in RegionCall
    BY DEF RegionCall, WakeOps
  <2> HIDE DEF x, RegionCall
  <2>2. OnceEach(<<x>>)
    BY DEF OnceEach
  <2> QED BY <1>1, <2>1, <2>2, SmallSequences
<1>3. /\ status[t] \notin {"READY", "RUNNING"} /\ call[t].phase # "BROADCAST_DELIVER"
      /\ tmo \in Seq(Task) /\ NoDuplicates(tmo)
  BY DEF kTaskSignalReady, Interruptible, BaseInv, ServiceInv, CallInv, WaitTypes
<1>4. /\ \A c \in {x} : c.task = t /\ c.op = "signalReady"
      /\ waitQ' = IF wqp[t] # None THEN [waitQ EXCEPT ![wqp[t]] = kTCBQRem(@, t)] ELSE waitQ
      /\ UNCHANGED <<run, status, prio, readyQ, wqp, ttype, tmo, call, waitingFor, outgoing>>
      /\ PendKept
  BY DEF kTaskSignalReady, schedVars, mutexVars, timeVars, PendKept
<1>5. QueuesLose({t})
  BY <1>4, NodeNames
<1> HIDE DEF x
<1> QED BY <1>2, <1>3, <1>4, <1>5, WaitBroken

\* A step that touches no list of waiting tasks: those it suspends or lets run
\* were not waiting, and it queues at most the work of the tick.
LEMMA ListsFrame ==
  ASSUME ServiceInv, UNCHANGED <<waitQ, wqp, tmo, ttype, call, outgoing>>,
         \A t \in Task : status'[t] = status[t] \/ status[t] \in {"READY", "RUNNING"},
         \/ todo' = todo
         \/ todo # <<>> /\ todo' = Tail(todo)
         \/ todo' = <<HandleTimeoutsOf(FALSE)>>
  PROVE  ServiceInv' /\ ReadersKept /\ NobodyJoins
<1> USE DEF ServiceInv
<1>1. WaitTypes' /\ CallInv' /\ ReadersKept /\ NobodyJoins
  BY DEF WaitTypes, CallInv, ReadersKept, NobodyJoins
<1>2. WaiterInv'
  <2>1. SUFFICES ASSUME NEW o \in WaitObj, NEW t \in ToSet(waitQ'[o])
        PROVE  /\ t \in UserTask /\ status'[t] \in {"SENDING", "RECEIVING"}
               /\ \E q \in Queue : \/ o = Senders[q] /\ Sending(t, q)'
                                   \/ o = Receivers[q] /\ Receiving(t, q)'
               /\ wqp'[t] \in {None, o}
               /\ t \in ToSet(tmo') => ttype'[t] = "BLOCKING"
    BY DEF WaiterInv
  <2>2. t \in ToSet(waitQ[o]) /\ status'[t] = status[t]
    BY DEF WaiterInv, UserTask
  <2>3. \E q \in Queue : \/ o = Senders[q] /\ Sending(t, q)'
                         \/ o = Receivers[q] /\ Receiving(t, q)'
    BY <2>2 DEF WaiterInv, Sending, Receiving
  <2> QED BY <2>2, <2>3 DEF WaiterInv
<1>3. NodeInv'
  <2>1. \A t \in Task : wqp[t] # None \/ t \in ToSet(tmo) => status'[t] = status[t]
    BY DEF NodeInv
  <2> QED BY <2>1 DEF NodeInv
<1>4. RegionInv'
  <2>1. /\ todo' \in Seq(RegionCall) /\ OnceEach(todo')
        /\ \A c \in ToSet(todo') : c \in ToSet(todo) \/ c.op \notin WakeOps
    <3>1. CASE todo' = todo
      BY <3>1 DEF RegionInv
    <3>2. CASE todo # <<>> /\ todo' = Tail(todo)
      <4>1. Tail(todo) \in Seq(RegionCall) /\ ToSet(Tail(todo)) \subseteq ToSet(todo)
        <5> HIDE DEF RegionCall
        <5> QED BY <3>2, TailFacts DEF RegionInv
      <4> QED BY <3>2, <4>1, TailOnce DEF RegionInv
    <3>3. CASE todo' = <<HandleTimeoutsOf(FALSE)>>
      <4> DEFINE y == HandleTimeoutsOf(FALSE)
      <4>1. y \in RegionCall /\ y.op \notin WakeOps
        BY DEF RegionCall, HandleTimeoutsOf, WakeOps
      <4> HIDE DEF y, RegionCall
      <4>2. OnceEach(<<y>>) /\ <<y>> \in Seq(RegionCall) /\ ToSet(<<y>>) = {y}
        <5>1. OnceEach(<<y>>)
          BY DEF OnceEach
        <5> QED BY <4>1, <5>1, SmallSequences
      <4>3. todo' = <<y>>
        BY <3>3 DEF y
      <4> QED BY <4>1, <4>2, <4>3
    <3> QED BY <3>1, <3>2, <3>3
  <2>2. \A c \in ToSet(todo) : c.op \in WakeOps => c.task \in Task
    <3>1. \A c \in ToSet(todo) : c \in RegionCall
      <4> HIDE DEF RegionCall
      <4> QED BY LenProperties, ElementOfSeq DEF ToSet, RegionInv
    <3> QED BY <3>1 DEF RegionCall, WakeOps
  <2>3. ASSUME NEW c \in ToSet(todo'), c.op \in WakeOps
        PROVE  /\ status'[c.task] \notin {"READY", "RUNNING"}
               /\ \A o \in WaitObj : c.task \notin ToSet(waitQ'[o])
               /\ c.op # "signalReady" => c.task \notin ToSet(tmo')
               /\ c.op = "ready" => wqp'[c.task] = None
               /\ c.op # "ready" => call'[c.task].phase # "BROADCAST_DELIVER"
    BY <2>1, <2>2, <2>3 DEF RegionInv
  <2> QED BY <2>1, <2>3 DEF RegionInv
<1> QED BY <1>1, <1>2, <1>3, <1>4

\* The running task suspends itself, on no queue.
LEMMA SuspendStep ==
  ASSUME BaseInv, todo = <<>>, run # IdleTask, status[run] = "RUNNING", UNCHANGED <<todo, outgoing>>,
         NEW st \in {"SLEEPING_DELAY", "SELF_SUSPENDED"}, status' = [status EXCEPT ![run] = st],
         pendSV' = TRUE, UNCHANGED <<run, prio, readyQ, waitQ, wqp, waitingFor>>,
         NEW n \in {"SLEEP_DELAY", "TASK_SELF_SUSPEND"}, call[run] = NoCall,
         call' = [call EXCEPT ![run].number = n, ![run].phase = "WAIT"],
         \/ UNCHANGED <<tmo, ttype>>
         \/ /\ st = "SLEEPING_DELAY" /\ tmo' \in Seq(Task) /\ NoDuplicates(tmo')
            /\ ToSet(tmo') \subseteq ToSet(tmo) \cup {run}
            /\ ttype' = [ttype EXCEPT ![run] = "TIME_EVENT"]
  PROVE  BaseInv' /\ ReadersKept /\ NobodyJoins
<1> USE DEF BaseInv, ServiceInv
<1>1. run \in Task
  BY DEF DispatchInv
<1>2. NoBoost' /\ DispatchInv'
  <2>1. st \in Status \ {"READY", "RUNNING"}
    BY DEF Status
  <2> QED BY <2>1, DispatchSuspend DEF NoBoost
<1>3. /\ \A o \in WaitObj : run \notin ToSet(waitQ[o])
      /\ run \notin ToSet(tmo) /\ wqp[run] = None /\ ttype[run] # "BLOCKING"
  BY <1>1, RunsNowhere DEF NodeInv
<1>4. /\ call' \in [Task -> Suspension] /\ \A t \in Task \ {run} : call'[t] = call[t]
      /\ call'[run].number = n /\ call'[run].phase = "WAIT"
  <2> DEFINE new == [NoCall EXCEPT !.number = n, !.phase = "WAIT"]
  <2>1. new \in Suspension /\ new.number = n /\ new.phase = "WAIT"
    BY DEF NoCall, Suspension, CallNumber, CallPhase, Err
  <2>2. call' = [call EXCEPT ![run] = new]
    OBVIOUS
  <2> HIDE DEF new
  <2> QED BY <1>1, <2>1, <2>2 DEF WaitTypes
<1>5. /\ status'[run] = st /\ \A t \in Task \ {run} : status'[t] = status[t]
      /\ \A t \in Task \ {run} : ttype'[t] = ttype[t]
      /\ ttype'[run] # "BLOCKING"
      /\ \A t \in ToSet(tmo') : t \in ToSet(tmo) \/ (t = run /\ st = "SLEEPING_DELAY")
  BY <1>1, <1>3 DEF WaitTypes, DispatchInv
<1>6. WaitTypes'
  BY <1>4 DEF WaitTypes, TimeoutType
<1>7. WaiterInv'
  <2>1. SUFFICES ASSUME NEW o \in WaitObj, NEW t \in ToSet(waitQ'[o])
        PROVE  /\ t \in UserTask /\ status'[t] \in {"SENDING", "RECEIVING"}
               /\ \E q \in Queue : \/ o = Senders[q] /\ Sending(t, q)'
                                   \/ o = Receivers[q] /\ Receiving(t, q)'
               /\ wqp'[t] \in {None, o}
               /\ t \in ToSet(tmo') => ttype'[t] = "BLOCKING"
    BY DEF WaiterInv
  <2>2. t \in ToSet(waitQ[o]) /\ t \in Task /\ t # run
    BY <1>3 DEF WaiterInv, UserTask
  <2>3. UNCHANGED <<call[t], status[t], ttype[t]>>
    BY <1>4, <1>5, <2>2
  <2>4. \E q \in Queue : \/ o = Senders[q] /\ Sending(t, q)'
                         \/ o = Receivers[q] /\ Receiving(t, q)'
    BY <2>2, <2>3 DEF WaiterInv, Sending, Receiving
  <2> QED BY <1>5, <2>2, <2>3, <2>4 DEF WaiterInv
<1>8. NodeInv'
  BY <1>3, <1>5 DEF NodeInv
<1>9. CallInv'
  <2>1. SUFFICES ASSUME NEW t \in Task
        PROVE  /\ call'[t].phase \in {"BROADCAST", "BROADCAST_DELIVER"} =>
                    call'[t].number = "MESG_QUEUE_BROADCAST_RECV"
               /\ call'[t].phase = "BROADCAST_DELIVER" =>
                    t \in UserTask /\ t \notin ToSet(tmo') /\ wqp'[t] = None
               /\ call'[t].number \in SendNumber => t \in UserTask /\ outgoing'[t] \in Mesg
    BY DEF CallInv
  <2>2. CASE t = run
    BY <1>4, <2>2 DEF SendNumber
  <2>3. CASE t # run
    BY <1>4, <1>5, <2>3 DEF CallInv
  <2> QED BY <2>2, <2>3
<1>10. RegionInv'
  BY DEF RegionInv, ToSet
<1>11. ReadersKept /\ NobodyJoins
  <2>1. \A o \in WaitObj : \A t \in ToSet(waitQ[o]) : t \in Task \ {run}
    BY <1>3 DEF WaiterInv, UserTask
  <2> QED BY <1>4, <2>1 DEF ReadersKept, NobodyJoins, NoCall
<1> QED BY <1>2, <1>6, <1>7, <1>8, <1>9, <1>10, <1>11

\* What the kernel does, and what tasks ask of the scheduler, serves nobody.
LEMMA KernelKeeps ==
  ASSUME ~YieldWhenLocked, BaseInv, LockInv, UNCHANGED outgoing,
         KernelStep \/ Tick \/ SchedCall \/ TimedSignal
  PROVE  BaseInv' /\ ReadersKept /\ NobodyJoins
<1> USE DEF BaseInv
<1>1. ASSUME UpdatePrio PROVE FALSE
  <2>1. todo \in Seq(RegionCall) /\ todo # <<>> /\ Head(todo).op = "updatePrio"
    BY <1>1 DEF UpdatePrio, ServiceInv, RegionInv
  <2>2. Head(todo) \in RegionCall
    <3> HIDE DEF RegionCall
    <3> QED BY <2>1, TailFacts
  <2> QED BY <2>1, <2>2 DEF RegionCall, WakeOps
<1>2. CASE ReadySwtch \/ TimeoutReady \/ SignalReady
  BY <1>2, MadeReady
<1>3. CASE TimeoutExpire
  BY <1>3, ExpireStep
<1>4. CASE TickEnd
  <2>1. /\ UNCHANGED <<run, status, prio, readyQ, waitQ, wqp, waitingFor, tmo, ttype, call>>
        /\ todo # <<>> /\ todo' = Tail(todo)
        /\ NoCtxSwtch \/ kDeferCtxSwtch_ \/ kPendCtxSwtchNow_
    BY <1>4 DEF TickEnd, waitVars, mutexVars, timeVars, callVars
  <2>2. PendKept
    BY <2>1, PendRequests
  <2>3. NoBoost' /\ DispatchInv'
    BY <2>1, <2>2, DispatchFrame DEF NoBoost
  <2> QED BY <2>1, <2>3, ListsFrame
<1>5. CASE Tick
  <2>1. /\ UNCHANGED <<run, status, prio, readyQ, pendSV, waitQ, wqp, waitingFor, tmo, ttype, call>>
        /\ todo' = <<HandleTimeoutsOf(FALSE)>>
    BY <1>5 DEF Tick, schedVars, waitVars, mutexVars, callVars
  <2>2. NoBoost' /\ DispatchInv'
    BY <2>1, DispatchFrame DEF NoBoost, PendKept
  <2> QED BY <2>1, <2>2, ListsFrame
<1>6. CASE kSwtch
  <2>1. /\ UNCHANGED <<prio, waitQ, wqp, waitingFor, tmo, ttype, call, todo>>
    BY <1>6 DEF kSwtch, waitVars, mutexVars, timeVars, callVars
  <2>2. /\ NoBoost' /\ DispatchInv'
        /\ \A t \in Task : status'[t] = status[t] \/ status[t] \in {"READY", "RUNNING"}
    BY <1>6, <2>1, DispatchSwitch DEF NoBoost
  <2> QED BY <2>1, <2>2, ListsFrame
<1>7. ASSUME Executing
      PROVE  /\ run \in Task /\ run # IdleTask /\ todo = <<>> /\ status[run] = "RUNNING"
             /\ call[run] = NoCall
  BY <1>7 DEF Executing, UserTask, DispatchInv
<1>8. CASE kSchLock \/ kSchUnlock
  <2>1. /\ UNCHANGED <<run, status, prio, readyQ, waitQ, wqp, waitingFor, tmo, ttype, call, todo>>
        /\ UNCHANGED pendSV \/ kPendCtxSwtchNow_ \/ NoCtxSwtch
    BY <1>8 DEF kSchLock, kSchUnlock, waitVars, mutexVars, timeVars
  <2>2. PendKept
    BY <2>1, PendRequests DEF PendKept
  <2>3. NoBoost' /\ DispatchInv'
    BY <2>1, <2>2, DispatchFrame DEF NoBoost
  <2> QED BY <2>1, <2>3, ListsFrame
<1>9. CASE /\ schLock > 0 => YieldWhenLocked
           /\ kYield
  <2>1. /\ UNCHANGED <<run, prio, waitQ, wqp, waitingFor, tmo, ttype, call, todo>>
        /\ readyQ' = [readyQ EXCEPT ![prio[run]] = kTCBQEnq(@, run)]
        /\ status' = [status EXCEPT ![run] = "READY"] /\ Executing
        /\ IF schLock = 0 THEN kPendCtxSwtchNow_ ELSE kDeferCtxSwtch_
    BY <1>9 DEF kYield, waitVars, mutexVars, timeVars
  <2>2. pendSV' = TRUE \/ schLock # 0
    BY <2>1 DEF kPendCtxSwtchNow_
  <2>3. CASE schLock # 0
    <3>1. schLock > 0
      BY <2>3 DEF LockInv
    <3> QED BY <1>9, <3>1
  <2>4. CASE pendSV' = TRUE
    <3>1. NoBoost' /\ DispatchInv'
      BY <1>7, <2>1, <2>4, DispatchYield DEF NoBoost
    <3>2. \A t \in Task : status'[t] = status[t] \/ status[t] \in {"READY", "RUNNING"}
      BY <1>7, <2>1 DEF DispatchInv
    <3> QED BY <2>1, <3>1, <3>2, ListsFrame
  <2> QED BY <2>2, <2>3, <2>4
<1>10. CASE \E ticks \in Timeout : kSleepDelay(ticks)
  <2>1. PICK ticks : kSleepDelay(ticks)
    BY <1>10
  <2>2. /\ Executing /\ ticks # Forever
        /\ ArmTimeout(run, "TIME_EVENT", ticks)
        /\ status' = [status EXCEPT ![run] = "SLEEPING_DELAY"]
        /\ call' = [call EXCEPT ![run].number = "SLEEP_DELAY", ![run].phase = "WAIT"]
        /\ kPendCtxSwtch("SLEEPING_DELAY")
        /\ UNCHANGED <<run, prio, readyQ, waitQ, wqp, waitingFor, todo>>
    BY <2>1, KernelConstants DEF kSleepDelay, waitVars, mutexVars
  <2>3. pendSV' = TRUE
    BY <2>2 DEF kPendCtxSwtch, kPendCtxSwtchNow_
  <2>4. run \notin ToSet(tmo)
    BY <1>7, <2>2, RunsNowhere DEF ServiceInv
  <2>5. /\ tmo' \in Seq(Task) /\ NoDuplicates(tmo')
        /\ ToSet(tmo') \subseteq ToSet(tmo) \cup {run}
        /\ ttype' = [ttype EXCEPT ![run] = "TIME_EVENT"]
    BY <1>7, <2>2, <2>4, ArmJoins DEF ServiceInv
  <2> QED BY <1>7, <2>2, <2>3, <2>5, SuspendStep
<1>11. CASE kTaskSelfSuspend
  <2>1. /\ Executing
        /\ status' = [status EXCEPT ![run] = "SELF_SUSPENDED"]
        /\ call' = [call EXCEPT ![run].number = "TASK_SELF_SUSPEND", ![run].phase = "WAIT"]
        /\ kPendCtxSwtch("SELF_SUSPENDED")
        /\ UNCHANGED <<run, prio, readyQ, waitQ, wqp, waitingFor, todo, tmo, ttype>>
    BY <1>11 DEF kTaskSelfSuspend, waitVars, mutexVars, timeVars
  <2>2. pendSV' = TRUE
    BY <2>1 DEF kPendCtxSwtch, kPendCtxSwtchNow_
  <2> QED BY <1>7, <2>1, <2>2, SuspendStep
<1>12. ASSUME NEW t \in MaySuspend, kTaskResume(t)
       PROVE  BaseInv' /\ ReadersKept /\ NobodyJoins
  <2>1. /\ todo = <<>> /\ status[t] = "SELF_SUSPENDED" /\ todo' = <<ReadySwtchOf(t)>>
        /\ UNCHANGED <<run, status, prio, readyQ, pendSV, waitQ, wqp, waitingFor, tmo, ttype, call>>
        /\ t \in Task
    BY <1>12, MutexConstants
    DEF kTaskResume, Executing, schedVars, waitVars, mutexVars, timeVars, UserTask
  <2>2. WaitTypes
    BY DEF ServiceInv
  <2>3. QueuesLose({}) /\ NodesLose({}) /\ Readies(todo', {t}) /\ PendKept
    BY <2>1, <2>2, NothingLost, ReadyLists DEF PendKept
  <2>4. /\ \A u \in Task : call'[u] \in Suspension /\ ServedCall(u, {}, {})
        /\ call' = [u \in Task |-> call'[u]]
    BY <2>1, <2>2 DEF WaitTypes, ServedCall
  <2>5. Serves({}, {}, {t})
    BY <2>1, <2>3, <2>4 DEF Serves
  <2>6. BaseInv'
    BY <2>5, ServeStep
  <2> QED BY <2>1, <2>6 DEF ReadersKept, NobodyJoins
<1>13. CASE TimedSignal
  <2>1. PICK t \in MaySignal : wqp[t] # None /\ kTaskSignalReady(t)
    BY <1>13 DEF TimedSignal
  <2>2. t \in Task
    BY MutexConstants DEF UserTask
  <2> QED BY <2>1, <2>2, SignalStep
<1> QED BY <1>1, <1>2, <1>3, <1>4, <1>5, <1>6, <1>8, <1>9, <1>10, <1>11, <1>12, <1>13
    DEF KernelStep, SchedCall

\* The scheduler lock counts.
LEMMA LockStep ==
  ASSUME DispatchInv, DispatchInv', LockInv, KernelStep \/ Tick \/ SchedCall \/ TimedSignal
  PROVE  LockInv'
<1> USE DEF LockInv
<1>1. CASE UNCHANGED <<schLock, savedLock>>
  BY <1>1
<1>2. CASE kSchLock
  <2>1. schLock' = schLock + 1 /\ savedLock' = [savedLock EXCEPT ![run] = schLock + 1]
    BY <1>2 DEF kSchLock
  <2>2. schLock + 1 \in Nat
    OBVIOUS
  <2> QED BY <2>1, <2>2
<1>3. CASE kSchUnlock
  <2>1. /\ schLock' = schLock - 1 /\ savedLock' = [savedLock EXCEPT ![run] = schLock - 1]
        /\ schLock > 0
    BY <1>3 DEF kSchUnlock
  <2>2. schLock - 1 \in Nat
    BY <2>1
  <2> QED BY <2>1, <2>2
<1>4. CASE kSwtch
  <2>1. /\ savedLock' = [savedLock EXCEPT ![run] = schLock] /\ schLock' = savedLock'[run']
        /\ run' \in Task
    BY <1>4 DEF kSwtch, DispatchInv
  <2> QED BY <2>1
<1>5. \/ UNCHANGED <<schLock, savedLock>> \/ kSchLock \/ kSchUnlock \/ kSwtch
  BY DEF KernelStep, UpdatePrio, ReadySwtch, TimeoutExpire, TimeoutReady, TickEnd, SignalReady,
         Tick, SchedCall, TimedSignal, kYield, kSleepDelay, kTaskSelfSuspend, kTaskResume,
         kTaskSignalReady, schedVars
<1> QED BY <1>1, <1>2, <1>3, <1>4, <1>5

(***************************************************************************)
(* The steps of MesgQAbs.                                                  *)
(***************************************************************************)
AbsStep == [QueueAbs!Next /\ UNCHANGED maxBuf]_(QueueAbs!vars)

SameReaders == \A q \in Queue : Readers(q)' = Readers(q)

\* One lemma per step of MesgQAbs: what a step of the service has to change to
\* be that one.  First the step that is none.
LEMMA AbsStutter ==
  ASSUME SameReaders, UNCHANGED <<maxBuf, ring, inbox>>
  PROVE  AbsStep
BY DEF AbsStep, SameReaders, Readers, QueueAbs!vars

\* A message joins the others.
LEMMA AbsPut ==
  ASSUME NEW q \in Queue, NEW m \in Mesg, Readers(q) = {}, Len(ring[q]) < maxBuf[q],
         \/ ring' = [ring EXCEPT ![q] = Append(@, m)]
         \/ ring' = [ring EXCEPT ![q] = <<m>> \o @],
         SameReaders, UNCHANGED <<maxBuf, inbox>>
  PROVE  AbsStep
<1>1. QueueAbs!Put(q, m)
  BY DEF SameReaders, Readers, QueueAbs!Put, QueueAbs!Open, QueueAbs!Room
<1> QED BY <1>1 DEF AbsStep, QueueAbs!Next

\* It replaces the one in a mailbox.
LEMMA AbsOverwrite ==
  ASSUME NEW q \in Queue, NEW m \in Mesg, Readers(q) = {}, Mailbox(q),
         ring' = [ring EXCEPT ![q] = <<m>>], SameReaders, UNCHANGED <<maxBuf, inbox>>
  PROVE  AbsStep
<1>1. QueueAbs!Overwrite(q, m)
  BY DEF SameReaders, Readers, Mailbox, QueueAbs!Overwrite, QueueAbs!Open
<1> QED BY <1>1 DEF AbsStep, QueueAbs!Next

\* It goes straight to a receiver.
LEMMA AbsPass ==
  ASSUME NEW q \in Queue, NEW m \in Mesg, NEW t \in UserTask, Readers(q) = {}, ring[q] = <<>>,
         inbox' = [inbox EXCEPT ![t] = m], SameReaders, UNCHANGED <<maxBuf, ring>>
  PROVE  AbsStep
<1>1. QueueAbs!Pass(t, q, m)
  BY DEF SameReaders, Readers, QueueAbs!Pass, QueueAbs!Open
<1> QED BY <1>1 DEF AbsStep, QueueAbs!Next

\* The oldest is taken out.
LEMMA AbsTake ==
  ASSUME NEW q \in Queue, NEW t \in UserTask, Readers(q) = {}, ring[q] # <<>>,
         ring' = [ring EXCEPT ![q] = Tail(@)], inbox' = [inbox EXCEPT ![t] = Head(ring[q])],
         SameReaders, UNCHANGED maxBuf
  PROVE  AbsStep
<1>1. QueueAbs!Take(t, q)
  BY DEF SameReaders, Readers, QueueAbs!Take, QueueAbs!Open
<1> QED BY <1>1 DEF AbsStep, QueueAbs!Next

\* All are dropped.
LEMMA AbsReset ==
  ASSUME NEW q \in Queue, Readers(q) = {}, ring' = [ring EXCEPT ![q] = <<>>],
         SameReaders, UNCHANGED <<maxBuf, inbox>>
  PROVE  AbsStep
<1>1. QueueAbs!Reset(q)
  BY DEF SameReaders, Readers, QueueAbs!Reset, QueueAbs!Open
<1> QED BY <1>1 DEF AbsStep, QueueAbs!Next

\* A message is there for several readers.
LEMMA AbsBroadcast ==
  ASSUME NEW q \in Queue, NEW m \in Mesg, NEW to \in SUBSET UserTask, to # {},
         Readers(q) = {}, ring[q] = <<>>, Mailbox(q), ring' = [ring EXCEPT ![q] = <<m>>],
         \A r \in Queue : Readers(r)' = IF r = q THEN to ELSE Readers(r),
         UNCHANGED <<maxBuf, inbox>>
  PROVE  AbsStep
<1>1. QueueAbs!Broadcast(q, m, to)
  BY DEF Readers, Mailbox, QueueAbs!Broadcast, QueueAbs!Open
<1> QED BY <1>1 DEF AbsStep, QueueAbs!Next

\* One of them reads it.
LEMMA AbsRead ==
  ASSUME NEW q \in Queue, NEW t \in UserTask, t \in Readers(q),
         inbox' = [inbox EXCEPT ![t] = Head(ring[q])],
         \A r \in Queue : Readers(r)' = IF r = q THEN Readers(q) \ {t} ELSE Readers(r),
         ring' = IF Readers(q) = {t} THEN [ring EXCEPT ![q] = <<>>] ELSE ring,
         UNCHANGED maxBuf
  PROVE  AbsStep
<1>1. QueueAbs!Read(t, q)
  BY DEF Readers, QueueAbs!Read
<1> QED BY <1>1 DEF AbsStep, QueueAbs!Next

(***************************************************************************)
(* Contents and readers.                                                   *)
(***************************************************************************)
LEMMA KeptReaders == ASSUME ReadersKept PROVE SameReaders
BY DEF ReadersKept, SameReaders, Readers

\* Whom a call serves leaves; those it leaves in a queue wait for what they
\* waited for, or for the broadcast that reaches them.
LEMMA ServesJoinNobody ==
  ASSUME BaseInv, NEW Q, NEW N, NEW R, Serves(Q, N, R)
  PROVE  NobodyJoins
<1>1. SUFFICES ASSUME NEW o \in WaitObj, NEW t \in ToSet(waitQ'[o])
               PROVE  t \in ToSet(waitQ[o]) /\ (call'[t].phase = "WAIT" => call[t].phase = "WAIT")
  BY DEF NobodyJoins
<1>2. t \in ToSet(waitQ[o]) /\ t \notin Q
  BY DEF Serves, QueuesLose
<1>3. t \in Task /\ status[t] # "RUNNING" /\ call[t] \in Suspension
  BY <1>2 DEF BaseInv, ServiceInv, WaiterInv, WaitTypes, UserTask
<1>4. call'[t] = call[t] \/ call'[t] = [call[t] EXCEPT !.phase = "BROADCAST_DELIVER"]
  BY <1>2, <1>3 DEF Serves, ServedCall
<1>5. call'[t] # call[t] => call'[t].phase = "BROADCAST_DELIVER"
  BY <1>3, <1>4 DEF Suspension
<1> QED BY <1>2, <1>5

\* A reserved slot is that of a mailbox and full.
LEMMA ReservedFull ==
  ASSUME ContentInv, NEW q \in Queue
  PROVE  /\ broadcastReceivers[q] = 0 <=> Readers(q) = {}
         /\ broadcastReceivers[q] > 0 => Full(q) /\ ring[q] # <<>>
         /\ ~Mailbox(q) => Readers(q) = {}
         /\ ring[q] = <<>> => ~Full(q)
         /\ maxBuf[q] \in Nat \ {0} /\ ring[q] \in Seq(Mesg) /\ broadcastReceivers[q] \in Nat
         /\ ~Full(q) => Len(ring[q]) < maxBuf[q]
<1>1. IsFiniteSet(Readers(q))
  BY FS_Subset, KernelConstants DEF Readers
<1>2. /\ broadcastReceivers[q] = Cardinality(Readers(q))
      /\ broadcastReceivers[q] > 0 => Len(ring[q]) = 1 /\ maxBuf[q] = 1
      /\ maxBuf[q] \in Nat \ {0} /\ ring[q] \in Seq(Mesg) /\ broadcastReceivers[q] \in Nat
  BY DEF ContentInv, Mailbox
<1>3. broadcastReceivers[q] = 0 <=> Readers(q) = {}
  BY <1>1, <1>2, FS_EmptySet
<1>4. Len(ring[q]) \in Nat /\ (ring[q] = <<>> <=> Len(ring[q]) = 0)
  BY <1>2, LenProperties, EmptySeq
<1>5. Full(q) <=> Len(ring[q]) >= maxBuf[q]
  BY DEF Full
<1>6. ~Mailbox(q) => broadcastReceivers[q] = 0
  BY <1>2 DEF Mailbox
<1>7. /\ broadcastReceivers[q] > 0 => Full(q) /\ ring[q] # <<>>
      /\ ring[q] = <<>> => ~Full(q)
      /\ ~Full(q) => Len(ring[q]) < maxBuf[q]
  <2> DEFINE n == Len(ring[q])
             size == maxBuf[q]
             br == broadcastReceivers[q]
  <2>1. n \in Nat /\ size \in Nat \ {0} /\ br \in Nat /\ (br > 0 => n = 1 /\ size = 1)
    BY <1>2, <1>4
  <2> HIDE DEF n, size, br
  <2>2. (br > 0 => n >= size /\ n # 0) /\ (n = 0 => ~(n >= size)) /\ (~(n >= size) => n < size)
    BY <2>1
  <2> QED BY <1>4, <1>5, <2>2 DEF n, size, br
<1> QED BY <1>2, <1>3, <1>6, <1>7

\* What changes nothing in who reads what keeps the account of broadcasts, and
\* a message comes to lie only where nobody waits for it.
LEMMA KeptStep ==
  ASSUME ContentInv, ServedInv, ReadersKept, NobodyJoins, UNCHANGED <<maxBuf, broadcastReceivers>>,
         outgoing' \in [UserTask -> Mesg \cup {None}], ring' \in [Queue -> Seq(Mesg)],
         \A q \in Queue : \/ ring'[q] = ring[q]
                          \/ /\ Readers(q) = {}
                             /\ \/ ring'[q] = <<>> \/ ring[q] # <<>>
                                \/ \A t \in ToSet(waitQ'[Receivers[q]]) : call'[t].phase # "WAIT"
  PROVE  ContentInv' /\ ServedInv' /\ SameReaders
<1>1. SameReaders
  BY KeptReaders
<1>2. ContentInv'
  <2>1. ASSUME NEW q \in Queue, broadcastReceivers[q] > 0
        PROVE  ring'[q] = ring[q]
    <3>1. Readers(q) # {}
      BY <2>1, ReservedFull
    <3> QED BY <3>1
  <2>2. ASSUME NEW q \in Queue
        PROVE  /\ broadcastReceivers'[q] = Cardinality(Readers(q)')
               /\ broadcastReceivers'[q] > 0 => Len(ring'[q]) = 1 /\ Mailbox(q)'
    <3>1. broadcastReceivers'[q] = broadcastReceivers[q] /\ maxBuf'[q] = maxBuf[q]
      OBVIOUS
    <3>2. Readers(q)' = Readers(q)
      BY <1>1 DEF SameReaders
    <3> QED BY <2>1, <3>1, <3>2 DEF ContentInv, Mailbox
  <2> QED BY <2>2 DEF ContentInv
<1>3. ServedInv'
  <2>1. SUFFICES ASSUME NEW q \in Queue, ring'[q] # <<>>, broadcastReceivers'[q] = 0,
                        NEW t \in ToSet(waitQ'[Receivers[q]]), call'[t].phase = "WAIT"
                 PROVE  FALSE
    BY DEF ServedInv
  <2>2. t \in ToSet(waitQ[Receivers[q]]) /\ call[t].phase = "WAIT"
    BY <2>1, QueueObjects DEF NobodyJoins
  <2>3. ring[q] # <<>>
    BY <2>1
  <2> QED BY <2>1, <2>2, <2>3 DEF ServedInv
<1> QED BY <1>1, <1>2, <1>3

(***************************************************************************)
(* Every step keeps the invariant and is one of MesgQAbs, or a stutter.    *)
(***************************************************************************)
\* The job queue loses its head, or gets a job that may be done.
LEMMA JobsStep ==
  ASSUME DeferredInv, UNCHANGED maxBuf,
         \/ jobs' = jobs
         \/ jobs # <<>> /\ jobs' = Tail(jobs)
         \/ \E j \in Job : /\ j.job = "MESGQ_RESET" => MayReset(j.obj)
                           /\ jobs' = Append(jobs, j)
  PROVE  DeferredInv'
<1>1. jobs' \in Seq(Job) /\ \A j \in ToSet(jobs') : j.job = "MESGQ_RESET" => MayReset(j.obj)
  <2> HIDE DEF Job
  <2>1. CASE jobs' = jobs
    BY <2>1 DEF DeferredInv
  <2>2. CASE jobs # <<>> /\ jobs' = Tail(jobs)
    <3>1. Tail(jobs) \in Seq(Job) /\ ToSet(Tail(jobs)) \subseteq ToSet(jobs)
      BY <2>2, TailFacts DEF DeferredInv
    <3> QED BY <2>2, <3>1 DEF DeferredInv
  <2>3. ASSUME NEW j \in Job, j.job = "MESGQ_RESET" => MayReset(j.obj), jobs' = Append(jobs, j)
        PROVE  jobs' \in Seq(Job) /\ \A k \in ToSet(jobs') : k.job = "MESGQ_RESET" => MayReset(k.obj)
    BY <2>3, AppendSet DEF DeferredInv
  <2> QED BY <2>1, <2>2, <2>3
<1>2. \A q : MayReset(q)' <=> MayReset(q)
  BY DEF MayReset, Mailbox
<1> QED BY <1>1, <1>2 DEF DeferredInv

\* The call of the running task goes on, or is over.
CallAfter(calls) ==
  \/ calls = call
  \/ /\ calls = [call EXCEPT ![run] = NoCall]
     /\ status[run] = "RUNNING" /\ call[run].phase # "BROADCAST_DELIVER"

\* That harms no reader of a broadcast.
LEMMA PlainCalls ==
  ASSUME WaitTypes, CallAfter(call'), NEW Q, NEW N
  PROVE  /\ \A t \in Task : call'[t] \in Suspension /\ ServedCall(t, Q, N)
         /\ call' = [t \in Task |-> call'[t]] /\ ReadersKept
<1>1. call \in [Task -> Suspension]
  BY DEF WaitTypes
<1>2. CASE call' = call
  BY <1>1, <1>2 DEF ServedCall, ReadersKept
<1>3. CASE /\ call' = [call EXCEPT ![run] = NoCall]
           /\ status[run] = "RUNNING" /\ call[run].phase # "BROADCAST_DELIVER"
  <2>1. NoCall \in Suspension /\ NoCall.phase = "NONE"
    BY DEF NoCall, Suspension, CallNumber, CallPhase, Err
  <2>2. \A t \in Task : call'[t] = IF t = run THEN NoCall ELSE call[t]
    BY <1>1, <1>3
  <2> QED BY <1>1, <1>3, <2>1, <2>2 DEF ServedCall, ReadersKept
<1> QED BY <1>2, <1>3 DEF CallAfter

\* What is to be sent is settled by the call that ends, and by no other.
OutgoingAfter ==
  \/ outgoing' = outgoing
  \/ outgoing' = [outgoing EXCEPT ![run] = None] /\ call' = [call EXCEPT ![run] = NoCall]

\* A call that serves others and leaves the readers of broadcasts alone.
LEMMA ServedStep ==
  ASSUME MesgQInv, NEW Q, NEW N, NEW R, Serves(Q, N, R), ReadersKept,
         UNCHANGED <<schLock, savedLock, maxBuf, broadcastReceivers>>, DeferredInv',
         outgoing' \in [UserTask -> Mesg \cup {None}], ring' \in [Queue -> Seq(Mesg)],
         \A q \in Queue : \/ ring'[q] = ring[q]
                          \/ /\ Readers(q) = {}
                             /\ \/ ring'[q] = <<>> \/ ring[q] # <<>>
                                \/ \A t \in ToSet(waitQ'[Receivers[q]]) : call'[t].phase # "WAIT"
  PROVE  MesgQInv' /\ SameReaders
<1>1. BaseInv /\ ContentInv /\ ServedInv
  BY DEF MesgQInv, BaseInv, ServiceInv
<1>2. BaseInv' /\ NobodyJoins
  BY <1>1, ServeStep, ServesJoinNobody DEF BaseInv
<1>3. ContentInv' /\ ServedInv' /\ SameReaders
  BY <1>1, <1>2, KeptStep
<1>4. LockInv'
  BY DEF MesgQInv, LockInv
<1> QED BY <1>2, <1>3, <1>4 DEF MesgQInv, BaseInv, ServiceInv

\* A call that only ends.
LEMMA FailsStep ==
  ASSUME MesgQInv, NEW number, NEW o, NEW err, Fails(number, o, err), UNCHANGED outgoing,
         todo = <<>>, status[run] = "RUNNING", call[run].phase # "BROADCAST_DELIVER"
  PROVE  MesgQInv' /\ AbsStep
<1>1. /\ call' = [call EXCEPT ![run] = NoCall]
      /\ UNCHANGED <<run, status, prio, readyQ, pendSV, schLock, savedLock, waitQ, wqp, waitingFor,
                     tmo, ttype, todo, jobs, maxBuf, ring, broadcastReceivers, inbox, outgoing>>
  BY DEF Fails, Ends, schedVars, waitVars, mutexVars, timeVars, postVars
<1>2. /\ \A t \in Task : call'[t] \in Suspension /\ ServedCall(t, {}, {})
      /\ call' = [t \in Task |-> call'[t]] /\ ReadersKept
  BY <1>1, PlainCalls DEF MesgQInv, CallAfter
<1>3. QueuesLose({}) /\ NodesLose({}) /\ Readies(todo', {}) /\ PendKept
  BY <1>1, NothingLost, ReadyLists DEF MesgQInv, PendKept
<1>4. Serves({}, {}, {})
  BY <1>1, <1>2, <1>3 DEF Serves
<1>5. DeferredInv'
  BY <1>1, JobsStep DEF MesgQInv
<1>6. MesgQInv' /\ SameReaders
  BY <1>1, <1>2, <1>4, <1>5, ServedStep DEF MesgQInv, ContentInv
<1> QED BY <1>1, <1>6, AbsStutter

\* A call that waits.
LEMMA WaitsStep ==
  ASSUME MesgQInv, todo = <<>>, run \in UserTask, status[run] = "RUNNING",
         call[run].phase # "BROADCAST_DELIVER",
         NEW q \in Queue, NEW o, NEW st, NEW number, NEW phase, NEW timeout,
         WaitOn(o, st, number, phase, timeout),
         \/ /\ o = Senders[q] /\ number \in SendNumber /\ phase = "WAIT" /\ st = "SENDING"
            /\ \E m \in Mesg : outgoing' = [outgoing EXCEPT ![run] = m]
         \/ /\ o = Receivers[q] /\ st = "RECEIVING" /\ outgoing' = outgoing
            /\ \/ /\ number = "MESG_QUEUE_RECV" /\ phase = "WAIT"
                  /\ ring[q] = <<>> \/ broadcastReceivers[q] > 0
               \/ number = "MESG_QUEUE_BROADCAST_RECV" /\ phase = "BROADCAST"
  PROVE  MesgQInv' /\ AbsStep
<1>1. UNCHANGED <<schLock, savedLock, jobs, maxBuf, ring, broadcastReceivers, inbox>>
  BY DEF WaitOn, postVars
<1>2. /\ NoBoost' /\ DispatchInv' /\ ServiceInv'
      /\ \A p \in WaitObj : ToSet(waitQ'[p]) = IF p = o THEN ToSet(waitQ[p]) \cup {run}
                                                        ELSE ToSet(waitQ[p])
      /\ call'[run].phase = phase /\ \A t \in Task \ {run} : call'[t] = call[t]
  BY WaitStep DEF MesgQInv, ServiceInv, ContentInv
<1>3. /\ outgoing' \in [UserTask -> Mesg \cup {None}]
      /\ phase \in {"WAIT", "BROADCAST"} /\ run \in Task
  BY DEF MesgQInv, ContentInv, UserTask
<1>4. SameReaders
  BY <1>2, <1>3 DEF SameReaders, Readers
<1>5. ContentInv'
  <2>1. \A r \in Queue : Readers(r)' = Readers(r)
    BY <1>4 DEF SameReaders
  <2>2. ASSUME NEW r \in Queue
        PROVE  /\ broadcastReceivers'[r] = Cardinality(Readers(r)')
               /\ broadcastReceivers'[r] > 0 => Len(ring'[r]) = 1 /\ Mailbox(r)'
    BY <1>1, <2>1 DEF MesgQInv, ContentInv, Mailbox
  <2> QED BY <1>1, <1>3, <2>2 DEF MesgQInv, ContentInv
<1>6. ServedInv'
  <2>1. SUFFICES ASSUME NEW r \in Queue, ring'[r] # <<>>, broadcastReceivers'[r] = 0,
                        NEW t \in ToSet(waitQ'[Receivers[r]]), call'[t].phase = "WAIT"
                 PROVE  FALSE
    BY DEF ServedInv
  <2>2. Receivers[r] \in WaitObj
    BY QueueObjects
  <2>3. CASE t \in ToSet(waitQ[Receivers[r]])
    <3>1. t \in UserTask /\ status[t] \in {"SENDING", "RECEIVING"}
      BY <2>2, <2>3 DEF MesgQInv, WaiterInv
    <3>2. call'[t] = call[t]
      BY <1>2, <3>1 DEF UserTask
    <3> QED BY <1>1, <2>1, <2>3, <3>2 DEF MesgQInv, ServedInv
  <2>4. CASE t \notin ToSet(waitQ[Receivers[r]])
    <3>1. t = run /\ o = Receivers[r]
      BY <1>2, <2>2, <2>4
    <3>2. o # Senders[q] /\ (o = Receivers[q] => r = q)
      BY <3>1, QueueObjects
    <3>3. ring[q] # <<>> /\ broadcastReceivers[q] = 0 /\ phase = "WAIT" /\ r = q
      BY <1>1, <1>2, <2>1, <3>1, <3>2
    <3> QED BY <3>2, <3>3
  <2> QED BY <2>3, <2>4
<1>7. DeferredInv' /\ LockInv'
  BY <1>1, JobsStep DEF MesgQInv, LockInv
<1>8. AbsStep
  BY <1>1, <1>4, AbsStutter
<1> QED BY <1>2, <1>5, <1>6, <1>7, <1>8 DEF MesgQInv, ServiceInv

\* The tasks a scan of the receivers of q finds, in their order.
LEMMA WaitingTasks ==
  ASSUME WaitTypes, NEW q \in Queue, NEW phases
  PROVE  /\ Waiting(q, phases) \in Seq(Task) /\ NoDuplicates(Waiting(q, phases))
         /\ ToSet(Waiting(q, phases)) =
              {t \in ToSet(waitQ[Receivers[q]]) : call[t].phase \in phases}
<1>1. /\ Receivers[q] \in WaitObj /\ waitQ[Receivers[q]] \in Seq(Task)
      /\ NoDuplicates(waitQ[Receivers[q]]) /\ ToSet(waitQ[Receivers[q]]) \subseteq Task
  BY QueueObjects, ListedAreTasks DEF WaitTypes
<1> DEFINE S == {t \in Task : call[t].phase \in phases}
<1>2. /\ Among(waitQ[Receivers[q]], S) \in Seq(Task)
      /\ ToSet(Among(waitQ[Receivers[q]], S)) = ToSet(waitQ[Receivers[q]]) \cap S
      /\ NoDuplicates(Among(waitQ[Receivers[q]], S))
  BY <1>1, AmongProperties
<1> QED BY <1>1, <1>2 DEF Waiting

\* A wake-up of a receiver or a sender of q, if there is one.
Wakes(S, o) ==
  /\ S \subseteq ToSet(waitQ[o]) /\ S \subseteq Task
  /\ QueuesLose(S) /\ NodesLose(S) /\ Readies(todo', S)

\* The receiver that is woken for a message, if any.
LEMMA NormalWoken ==
  ASSUME ServiceInv, todo = <<>>, NEW q \in Queue,
         WakeNormalReceiverIfAny(q) \/ UNCHANGED <<waitVars, timeVars, todo>>
  PROVE  \E S : Wakes(S, Receivers[q])
<1>1. CASE UNCHANGED <<waitVars, timeVars, todo>>
  <2>1. Wakes({}, Receivers[q])
    BY <1>1, NothingLost, ReadyLists DEF ServiceInv, Wakes, waitVars, timeVars
  <2> QED BY <2>1
<1>2. CASE NormalReceivers(q) # <<>> /\ WakeNormalReceiverIfAny(q)
  <2> DEFINE t == Head(NormalReceivers(q))
  <2>1. t \in ToSet(waitQ[Receivers[q]]) /\ t \in Task /\ Receivers[q] \in WaitObj
    <3>1. /\ NormalReceivers(q) \in Seq(Task)
          /\ ToSet(NormalReceivers(q)) \subseteq ToSet(waitQ[Receivers[q]])
      BY WaitingTasks DEF ServiceInv, NormalReceivers
    <3> QED BY <1>2, <3>1, TailFacts, QueueObjects
  <2>2. /\ waitQ' = [waitQ EXCEPT ![Receivers[q]] = kTCBQRem(@, t)]
        /\ ClearTimeouts({t}) /\ todo' = <<ReadySwtchOf(t)>>
    BY <1>2 DEF WakeNormalReceiverIfAny
  <2> HIDE DEF t
  <2>3. QueuesLose({t})
    BY <2>1, <2>2, RemLosesTask
  <2>4. NodesLose({t})
    BY <2>1, <2>2, ClearLosesNodes DEF OnQueue
  <2>5. Readies(todo', {t})
    BY <2>1, <2>2, ReadyLists
  <2>6. Wakes({t}, Receivers[q])
    BY <2>1, <2>3, <2>4, <2>5 DEF Wakes
  <2> QED BY <2>6
<1> QED BY <1>1, <1>2 DEF WakeNormalReceiverIfAny

\* The sender that is woken for the room, if any.
LEMMA SenderWoken ==
  ASSUME ServiceInv, todo = <<>>, NEW q \in Queue, WakeSenderIfAny(q)
  PROVE  \E S : Wakes(S, Senders[q])
<1>1. CASE UNCHANGED <<waitVars, timeVars, todo>>
  <2>1. Wakes({}, Senders[q])
    BY <1>1, NothingLost, ReadyLists DEF ServiceInv, Wakes, waitVars, timeVars
  <2> QED BY <2>1
<1>2. CASE waitQ[Senders[q]] # <<>> /\ WakeHead(Senders[q])
  <2>1. Senders[q] \in WaitObj /\ ToSet(waitQ[Senders[q]]) \subseteq Task
    BY QueueObjects, ListedAreTasks DEF ServiceInv
  <2>2. Wakes({Head(waitQ[Senders[q]])}, Senders[q])
    BY <1>2, <2>1, HeadWoken DEF Wakes
  <2> QED BY <2>2
<1> QED BY <1>1, <1>2 DEF WakeSenderIfAny

\* A call that changes the ring of q and wakes somebody who waits for that.
LEMMA RingStep ==
  ASSUME MesgQInv, todo = <<>>, NEW q \in Queue, NEW o \in {Senders[q], Receivers[q]},
         \E S : Wakes(S, o), CallAfter(call'), OutgoingAfter,
         UNCHANGED <<run, status, prio, readyQ, pendSV, schLock, savedLock, waitingFor, jobs,
                     maxBuf, broadcastReceivers>>,
         NEW r \in Seq(Mesg), ring' = [ring EXCEPT ![q] = r], Readers(q) = {},
         \/ r = <<>> \/ ring[q] # <<>>
         \/ \A t \in ToSet(waitQ[Receivers[q]]) : call[t].phase # "WAIT"
  PROVE  MesgQInv' /\ SameReaders
<1>1. PICK S : Wakes(S, o)
  OBVIOUS
<1>2. /\ o \in WaitObj /\ Receivers[q] \in WaitObj
      /\ WaitTypes /\ call \in [Task -> Suspension] /\ BaseInv
      /\ outgoing \in [UserTask -> Mesg \cup {None}] /\ ring \in [Queue -> Seq(Mesg)]
      /\ maxBuf \in [Queue -> Nat \ {0}]
  BY QueueObjects DEF MesgQInv, WaitTypes, BaseInv, ServiceInv, ContentInv
<1>3. /\ \A t \in Task : call'[t] \in Suspension /\ ServedCall(t, S, S)
      /\ call' = [t \in Task |-> call'[t]] /\ ReadersKept
  BY <1>2, PlainCalls
<1>4. /\ outgoing' \in [UserTask -> Mesg \cup {None}]
      /\ \A t \in UserTask : outgoing'[t] = outgoing[t] \/ call'[t] = NoCall
  BY <1>2 DEF OutgoingAfter, UserTask
<1>5. Serves(S, S, S)
  BY <1>1, <1>2, <1>3, <1>4 DEF Wakes, Serves, OnQueue, PendKept
<1>6. NobodyJoins
  BY <1>2, <1>5, ServesJoinNobody
<1>7. ring' \in [Queue -> Seq(Mesg)] /\ ring'[q] = r /\ \A p \in Queue \ {q} : ring'[p] = ring[p]
  BY <1>2
<1>8. (\A t \in ToSet(waitQ[Receivers[q]]) : call[t].phase # "WAIT") =>
        \A t \in ToSet(waitQ'[Receivers[q]]) : call'[t].phase # "WAIT"
  BY <1>2, <1>6 DEF NobodyJoins
<1>9. \A p \in Queue : \/ ring'[p] = ring[p]
                       \/ /\ Readers(p) = {}
                          /\ \/ ring'[p] = <<>> \/ ring[p] # <<>>
                             \/ \A t \in ToSet(waitQ'[Receivers[p]]) : call'[t].phase # "WAIT"
  BY <1>7, <1>8
<1>10. DeferredInv'
  BY JobsStep DEF MesgQInv
<1> QED BY <1>3, <1>4, <1>5, <1>7, <1>9, <1>10, ServedStep

\* Beside an empty slot, whom a send does not find waits for a broadcast.
LEMMA NobodyWaits ==
  ASSUME MesgQInv, NEW q \in Queue, NormalReceivers(q) = <<>>
  PROVE  \A t \in ToSet(waitQ[Receivers[q]]) : call[t].phase # "WAIT"
<1>1. {t \in ToSet(waitQ[Receivers[q]]) : call[t].phase \in CallPhase \ {"BROADCAST"}} = {}
  <2>1. ToSet(NormalReceivers(q)) = {}
    BY SmallSequences
  <2> QED BY <2>1, WaitingTasks DEF MesgQInv, NormalReceivers
<1> QED BY <1>1 DEF CallPhase

\* A message from its sender to a receiver, past an empty ring.
LEMMA DirectStep ==
  ASSUME MesgQInv, todo = <<>>, NEW q \in Queue, NEW m \in Mesg, NEW calls,
         CallAfter(calls), MayDirect(q), DirectSend(q, m, calls),
         \/ outgoing' = outgoing
         \/ /\ outgoing' = [outgoing EXCEPT ![run] = None]
            /\ calls = [call EXCEPT ![run] = NoCall],
         UNCHANGED <<schedVars, mutexVars, postVars, maxBuf>>
  PROVE  MesgQInv' /\ AbsStep
<1> DEFINE w == Head(NormalReceivers(q))
           new == [call[w] EXCEPT !.phase = "DELIVERED"]
<1>1. /\ ring[q] = <<>> /\ broadcastReceivers[q] = 0 /\ NormalReceivers(q) # <<>>
      /\ waitQ' = [waitQ EXCEPT ![Receivers[q]] = kTCBQRem(@, w)]
      /\ ClearTimeouts({w}) /\ inbox' = [inbox EXCEPT ![w] = m]
      /\ call' = [calls EXCEPT ![w].phase = "DELIVERED"]
      /\ todo' = <<ReadySwtchOf(w)>>
      /\ UNCHANGED <<ring, broadcastReceivers, maxBuf, jobs, run, status, prio, readyQ, pendSV,
                     schLock, savedLock, waitingFor>>
  BY DEF MayDirect, DirectSend, schedVars, mutexVars, postVars
<1>2. /\ ServiceInv /\ BaseInv /\ WaitTypes /\ call \in [Task -> Suspension] /\ DispatchInv
      /\ outgoing \in [UserTask -> Mesg \cup {None}] /\ ring \in [Queue -> Seq(Mesg)]
      /\ Readers(q) = {}
  BY <1>1, ReservedFull DEF MesgQInv, WaitTypes, BaseInv, ServiceInv, ContentInv
<1>3. w \in ToSet(waitQ[Receivers[q]]) /\ Receivers[q] \in WaitObj
  <2>1. /\ NormalReceivers(q) \in Seq(Task)
        /\ ToSet(NormalReceivers(q)) \subseteq ToSet(waitQ[Receivers[q]])
    BY <1>2, WaitingTasks DEF NormalReceivers
  <2> QED BY <1>1, <2>1, TailFacts, QueueObjects
<1>4. /\ w \in UserTask /\ w \in Task /\ status[w] # "RUNNING" /\ call[w].arg = Receivers[q]
      /\ call[w].phase # "BROADCAST_DELIVER"
  <2> HIDE DEF w
  <2>1. call[w].arg = Receivers[q]
    BY <1>2, <1>3, OneQueue DEF ServiceInv
  <2>2. w \in UserTask /\ status[w] \in {"SENDING", "RECEIVING"}
    BY <1>2, <1>3 DEF ServiceInv, WaiterInv
  <2>3. w \in Task
    BY <2>2 DEF UserTask
  <2> QED BY <1>2, <2>1, <2>2, <2>3 DEF Readers
<1> HIDE DEF w
<1>5. new \in Suspension /\ new.phase = "DELIVERED"
  BY <1>2, <1>4 DEF Suspension, CallPhase
<1>6. /\ \A t \in Task : call'[t] \in Suspension /\ ServedCall(t, {w}, {w})
      /\ call' = [t \in Task |-> call'[t]]
      /\ call'[w] = new /\ \A t \in Task \ {w} : call'[t] = calls[t]
  <2>1. calls \in [Task -> Suspension] /\ calls[w] = call[w]
    <3>1. NoCall \in Suspension
      BY DEF NoCall, Suspension, CallNumber, CallPhase, Err
    <3> QED BY <1>2, <1>4, <3>1 DEF CallAfter
  <2>2. call' = [calls EXCEPT ![w] = new]
    BY <1>1, <1>4, <2>1
  <2>3. \A t \in Task \ {w} :
          \/ calls[t] = call[t]
          \/ t = run /\ status[run] = "RUNNING" /\ calls[t] = NoCall
    BY <1>2 DEF CallAfter
  <2> HIDE DEF new
  <2>4. call'[w] = new /\ \A t \in Task \ {w} : call'[t] = calls[t]
    BY <1>4, <2>1, <2>2
  <2>5. \A t \in Task : call'[t] \in Suspension /\ ServedCall(t, {w}, {w})
    BY <1>5, <2>1, <2>3, <2>4 DEF ServedCall, new
  <2>6. call' = [t \in Task |-> call'[t]]
    BY <2>1, <2>2
  <2> QED BY <2>4, <2>5, <2>6
<1>7. ReadersKept
  <2>1. \A t \in Task \ {w} :
          \/ calls[t] = call[t]
          \/ call[t].phase # "BROADCAST_DELIVER" /\ calls[t].phase # "BROADCAST_DELIVER"
    BY <1>2 DEF CallAfter, NoCall
  <2> QED BY <1>4, <1>5, <1>6, <2>1 DEF ReadersKept
<1>8. /\ outgoing' \in [UserTask -> Mesg \cup {None}]
      /\ \A t \in UserTask : outgoing'[t] = outgoing[t] \/ call'[t] = NoCall
  <2>1. CASE outgoing' = outgoing
    BY <1>2, <2>1
  <2>2. CASE /\ outgoing' = [outgoing EXCEPT ![run] = None]
             /\ calls = [call EXCEPT ![run] = NoCall]
    <3>1. run # w
      <4>1. run \in Task /\ call[w].number # "NONE"
        BY <1>2, <1>3 DEF DispatchInv, ServiceInv, WaiterInv, Sending, Receiving, SendNumber
      <4>2. calls[run] = NoCall /\ (calls = call => call[run].number = "NONE")
        BY <1>2, <2>2, <4>1 DEF NoCall
      <4>3. calls = call \/ status[run] = "RUNNING"
        BY DEF CallAfter
      <4> QED BY <1>4, <4>1, <4>2, <4>3
    <3>2. \A t \in UserTask : t = run => call'[t] = NoCall
      BY <1>2, <1>6, <2>2, <3>1 DEF UserTask
    <3> QED BY <1>2, <2>2, <3>2
  <2> QED BY <2>1, <2>2
<1>9. QueuesLose({w}) /\ NodesLose({w}) /\ Readies(todo', {w})
  <2>1. QueuesLose({w})
    BY <1>1, <1>2, <1>3, RemLosesTask
  <2>2. NodesLose({w})
    BY <1>1, <1>2, <1>3, <1>4, ClearLosesNodes DEF OnQueue
  <2> QED BY <1>1, <1>4, <2>1, <2>2, ReadyLists
<1>10. Serves({w}, {w}, {w})
  <2>1. /\ todo = <<>> /\ UNCHANGED <<run, status, prio, readyQ, waitingFor>> /\ PendKept
    BY <1>1 DEF PendKept
  <2>2. \A t \in {w} : t \in Task /\ OnQueue(t)
    BY <1>3, <1>4 DEF OnQueue
  <2> QED BY <1>6, <1>8, <1>9, <2>1, <2>2 DEF Serves
<1>11. DeferredInv'
  BY <1>1, JobsStep DEF MesgQInv
<1>12. MesgQInv' /\ SameReaders
  BY <1>1, <1>2, <1>7, <1>8, <1>10, <1>11, ServedStep
<1>13. AbsStep
  BY <1>1, <1>2, <1>4, <1>12, AbsPass
<1> QED BY <1>12, <1>13

\* A step that is none of the service's business.
LEMMA OtherStep ==
  ASSUME MesgQInv, BaseInv', LockInv', ReadersKept, NobodyJoins, DeferredInv',
         UNCHANGED mesgQVars
  PROVE  MesgQInv' /\ AbsStep
<1>1. UNCHANGED <<maxBuf, ring, broadcastReceivers, outgoing, inbox>>
  BY DEF mesgQVars
<1>2. ContentInv /\ ServedInv
  BY DEF MesgQInv
<1>3. outgoing' \in [UserTask -> Mesg \cup {None}] /\ ring' \in [Queue -> Seq(Mesg)]
  BY <1>1, <1>2 DEF ContentInv
<1>4. ContentInv' /\ ServedInv' /\ SameReaders
  BY <1>1, <1>2, <1>3, KeptStep
<1>5. AbsStep
  BY <1>1, <1>4, AbsStutter
<1> QED BY <1>4, <1>5 DEF MesgQInv, BaseInv, ServiceInv

\* The kernel and the scheduler.
LEMMA KernelPartStep ==
  ASSUME ~YieldWhenLocked, MesgQInv, KernelPart
  PROVE  MesgQInv' /\ AbsStep
<1>1. /\ KernelStep \/ Tick \/ SchedCall \/ TimedSignal
      /\ UNCHANGED mesgQVars /\ UNCHANGED <<jobs, maxBuf, outgoing>>
  BY DEF KernelPart, postVars, mesgQVars
<1>2. BaseInv /\ LockInv /\ DispatchInv /\ DeferredInv
  BY DEF MesgQInv, BaseInv, ServiceInv
<1>3. BaseInv' /\ ReadersKept /\ NobodyJoins
  BY <1>1, <1>2, KernelKeeps
<1>4. LockInv'
  BY <1>1, <1>2, <1>3, LockStep DEF BaseInv
<1>5. DeferredInv'
  BY <1>1, <1>2, JobsStep
<1> QED BY <1>1, <1>3, <1>4, <1>5, OtherStep

\* PostProc goes through its loop, or sleeps until it is signalled.
LEMMA LoopStep ==
  ASSUME MesgQInv, PostProcResume \/ PostProcScanned \/ PostProcWait, UNCHANGED mesgQVars
  PROVE  MesgQInv' /\ AbsStep
<1>1. BaseInv /\ LockInv /\ DeferredInv /\ NoBoost /\ DispatchInv /\ ServiceInv
  BY DEF MesgQInv, BaseInv, ServiceInv
<1>2. CASE UNCHANGED <<kernelVars, jobs>>
  <2>1. /\ UNCHANGED <<run, status, prio, readyQ, pendSV, schLock, savedLock, waitQ, wqp, waitingFor,
                       tmo, ttype, call, todo, jobs, maxBuf, outgoing>>
    BY <1>2 DEF kernelVars, schedVars, waitVars, mutexVars, timeVars, callVars, mesgQVars
  <2>2. ServiceInv' /\ ReadersKept /\ NobodyJoins
    BY <1>1, <2>1, ListsFrame
  <2>3. NoBoost' /\ DispatchInv'
    BY <1>1, <2>1, DispatchFrame DEF NoBoost, PendKept
  <2>4. LockInv' /\ DeferredInv'
    BY <1>1, <2>1, JobsStep DEF LockInv
  <2> QED BY <2>2, <2>3, <2>4, OtherStep DEF BaseInv
<1>3. CASE PostProcAt("jobs") /\ PostProcEventGet
  <2>1. /\ run = PostProc /\ ~pendSV
        /\ \/ UNCHANGED <<status, pendSV>>
           \/ /\ status' = [status EXCEPT ![run] = "SLEEPING_EV_FLAG"]
              /\ kPendCtxSwtch("SLEEPING_EV_FLAG")
        /\ UNCHANGED <<run, prio, readyQ, schLock, savedLock, waitQ, wqp, waitingFor,
                       tmo, ttype, call, todo, jobs, maxBuf, outgoing>>
    BY <1>3 DEF PostProcAt, PostProcEventGet, waitVars, mutexVars, timeVars, callVars, mesgQVars
  <2>2. run # IdleTask /\ status[run] = "RUNNING" /\ run \in Task
    BY <1>1, <2>1, KernelConstants DEF DispatchInv
  <2>3. \A t \in Task : status'[t] = status[t] \/ status[t] \in {"READY", "RUNNING"}
    BY <1>1, <2>1, <2>2 DEF DispatchInv
  <2>4. ServiceInv' /\ ReadersKept /\ NobodyJoins
    BY <1>1, <2>1, <2>3, ListsFrame
  <2>5. NoBoost' /\ DispatchInv'
    <3>1. CASE UNCHANGED <<status, pendSV>>
      BY <1>1, <2>1, <3>1, DispatchFrame DEF NoBoost, PendKept
    <3>2. CASE /\ status' = [status EXCEPT ![run] = "SLEEPING_EV_FLAG"]
               /\ kPendCtxSwtch("SLEEPING_EV_FLAG")
      <4>1. pendSV' = TRUE /\ "SLEEPING_EV_FLAG" \in Status \ {"READY", "RUNNING"}
        BY <3>2 DEF kPendCtxSwtch, kPendCtxSwtchNow_, Status
      <4> QED BY <1>1, <2>1, <2>2, <3>2, <4>1, DispatchSuspend DEF NoBoost
    <3> QED BY <2>1, <3>1, <3>2
  <2>6. LockInv' /\ DeferredInv'
    BY <1>1, <2>1, JobsStep DEF LockInv
  <2> QED BY <2>4, <2>5, <2>6, OtherStep DEF BaseInv
<1> QED BY <1>2, <1>3 DEF PostProcResume, PostProcScanned, PostProcWait

\* PostProc wakes some of those a broadcast is for.
LEMMA BroadcastWakeStep ==
  ASSUME MesgQInv, NEW job \in ToSet(jobs), PostProcBroadcastWake(job)
  PROVE  MesgQInv' /\ AbsStep
<1> DEFINE q == job.obj
           o == Receivers[q]
           prepared == Waiting(q, {"BROADCAST_DELIVER"})
           k == IF Len(prepared) < job.n THEN Len(prepared) ELSE job.n
           woken == SubSeq(prepared, 1, k)
           line == Among(waitQ[o], Task \ ToSet(woken))
<1>1. /\ waitQ' = [waitQ EXCEPT ![o] = line] /\ todo' = ReadyAll(woken)
      /\ todo = <<>> /\ jobs # <<>> /\ jobs' = Tail(jobs)
      /\ UNCHANGED <<run, status, prio, readyQ, pendSV, schLock, savedLock, wqp, waitingFor,
                     tmo, ttype, call, maxBuf, ring, broadcastReceivers, outgoing, inbox>>
  BY DEF PostProcBroadcastWake, JobDeq, PostProcAt, schedVars, mutexVars, timeVars, callVars, mesgQVars
<1>2. ServiceInv /\ WaitTypes /\ DeferredInv /\ ContentInv /\ NodeInv /\ CallInv
  BY DEF MesgQInv, ServiceInv
<1>3. q \in Queue /\ job.n \in Nat /\ o \in WaitObj
  <2>1. job \in Job
    <3> HIDE DEF Job
    <3> QED BY <1>2, LenProperties, ElementOfSeq DEF DeferredInv, ToSet
  <2> QED BY <2>1, QueueObjects DEF Job
<1> HIDE DEF q
<1>4. /\ prepared \in Seq(Task) /\ NoDuplicates(prepared)
      /\ ToSet(prepared) = {t \in ToSet(waitQ[o]) : call[t].phase = "BROADCAST_DELIVER"}
  BY <1>2, <1>3, WaitingTasks
<1> HIDE DEF prepared
<1>5. /\ woken \in Seq(Task) /\ NoDuplicates(woken) /\ ToSet(woken) \subseteq ToSet(prepared)
  <2>1. k \in 0 .. Len(prepared)
    BY <1>3, <1>4, LenProperties
  <2> HIDE DEF k
  <2> QED BY <1>4, <2>1, PrefixProperties
<1> HIDE DEF woken
<1>6. /\ line \in Seq(Task) /\ NoDuplicates(line) /\ ToSet(line) = ToSet(waitQ[o]) \ ToSet(woken)
  <2>1. waitQ[o] \in Seq(Task) /\ NoDuplicates(waitQ[o]) /\ ToSet(waitQ[o]) \subseteq Task
    BY <1>2, <1>3, ListedAreTasks DEF WaitTypes
  <2>2. /\ line \in Seq(Task) /\ NoDuplicates(line)
        /\ ToSet(line) = ToSet(waitQ[o]) \cap (Task \ ToSet(woken))
    BY <2>1, AmongProperties
  <2> QED BY <2>1, <2>2
<1> HIDE DEF line
<1> DEFINE W == ToSet(woken)
<1>7. QueuesLose(W)
  BY <1>1, <1>2, <1>3, <1>4, <1>5, <1>6, OneLosesTasks
<1>8. \A t \in W : t \in Task /\ OnQueue(t) /\ t \notin ToSet(tmo) /\ wqp[t] = None
  <2>1. \A t \in W : t \in ToSet(waitQ[o]) /\ call[t].phase = "BROADCAST_DELIVER"
    BY <1>4, <1>5
  <2>2. \A t \in W : t \in Task
    BY <1>2, <1>3, <2>1, ListedAreTasks
  <2> QED BY <1>2, <1>3, <2>1, <2>2 DEF CallInv, OnQueue
<1>9. NodesLose(W)
  BY <1>1, <1>2, <1>8 DEF NodesLose, WaitTypes, NodeInv
<1>10. Readies(todo', W)
  BY <1>1, <1>5, ReadyLists
<1>11. /\ \A t \in Task : call'[t] \in Suspension /\ ServedCall(t, W, W)
       /\ call' = [t \in Task |-> call'[t]] /\ ReadersKept
  BY <1>1, <1>2, PlainCalls DEF CallAfter
<1>12. Serves(W, W, W)
  BY <1>1, <1>7, <1>8, <1>9, <1>10, <1>11 DEF Serves, PendKept
<1>13. DeferredInv'
  BY <1>1, <1>2, JobsStep
<1>14. outgoing' \in [UserTask -> Mesg \cup {None}] /\ ring' \in [Queue -> Seq(Mesg)]
  BY <1>1, <1>2 DEF ContentInv
<1>15. MesgQInv' /\ SameReaders
  BY <1>1, <1>11, <1>12, <1>13, <1>14, ServedStep
<1> QED BY <1>1, <1>15, AbsStutter

\* A job is queued, and PostProc made ready if it sleeps.
LEMMA JobSignals ==
  ASSUME NEW job, JobEnq(job)
  PROVE  \E R : /\ Readies(todo', R)
                /\ \A t \in R : t \in Task /\ status[t] = "SLEEPING_EV_FLAG"
<1>1. todo' = IF status[PostProc] = "SLEEPING_EV_FLAG" THEN <<ReadySwtchOf(PostProc)>> ELSE <<>>
  BY DEF JobEnq
<1>2. PostProc \in Task
  BY PostProcConstants
<1>3. CASE status[PostProc] = "SLEEPING_EV_FLAG"
  <2>1. Readies(todo', {PostProc})
    BY <1>1, <1>2, <1>3, ReadyLists
  <2> QED BY <1>2, <1>3, <2>1
<1>4. CASE status[PostProc] # "SLEEPING_EV_FLAG"
  <2>1. Readies(todo', {})
    BY <1>1, <1>4, ReadyLists
  <2> QED BY <2>1
<1> QED BY <1>3, <1>4

\* Queuing a job is none of the service's business yet.
LEMMA JobStep ==
  ASSUME MesgQInv, todo = <<>>, NEW job \in Job, job.job = "MESGQ_RESET" => MayReset(job.obj),
         JobEnq(job),
         UNCHANGED <<schedVars, waitVars, mutexVars, timeVars, call, mesgQVars>>
  PROVE  MesgQInv' /\ AbsStep
<1>1. /\ jobs' = Append(jobs, job)
      /\ UNCHANGED <<run, status, prio, readyQ, pendSV, schLock, savedLock, waitQ, wqp, waitingFor,
                     tmo, ttype, call, maxBuf, ring, broadcastReceivers, outgoing, inbox>>
  BY DEF JobEnq, schedVars, waitVars, mutexVars, timeVars, mesgQVars
<1>2. BaseInv /\ WaitTypes /\ DeferredInv /\ NoBoost /\ DispatchInv /\ ServiceInv
  BY DEF MesgQInv, BaseInv, ServiceInv
<1>3. PICK R : /\ Readies(todo', R)
               /\ \A t \in R : t \in Task /\ status[t] = "SLEEPING_EV_FLAG"
  BY JobSignals
<1>4. QueuesLose({}) /\ NodesLose({}) /\ PendKept
  BY <1>1, <1>2, NothingLost DEF PendKept
<1>5. /\ \A t \in Task : call'[t] \in Suspension /\ ServedCall(t, {}, {})
      /\ call' = [t \in Task |-> call'[t]] /\ ReadersKept
  BY <1>1, <1>2, PlainCalls DEF CallAfter
<1>6. Serves({}, {}, R)
  BY <1>1, <1>3, <1>4, <1>5 DEF Serves
<1>7. BaseInv' /\ NobodyJoins
  BY <1>2, <1>6, ServeStep, ServesJoinNobody DEF BaseInv
<1>8. DeferredInv'
  <2> HIDE DEF Job
  <2> QED BY <1>1, <1>2, JobsStep
<1>9. LockInv'
  BY <1>1 DEF MesgQInv, LockInv
<1> QED BY <1>5, <1>7, <1>8, <1>9, OtherStep

\* The queue is emptied: whoever waits on it is made ready, and runs its call
\* again.  No broadcast is in the ring of a queue that may be reset.
LEMMA ResetStep ==
  ASSUME MesgQInv, ~ResetMailbox, todo = <<>>, NEW q \in Queue, MayReset(q), ResetQueue(q),
         DeferredInv'
  PROVE  MesgQInv' /\ AbsStep
<1> DEFINE r == Receivers[q]
           s == Senders[q]
           all == waitQ[r] \o waitQ[s]
           A == ToSet(all)
<1>1. /\ ring' = [ring EXCEPT ![q] = <<>>]
      /\ broadcastReceivers' = [broadcastReceivers EXCEPT ![q] = 0]
      /\ waitQ' = [waitQ EXCEPT ![r] = <<>>, ![s] = <<>>]
      /\ ClearTimeouts(A)
      /\ call' = [t \in Task |-> IF t \in ToSet(waitQ[r])
                                 THEN [call[t] EXCEPT !.phase = "WAIT"] ELSE call[t]]
      /\ todo' = ReadyAll(all)
      /\ UNCHANGED <<run, status, prio, readyQ, pendSV, schLock, savedLock, waitingFor, maxBuf,
                     outgoing, inbox>>
  BY DEF ResetQueue, WaitsOnQueue, schedVars, mutexVars
<1>2. /\ ServiceInv /\ BaseInv /\ WaitTypes /\ WaiterInv /\ ContentInv
      /\ call \in [Task -> Suspension] /\ waitQ \in [WaitObj -> Seq(Task)]
      /\ ring \in [Queue -> Seq(Mesg)] /\ broadcastReceivers \in [Queue -> Nat]
      /\ outgoing \in [UserTask -> Mesg \cup {None}]
  BY DEF MesgQInv, BaseInv, ServiceInv, WaitTypes, ContentInv
<1>3. Readers(q) = {} /\ broadcastReceivers[q] = 0
  <2>1. ~Mailbox(q)
    BY DEF MayReset
  <2> QED BY <1>2, <2>1, ReservedFull
<1>4. r \in WaitObj /\ s \in WaitObj /\ r # s
  BY QueueObjects
<1>5. /\ waitQ[r] \in Seq(Task) /\ NoDuplicates(waitQ[r])
      /\ waitQ[s] \in Seq(Task) /\ NoDuplicates(waitQ[s])
      /\ ToSet(waitQ[r]) \subseteq Task /\ ToSet(waitQ[s]) \subseteq Task
  BY <1>2, <1>4, ListedAreTasks DEF WaitTypes
<1>6. \A o \in WaitObj : \A t \in ToSet(waitQ[o]) : call[t].arg = o
  BY <1>2, OneQueue
<1> HIDE DEF r, s
<1>7. /\ all \in Seq(Task) /\ A = ToSet(waitQ[r]) \cup ToSet(waitQ[s]) /\ NoDuplicates(all)
  <2>1. ToSet(waitQ[r]) \cap ToSet(waitQ[s]) = {}
    BY <1>4, <1>6
  <2>2. all \in Seq(Task)
    BY <1>5, ConcatProperties
  <2>3. NoDuplicates(all)
    BY <1>5, <2>1, ConcatOnce
  <2>4. A = ToSet(waitQ[r]) \cup ToSet(waitQ[s])
    BY <1>5, ConcatSet
  <2> QED BY <2>2, <2>3, <2>4
<1> HIDE DEF all
<1>8. QueuesLose(A)
  <2>1. /\ <<>> \in Seq(Task) /\ ToSet(<<>>) = {} /\ NoDuplicates(<<>>)
    BY SmallSequences DEF NoDuplicates
  <2>2. waitQ' \in [WaitObj -> Seq(Task)]
    BY <1>1, <1>2, <2>1
  <2>3. ASSUME NEW o \in WaitObj
        PROVE  NoDuplicates(waitQ'[o]) /\ ToSet(waitQ'[o]) = ToSet(waitQ[o]) \ A
    <3>1. CASE o \in {r, s}
      <4>1. waitQ'[o] = <<>> /\ ToSet(waitQ[o]) \subseteq A
        BY <1>1, <1>2, <1>4, <1>7, <3>1
      <4> QED BY <2>1, <4>1
    <3>2. CASE o \notin {r, s}
      <4>1. waitQ'[o] = waitQ[o]
        BY <1>1, <1>2, <3>2
      <4>2. ToSet(waitQ[o]) \cap A = {}
        BY <1>4, <1>6, <1>7, <3>2
      <4> QED BY <1>2, <4>1, <4>2 DEF WaitTypes
    <3> QED BY <3>1, <3>2
  <2> QED BY <2>2, <2>3 DEF QueuesLose
<1>9. \A t \in A : t \in Task /\ OnQueue(t)
  BY <1>4, <1>5, <1>7 DEF OnQueue
<1>10. NodesLose(A) /\ Readies(todo', A)
  <2>1. NodesLose(A)
    <3> HIDE DEF A
    <3> QED BY <1>1, <1>2, <1>9, ClearLosesNodes
  <2>2. Readies(ReadyAll(all), ToSet(all))
    BY <1>7, ReadyLists
  <2> QED BY <1>1, <2>1, <2>2
<1> HIDE DEF A
<1>11. /\ \A t \in Task : call'[t] \in Suspension /\ ServedCall(t, A, A)
       /\ call' = [t \in Task |-> call'[t]]
  <2>1. "WAIT" \in CallPhase
    BY DEF CallPhase
  <2>2. ASSUME NEW t \in Task
        PROVE  call'[t] \in Suspension /\ ServedCall(t, A, A)
    <3>1. CASE t \in ToSet(waitQ[r])
      <4>1. call'[t] = [call[t] EXCEPT !.phase = "WAIT"] /\ t \in A
        BY <1>1, <1>7, <3>1
      <4> QED BY <1>2, <2>1, <4>1 DEF Suspension, ServedCall
    <3>2. CASE t \notin ToSet(waitQ[r])
      BY <1>1, <1>2, <3>2 DEF ServedCall
    <3> QED BY <3>1, <3>2
  <2>3. call' = [t \in Task |-> call'[t]]
    BY <1>1
  <2> QED BY <2>2, <2>3
<1>12. ReadersKept
  <2>1. ASSUME NEW t \in Task,
               call[t].phase = "BROADCAST_DELIVER" \/ call'[t].phase = "BROADCAST_DELIVER"
        PROVE  call'[t] = call[t]
    <3>1. CASE t \in ToSet(waitQ[r])
      <4>1. call[t].arg = r
        BY <1>4, <1>6, <3>1
      <4>2. call[t].phase # "BROADCAST_DELIVER"
        BY <1>3, <4>1 DEF Readers, r
      <4>3. call'[t].phase = "WAIT"
        BY <1>1, <1>2, <3>1 DEF Suspension
      <4> QED BY <2>1, <4>2, <4>3
    <3>2. CASE t \notin ToSet(waitQ[r])
      BY <1>1, <3>2
    <3> QED BY <3>1, <3>2
  <2> QED BY <2>1 DEF ReadersKept
<1>13. Serves(A, A, A)
  BY <1>1, <1>8, <1>9, <1>10, <1>11 DEF Serves, PendKept
<1>14. /\ UNCHANGED broadcastReceivers
       /\ outgoing' \in [UserTask -> Mesg \cup {None}] /\ ring' \in [Queue -> Seq(Mesg)]
       /\ \A p \in Queue : ring'[p] = ring[p] \/ (Readers(p) = {} /\ ring'[p] = <<>>)
  <2>1. <<>> \in Seq(Mesg)
    BY SmallSequences
  <2> QED BY <1>1, <1>2, <1>3, <2>1
<1>15. MesgQInv' /\ SameReaders
  BY <1>1, <1>12, <1>13, <1>14, ServedStep
<1>16. AbsStep
  BY <1>1, <1>3, <1>15, AbsReset
<1> QED BY <1>15, <1>16

\* A reset by a task, by an interrupt or by PostProc.
LEMMA ResetSteps ==
  ASSUME MesgQInv, ~ResetMailbox,
         \/ \E q \in Queue : kMesgQueueReset(q) \/ IsrReset(q)
         \/ \E job \in ToSet(jobs) : PostProcReset(job)
  PROVE  MesgQInv' /\ AbsStep
<1>1. DeferredInv /\ jobs \in Seq(Job)
  BY DEF MesgQInv, DeferredInv
<1>2. ASSUME NEW q \in Queue, todo = <<>>, MayReset(q), ResetQueue(q), UNCHANGED postVars
      PROVE  MesgQInv' /\ AbsStep
  <2>1. UNCHANGED <<maxBuf, jobs>>
    BY <1>2 DEF postVars, ResetQueue
  <2>2. DeferredInv'
    BY <1>1, <2>1, JobsStep
  <2> QED BY <1>2, <2>2, ResetStep
<1>3. ASSUME NEW q \in Queue, kMesgQueueReset(q) PROVE MesgQInv' /\ AbsStep
  BY <1>2, <1>3 DEF kMesgQueueReset, Executing
<1>4. ASSUME NEW q \in Queue, IsrReset(q) PROVE MesgQInv' /\ AbsStep
  <2>1. CASE ResetQueue(q) /\ UNCHANGED postVars
    BY <1>2, <1>4, <2>1 DEF IsrReset
  <2>2. CASE /\ JobEnq([job |-> "MESGQ_RESET", obj |-> q, n |-> Len(WaitsOnQueue(q))])
             /\ UNCHANGED <<schedVars, waitVars, mutexVars, timeVars, callVars, mesgQVars>>
    <3> DEFINE job == [job |-> "MESGQ_RESET", obj |-> q, n |-> Len(WaitsOnQueue(q))]
    <3>1. Len(WaitsOnQueue(q)) \in Nat
      <4>1. waitQ[Receivers[q]] \in Seq(Task) /\ waitQ[Senders[q]] \in Seq(Task)
        BY QueueObjects DEF MesgQInv, WaitTypes
      <4>2. WaitsOnQueue(q) \in Seq(Task)
        BY <4>1, ConcatProperties DEF WaitsOnQueue
      <4> QED BY <4>2, LenProperties
    <3>2. job \in Job /\ job.obj = q
      BY <3>1 DEF Job
    <3>3. todo = <<>> /\ MayReset(q)
      BY <1>4 DEF IsrReset
    <3>4. UNCHANGED call
      BY <2>2 DEF callVars
    <3> HIDE DEF job
    <3> QED BY <2>2, <3>2, <3>3, <3>4, JobStep DEF job
  <2> QED BY <1>4, <2>1, <2>2 DEF IsrReset
<1>5. ASSUME NEW job \in ToSet(jobs), PostProcReset(job) PROVE MesgQInv' /\ AbsStep
  <2>1. /\ todo = <<>> /\ jobs # <<>> /\ jobs' = Tail(jobs) /\ ResetQueue(job.obj)
        /\ job.job = "MESGQ_RESET" /\ UNCHANGED maxBuf
    BY <1>5 DEF PostProcReset, JobDeq, PostProcAt, ResetQueue
  <2>2. job \in Job
    <3> HIDE DEF Job
    <3> QED BY <1>1, LenProperties, ElementOfSeq DEF ToSet
  <2>3. job.obj \in Queue /\ MayReset(job.obj)
    BY <1>1, <2>1, <2>2 DEF DeferredInv, Job
  <2>4. DeferredInv'
    BY <1>1, <2>1, JobsStep
  <2> QED BY <2>1, <2>3, <2>4, ResetStep
<1> QED BY <1>3, <1>4, <1>5

\* A task that enters a call, or is woken in one and enters it again, runs and
\* has not been given a broadcast, unless it entered to read one.
LEMMA Entered ==
  ASSUME MesgQInv, NEW number, NEW o, Enters(number, o)
  PROVE  /\ todo = <<>> /\ run \in Task /\ status[run] = "RUNNING"
         /\ number # "MESG_QUEUE_BROADCAST_RECV" => call[run].phase # "BROADCAST_DELIVER"
         /\ Executing => run \in UserTask /\ call[run].phase # "BROADCAST_DELIVER"
         /\ call[run].phase = "BROADCAST_DELIVER" => call[run].arg = o
<1>1. DispatchInv /\ CallInv
  BY DEF MesgQInv
<1>2. CASE Executing
  BY <1>1, <1>2 DEF Executing, DispatchInv, UserTask, NoCall
<1>3. CASE Reentered(number, o) /\ ~Executing
  BY <1>1, <1>3 DEF Reentered, DispatchInv, CallInv
<1> QED BY <1>2, <1>3 DEF Enters

\* A message goes into the ring.
LEMMA RingSendStep ==
  ASSUME MesgQInv, todo = <<>>, NEW q \in Queue, NEW m \in Mesg, ~Full(q), ~MayDirect(q),
         NEW calls, CallAfter(calls),
         NEW r, r = Append(ring[q], m) \/ r = <<m>> \o ring[q],
         RingSend(q, r, calls),
         \/ outgoing' = outgoing
         \/ outgoing' = [outgoing EXCEPT ![run] = None] /\ calls = [call EXCEPT ![run] = NoCall],
         UNCHANGED <<schedVars, mutexVars, postVars, maxBuf>>
  PROVE  MesgQInv' /\ AbsStep
<1>1. /\ ring' = [ring EXCEPT ![q] = r] /\ WakeNormalReceiverIfAny(q) /\ call' = calls
      /\ UNCHANGED <<run, status, prio, readyQ, pendSV, schLock, savedLock, waitingFor, jobs,
                     maxBuf, broadcastReceivers, inbox>>
  BY DEF RingSend, schedVars, mutexVars, postVars
<1>2. ServiceInv /\ ContentInv
  BY DEF MesgQInv, ServiceInv
<1>3. /\ broadcastReceivers[q] = 0 /\ Readers(q) = {} /\ ring[q] \in Seq(Mesg)
      /\ Len(ring[q]) < maxBuf[q]
  BY <1>2, ReservedFull
<1>4. r \in Seq(Mesg)
  <2>1. CASE r = Append(ring[q], m)
    BY <1>3, <2>1, AppendSet
  <2>2. CASE r = <<m>> \o ring[q]
    <3>1. <<m>> \in Seq(Mesg)
      BY SmallSequences
    <3> QED BY <1>3, <2>2, <3>1, ConcatProperties
  <2> QED BY <2>1, <2>2
<1>5. ring[q] # <<>> \/ \A t \in ToSet(waitQ[Receivers[q]]) : call[t].phase # "WAIT"
  BY <1>3, NobodyWaits DEF MayDirect
<1>6. \E S : Wakes(S, Receivers[q])
  BY <1>1, <1>2, NormalWoken
<1>7. MesgQInv' /\ SameReaders
  BY <1>1, <1>3, <1>4, <1>5, <1>6, RingStep DEF OutgoingAfter
<1>8. AbsStep
  <2>1. \/ ring' = [ring EXCEPT ![q] = Append(@, m)]
        \/ ring' = [ring EXCEPT ![q] = <<m>> \o @]
    BY <1>1
  <2> QED BY <1>1, <1>3, <1>7, <2>1, AbsPut
<1> QED BY <1>7, <1>8

\* A message is sent, by a call that may wait for room.
LEMMA SendStep ==
  ASSUME MesgQInv, todo = <<>>, run \in UserTask, status[run] = "RUNNING",
         call[run].phase # "BROADCAST_DELIVER",
         NEW q \in Queue, NEW m \in Mesg, NEW timeout, NEW number \in SendNumber,
         SendMesg(q, m, timeout, number)
  PROVE  MesgQInv' /\ AbsStep
<1> DEFINE ended == [call EXCEPT ![run] = NoCall]
<1>1. CASE Fails(number, Senders[q], "BUFFER_FULL") /\ UNCHANGED outgoing
  BY <1>1, FailsStep
<1>2. CASE /\ WaitOn(Senders[q], "SENDING", number, "WAIT", timeout)
           /\ outgoing' = [outgoing EXCEPT ![run] = m]
  BY <1>2, WaitsStep
<1>3. CASE /\ ~Full(q)
           /\ \/ MayDirect(q) /\ DirectSend(q, m, ended)
              \/ ~MayDirect(q) /\ RingSend(q, AddTo(q, m, number), ended)
           /\ outgoing' = [outgoing EXCEPT ![run] = None]
           /\ UNCHANGED <<schedVars, mutexVars, postVars, maxBuf>>
  <2>1. CallAfter(ended)
    BY DEF CallAfter
  <2>2. CASE MayDirect(q) /\ DirectSend(q, m, ended)
    BY <1>3, <2>1, <2>2, DirectStep
  <2>3. CASE ~MayDirect(q) /\ RingSend(q, AddTo(q, m, number), ended)
    <3>1. \/ AddTo(q, m, number) = Append(ring[q], m)
          \/ AddTo(q, m, number) = <<m>> \o ring[q]
      BY DEF AddTo
    <3> QED BY <1>3, <2>1, <2>3, <3>1, RingSendStep
  <2> QED BY <1>3, <2>2, <2>3
<1> QED BY <1>1, <1>2, <1>3 DEF SendMesg

\* A task sends, or tries again once it was woken; an interrupt does not wait.
LEMMA SendSteps ==
  ASSUME MesgQInv, NEW q \in Queue, NEW m \in Mesg, NEW timeout,
         \/ /\ run \in MaySend
            /\ \E number \in SendNumber :
                 kMesgQueueSend(q, m, timeout, number) \/ SendAgain(q, timeout, number)
         \/ IsrSend(q, m)
  PROVE  MesgQInv' /\ AbsStep
<1>1. ASSUME NEW number \in SendNumber, kMesgQueueSend(q, m, timeout, number)
      PROVE  MesgQInv' /\ AbsStep
  <2>1. Executing /\ SendMesg(q, m, timeout, number)
    BY <1>1 DEF kMesgQueueSend
  <2> QED BY <2>1, Entered, SendStep DEF Enters
<1>2. ASSUME NEW number \in SendNumber, run \in MaySend, SendAgain(q, timeout, number)
      PROVE  MesgQInv' /\ AbsStep
  <2>1. /\ Reentered(number, Senders[q]) /\ SendMesg(q, outgoing[run], timeout, number)
        /\ call[run].number = number
    BY <1>2 DEF SendAgain, Reentered
  <2>2. /\ todo = <<>> /\ run \in Task /\ status[run] = "RUNNING"
        /\ call[run].phase # "BROADCAST_DELIVER"
    BY <2>1, Entered DEF Enters, SendNumber
  <2>3. run \in UserTask /\ outgoing[run] \in Mesg
    BY <2>1, <2>2 DEF MesgQInv, CallInv
  <2> QED BY <2>1, <2>2, <2>3, SendStep
<1>3. CASE IsrSend(q, m)
  <2>1. /\ todo = <<>> /\ ~Full(q) /\ UNCHANGED outgoing
        /\ UNCHANGED <<schedVars, mutexVars, postVars, maxBuf>>
        /\ \/ MayDirect(q) /\ DirectSend(q, m, call)
           \/ ~MayDirect(q) /\ RingSend(q, Append(ring[q], m), call)
    BY <1>3 DEF IsrSend
  <2>2. CallAfter(call)
    BY DEF CallAfter
  <2> QED BY <2>1, <2>2, DirectStep, RingSendStep
<1> QED BY <1>1, <1>2, <1>3

\* A message is received, by a call that may wait for one.
LEMMA RecvStep ==
  ASSUME MesgQInv, NEW q \in Queue, NEW timeout, run \in MayReceive, kMesgQueueRecv(q, timeout)
  PROVE  MesgQInv' /\ AbsStep
<1> DEFINE o == Receivers[q]
<1>1. /\ todo = <<>> /\ run \in UserTask /\ status[run] = "RUNNING"
      /\ call[run].phase # "BROADCAST_DELIVER" /\ outgoing' = outgoing
  BY Entered, MesgQConstants DEF kMesgQueueRecv
<1>2. CASE Fails("MESG_QUEUE_RECV", o, "BUFFER_EMPTY")
  BY <1>1, <1>2, FailsStep
<1>3. CASE /\ ring[q] = <<>> \/ broadcastReceivers[q] > 0
           /\ WaitOn(o, "RECEIVING", "MESG_QUEUE_RECV", "WAIT", timeout)
  BY <1>1, <1>3, WaitsStep
<1>4. CASE /\ ring[q] # <<>> /\ ~(broadcastReceivers[q] > 0)
           /\ ring' = [ring EXCEPT ![q] = Tail(@)]
           /\ inbox' = [inbox EXCEPT ![run] = Head(ring[q])]
           /\ WakeSenderIfAny(q)
           /\ Ends("MESG_QUEUE_RECV", o, "SUCCESS")
           /\ UNCHANGED <<schedVars, mutexVars, postVars, maxBuf, broadcastReceivers>>
  <2>1. /\ UNCHANGED <<run, status, prio, readyQ, pendSV, schLock, savedLock, waitingFor, jobs,
                       maxBuf, broadcastReceivers>>
        /\ call' = [call EXCEPT ![run] = NoCall]
    BY <1>4 DEF Ends, schedVars, mutexVars, postVars
  <2>2. ServiceInv /\ ContentInv
    BY DEF MesgQInv, ServiceInv
  <2>3. Readers(q) = {} /\ ring[q] \in Seq(Mesg)
    BY <1>4, <2>2, ReservedFull
  <2>4. Tail(ring[q]) \in Seq(Mesg)
    BY <1>4, <2>3, TailFacts
  <2>5. \E S : Wakes(S, Senders[q])
    BY <1>1, <1>4, <2>2, SenderWoken
  <2>6. CallAfter(call') /\ OutgoingAfter
    BY <1>1, <2>1 DEF CallAfter, OutgoingAfter
  <2>7. MesgQInv' /\ SameReaders
    BY <1>1, <1>4, <2>1, <2>3, <2>4, <2>5, <2>6, RingStep
  <2>8. AbsStep
    BY <1>1, <1>4, <2>1, <2>3, <2>7, AbsTake
  <2> QED BY <2>7, <2>8
<1> QED BY <1>2, <1>3, <1>4 DEF kMesgQueueRecv

\* The message in a mailbox is replaced.
LEMMA PostOvwStep ==
  ASSUME MesgQInv, NEW q \in Queue, NEW m \in Mesg, kMesgQueuePostOvw(q, m)
  PROVE  MesgQInv' /\ AbsStep
<1>1. /\ Executing /\ Mailbox(q) /\ outgoing' = outgoing
      /\ todo = <<>> /\ status[run] = "RUNNING" /\ call[run].phase # "BROADCAST_DELIVER"
  BY Entered DEF kMesgQueuePostOvw, Enters
<1>2. CASE Fails("NONE", None, "BUFFER_FULL")
  BY <1>1, <1>2, FailsStep
<1>3. CASE /\ broadcastReceivers[q] = 0
           /\ \/ MayDirect(q) /\ DirectSend(q, m, call)
              \/ /\ ~MayDirect(q)
                 /\ ring' = [ring EXCEPT ![q] = <<m>>]
                 /\ IF ring[q] = <<>> THEN WakeNormalReceiverIfAny(q)
                                      ELSE UNCHANGED <<waitVars, timeVars, todo>>
                 /\ UNCHANGED <<call, broadcastReceivers, inbox>>
           /\ UNCHANGED <<schedVars, mutexVars, postVars, maxBuf>>
  <2>1. CallAfter(call)
    BY DEF CallAfter
  <2>2. CASE MayDirect(q) /\ DirectSend(q, m, call)
    BY <1>1, <1>3, <2>1, <2>2, DirectStep
  <2>3. CASE ~MayDirect(q)
    <3>1. UNCHANGED <<run, status, prio, readyQ, pendSV, schLock, savedLock, waitingFor, jobs,
                      maxBuf, broadcastReceivers, call, inbox>>
      BY <1>3, <2>3 DEF schedVars, mutexVars, postVars, MayDirect
    <3>2. ServiceInv /\ ContentInv
      BY DEF MesgQInv, ServiceInv
    <3>3. Readers(q) = {} /\ <<m>> \in Seq(Mesg)
      BY <1>3, <3>2, ReservedFull, SmallSequences
    <3>4. ring[q] # <<>> \/ \A t \in ToSet(waitQ[Receivers[q]]) : call[t].phase # "WAIT"
      BY <1>3, <2>3, NobodyWaits DEF MayDirect
    <3>5. \E S : Wakes(S, Receivers[q])
      BY <1>1, <1>3, <2>3, <3>2, NormalWoken
    <3>6. CallAfter(call') /\ OutgoingAfter
      BY <1>1, <3>1 DEF CallAfter, OutgoingAfter
    <3>7. MesgQInv' /\ SameReaders
      BY <1>1, <1>3, <2>3, <3>1, <3>3, <3>4, <3>5, <3>6, RingStep
    <3>8. AbsStep
      BY <1>1, <1>3, <2>3, <3>1, <3>3, <3>7, AbsOverwrite
    <3> QED BY <3>7, <3>8
  <2> QED BY <1>3, <2>2, <2>3
<1> QED BY <1>2, <1>3 DEF kMesgQueuePostOvw

\* The readers of the broadcast in the mailbox q become those of T.
LEMMA ReadersStep ==
  ASSUME MesgQInv, BaseInv', LockInv', DeferredInv', NobodyJoins, NEW q \in Queue, Mailbox(q),
         NEW T, \A r \in Queue : Readers(r)' = IF r = q THEN T ELSE Readers(r),
         NEW n \in Nat, n = Cardinality(T),
         broadcastReceivers' = [broadcastReceivers EXCEPT ![q] = n],
         NEW content \in Seq(Mesg), ring' = [ring EXCEPT ![q] = content],
         n > 0 => Len(content) = 1, n = 0 => content = <<>>,
         outgoing' \in [UserTask -> Mesg \cup {None}], UNCHANGED maxBuf
  PROVE  MesgQInv'
<1>1. ContentInv /\ ServedInv
  BY DEF MesgQInv
<1>2. /\ broadcastReceivers'[q] = n /\ ring'[q] = content
      /\ \A r \in Queue \ {q} : /\ broadcastReceivers'[r] = broadcastReceivers[r]
                                /\ ring'[r] = ring[r]
      /\ broadcastReceivers' \in [Queue -> Nat] /\ ring' \in [Queue -> Seq(Mesg)]
  BY <1>1 DEF ContentInv
<1>3. ContentInv'
  <2>1. ASSUME NEW r \in Queue
        PROVE  /\ broadcastReceivers'[r] = Cardinality(Readers(r)')
               /\ broadcastReceivers'[r] > 0 => Len(ring'[r]) = 1 /\ Mailbox(r)'
    <3>1. CASE r = q
      BY <1>2, <3>1 DEF Mailbox
    <3>2. CASE r # q
      BY <1>1, <1>2, <3>2 DEF ContentInv, Mailbox
    <3> QED BY <3>1, <3>2
  <2>2. maxBuf' \in [Queue -> Nat \ {0}]
    BY <1>1 DEF ContentInv
  <2> QED BY <1>2, <2>1, <2>2 DEF ContentInv
<1>4. ServedInv'
  <2>1. SUFFICES ASSUME NEW r \in Queue, ring'[r] # <<>>, broadcastReceivers'[r] = 0,
                        NEW t \in ToSet(waitQ'[Receivers[r]]), call'[t].phase = "WAIT"
                 PROVE  FALSE
    BY DEF ServedInv
  <2>2. t \in ToSet(waitQ[Receivers[r]]) /\ call[t].phase = "WAIT"
    BY <2>1, QueueObjects DEF NobodyJoins
  <2>3. r # q
    BY <1>2, <2>1
  <2> QED BY <1>1, <1>2, <2>1, <2>2, <2>3 DEF ServedInv
<1> QED BY <1>3, <1>4 DEF MesgQInv, BaseInv, ServiceInv

\* A broadcast reserves the slot for those who wait for it.
LEMMA BroadcastToStep ==
  ASSUME MesgQInv, todo = <<>>, NEW q \in Queue, NEW m \in Mesg, Mailbox(q), ~Full(q),
         NEW to, to = Waiting(q, {"BROADCAST"}), to # <<>>, BroadcastTo(q, m, to),
         UNCHANGED outgoing
  PROVE  MesgQInv' /\ AbsStep
<1> DEFINE T == ToSet(to)
           o == Receivers[q]
           Q == IF Len(to) = 1 THEN T ELSE {}
<1>1. /\ ring' = [ring EXCEPT ![q] = <<m>>]
      /\ broadcastReceivers' = [broadcastReceivers EXCEPT ![q] = Len(to)]
      /\ ClearTimeouts(T)
      /\ call' = [t \in Task |-> IF t \in T THEN [call[t] EXCEPT !.phase = "BROADCAST_DELIVER"]
                                            ELSE call[t]]
      /\ UNCHANGED <<run, status, prio, readyQ, pendSV, schLock, savedLock, waitingFor, maxBuf,
                     outgoing, inbox>>
  BY DEF BroadcastTo, schedVars, mutexVars
<1>2. /\ ServiceInv /\ BaseInv /\ WaitTypes /\ WaiterInv /\ ContentInv /\ DeferredInv
      /\ call \in [Task -> Suspension]
  BY DEF MesgQInv, BaseInv, ServiceInv, WaitTypes
<1>3. /\ to \in Seq(Task) /\ NoDuplicates(to) /\ o \in WaitObj
      /\ T = {t \in ToSet(waitQ[o]) : call[t].phase = "BROADCAST"}
  BY <1>2, WaitingTasks, QueueObjects
<1>4. Len(to) \in Nat /\ Cardinality(T) = Len(to) /\ Len(to) > 0 /\ T # {}
  <2>1. Len(to) \in Nat /\ Cardinality(T) = Len(to) /\ IsFiniteSet(T)
    BY <1>3, QueueCardinality, LenProperties
  <2>2. T # {}
    BY <1>3, EmptySet
  <2>3. Len(to) # 0
    BY <1>3, EmptySeq
  <2> QED BY <2>1, <2>2, <2>3
<1>5. Readers(q) = {} /\ ring[q] = <<>>
  <2>1. Readers(q) = {} /\ ring[q] \in Seq(Mesg) /\ Len(ring[q]) < maxBuf[q]
    BY <1>2, ReservedFull
  <2>2. Len(ring[q]) \in Nat /\ maxBuf[q] = 1
    BY <2>1, LenProperties DEF Mailbox
  <2>3. Len(ring[q]) = 0
    BY <2>1, <2>2
  <2> QED BY <2>1, <2>3, EmptySeq
<1>6. \A t \in T : /\ t \in Task /\ t \in UserTask /\ OnQueue(t) /\ call[t].arg = o
                   /\ call[t].phase = "BROADCAST"
  BY <1>2, <1>3, OneQueue DEF OnQueue, WaiterInv, UserTask
<1>7. NodesLose(T)
  <2> HIDE DEF T
  <2> QED BY <1>1, <1>2, <1>6, ClearLosesNodes
<1>8. \E R : /\ QueuesLose(Q) /\ Readies(todo', R)
             /\ \A t \in R : t \in Q \/ (t \in Task /\ status[t] = "SLEEPING_EV_FLAG")
  <2>1. CASE Len(to) = 1
    <3>1. /\ waitQ' = [waitQ EXCEPT ![o] = kTCBQRem(@, to[1])]
          /\ todo' = ReadyAll(to)
      BY <2>1 DEF BroadcastTo
    <3>2. T = {to[1]}
      BY <1>3, <2>1, LenProperties DEF ToSet
    <3>3. to[1] \in ToSet(waitQ[o])
      BY <1>3, <3>2
    <3>4. QueuesLose({to[1]})
      BY <1>2, <1>3, <3>1, <3>3, RemLosesTask
    <3>5. Readies(todo', T)
      BY <1>3, <3>1, ReadyLists
    <3> QED BY <2>1, <3>2, <3>4, <3>5
  <2>2. CASE Len(to) # 1
    <3>1. /\ waitQ' = waitQ
          /\ JobEnq([job |-> "MESGQ_BROADCAST_WAKE", obj |-> q, n |-> Len(to)])
      BY <2>2 DEF BroadcastTo
    <3>2. QueuesLose({})
      BY <1>2, <3>1, NothingLost
    <3>3. \E R : /\ Readies(todo', R)
                 /\ \A t \in R : t \in Task /\ status[t] = "SLEEPING_EV_FLAG"
      BY <3>1, JobSignals
    <3> QED BY <2>2, <3>2, <3>3
  <2> QED BY <2>1, <2>2
<1>9. DeferredInv'
  <2>1. CASE Len(to) = 1
    <3>1. jobs' = jobs
      BY <2>1 DEF BroadcastTo, postVars
    <3> QED BY <1>1, <1>2, <3>1, JobsStep
  <2>2. CASE Len(to) # 1
    <3> DEFINE job == [job |-> "MESGQ_BROADCAST_WAKE", obj |-> q, n |-> Len(to)]
    <3>1. jobs' = Append(jobs, job)
      BY <2>2 DEF BroadcastTo, JobEnq
    <3>2. job \in Job /\ job.job # "MESGQ_RESET"
      BY <1>4 DEF Job
    <3> HIDE DEF job, Job
    <3> QED BY <1>1, <1>2, <3>1, <3>2, JobsStep
  <2> QED BY <2>1, <2>2
<1> HIDE DEF T
<1>10. /\ \A t \in Task : call'[t] \in Suspension /\ ServedCall(t, Q, T)
       /\ call' = [t \in Task |-> call'[t]]
  <2> HIDE DEF Q
  <2>1. "BROADCAST_DELIVER" \in CallPhase
    BY DEF CallPhase
  <2>2. ASSUME NEW t \in Task
        PROVE  call'[t] \in Suspension /\ ServedCall(t, Q, T)
    <3>1. CASE t \in T
      <4>1. call'[t] = [call[t] EXCEPT !.phase = "BROADCAST_DELIVER"]
        BY <1>1, <3>1
      <4> QED BY <1>2, <1>6, <2>1, <3>1, <4>1 DEF Suspension, ServedCall
    <3>2. CASE t \notin T
      BY <1>1, <1>2, <3>2 DEF ServedCall
    <3> QED BY <3>1, <3>2
  <2>3. call' = [t \in Task |-> call'[t]]
    BY <1>1
  <2> QED BY <2>2, <2>3
<1>11. PICK R : /\ QueuesLose(Q) /\ Readies(todo', R)
                /\ \A t \in R : t \in Q \/ (t \in Task /\ status[t] = "SLEEPING_EV_FLAG")
  BY <1>8
<1>12. Q \subseteq T
  OBVIOUS
<1> HIDE DEF Q
<1>13. Serves(Q, T, R)
  BY <1>1, <1>6, <1>7, <1>10, <1>11, <1>12 DEF Serves, PendKept
<1>14. BaseInv' /\ NobodyJoins
  BY <1>2, <1>13, ServeStep, ServesJoinNobody DEF BaseInv
<1>15. \A r \in Queue : Readers(r)' = IF r = q THEN T ELSE Readers(r)
  <2>1. \A t \in T : call'[t].arg = o /\ call'[t].phase = "BROADCAST_DELIVER"
    BY <1>1, <1>2, <1>6 DEF Suspension
  <2>2. \A t \in Task \ T : call'[t] = call[t]
    BY <1>1
  <2>3. \A r \in Queue : r # q => Receivers[r] # o
    BY QueueObjects
  <2>4. Readers(q)' = T
    BY <1>5, <1>6, <2>1, <2>2 DEF Readers
  <2>5. ASSUME NEW r \in Queue, r # q PROVE Readers(r)' = Readers(r)
    <3>1. \A t \in T : t \notin Readers(r) /\ t \notin Readers(r)'
      BY <1>6, <2>1, <2>3, <2>5 DEF Readers
    <3>2. \A t \in Task \ T : t \in Readers(r)' <=> t \in Readers(r)
      BY <2>2 DEF Readers
    <3> QED BY <3>1, <3>2 DEF Readers
  <2> QED BY <2>4, <2>5
<1>16. LockInv' /\ outgoing' \in [UserTask -> Mesg \cup {None}]
  BY <1>1, <1>2 DEF MesgQInv, LockInv, ContentInv
<1>17. <<m>> \in Seq(Mesg) /\ Len(<<m>>) = 1
  BY SmallSequences
<1>18. MesgQInv'
  <2> DEFINE n == Len(to)
             content == <<m>>
  <2>1. /\ n \in Nat /\ n > 0 /\ n = Cardinality(T)
        /\ broadcastReceivers' = [broadcastReceivers EXCEPT ![q] = n]
    BY <1>1, <1>4
  <2>2. /\ content \in Seq(Mesg) /\ Len(content) = 1
        /\ ring' = [ring EXCEPT ![q] = content]
    BY <1>1, <1>17
  <2>3. maxBuf' = maxBuf
    BY <1>1
  <2>4. n # 0
    BY <2>1
  <2> HIDE DEF n, content
  <2> QED BY <1>9, <1>14, <1>15, <1>16, <2>1, <2>2, <2>3, <2>4, ReadersStep
<1>19. AbsStep
  <2>1. T \in SUBSET UserTask /\ T # {}
    BY <1>4, <1>6
  <2> QED BY <1>1, <1>5, <1>15, <2>1, AbsBroadcast
<1> QED BY <1>18, <1>19

\* A broadcast, and the ways it fails.
LEMMA BroadcastStep ==
  ASSUME MesgQInv, NEW q \in Queue, NEW m \in Mesg, kMesgQueueBroadcast(q, m)
  PROVE  MesgQInv' /\ AbsStep
<1> DEFINE to == Waiting(q, {"BROADCAST"})
<1>1. /\ Executing /\ Mailbox(q) /\ outgoing' = outgoing
      /\ todo = <<>> /\ status[run] = "RUNNING" /\ call[run].phase # "BROADCAST_DELIVER"
  BY Entered DEF kMesgQueueBroadcast, Enters
<1>2. \/ \E err : Fails("NONE", None, err)
      \/ to # <<>> /\ ~Full(q) /\ BroadcastTo(q, m, to)
  BY DEF kMesgQueueBroadcast
<1> HIDE DEF to
<1> QED BY <1>1, <1>2, FailsStep, BroadcastToStep DEF to

\* A receiver waits for a broadcast, or reads the one it was woken for.
LEMMA BroadcastRecvStep ==
  ASSUME MesgQInv, NEW q \in Queue, NEW timeout, run \in MayReceive,
         kMesgQueueBroadcastRecv(q, timeout)
  PROVE  MesgQInv' /\ AbsStep
<1> DEFINE o == Receivers[q]
<1>1. /\ Enters("MESG_QUEUE_BROADCAST_RECV", o) /\ Mailbox(q)
      /\ todo = <<>> /\ run \in UserTask /\ run \in Task /\ status[run] = "RUNNING"
      /\ call[run].phase = "BROADCAST_DELIVER" => call[run].arg = o
      /\ outgoing' = outgoing
  BY Entered, MesgQConstants DEF kMesgQueueBroadcastRecv
<1>2. CASE /\ call[run].phase # "BROADCAST_DELIVER"
           /\ Fails("MESG_QUEUE_BROADCAST_RECV", o, "BUFFER_EMPTY")
  BY <1>1, <1>2, FailsStep
<1>3. CASE /\ call[run].phase # "BROADCAST_DELIVER"
           /\ WaitOn(o, "RECEIVING", "MESG_QUEUE_BROADCAST_RECV", "BROADCAST", timeout)
  BY <1>1, <1>3, WaitsStep
<1>4. CASE /\ call[run].phase = "BROADCAST_DELIVER"
           /\ ring[q] # <<>> /\ broadcastReceivers[q] > 0
           /\ inbox' = [inbox EXCEPT ![run] = Head(ring[q])]
           /\ BroadcastRead(q)
           /\ Ends("MESG_QUEUE_BROADCAST_RECV", o, "SUCCESS")
           /\ UNCHANGED <<schedVars, mutexVars, postVars, maxBuf>>
  <2> DEFINE n == broadcastReceivers[q] - 1
             T == Readers(q) \ {run}
             content == IF broadcastReceivers[q] = 1 THEN <<>> ELSE ring[q]
  <2>1. /\ UNCHANGED <<run, status, prio, readyQ, pendSV, schLock, savedLock, waitingFor, jobs,
                       maxBuf, outgoing>>
        /\ call' = [call EXCEPT ![run] = NoCall]
    BY <1>1, <1>4 DEF Ends, schedVars, mutexVars, postVars
  <2>2. /\ ServiceInv /\ BaseInv /\ ContentInv /\ DeferredInv /\ WaitTypes
        /\ call \in [Task -> Suspension]
        /\ broadcastReceivers \in [Queue -> Nat] /\ ring \in [Queue -> Seq(Mesg)]
        /\ broadcastReceivers[q] = Cardinality(Readers(q)) /\ Len(ring[q]) = 1
    BY <1>4 DEF MesgQInv, BaseInv, ServiceInv, WaitTypes, ContentInv
  <2>3. run \in Readers(q) /\ call[run].arg = o
    BY <1>1, <1>4 DEF Readers
  <2>4. /\ n \in Nat /\ n = Cardinality(T) /\ IsFiniteSet(T)
        /\ broadcastReceivers[q] = 1 <=> Readers(q) = {run}
    <3>1. IsFiniteSet(Readers(q))
      BY FS_Subset, KernelConstants DEF Readers
    <3>2. IsFiniteSet(T) /\ Cardinality(T) = Cardinality(Readers(q)) - 1
      BY <2>3, <3>1, FS_RemoveElement
    <3>3. Cardinality(T) = 0 <=> T = {}
      BY <3>2, FS_EmptySet
    <3>4. T = {} <=> Readers(q) = {run}
      BY <2>3
    <3>5. broadcastReceivers[q] \in Nat
      BY <2>2
    <3> QED BY <1>4, <2>2, <3>2, <3>3, <3>4, <3>5
  <2>5. /\ broadcastReceivers' = [broadcastReceivers EXCEPT ![q] = n]
        /\ ring' = [ring EXCEPT ![q] = content] /\ content \in Seq(Mesg)
        /\ n > 0 => Len(content) = 1
        /\ n = 0 => content = <<>>
    <3>1. CASE broadcastReceivers[q] = 1
      <4>1. <<>> \in Seq(Mesg) /\ n = 0
        BY <3>1, SmallSequences
      <4> QED BY <1>4, <3>1, <4>1 DEF BroadcastRead
    <3>2. CASE broadcastReceivers[q] # 1
      <4>1. n # 0
        BY <2>2, <3>2
      <4>2. /\ broadcastReceivers' = [broadcastReceivers EXCEPT ![q] = n] /\ ring' = ring
        BY <1>4, <3>2 DEF BroadcastRead
      <4> QED BY <2>2, <3>2, <4>1, <4>2
    <3> QED BY <3>1, <3>2
  <2>6. \E S : Wakes(S, Senders[q])
    <3>1. CASE WakeSenderIfAny(q)
      BY <1>1, <2>2, <3>1, SenderWoken
    <3>2. CASE UNCHANGED <<waitVars, timeVars, todo>>
      <4>1. Wakes({}, Senders[q])
        BY <1>1, <2>2, <3>2, NothingLost, ReadyLists DEF Wakes, waitVars, timeVars
      <4> QED BY <4>1
    <3> QED BY <1>4, <3>1, <3>2 DEF BroadcastRead
  <2>7. PICK S : Wakes(S, Senders[q])
    BY <2>6
  <2>8. /\ NoCall \in Suspension /\ NoCall.phase = "NONE"
        /\ \A t \in Task : call'[t] = IF t = run THEN NoCall ELSE call[t]
        /\ call' = [t \in Task |-> call'[t]]
    <3>1. NoCall \in Suspension /\ NoCall.phase = "NONE"
      BY DEF NoCall, Suspension, CallNumber, CallPhase, Err
    <3> HIDE DEF NoCall
    <3> QED BY <2>1, <2>2, <3>1
  <2>9. \A t \in Task : call'[t] \in Suspension /\ ServedCall(t, S, S)
    BY <1>1, <2>2, <2>8 DEF ServedCall
  <2>10. Serves(S, S, S)
    BY <1>1, <2>1, <2>7, <2>8, <2>9, QueueObjects DEF Wakes, Serves, OnQueue, PendKept
  <2>11. BaseInv' /\ NobodyJoins
    BY <2>2, <2>10, ServeStep, ServesJoinNobody DEF BaseInv
  <2>12. \A r \in Queue : Readers(r)' = IF r = q THEN T ELSE Readers(r)
    <3>1. \A r \in Queue : r # q => run \notin Readers(r)
      BY <2>3, QueueObjects DEF Readers
    <3>2. \A r \in Queue : Readers(r)' = Readers(r) \ {run}
      BY <2>8 DEF Readers
    <3> QED BY <3>1, <3>2
  <2>13. LockInv' /\ outgoing' \in [UserTask -> Mesg \cup {None}] /\ DeferredInv'
    BY <2>1, <2>2, JobsStep DEF MesgQInv, LockInv, ContentInv
  <2>14. ring' = IF Readers(q) = {run} THEN [ring EXCEPT ![q] = <<>>] ELSE ring
    BY <1>4, <2>4 DEF BroadcastRead
  <2> HIDE DEF n, T, content
  <2>15. MesgQInv'
    BY <1>1, <2>1, <2>4, <2>5, <2>11, <2>12, <2>13, ReadersStep
  <2>16. AbsStep
    BY <1>1, <1>4, <2>1, <2>3, <2>12, <2>14, AbsRead DEF T
  <2> QED BY <2>15, <2>16
<1> QED BY <1>2, <1>3, <1>4 DEF kMesgQueueBroadcastRecv

\* Nothing happens.
LEMMA StutterStep ==
  ASSUME MesgQInv, UNCHANGED allVars
  PROVE  MesgQInv' /\ AbsStep
<1>1. /\ UNCHANGED mesgQVars
      /\ UNCHANGED <<run, status, prio, readyQ, pendSV, schLock, savedLock, waitQ, wqp, waitingFor,
                     tmo, ttype, call, todo, jobs, maxBuf, outgoing>>
  BY DEF allVars, kernelVars, postVars, schedVars, waitVars, mutexVars, timeVars, callVars, mesgQVars
<1>2. LockInv /\ DeferredInv /\ NoBoost /\ DispatchInv /\ ServiceInv
  BY DEF MesgQInv, ServiceInv
<1>3. ServiceInv' /\ ReadersKept /\ NobodyJoins
  BY <1>1, <1>2, ListsFrame
<1>4. NoBoost' /\ DispatchInv'
  BY <1>1, <1>2, DispatchFrame DEF NoBoost, PendKept
<1>5. LockInv' /\ DeferredInv'
  BY <1>1, <1>2, JobsStep DEF LockInv
<1> QED BY <1>1, <1>3, <1>4, <1>5, OtherStep DEF BaseInv

\* Every step keeps the invariant and refines one of MesgQAbs.
LEMMA MesgQStep ==
  ASSUME ~YieldWhenLocked, ~ResetMailbox, MesgQInv, [MesgQNext]_allVars
  PROVE  MesgQInv' /\ AbsStep
<1>1. CASE KernelPart
  BY <1>1, KernelPartStep
<1>2. CASE PostProcStep
  <2>1. CASE /\ PostProcResume \/ PostProcScanned \/ PostProcWait
             /\ UNCHANGED mesgQVars
    BY <2>1, LoopStep
  <2>2. ASSUME NEW job \in ToSet(jobs), PostProcBroadcastWake(job)
        PROVE  MesgQInv' /\ AbsStep
    BY <2>2, BroadcastWakeStep
  <2>3. ASSUME NEW job \in ToSet(jobs), PostProcReset(job)
        PROVE  MesgQInv' /\ AbsStep
    BY <2>3, ResetSteps
  <2> QED BY <1>2, <2>1, <2>2, <2>3 DEF PostProcStep
<1>3. CASE MesgQCall
  <2>1. PICK q \in Queue :
          \/ \E m \in Mesg, timeout \in MesgTimeout :
               run \in MaySend /\ \E number \in SendNumber :
                 kMesgQueueSend(q, m, timeout, number) \/ SendAgain(q, timeout, number)
          \/ run \in MayReceive /\ \E timeout \in MesgTimeout :
               kMesgQueueRecv(q, timeout) \/ kMesgQueueBroadcastRecv(q, timeout)
          \/ \E m \in Mesg :
               \/ run \in MaySend /\ (kMesgQueuePostOvw(q, m) \/ kMesgQueueBroadcast(q, m))
               \/ IsrSend(q, m)
          \/ kMesgQueueReset(q) \/ IsrReset(q)
    BY <1>3 DEF MesgQCall, SendNumber
  <2>2. CASE \E m \in Mesg, timeout \in MesgTimeout :
               run \in MaySend /\ \E number \in SendNumber :
                 kMesgQueueSend(q, m, timeout, number) \/ SendAgain(q, timeout, number)
    BY <2>2, SendSteps
  <2>3. CASE run \in MayReceive /\ \E timeout \in MesgTimeout :
               kMesgQueueRecv(q, timeout) \/ kMesgQueueBroadcastRecv(q, timeout)
    BY <2>3, RecvStep, BroadcastRecvStep
  <2>4. CASE \E m \in Mesg :
               \/ run \in MaySend /\ (kMesgQueuePostOvw(q, m) \/ kMesgQueueBroadcast(q, m))
               \/ IsrSend(q, m)
    BY <2>4, PostOvwStep, BroadcastStep, SendSteps
  <2>5. CASE kMesgQueueReset(q) \/ IsrReset(q)
    BY <2>5, ResetSteps
  <2> QED BY <2>1, <2>2, <2>3, <2>4, <2>5
<1>4. CASE UNCHANGED allVars
  BY <1>4, StutterStep
<1> QED BY <1>1, <1>2, <1>3, <1>4 DEF MesgQNext

(***************************************************************************)
(* The initial state.                                                      *)
(***************************************************************************)
LEMMA InitMesgQInv ==
  ASSUME MesgQInit
  PROVE  MesgQInv
<1>1. /\ Init /\ run = FirstRun /\ prio = NominalPrio /\ ~pendSV
      /\ status = [t \in Task |-> CASE t = FirstRun -> "RUNNING"
                                    [] t = PostProc -> "SLEEPING_EV_FLAG"
                                    [] OTHER -> "READY"]
      /\ readyQ = [p \in Prio |-> InitReady(p)]
      /\ schLock = 0 /\ savedLock = [t \in Task |-> 0]
      /\ waitQ = [o \in WaitObj |-> <<>>] /\ wqp = [t \in Task |-> None]
      /\ waitingFor = [t \in Task |-> None] /\ tmo = <<>> /\ ttype = [t \in Task |-> "NONE"]
      /\ call = [t \in Task |-> NoCall] /\ todo = <<>> /\ jobs = <<>>
      /\ maxBuf \in [Queue -> Capacity] /\ ring = [q \in Queue |-> <<>>]
      /\ broadcastReceivers = [q \in Queue |-> 0] /\ outgoing = [t \in UserTask |-> None]
  BY DEF MesgQInit, Init, KernelInit, PostProcInit
<1>2. FirstRun \in Task \ {IdleTask, PostProc}
  BY FirstRunType DEF UserTask
<1>3. \A t \in Task : NominalPrio[t] \in Prio
  BY NominalPrioType
<1>4. DispatchInv
  BY <1>1, InitDispatch
<1>5. /\ <<>> \in Seq(Task) /\ ToSet(<<>>) = {} /\ NoDuplicates(<<>>)
      /\ <<>> \in Seq(Mesg)
  BY SmallSequences DEF NoDuplicates
<1>6. /\ NoCall \in Suspension /\ NoCall.phase = "NONE" /\ NoCall.number = "NONE"
      /\ NoCall.arg = None
  BY DEF NoCall, Suspension, CallNumber, CallPhase, Err
<1>7. \A t \in Task : call[t] = NoCall
  BY <1>1
<1> HIDE DEF NoCall
<1>8. NoBoost /\ LockInv
  BY <1>1 DEF NoBoost, LockInv
<1>9. WaitTypes /\ WaiterInv /\ NodeInv
  BY <1>1, <1>5, <1>6 DEF WaitTypes, WaiterInv, NodeInv, TimeoutType
<1>10. CallInv
  BY <1>6, <1>7 DEF CallInv, SendNumber
<1>11. RegionInv
  <2>1. todo \in Seq(RegionCall)
    <3> HIDE DEF RegionCall
    <3> QED BY <1>1, SmallSequences
  <2> QED BY <1>1, <1>5, <2>1 DEF RegionInv, OnceEach
<1>12. DeferredInv
  <2>1. jobs \in Seq(Job)
    <3> HIDE DEF Job
    <3> QED BY <1>1, SmallSequences
  <2> QED BY <1>1, <1>5, <2>1 DEF DeferredInv
<1>13. ContentInv /\ ServedInv
  <2>1. \A q \in Queue : Readers(q) = {}
    BY <1>6, <1>7 DEF Readers
  <2>2. Cardinality({}) = 0
    BY FS_EmptySet
  <2>3. maxBuf \in [Queue -> Nat \ {0}]
    BY <1>1, MesgQConstants
  <2>4. /\ ring \in [Queue -> Seq(Mesg)] /\ broadcastReceivers \in [Queue -> Nat]
        /\ outgoing \in [UserTask -> Mesg \cup {None}]
    BY <1>1, <1>5
  <2>5. \A q \in Queue : ring[q] = <<>> /\ broadcastReceivers[q] = 0
    BY <1>1
  <2>6. ASSUME NEW q \in Queue
        PROVE  /\ broadcastReceivers[q] = Cardinality(Readers(q))
               /\ broadcastReceivers[q] > 0 => Len(ring[q]) = 1 /\ Mailbox(q)
    <3>1. broadcastReceivers[q] = 0 /\ Readers(q) = {}
      BY <2>1, <2>5
    <3>2. broadcastReceivers[q] = Cardinality(Readers(q))
      BY <2>2, <3>1
    <3>3. ~(broadcastReceivers[q] > 0)
      BY <3>1
    <3> QED BY <3>2, <3>3
  <2>7. ContentInv
    BY <2>3, <2>4, <2>6 DEF ContentInv
  <2>8. ServedInv
    BY <2>5 DEF ServedInv
  <2> QED BY <2>7, <2>8
<1> QED BY <1>4, <1>8, <1>9, <1>10, <1>11, <1>12, <1>13 DEF MesgQInv

\* The initial state is one of MesgQAbs.
LEMMA InitMesgQAbs ==
  ASSUME MesgQInit
  PROVE  QueueAbs!Init
<1>1. /\ maxBuf \in [Queue -> Capacity] /\ ring = [q \in Queue |-> <<>>]
      /\ call = [t \in Task |-> NoCall]
      /\ \E m \in Mesg : inbox = [t \in UserTask |-> m]
  BY DEF MesgQInit, Init, KernelInit
<1>2. maxBuf \in [Queue -> Nat \ {0}]
  BY <1>1, MesgQConstants
<1>3. \A q \in Queue :
        {t \in Task : call[t].arg = Receivers[q] /\ call[t].phase = "BROADCAST_DELIVER"} = {}
  BY <1>1 DEF NoCall
<1> QED BY <1>1, <1>2, <1>3 DEF QueueAbs!Init

(***************************************************************************)
(* The theorems.                                                           *)
(***************************************************************************)
\* The invariant holds for every set of tasks, queues, capacities, messages and
\* timeouts, where nobody yields under the scheduler lock or resets a mailbox.
THEOREM MesgQInvariance ==
  ASSUME ~YieldWhenLocked, ~ResetMailbox
  PROVE  MesgQSpec => []MesgQInv
<1>1. MesgQInit => MesgQInv
  BY InitMesgQInv
<1>2. MesgQInv /\ [MesgQNext]_allVars => MesgQInv'
  BY MesgQStep
<1> QED BY <1>1, <1>2, PTL DEF MesgQSpec

\* A broadcast reserves the slot of its mailbox for exactly those who are still
\* to read it, however they are woken and whatever times out meanwhile.
THEOREM BroadcastsAccounted ==
  ASSUME ~YieldWhenLocked, ~ResetMailbox
  PROVE  MesgQSpec => []BroadcastAccounted
<1>1. MesgQInv => BroadcastAccounted
  BY DEF MesgQInv, ContentInv, BroadcastAccounted, Readers
<1> QED BY <1>1, MesgQInvariance, PTL

\* Nobody waits to receive beside a message that no broadcast holds.
THEOREM NobodyBesideMessage ==
  ASSUME ~YieldWhenLocked, ~ResetMailbox
  PROVE  MesgQSpec => []NoReceiverBesideMessage
<1>1. MesgQInv => NoReceiverBesideMessage
  <2> SUFFICES ASSUME MesgQInv, NEW q \in Queue, ring[q] # <<>>, broadcastReceivers[q] = 0
               PROVE  Waiting(q, {"WAIT"}) = <<>>
    BY DEF NoReceiverBesideMessage
  <2>1. /\ Waiting(q, {"WAIT"}) \in Seq(Task)
        /\ ToSet(Waiting(q, {"WAIT"})) =
             {t \in ToSet(waitQ[Receivers[q]]) : call[t].phase \in {"WAIT"}}
    BY WaitingTasks DEF MesgQInv
  <2>2. ToSet(Waiting(q, {"WAIT"})) = {}
    BY <2>1 DEF MesgQInv, ServedInv
  <2> QED BY <2>1, <2>2, EmptySet
<1> QED BY <1>1, MesgQInvariance, PTL

\* Every step of the service is one of MesgQAbs, or changes nothing of what it
\* promises: messages are neither lost, doubled nor overtaken on their way.
THEOREM MesgQImplementation ==
  ASSUME ~YieldWhenLocked, ~ResetMailbox
  PROVE  MesgQSpec => ImplementsMesgQAbs
<1>1. MesgQInit => QueueAbs!Init
  BY InitMesgQAbs
<1>2. MesgQInv /\ [MesgQNext]_allVars => [QueueAbs!Next /\ UNCHANGED maxBuf]_(QueueAbs!vars)
  BY MesgQStep DEF AbsStep
<1> QED BY <1>1, <1>2, MesgQInvariance, PTL DEF MesgQSpec, ImplementsMesgQAbs, QueueAbs!Spec
=============================================================================
