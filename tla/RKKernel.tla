------------------------------ MODULE RKKernel ------------------------------
(***************************************************************************)
(* The kernel every service of RK01 is built on: the ready queues and the  *)
(* scheduler lock (ksch.c), effective priorities and priority inheritance  *)
(* (ksch.c), the waits of tasks on objects with their timeouts (ktimer.c), *)
(* the interruption of a wait by a signal (ksch.c), and the completion or  *)
(* restart of the system call a task is suspended in (ksyscall.c).         *)
(*                                                                         *)
(* A system call or an interrupt runs with interrupts masked (RK_CR_ENTER  *)
(* to RK_CR_EXIT).  Its own stores are one action; what it then calls that *)
(* is a loop over tasks, or that decides by the priorities such a loop     *)
(* leaves behind, is queued in `todo` in program order and carried out     *)
(* one call at a time.  No other action is enabled until `todo` is empty,  *)
(* so the critical region is indivisible for every task and interrupt.     *)
(***************************************************************************)
EXTENDS RKQueues

CONSTANTS
  Task,          \* the task control blocks, system tasks included
  IdleTask,      \* lowest priority, always READY or RUNNING
  PostProc,      \* the PostProc system task (None where it plays no part)
  Mutex,         \* mutexes
  OtherObj,      \* other objects that keep a queue of waiting tasks
  Inherit,       \* the mutexes with protocol RK_PRIO_INHERITANCE
  NominalPrio,   \* prioNominal of each task
  PeerQueue,     \* the queues of synchronous senders and callers of a task
  NoPreempt,     \* the tasks created with RK_NO_PREEMPT
  MaxTimeout,    \* bound: the longest finite timeout asked for, in ticks
  MaxSchLock,    \* bound: how deep a task nests the scheduler lock
  Forever,       \* RK_WAIT_FOREVER
  None           \* NULL

WaitObj  == Mutex \cup OtherObj
UserTask == Task \ {IdleTask, PostProc}
NoWait   == 0                                   \* RK_NO_WAIT
Timeout  == {NoWait} \cup (1 .. MaxTimeout) \cup {Forever}

ASSUME KernelConstants ==
  /\ IsFiniteSet(Task) /\ IdleTask \in Task /\ PostProc # IdleTask
  /\ UserTask # {}
  /\ NominalPrio \in [Task -> Nat]
  /\ \A t \in Task \ {IdleTask} : NominalPrio[t] < NominalPrio[IdleTask]
  /\ Inherit \subseteq Mutex
  /\ NoPreempt \subseteq Task \ {IdleTask}
  /\ Mutex \cap OtherObj = {}
  /\ PeerQueue \in [Task -> SUBSET OtherObj] /\ PeerQueue[IdleTask] = {}
  /\ None \notin Task \cup Mutex \cup OtherObj
  /\ MaxTimeout \in Nat /\ MaxSchLock \in Nat
  /\ Forever \notin Nat

Prio == 0 .. NominalPrio[IdleTask]

VARIABLES
  run,         \* RK_gRunPtr
  status,      \* tcb.status
  prio,        \* tcb.priority, the effective priority
  readyQ,      \* RK_gReadyQueue
  schLock,     \* RK_gSchLock
  savedLock,   \* tcb.schLock
  pendingSw,   \* RK_gPendingCtxtSwtch: a switch deferred by the scheduler lock
  pendSV,      \* the PendSV exception is pending
  waitQ,       \* the wait queue of each object
  wqp,         \* tcb.timeoutNode.waitingQueuePtr
  lock,        \* mutex.lock
  owner,       \* mutex.ownerPtr
  faulted,     \* mutex.ownerFaulted
  owned,       \* tcb.ownedMutexList
  waitingFor,  \* tcb.waitingForMutexPtr
  mesgPrio,    \* what message protocols ask of the priority of a task: the
               \* base an accepted call sets, the ceiling of messages it owns
  tmo,         \* the armed timeout nodes, next to expire first
  left,        \* ticks until a node expires, 0 when it is not armed
  ttype,       \* tcb.timeoutNode.timeoutType
  call,        \* the suspended system call: number, argument, phase, result
  ret,         \* what the last system call of the task left in its frame
  todo         \* the calls the critical region still has to make

schedVars == <<run, status, prio, readyQ, schLock, savedLock, pendingSw, pendSV>>
waitVars  == <<waitQ, wqp>>
mutexVars == <<lock, owner, faulted, owned, waitingFor, mesgPrio>>
timeVars  == <<tmo, left, ttype>>
callVars  == <<call, ret>>
kernelVars == <<schedVars, waitVars, mutexVars, timeVars, callVars, todo>>

Status == {"READY", "RUNNING", "BLOCKED", "SLEEPING", "SLEEPING_DELAY",
           "SLEEPING_EV_FLAG", "SLEEPQ_BLOCKED", "SENDING", "RECEIVING",
           "SELF_SUSPENDED", "PENDING", "FAULT_PENDING", "TERMINATED"}
\* The calls that end with the result their waker left, the ones that run
\* again when woken, and the others.
WakeResultCall == {"MUTEX_LOCK", "SYNCH_SEND_WAIT", "SYNCH_RECV",
                   "SYNCH_MESG_CALL", "MESG_WAIT", "MESG_RECV_COPY"}
RunsAgainCall == {"EVENT_GET", "MESG_QUEUE_SEND", "MESG_QUEUE_JAM",
                  "MESG_QUEUE_BROADCAST_RECV", "SYNCH_MESG_ACCEPT"}
CallNumber == WakeResultCall \cup RunsAgainCall \cup
              {"NONE", "SEMAPHORE_PEND", "SLEEP_QUEUE_SLEEP", "CONDVAR_WAIT",
               "SLEEP_DELAY", "TASK_SELF_SUSPEND", "MESG_QUEUE_RECV",
               "MESG_ALLOC"}
\* Those that never suspend the task but leave a result all the same.
ResultNumber == CallNumber \cup
                {"MUTEX_UNLOCK", "SEMAPHORE_POST", "SYNCH_MESG_REPLY",
                 "MESG_SEND", "MESG_FREE", "MESG_SEND_COPY", "TASK_SPAWN",
                 "TASK_TERMINATE"}
\* How far a suspended call is; for a receiver on a message queue, how the
\* message is to reach it (timeoutNode.waitInfo).
CallPhase == {"NONE", "WAIT", "RELOCK", "DELIVERED", "BROADCAST",
              "BROADCAST_DELIVER"}
TimeoutType == {"NONE", "BLOCKING", "TIME_EVENT", "EVENTFLAGS", "SYNCH_SEND",
                "SYNCH_RECV", "SYNCH_CALL"}
Err == {"SUCCESS", "TIMEOUT", "SIGNAL_INTERRUPTED", "OWNER_FAULTED",
        "NOWAIT", "RESTART", "SEMA_BLOCKED", "SEMA_FULL", "FLAGS_NOT_MET",
        "EMPTY_WAITING_QUEUE", "BUFFER_FULL", "BUFFER_EMPTY", "CALL_BUSY",
        "CALL_NOT_ACTIVE", "INVALID_ST", "OBJ_NOT_INIT", "INVALID_OBJ",
        "TASK_POOL_EMPTY"}
NoCall == [number |-> "NONE", arg |-> None, phase |-> "NONE",
           wake |-> "SUCCESS"]
NoRet  == [number |-> "NONE", arg |-> None, err |-> "SUCCESS"]

(***************************************************************************)
(* Context switch requests.                                                *)
(***************************************************************************)
kPendCtxSwtchNow_ == pendSV' = TRUE /\ pendingSw' = FALSE
kDeferCtxSwtch_   == pendingSw' = TRUE /\ UNCHANGED pendSV
NoCtxSwtch        == UNCHANGED <<pendSV, pendingSw>>

\* kPendCtxSwtch, given the status the running task has by then.
kPendCtxSwtch(st) ==
  IF schLock > 0 /\ st \in {"READY", "RUNNING"}
    THEN kDeferCtxSwtch_
    ELSE kPendCtxSwtchNow_

\* The most urgent non-empty ready queue (kCalcNextTaskPrio_, by the bitmap).
kCalcNextTaskPrio_(rq) ==
  LET nonEmpty == {p \in Prio : rq[p] # <<>>}
  IN  IF nonEmpty = {} THEN NominalPrio[IdleTask]
      ELSE CHOOSE p \in nonEmpty : \A q \in nonEmpty : p <= q

\* Mutant: a switch that the scheduler lock holds back is not recorded.
ReschedForgetsDeferral(p, pr) ==
  IF pr[run] > p /\ run \notin NoPreempt /\ schLock = 0
    THEN kPendCtxSwtchNow_ ELSE NoCtxSwtch

\* kReschedTask: a task of priority p has become READY; pr are the priorities.
kReschedTask(p, pr) ==
  IF pr[run] > p /\ run \notin NoPreempt
    THEN IF schLock = 0 THEN kPendCtxSwtchNow_ ELSE kDeferCtxSwtch_
    ELSE NoCtxSwtch

\* kReschedRunning: the priority of the RUNNING task has become p.
kReschedRunning(p) ==
  IF run \notin NoPreempt /\ kCalcNextTaskPrio_(readyQ) < p
    THEN kPendCtxSwtch("RUNNING")
    ELSE NoCtxSwtch

\* Mutant: a boosted task is made ready at its nominal priority.
ReadyEnqAtNominal(rq, t) == [rq EXCEPT ![NominalPrio[t]] = kTCBQEnq(@, t)]

\* Mutant: PostProc queues behind the tasks that are as urgent.
ReadyEnqAtTail(rq, t) == [rq EXCEPT ![prio[t]] = kTCBQEnq(@, t)]

\* The ready queues after t is made ready: PostProc goes to the head.
ReadyEnq(rq, t) ==
  [rq EXCEPT ![prio[t]] = IF t = PostProc THEN kTCBQJam(@, t) ELSE kTCBQEnq(@, t)]

(***************************************************************************)
(* System call continuation (ksyscall.c).                                  *)
(***************************************************************************)
\* kSyscallTaskComplete_: the final result goes to the saved frame.
kSyscallTaskComplete_(t, err) ==
  /\ ret' = [ret EXCEPT ![t] = [number |-> call[t].number,
                                arg |-> call[t].arg, err |-> err]]
  /\ call' = [call EXCEPT ![t] = NoCall]

\* kSyscallTaskRestart_, with what the caller stored in the continuation.
RestartWith(t, phase, wake) ==
  /\ ret' = [ret EXCEPT ![t] = [number |-> call[t].number,
                                arg |-> call[t].arg, err |-> "RESTART"]]
  /\ call' = [call EXCEPT ![t].phase = phase, ![t].wake = wake]

\* kSyscallTaskWake: the wait of t was satisfied.
kSyscallTaskWake(t) ==
  CASE call[t].number = "NONE" -> UNCHANGED callVars
    [] call[t].number \in WakeResultCall ->
         kSyscallTaskComplete_(t, call[t].wake)
    [] call[t].number = "CONDVAR_WAIT" ->
         IF call[t].phase = "RELOCK"
           THEN kSyscallTaskComplete_(t, call[t].wake)
           ELSE RestartWith(t, "RELOCK", "SUCCESS")
    [] \/ call[t].number \in RunsAgainCall
       \/ call[t].number = "MESG_QUEUE_RECV" /\ call[t].phase # "DELIVERED" ->
         RestartWith(t, call[t].phase, call[t].wake)
    [] OTHER -> kSyscallTaskComplete_(t, "SUCCESS")

\* kSyscallTaskTimeout: the wait of t expired.
kSyscallTaskTimeout(t) ==
  CASE call[t].number = "NONE" -> UNCHANGED <<callVars, waitingFor>>
    [] call[t].number = "SLEEP_DELAY" ->
         /\ kSyscallTaskComplete_(t, "SUCCESS")
         /\ UNCHANGED waitingFor
    [] call[t].number = "CONDVAR_WAIT" ->
         /\ RestartWith(t, "RELOCK", "TIMEOUT")
         /\ UNCHANGED waitingFor
    [] call[t].number = "MUTEX_LOCK" ->
         /\ kSyscallTaskComplete_(t, "TIMEOUT")
         /\ waitingFor' = [waitingFor EXCEPT ![t] = None]
    [] OTHER ->
         /\ kSyscallTaskComplete_(t, "TIMEOUT")
         /\ UNCHANGED waitingFor

\* Mutant: the interrupted call returns the result prepared for its wake-up.
SignalReportsWake(t) ==
  IF call[t].number = "NONE"
    THEN UNCHANGED <<callVars, waitingFor>>
    ELSE /\ kSyscallTaskComplete_(t, call[t].wake)
         /\ waitingFor' = [waitingFor EXCEPT ![t] = None]

\* kSyscallTaskSignal: the wait of t was interrupted by a signal.
kSyscallTaskSignal(t) ==
  IF call[t].number = "NONE"
    THEN UNCHANGED <<callVars, waitingFor>>
    ELSE /\ kSyscallTaskComplete_(t, "SIGNAL_INTERRUPTED")
         /\ waitingFor' = IF call[t].number = "MUTEX_LOCK"
                            THEN [waitingFor EXCEPT ![t] = None]
                            ELSE waitingFor

(***************************************************************************)
(* Timeout nodes (ktimer.c), seen as the list of armed tasks in the order  *)
(* of their expiry, as TimeoutAbs has it; RKTimeout is the delta list.      *)
(***************************************************************************)
\* Mutant: a node that expires with others goes after them.
InsertAfterEqual(t, ticks) ==
  InsertAt(tmo, Cardinality({i \in DOMAIN tmo : left[tmo[i]] <= ticks}) + 1, t)

\* kTimeoutNodeAdd: before the first node that does not expire earlier.
TimeoutInsert(t, ticks) ==
  LET notEarlier == {i \in DOMAIN tmo : left[tmo[i]] >= ticks}
      pos == IF notEarlier = {} THEN Len(tmo) + 1
             ELSE CHOOSE i \in notEarlier : \A j \in notEarlier : i <= j
  IN  InsertAt(tmo, pos, t)

\* The node of the running task is armed for `ticks`, or left alone when the
\* wait is forever.
ArmTimeout(t, type, ticks) ==
  IF ticks = Forever
    THEN UNCHANGED timeVars
    ELSE /\ tmo'   = TimeoutInsert(t, ticks)
         /\ left'  = [left EXCEPT ![t] = ticks]
         /\ ttype' = [ttype EXCEPT ![t] = type]

\* Mutant: the node is reset but stays on the timeout list.
ResetButLinked(t) ==
  /\ left'  = [left EXCEPT ![t] = 0]
  /\ ttype' = [ttype EXCEPT ![t] = "NONE"]
  /\ UNCHANGED tmo

\* kTimeoutNodeDisarm and kTimeoutNodeReset on the node of t.
DisarmTimeout(t) ==
  /\ tmo'   = kTCBQRem(tmo, t)
  /\ left'  = [left EXCEPT ![t] = 0]
  /\ ttype' = [ttype EXCEPT ![t] = "NONE"]

(***************************************************************************)
(* Effective priority and priority inheritance (ksch.c).                   *)
(***************************************************************************)
\* The mutexes through which a waiter lends its priority to t.
LendingMutexes(t) == {m \in owned[t] \cap Inherit : waitQ[m] # <<>>}

\* Mutants: the last waiter lends its priority, not the first; nobody does.
LastWaiterLends(t) ==
  LET candidates == {NominalPrio[t]}
                      \cup {prio[Last(waitQ[m])] : m \in LendingMutexes(t)}
  IN  CHOOSE p \in candidates : \A q \in candidates : p <= q
NobodyLends(t) == NominalPrio[t]

\* The queues of synchronous senders and callers, whose heads lend too.
LendingPeers(t) == {o \in PeerQueue[t] : waitQ[o] # <<>>}

\* kTaskCalcEffectivePrio_: the accepted call sets the base; mutexes, queued
\* peers and the ceilings of owned messages only make it more urgent.
kTaskCalcEffectivePrio_(t) ==
  LET candidates == {mesgPrio[t].base, mesgPrio[t].ceiling}
        \cup {prio[Head(waitQ[o])] : o \in LendingMutexes(t) \cup LendingPeers(t)}
  IN  CHOOSE p \in candidates : \A q \in candidates : p <= q

\* Mutant: a waiter keeps its place when its priority changes.
WaiterKeepsPlace(t, pr) == waitQ

\* The wait of t is over and t is linked in a ready queue, yet its timeout node
\* still names a wait queue.  (Mutexes reset the node of every waiter they
\* release, so it is the queue of another object.)
StaleWait(t) ==
  status[t] = "READY" /\ wqp[t] \in OtherObj /\ Len(waitQ[wqp[t]]) > 1

\* kTaskRequeueWaiterByPrio_: t, whose priorities are now pr, moves in the
\* wait queue its timeout node names.  It does not ask on which list t is
\* linked: a task whose wait is over moves there from its ready queue.  (The
\* counts of both queues, wrong from then on, are not modelled.)
kTaskRequeueWaiterByPrio_(t, pr) ==
  IF \/ wqp[t] = None \/ Len(waitQ[wqp[t]]) <= 1
     \/ t \notin ToSet(waitQ[wqp[t]]) /\ ~StaleWait(t)
    THEN waitQ
    ELSE [waitQ EXCEPT ![wqp[t]] = kTCBQEnqByPrio(kTCBQRem(@, t), t, pr)]

UpdatePrioOf(t) == [op |-> "updatePrio", task |-> t]

\* Mutant: the owner keeps the boost of a waiter that gave up.
BoostKept(t) == <<>>

\* kMutexUpdateOwnerPrio_ as called through kMutexWaiterRemoved for waiter t.
WaiterRemoved(t) ==
  IF /\ waitingFor[t] # None
     /\ waitingFor[t] \in Inherit
     /\ owner[waitingFor[t]] # None
  THEN <<UpdatePrioOf(owner[waitingFor[t]])>>
  ELSE <<>>

\* One round of the loop of kTaskUpdateEffectivePrioChain, at t.
UpdatePrio ==
  /\ todo # <<>> /\ Head(todo).op = "updatePrio"
  /\ LET t    == Head(todo).task
         new  == kTaskCalcEffectivePrio_(t)
         pr   == [prio EXCEPT ![t] = new]
         next == waitingFor[t]
         more == /\ status[t] = "BLOCKED"
                 /\ next # None
                 /\ next \in Inherit
                 /\ owner[next] # None
     IN  IF new = prio[t]
         THEN /\ todo' = Tail(todo)
              /\ UNCHANGED <<schedVars, waitQ>>
         ELSE /\ prio' = pr
              /\ waitQ' = kTaskRequeueWaiterByPrio_(t, pr)
              /\ IF status[t] = "READY"
                 THEN /\ readyQ' = [readyQ EXCEPT
                                      ![prio[t]] = kTCBQRem(@, t),
                                      ![new] = IF StaleWait(t) THEN @
                                               ELSE kTCBQEnq(@, t)]
                      /\ kReschedTask(new, pr)
                 ELSE /\ UNCHANGED readyQ
                      /\ IF status[t] = "RUNNING"
                         THEN kReschedRunning(new)
                         ELSE NoCtxSwtch
              /\ todo' = (IF more THEN <<UpdatePrioOf(owner[next])>> ELSE <<>>)
                           \o Tail(todo)
              /\ UNCHANGED <<run, status, schLock, savedLock>>
  /\ UNCHANGED <<wqp, mutexVars, timeVars, callVars>>

(***************************************************************************)
(* Making a task ready.                                                    *)
(***************************************************************************)
\* kReadySwtch.
ReadySwtch ==
  /\ todo # <<>> /\ Head(todo).op = "ready"
  /\ LET t == Head(todo).task
     IN  /\ readyQ' = ReadyEnq(readyQ, t)
         /\ kSyscallTaskWake(t)
         /\ status' = [status EXCEPT ![t] = "READY"]
         /\ kReschedTask(prio[t], prio)
  /\ todo' = Tail(todo)
  /\ UNCHANGED <<run, prio, schLock, savedLock, waitVars, mutexVars, timeVars>>

ReadySwtchOf(t) == [op |-> "ready", task |-> t]

\* The head of the queue of o is woken, as every service but the mutex does
\* it.  Only of a timed wait is the timeout node reset; of one for ever
\* waitingQueuePtr keeps what it held.
WakeHead(o) ==
  LET w == Head(waitQ[o])
  IN  /\ waitQ' = [waitQ EXCEPT ![o] = Tail(@)]
      /\ IF ttype[w] = "BLOCKING"
         THEN DisarmTimeout(w) /\ wqp' = [wqp EXCEPT ![w] = None]
         ELSE UNCHANGED <<timeVars, wqp>>
      /\ todo' = <<ReadySwtchOf(w)>>

(***************************************************************************)
(* SysTick: kTickHandlerRun_ and kHandleTimeoutList.                       *)
(***************************************************************************)
HandleTimeoutsOf(b) == [op |-> "handleTimeouts", expired |-> b]

\* Mutant: no tick is counted while the idle task runs.
NoTickWhenIdle ==
  /\ todo = <<>> /\ tmo # <<>> /\ run # IdleTask
  /\ left' = [t \in Task |-> IF t \in ToSet(tmo) THEN left[t] - 1 ELSE left[t]]
  /\ todo' = <<HandleTimeoutsOf(FALSE)>>
  /\ UNCHANGED <<schedVars, waitVars, mutexVars, tmo, ttype, callVars>>

\* The tick interrupt; with no node armed it changes nothing.
Tick ==
  /\ todo = <<>> /\ tmo # <<>>
  /\ left' = [t \in Task |-> IF t \in ToSet(tmo) THEN left[t] - 1 ELSE left[t]]
  /\ todo' = <<HandleTimeoutsOf(FALSE)>>
  /\ UNCHANGED <<schedVars, waitVars, mutexVars, tmo, ttype, callVars>>

\* One node has expired: it leaves the list, and kTimeoutNodeReady unlinks a
\* BLOCKING waiter from the queue of its object.
TimeoutExpire ==
  /\ todo # <<>> /\ Head(todo).op = "handleTimeouts"
  /\ tmo # <<>> /\ left[Head(tmo)] = 0
  /\ LET t == Head(tmo)
         blocking == ttype[t] = "BLOCKING"
     IN  /\ tmo' = Tail(tmo)
         /\ waitQ' = IF blocking THEN [waitQ EXCEPT ![wqp[t]] = kTCBQRem(@, t)]
                                 ELSE waitQ
         /\ todo' = (IF blocking THEN WaiterRemoved(t) ELSE <<>>)
                      \o <<[op |-> "timeoutReady", task |-> t],
                           HandleTimeoutsOf(TRUE)>>
  /\ UNCHANGED <<schedVars, wqp, mutexVars, left, ttype, callVars>>

\* The rest of kTimeoutNodeReady.
TimeoutReady ==
  /\ todo # <<>> /\ Head(todo).op = "timeoutReady"
  /\ LET t == Head(todo).task
     IN  /\ readyQ' = [readyQ EXCEPT ![prio[t]] = kTCBQEnq(@, t)]
         /\ kSyscallTaskTimeout(t)
         /\ status' = [status EXCEPT ![t] = "READY"]
         /\ ttype' = [ttype EXCEPT ![t] = "NONE"]
         /\ wqp' = [wqp EXCEPT ![t] = None]
  /\ todo' = Tail(todo)
  /\ UNCHANGED <<run, prio, schLock, savedLock, pendingSw, pendSV, waitQ,
                 lock, owner, faulted, owned, mesgPrio, tmo, left>>

\* No node is left to expire: the end of kTickHandlerRun_.
TickEnd ==
  /\ todo # <<>> /\ Head(todo).op = "handleTimeouts"
  /\ tmo # <<>> => left[Head(tmo)] # 0
  /\ IF \/ status[run] # "READY" /\ ~Head(todo).expired
        \/ status[run] = "RUNNING" /\ run \in NoPreempt
       THEN NoCtxSwtch
       ELSE IF status[run] \in {"RUNNING", "READY"} /\ schLock > 0
              THEN kDeferCtxSwtch_ ELSE kPendCtxSwtchNow_
  /\ todo' = Tail(todo)
  /\ UNCHANGED <<run, status, prio, readyQ, schLock, savedLock, waitVars,
                 mutexVars, timeVars, callVars>>

(***************************************************************************)
(* The calls a running task makes on the scheduler itself.                 *)
(***************************************************************************)
\* A user task is executing and is not in the middle of a system call.
Executing == /\ todo = <<>> /\ ~pendSV /\ run \in UserTask
             /\ call[run] = NoCall

Returns(number, arg, err) ==
  ret' = [ret EXCEPT ![run] = [number |-> number, arg |-> arg, err |-> err]]

kSchLock ==
  /\ Executing /\ run \notin NoPreempt /\ schLock < MaxSchLock
  /\ schLock' = schLock + 1
  /\ savedLock' = [savedLock EXCEPT ![run] = schLock + 1]
  /\ Returns("NONE", None, "SUCCESS")
  /\ UNCHANGED <<run, status, prio, readyQ, pendingSw, pendSV, waitVars,
                 mutexVars, timeVars, call, todo>>

kSchUnlock ==
  /\ Executing /\ schLock > 0
  /\ schLock' = schLock - 1
  /\ savedLock' = [savedLock EXCEPT ![run] = schLock - 1]
  /\ IF schLock = 1 /\ pendingSw THEN kPendCtxSwtchNow_ ELSE NoCtxSwtch
  /\ Returns("NONE", None, "SUCCESS")
  /\ UNCHANGED <<run, status, prio, readyQ, waitVars, mutexVars, timeVars,
                 call, todo>>

\* kYield / kYieldRunningTask_.
kYield ==
  /\ Executing
  /\ kCalcNextTaskPrio_(readyQ) <= prio[run]
  /\ readyQ' = [readyQ EXCEPT ![prio[run]] = kTCBQEnq(@, run)]
  /\ status' = [status EXCEPT ![run] = "READY"]
  /\ IF schLock = 0 THEN kPendCtxSwtchNow_ ELSE kDeferCtxSwtch_
  /\ Returns("NONE", None, "SUCCESS")
  /\ UNCHANGED <<run, prio, schLock, savedLock, waitVars, mutexVars, timeVars,
                 call, todo>>

\* kSleepDelaySyscall: the task sleeps for a number of ticks.
kSleepDelay(ticks) ==
  /\ Executing /\ ticks \in 1 .. MaxTimeout
  /\ ArmTimeout(run, "TIME_EVENT", ticks)
  /\ status' = [status EXCEPT ![run] = "SLEEPING_DELAY"]
  /\ call' = [call EXCEPT ![run].number = "SLEEP_DELAY", ![run].phase = "WAIT"]
  /\ Returns("SLEEP_DELAY", None, "RESTART")
  /\ kPendCtxSwtch("SLEEPING_DELAY")
  /\ UNCHANGED <<run, prio, readyQ, schLock, savedLock, waitVars, mutexVars,
                 todo>>

\* kTaskSelfSuspendSyscall: refused under the scheduler lock.
kTaskSelfSuspend ==
  /\ Executing /\ status[run] = "RUNNING" /\ schLock = 0
  /\ status' = [status EXCEPT ![run] = "SELF_SUSPENDED"]
  /\ call' = [call EXCEPT ![run].number = "TASK_SELF_SUSPEND",
                         ![run].phase = "WAIT"]
  /\ Returns("TASK_SELF_SUSPEND", None, "RESTART")
  /\ kPendCtxSwtch("SELF_SUSPENDED")
  /\ UNCHANGED <<run, prio, readyQ, schLock, savedLock, waitVars, mutexVars,
                 timeVars, todo>>

kTaskResume(t) ==
  /\ Executing /\ t # run /\ status[t] = "SELF_SUSPENDED"
  /\ todo' = <<ReadySwtchOf(t)>>
  /\ Returns("NONE", None, "SUCCESS")
  /\ UNCHANGED <<schedVars, waitVars, mutexVars, timeVars, call>>

(***************************************************************************)
(* PendSV: kSwtch, and the low-level switch that marks the task RUNNING.   *)
(***************************************************************************)
kSwtch ==
  /\ todo = <<>> /\ pendSV
  /\ LET preempted == status[run] = "RUNNING"
         rq   == IF preempted THEN [readyQ EXCEPT ![prio[run]] = kTCBQJam(@, run)]
                              ELSE readyQ
         p    == kCalcNextTaskPrio_(rq)
         next == Head(rq[p])
         saved == [savedLock EXCEPT ![run] = schLock]
     IN  /\ readyQ' = [rq EXCEPT ![p] = Tail(@)]
         /\ status' = [status EXCEPT ![run] = IF preempted THEN "READY" ELSE @,
                                     ![next] = "RUNNING"]
         /\ savedLock' = saved
         /\ run' = next
         /\ schLock' = saved[next]
  /\ pendSV' = FALSE
  /\ UNCHANGED <<prio, pendingSw, waitVars, mutexVars, timeVars, callVars, todo>>

(***************************************************************************)
(* kTaskSignalReady: a signal for a task that waits makes it ready.        *)
(***************************************************************************)
Interruptible == {"SLEEPING", "SLEEPING_EV_FLAG", "SLEEPQ_BLOCKED", "BLOCKED",
                  "SENDING", "RECEIVING", "SLEEPING_DELAY"}

kTaskSignalReady(t) ==
  /\ Executing /\ status[t] \in Interruptible
  /\ waitQ' = IF wqp[t] # None THEN [waitQ EXCEPT ![wqp[t]] = kTCBQRem(@, t)]
                               ELSE waitQ
  /\ todo' = (IF wqp[t] # None THEN WaiterRemoved(t) ELSE <<>>)
               \o <<[op |-> "signalReady", task |-> t]>>
  /\ Returns("NONE", None, "SUCCESS")
  /\ UNCHANGED <<schedVars, wqp, mutexVars, timeVars, call>>

\* The rest of it: the timeout is disarmed, the call completed, t readied.
SignalReady ==
  /\ todo # <<>> /\ Head(todo).op = "signalReady"
  /\ LET t == Head(todo).task
     IN  /\ DisarmTimeout(t)
         /\ wqp' = [wqp EXCEPT ![t] = None]
         /\ kSyscallTaskSignal(t)
         /\ readyQ' = ReadyEnq(readyQ, t)
         /\ status' = [status EXCEPT ![t] = "READY"]
         /\ kReschedTask(prio[t], prio)
  /\ todo' = Tail(todo)
  /\ UNCHANGED <<run, prio, schLock, savedLock, waitQ, lock, owner, faulted,
                 owned, mesgPrio>>

\* What the kernel does on its own account.
KernelStep ==
  \/ UpdatePrio \/ ReadySwtch \/ TimeoutExpire \/ TimeoutReady \/ TickEnd
  \/ SignalReady \/ kSwtch

(***************************************************************************)
(* kInit leaves every task READY in its queue and dispatches the most      *)
(* urgent; PostProc, where it takes part, has run and waits for its events.*)
(***************************************************************************)
FirstRun == CHOOSE t \in UserTask : \A u \in UserTask : NominalPrio[t] <= NominalPrio[u]

\* The user tasks of priority p and the idle task, in the order of creation.
InitReady(p) == SetToSeq({t \in Task \ {FirstRun, PostProc} : NominalPrio[t] = p})

KernelInit ==
  /\ run = FirstRun
  /\ status = [t \in Task |-> CASE t = FirstRun -> "RUNNING"
                                [] t = PostProc -> "SLEEPING_EV_FLAG"
                                [] OTHER -> "READY"]
  /\ prio = NominalPrio
  /\ readyQ = [p \in Prio |-> InitReady(p)]
  /\ schLock = 0 /\ savedLock = [t \in Task |-> 0]
  /\ pendingSw = FALSE /\ pendSV = FALSE
  /\ waitQ = [o \in WaitObj |-> <<>>]
  /\ wqp = [t \in Task |-> None]
  /\ lock = [m \in Mutex |-> FALSE]
  /\ owner = [m \in Mutex |-> None]
  /\ faulted = [m \in Mutex |-> FALSE]
  /\ owned = [t \in Task |-> {}]
  /\ waitingFor = [t \in Task |-> None]
  /\ mesgPrio = [t \in Task |-> [base    |-> NominalPrio[t],
                                 ceiling |-> NominalPrio[IdleTask]]]
  /\ tmo = <<>>
  /\ left = [t \in Task |-> 0]
  /\ ttype = [t \in Task |-> "NONE"]
  /\ call = [t \in Task |-> NoCall]
  /\ ret = [t \in Task |-> NoRet]
  /\ todo = <<>>
=============================================================================
