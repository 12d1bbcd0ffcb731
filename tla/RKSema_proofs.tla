---------------------------- MODULE RKSema_proofs ----------------------------
(***************************************************************************)
(* Three results about semaphores, for every set of tasks, mutexes and     *)
(* semaphores.  Tokens and waiters exclude each other: what matters is     *)
(* which steps can put a task into an empty queue, and only a pend that    *)
(* found no token does.  Every task is where whoever ends its wait looks   *)
(* for it: what matters is that each ends with the task on no list and one *)
(* call of the region that makes it ready.  And tokens are conserved, for  *)
(* what a pend came to follows from where its task is.  The last two need  *)
(* that no walk of inheritance moves a task whose wait is over, which is   *)
(* shown where nobody pends for ever.                                      *)
(***************************************************************************)
EXTENDS RKSema, RKMutex_proofs

\* The queues and values are there, and no queue is waited on past a token.
TokenInv ==
  /\ waitQ = [o \in WaitObj |-> waitQ[o]]
  /\ value = [s \in Sema |-> value[s]]
  /\ \A s \in Sema : value[s] \in 0 .. MaxValue[s]
  /\ NoIdleToken

\* An empty queue of a semaphore stays empty.
KeepsEmpty == \A s \in Sema : waitQ[s] = <<>> => waitQ'[s] = <<>>

\* Unlinking a task from an empty queue does nothing.
LEMMA RemFromEmpty == ASSUME NEW t PROVE kTCBQRem(<<>>, t) = <<>>
BY DEF kTCBQRem, ToSet

\* A step that lets empty queues be and touches no token keeps the invariant.
LEMMA TokenFrame ==
  ASSUME TokenInv, KeepsEmpty, UNCHANGED value, waitQ' = [o \in WaitObj |-> waitQ'[o]]
  PROVE  TokenInv'
BY DEF TokenInv, NoIdleToken, KeepsEmpty

\* Nor does a step that changes the queue of a semaphore without tokens.
LEMMA OtherQueue ==
  ASSUME TokenInv, NEW s \in Sema, NEW q, value[s] = 0, UNCHANGED value,
         waitQ' = [waitQ EXCEPT ![s] = q]
  PROVE  TokenInv'
<1>1. waitQ' = [o \in WaitObj |-> waitQ'[o]]
  BY DEF TokenInv
<1>2. ASSUME NEW o \in Sema, value[o] > 0 PROVE waitQ'[o] = <<>>
  <2>1. o # s /\ o \in WaitObj /\ waitQ[o] = <<>>
    BY <1>2 DEF TokenInv, NoIdleToken, WaitObj, Sema
  <2> QED BY <2>1 DEF TokenInv
<1> QED BY <1>1, <1>2 DEF TokenInv, NoIdleToken

\* Neither the walk of inheritance, even when it misplaces a task, nor a
\* timeout or a signal fills an empty queue; a mutex touches only its own.
LEMMA KernelKeepsEmpty ==
  ASSUME TokenInv, [Next]_kernelVars
  PROVE  KeepsEmpty /\ waitQ' = [o \in WaitObj |-> waitQ'[o]]
<1>1. /\ waitQ = [o \in WaitObj |-> waitQ[o]] /\ Sema \subseteq WaitObj
      /\ \A m \in Mutex : m \notin Sema
  BY KernelConstants DEF TokenInv, WaitObj, Sema
<1>2. CASE UNCHANGED waitQ
  BY <1>1, <1>2 DEF KeepsEmpty
<1>3. CASE \E o, t : waitQ' = [waitQ EXCEPT ![o] = kTCBQRem(@, t)]
  <2> PICK o, t : waitQ' = [waitQ EXCEPT ![o] = kTCBQRem(@, t)]
    BY <1>3
  <2> QED BY <1>1, RemFromEmpty DEF KeepsEmpty
<1>4. CASE \E o, q : (waitQ[o] # <<>> \/ o \in Mutex) /\ waitQ' = [waitQ EXCEPT ![o] = q]
  <2> PICK o, q : (waitQ[o] # <<>> \/ o \in Mutex) /\ waitQ' = [waitQ EXCEPT ![o] = q]
    BY <1>4
  <2> QED BY <1>1 DEF KeepsEmpty
<1>5. ASSUME UpdatePrio
      PROVE  UNCHANGED waitQ \/ \E o, q : waitQ[o] # <<>> /\ waitQ' = [waitQ EXCEPT ![o] = q]
  <2> DEFINE t == Head(todo).task
             pr == [prio EXCEPT ![t] = kTaskCalcEffectivePrio_(t)]
  <2>1. UNCHANGED waitQ \/ waitQ' = kTaskRequeueWaiterByPrio_(t, pr)
    BY <1>5 DEF UpdatePrio
  <2>2. Len(<<>>) = 0
    OBVIOUS
  <2> HIDE DEF t, pr
  <2>3. CASE waitQ' = kTaskRequeueWaiterByPrio_(t, pr)
    <3>1. CASE kTaskRequeueWaiterByPrio_(t, pr) = waitQ
      BY <2>3, <3>1
    <3>2. CASE kTaskRequeueWaiterByPrio_(t, pr) # waitQ
      <4>1. /\ ~(Len(waitQ[wqp[t]]) <= 1)
            /\ waitQ' = [waitQ EXCEPT ![wqp[t]] = kTCBQEnqByPrio(kTCBQRem(@, t), t, pr)]
        BY <2>3, <3>2 DEF kTaskRequeueWaiterByPrio_
      <4>2. waitQ[wqp[t]] # <<>>
        BY <2>2, <4>1
      <4> QED BY <4>1, <4>2
    <3> QED BY <3>1, <3>2
  <2> QED BY <2>1, <2>3
<1>6. TimeoutExpire => \/ UNCHANGED waitQ
                       \/ \E o, t : waitQ' = [waitQ EXCEPT ![o] = kTCBQRem(@, t)]
  BY DEF TimeoutExpire
<1>7. SignalCall => \/ UNCHANGED waitQ
                    \/ \E o, t : waitQ' = [waitQ EXCEPT ![o] = kTCBQRem(@, t)]
  BY DEF SignalCall, kTaskSignalReady
<1>8. ReadySwtch \/ TimeoutReady \/ TickEnd \/ SignalReady \/ kSwtch \/ Tick \/ SchedCall
        => UNCHANGED waitQ
  BY DEF ReadySwtch, TimeoutReady, TickEnd, SignalReady, kSwtch, Tick, SchedCall,
         kSchLock, kSchUnlock, kYield, kSleepDelay, kTaskSelfSuspend, kTaskResume,
         waitVars
<1>9. ASSUME MutexCall
      PROVE  UNCHANGED waitQ \/ \E o, q : o \in Mutex /\ waitQ' = [waitQ EXCEPT ![o] = q]
  <2>1. PICK m \in Mutex : \/ \E timeout \in Timeout : kMutexLock(m, timeout)
                           \/ kMutexUnlock(m)
    BY <1>9 DEF MutexCall
  <2>2. ASSUME NEW timeout \in Timeout, kMutexLock(m, timeout)
        PROVE  UNCHANGED waitQ \/ \E q : waitQ' = [waitQ EXCEPT ![m] = q]
    BY <2>2 DEF kMutexLock, LockFaulted, LockFree, TakeMutex, OwnMutex, LockNoWait, LockBlock, WaitForMutex, LockReturns,
                waitVars
  <2>3. ASSUME kMutexUnlock(m)
        PROVE  UNCHANGED waitQ \/ \E q : waitQ' = [waitQ EXCEPT ![m] = q]
    BY <2>3 DEF kMutexUnlock, UnlockFree, FreeMutex, UnlockHandOff, waitVars
  <2> QED BY <2>1, <2>2, <2>3
<1>10. UNCHANGED kernelVars => UNCHANGED waitQ
  BY DEF kernelVars, waitVars
<1> QED BY <1>2, <1>3, <1>4, <1>5, <1>6, <1>7, <1>8, <1>9, <1>10 DEF Next, KernelStep

\* A pend takes a token that is there, or waits where there is none.
LEMMA PendKeeps ==
  ASSUME TokenInv, NEW s \in Sema, NEW timeout, kSemaphorePend(s, timeout)
  PROVE  TokenInv'
<1>1. /\ s \in WaitObj /\ value[s] \in Nat /\ value[s] <= MaxValue[s]
      /\ MaxValue[s] \in Nat
  BY SemaConstants DEF TokenInv, WaitObj, Sema
<1>2. CASE PendTake(s)
  <2>1. /\ value[s] > 0 /\ value' = [value EXCEPT ![s] = @ - 1] /\ UNCHANGED waitQ
    BY <1>2 DEF PendTake, waitVars
  <2> QED BY <1>1, <2>1 DEF TokenInv, NoIdleToken
<1>3. CASE PendNoWait(s, timeout)
  <2>1. UNCHANGED <<value, waitQ>>
    BY <1>3 DEF PendNoWait, waitVars
  <2> QED BY <2>1 DEF TokenInv, NoIdleToken
<1>4. CASE PendBlock(s, timeout)
  <2>1. value[s] = 0 /\ UNCHANGED value
    BY <1>4 DEF PendBlock
  <2>2. PICK q : waitQ' = [waitQ EXCEPT ![s] = q]
    BY <1>4 DEF PendBlock
  <2> QED BY <1>1, <2>1, <2>2, OtherQueue
<1> QED BY <1>2, <1>3, <1>4 DEF kSemaphorePend

\* A post wakes a waiter, or adds a token where nobody waits and there is room.
LEMMA PostKeeps ==
  ASSUME TokenInv, NEW s \in Sema, kSemaphorePost(s) \/ IsrPost(s)
  PROVE  TokenInv'
<1>1. /\ s \in WaitObj /\ value[s] \in Nat /\ value[s] <= MaxValue[s]
      /\ MaxValue[s] \in Nat
  BY SemaConstants DEF TokenInv, WaitObj, Sema
<1>2. CASE PostWake(s)
  <2>1. waitQ[s] # <<>> /\ UNCHANGED value
    BY <1>2 DEF PostWake
  <2>2. PICK q : waitQ' = [waitQ EXCEPT ![s] = q]
    BY <1>2 DEF PostWake, WakeHead
  <2>3. ~(value[s] > 0)
    BY <2>1 DEF TokenInv, NoIdleToken
  <2>4. value[s] = 0
    BY <1>1, <2>3
  <2> QED BY <2>1, <2>2, <2>4, OtherQueue
<1>3. CASE PostCount(s)
  <2>1. /\ value[s] < MaxValue[s] /\ waitQ[s] = <<>> /\ UNCHANGED waitQ
        /\ value' = [value EXCEPT ![s] = @ + 1]
    BY <1>3 DEF PostCount, AddToken, waitVars
  <2>2. value'[s] = value[s] + 1
    BY <2>1 DEF TokenInv
  <2>3. value'[s] \in 0 .. MaxValue[s]
    BY <1>1, <2>1, <2>2
  <2>4. \A o \in Sema : o # s => value'[o] = value[o]
    BY <2>1 DEF TokenInv
  <2>5. value' = [o \in Sema |-> value'[o]]
    BY <2>1 DEF TokenInv
  <2>6. \A o \in Sema : value'[o] \in 0 .. MaxValue[o]
    BY <2>3, <2>4 DEF TokenInv
  <2>7. \A o \in Sema : value'[o] > 0 => waitQ'[o] = <<>>
    BY <2>1, <2>4 DEF TokenInv, NoIdleToken
  <2> QED BY <2>1, <2>5, <2>6, <2>7 DEF TokenInv, NoIdleToken
<1>4. CASE PostFull(s)
  <2>1. UNCHANGED <<value, waitQ>>
    BY <1>4 DEF PostFull, waitVars
  <2> QED BY <2>1 DEF TokenInv, NoIdleToken
<1> QED BY <1>2, <1>3, <1>4 DEF kSemaphorePost, IsrPost

\* The invariant holds in every state the system reaches.
THEOREM TokenInvariance == SemaSpec => []TokenInv
<1>1. SemaInit => TokenInv
  BY SemaConstants DEF SemaInit, Init, KernelInit, TokenInv, NoIdleToken, WaitObj, Sema
<1>2. TokenInv /\ [SemaNext]_semaVars => TokenInv'
  <2> SUFFICES ASSUME TokenInv, [SemaNext]_semaVars PROVE TokenInv'
    OBVIOUS
  <2>1. CASE Next /\ UNCHANGED value
    BY <2>1, KernelKeepsEmpty, TokenFrame
  <2>2. CASE SemaCall
    BY <2>2, PendKeeps, PostKeeps DEF SemaCall
  <2>3. CASE UNCHANGED semaVars
    BY <2>3, KernelKeepsEmpty, TokenFrame DEF semaVars
  <2> QED BY <2>1, <2>2, <2>3 DEF SemaNext
<1> QED BY <1>1, <1>2, PTL DEF SemaSpec

\* No task ever waits for a token that is there.
THEOREM NoTokenIdles == SemaSpec => []NoIdleToken
<1>1. TokenInv => NoIdleToken
  BY DEF TokenInv
<1> QED BY <1>1, TokenInvariance, PTL

(***************************************************************************)
(* Where the tasks are.                                                    *)
(***************************************************************************)
\* A task in a call has its frame, which says so until the call is answered; and
\* no waker leaves a result that would restart it.
Answered(t) ==
  /\ call[t].number \in {"NONE", "MUTEX_LOCK", "SEMAPHORE_PEND", "SLEEP_DELAY",
                         "TASK_SELF_SUSPEND"}
  /\ call[t].number = "MUTEX_LOCK" => call[t].wake # "RESTART"
  /\ IF call[t].number = "NONE" THEN ret[t].err # "RESTART"
     ELSE /\ ret[t].number = call[t].number /\ ret[t].arg = call[t].arg
          /\ ret[t].err = "RESTART"

\* Who is READY or RUNNING waits for nothing and is in no call.
Works(t) == AtLarge(t) /\ call[t].number = "NONE"

\* A pend is answered with SUCCESS if it is woken.
Pends(t, o) ==
  /\ o \in Sema /\ call[t].number = "SEMAPHORE_PEND" /\ call[t].wake = "SUCCESS"
  /\ call[t].phase = "WAIT"

\* A BLOCKED task is on the one queue that its call and its node name, and
\* nothing is about to wake it.
Waits(t) ==
  /\ status[t] = "BLOCKED" /\ t \in UserTask /\ WakesOf(t) = {}
  /\ OnQueues(t) = {call[t].arg} /\ wqp[t] = call[t].arg
  /\ Armed(t) => ttype[t] = "BLOCKING"
  /\ \/ Pends(t, call[t].arg)
     \/ call[t].arg \in Mutex /\ call[t].number = "MUTEX_LOCK"

\* A task that waits for its ticks, to be resumed, or for its event is on no queue.
Rests(t) ==
  /\ OnQueues(t) = {} /\ WakesOf(t) = {} /\ call[t].number # "SEMAPHORE_PEND"
  /\ \/ status[t] = "SLEEPING_EV_FLAG" /\ ~Armed(t)
     \/ status[t] = "SLEEPING_DELAY" /\ (Armed(t) => ttype[t] = "TIME_EVENT")
     \/ status[t] = "SELF_SUSPENDED" /\ ~Armed(t)

\* A task whose wait is over is on no queue, and one call of the region is about
\* to make it ready.
Leaves(t) ==
  /\ OnQueues(t) = {} /\ status[t] \notin Awake
  /\ call[t].number = "SEMAPHORE_PEND" => Pends(t, call[t].arg)
  /\ \E op \in WakeOps :
       /\ WakesOf(t) = {[op |-> op, task |-> t]}
       /\ op \in {"ready", "timeoutReady"} => ~Armed(t)

Placed(t) == Works(t) \/ Waits(t) \/ Rests(t) \/ Leaves(t)
PlaceInv  == \A t \in Task : Placed(t) /\ Answered(t)

\* Only user tasks pend, and on semaphores.
PendInv ==
  \A t \in Task : ret[t].number = "SEMAPHORE_PEND" => t \in UserTask /\ ret[t].arg \in Sema

\* A node that names the queue of a semaphore is the node of a task that is
\* BLOCKED with a timeout, or was: it holds as long as nobody pends for ever.
Named(t) ==
  wqp[t] \in Sema =>
    status[t] = "BLOCKED" /\ ttype[t] = "BLOCKING" /\ ReadySwtchOf(t) \notin WakesOf(t)
NamedInv == \A t \in Task : Named(t)

PendersInv == KernelFacts /\ PlaceInv /\ PendInv

\* The walk of inheritance that comes next is for a READY task whose node still
\* names the queue of a semaphore on which others wait.
WalksStale ==
  todo # <<>> /\ Head(todo).op = "updatePrio" /\ StaleWait(Head(todo).task)

(***************************************************************************)
(* Frames.                                                                 *)
(***************************************************************************)
\* A task nothing happens to stays where it is.
LEMMA PlaceKept ==
  ASSUME NEW t \in Task, Placed(t), Answered(t), Undisturbed(t), ret'[t] = ret[t]
  PROVE  Placed(t)' /\ Answered(t)'
<1>1. /\ call'[t] = call[t] /\ wqp'[t] = wqp[t] /\ ttype'[t] = ttype[t]
      /\ OnQueues(t)' = OnQueues(t) /\ (Armed(t)' <=> Armed(t)) /\ WakesOf(t)' = WakesOf(t)
      /\ status'[t] = status[t] \/ (status[t] \in Awake /\ status'[t] \in Awake)
  BY DEF Undisturbed
<1>2. Answered(t)'
  BY <1>1 DEF Answered
<1>3. CASE Works(t)
  BY <1>1, <1>2, <1>3 DEF Works, AtLarge, Placed
<1>4. CASE Waits(t)
  <2>1. status'[t] = status[t]
    BY <1>1, <1>4 DEF Waits, Awake
  <2> QED BY <1>1, <1>2, <1>4, <2>1 DEF Waits, Pends, Placed
<1>5. CASE Rests(t)
  <2>1. status'[t] = status[t]
    BY <1>1, <1>5 DEF Rests, Awake
  <2> QED BY <1>1, <1>2, <1>5, <2>1 DEF Rests, Placed
<1>6. CASE Leaves(t)
  <2>1. status'[t] = status[t]
    BY <1>1, <1>6 DEF Leaves
  <2> QED BY <1>1, <1>2, <1>6, <2>1 DEF Leaves, Pends, Placed
<1> QED BY <1>3, <1>4, <1>5, <1>6 DEF Placed

\* All the tasks but one stay where they are, and its frame is about a
\* semaphore only if it pends.
LEMMA OthersKept ==
  ASSUME PendersInv, KernelFacts', NEW x \in Task,
         \A u \in Task \ {x} : Undisturbed(u) /\ ret'[u] = ret[u],
         Placed(x)', Answered(x)',
         ret'[x].number = "SEMAPHORE_PEND" => x \in UserTask /\ ret'[x].arg \in Sema
  PROVE  PendersInv'
<1>1. ASSUME NEW u \in Task PROVE Placed(u)' /\ Answered(u)'
  <2>1. CASE u = x
    BY <2>1
  <2>2. CASE u # x
    BY <2>2, PlaceKept DEF PendersInv, PlaceInv
  <2> QED BY <2>1, <2>2
<1>2. PendInv'
  BY DEF PendersInv, PendInv
<1> QED BY <1>1, <1>2 DEF PendersInv, PlaceInv

\* All the tasks stay where they are.
LEMMA AllKept ==
  ASSUME PendersInv, KernelFacts', \A u \in Task : Undisturbed(u) /\ ret'[u] = ret[u]
  PROVE  PendersInv'
<1>1. ASSUME NEW u \in Task PROVE Placed(u)' /\ Answered(u)'
  BY PlaceKept DEF PendersInv, PlaceInv
<1>2. PendInv'
  BY DEF PendersInv, PendInv
<1> QED BY <1>1, <1>2 DEF PendersInv, PlaceInv

\* The running task answers a call at once.
LEMMA AnsweredAtOnce ==
  ASSUME PendersInv, KernelFacts', run \in UserTask, Works(run),
         \A u \in Task : Undisturbed(u), \A u \in Task \ {run} : ret'[u] = ret[u],
         ret'[run].err # "RESTART",
         ret'[run].number = "SEMAPHORE_PEND" => ret'[run].arg \in Sema
  PROVE  PendersInv'
<1>1. PICK r \in Task : r = run
  BY DEF UserTask
<1>2. Works(r)'
  <2>1. /\ call'[r] = call[r] /\ OnQueues(r)' = OnQueues(r)
        /\ (Armed(r)' <=> Armed(r)) /\ WakesOf(r)' = WakesOf(r)
        /\ status'[r] = status[r] \/ status'[r] \in Awake
    BY DEF Undisturbed
  <2> QED BY <1>1, <2>1 DEF Works, AtLarge
<1>3. Placed(r)' /\ Answered(r)'
  BY <1>1, <1>2 DEF Placed, Answered, Works
<1>4. \A u \in Task \ {r} : Undisturbed(u) /\ ret'[u] = ret[u]
  BY <1>1
<1> QED BY <1>1, <1>3, <1>4, OthersKept

\* Who is READY or RUNNING is at work.
LEMMA WorksFacts ==
  ASSUME PendersInv
  PROVE  /\ KernelFacts /\ PlaceInv /\ run \in Task
         /\ \A t \in Task : status[t] \in Awake => Works(t)
         /\ Executing => /\ run \in UserTask /\ status[run] = "RUNNING" /\ Works(run)
                         /\ AtLarge(run) /\ todo = <<>> /\ call[run] = NoCall
                         /\ ret[run].err # "RESTART" /\ \A t : WakesOf(t) = {}
<1>1. KernelFacts /\ PlaceInv /\ run \in Task
  BY DEF PendersInv, KernelFacts, DispatchInv
<1>2. ASSUME NEW t \in Task, status[t] \in Awake PROVE Works(t)
  BY <1>1, <1>2 DEF PlaceInv, Placed, Waits, Rests, Leaves, Awake
<1>3. ASSUME Executing
      PROVE  /\ run \in UserTask /\ status[run] = "RUNNING" /\ todo = <<>>
             /\ call[run] = NoCall /\ \A t : WakesOf(t) = {}
  BY <1>1, <1>3, ExecutingTask
<1>4. ASSUME Executing PROVE Works(run) /\ AtLarge(run) /\ ret[run].err # "RESTART"
  BY <1>1, <1>2, <1>3, <1>4 DEF Awake, Works, PlaceInv, Answered, NoCall
<1> QED BY <1>1, <1>2, <1>3, <1>4

(***************************************************************************)
(* The steps of the kernel.                                                *)
(***************************************************************************)
\* However a wait ends, the call ends with it; a pend with SUCCESS only if it is
\* woken.
LEMMA PendEnds ==
  ASSUME ContinuationInv, NEW t \in Task, Answered(t),
         call[t].number = "SEMAPHORE_PEND" => Pends(t, call[t].arg),
         NEW woken \in BOOLEAN,
         IF woken THEN kSyscallTaskWake(t)
                  ELSE kSyscallTaskTimeout(t) \/ kSyscallTaskSignal(t)
  PROVE  /\ call'[t].number = "NONE" /\ ret'[t].err # "RESTART"
         /\ call[t].number = "NONE" => ret'[t] = ret[t]
         /\ call[t].number # "NONE" =>
              ret'[t].number = call[t].number /\ ret'[t].arg = call[t].arg
         /\ call[t].number = "SEMAPHORE_PEND" => (ret'[t].err = "SUCCESS" <=> woken)
<1>1. call[t].number \in {"NONE", "MUTEX_LOCK", "SEMAPHORE_PEND", "SLEEP_DELAY",
                          "TASK_SELF_SUSPEND"}
  BY DEF Answered
<1>2. CASE call[t].number = "NONE"
  <2>1. UNCHANGED <<call, ret>>
    <3>1. kSyscallTaskWake(t) => UNCHANGED <<call, ret>>
      BY <1>2 DEF kSyscallTaskWake, WakeResultCall, RunsAgainCall, callVars
    <3>2. kSyscallTaskTimeout(t) => UNCHANGED <<call, ret>>
      BY <1>2 DEF kSyscallTaskTimeout, callVars
    <3>3. kSyscallTaskSignal(t) => UNCHANGED <<call, ret>>
      BY <1>2 DEF kSyscallTaskSignal, callVars
    <3> QED BY <3>1, <3>2, <3>3
  <2> QED BY <1>2, <2>1 DEF Answered
<1>3. CASE call[t].number # "NONE"
  <2>1. \E e : /\ kSyscallTaskComplete_(t, e) /\ e # "RESTART"
               /\ call[t].number = "SEMAPHORE_PEND" => (e = "SUCCESS" <=> woken)
    <3>1. CASE woken
      <4>1. CASE call[t].number = "MUTEX_LOCK"
        <5>1. kSyscallTaskComplete_(t, call[t].wake) /\ call[t].wake # "RESTART"
          BY <3>1, <4>1 DEF kSyscallTaskWake, WakeResultCall, RunsAgainCall, Answered
        <5> QED BY <4>1, <5>1
      <4>2. CASE call[t].number # "MUTEX_LOCK"
        <5>1. kSyscallTaskComplete_(t, "SUCCESS")
          BY <1>1, <1>3, <3>1, <4>2 DEF kSyscallTaskWake, WakeResultCall, RunsAgainCall
        <5> QED BY <3>1, <5>1
      <4> QED BY <4>1, <4>2
    <3>2. CASE ~woken
      <4>1. CASE kSyscallTaskSignal(t)
        BY <1>3, <3>2, <4>1 DEF kSyscallTaskSignal
      <4>2. CASE kSyscallTaskTimeout(t)
        <5>1. CASE call[t].number = "SLEEP_DELAY"
          BY <3>2, <4>2, <5>1 DEF kSyscallTaskTimeout
        <5>2. CASE call[t].number # "SLEEP_DELAY"
          <6>1. kSyscallTaskComplete_(t, "TIMEOUT")
            BY <1>1, <1>3, <4>2, <5>2 DEF kSyscallTaskTimeout
          <6> QED BY <3>2, <6>1
        <5> QED BY <5>1, <5>2
      <4> QED BY <3>2, <4>1, <4>2
    <3> QED BY <3>1, <3>2
  <2>2. PICK e : /\ kSyscallTaskComplete_(t, e) /\ e # "RESTART"
                 /\ call[t].number = "SEMAPHORE_PEND" => (e = "SUCCESS" <=> woken)
    BY <2>1
  <2>3. /\ ret'[t] = [number |-> call[t].number, arg |-> call[t].arg, err |-> e]
        /\ call'[t] = NoCall
    BY <2>2 DEF kSyscallTaskComplete_, ContinuationInv
  <2> QED BY <1>3, <2>2, <2>3 DEF NoCall
<1> QED BY <1>2, <1>3

\* What happens to the task at the head of the region when it is made ready.
AwokenBy(t, woken) ==
  /\ t \in Task /\ Leaves(t) /\ Works(t)'
  /\ OnQueues(t)' = OnQueues(t) /\ WakesOf(t)' = {}
  /\ woken <=> ReadySwtchOf(t) \in WakesOf(t)
  /\ ret'[t].err # "RESTART"
  /\ call[t].number = "NONE" => ret'[t] = ret[t]
  /\ call[t].number # "NONE" =>
       ret'[t].number = call[t].number /\ ret'[t].arg = call[t].arg
  /\ call[t].number = "SEMAPHORE_PEND" => (ret'[t].err = "SUCCESS" <=> woken)
  /\ wqp'[t] = (IF woken THEN wqp[t] ELSE None)
  /\ \A u \in Task \ {t} : Undisturbed(u) /\ ret'[u] = ret[u]

\* A task at the head of the region is made ready.
LEMMA Awoken ==
  ASSUME PendersInv, ReadySwtch \/ TimeoutReady \/ SignalReady
  PROVE  KernelFacts' /\ \E t \in Task : AwokenBy(t, Head(todo).op = "ready")
<1>1. KernelFacts /\ PlaceInv /\ todo # <<>> /\ Head(todo).op \in WakeOps
  BY DEF PendersInv, ReadySwtch, TimeoutReady, SignalReady, WakeOps
<1>2. PICK t \in Task : t = Head(todo).task
  BY <1>1, HeadGone DEF KernelFacts, KernelCall, WakeOps
<1>3. Head(todo) \in WakesOf(t)
  BY <1>1, <1>2, HeadGone DEF KernelFacts, WakesOf
<1>4. Leaves(t) /\ status[t] \notin Awake /\ Answered(t)
  BY <1>1, <1>3 DEF PlaceInv, Placed, Works, AtLarge, Waits, Rests, Leaves
<1>5. /\ KernelFacts' /\ WakesOf(t)' = {} /\ status'[t] = "READY" /\ OnQueues(t)' = OnQueues(t)
      /\ WakesOf(t) = {[op |-> Head(todo).op, task |-> t]}
      /\ Head(todo).op = "ready" => (Armed(t)' <=> Armed(t))
      /\ Head(todo).op = "timeoutReady" => (Armed(t)' <=> Armed(t))
      /\ Head(todo).op = "signalReady" => ~Armed(t)'
      /\ wqp'[t] = (IF Head(todo).op = "ready" THEN wqp[t] ELSE None)
      /\ \A u \in Task \ {t} : Undisturbed(u) /\ ret'[u] = ret[u]
  BY <1>1, <1>2, <1>4, AwakenStep DEF WakeOps
<1> DEFINE woken == Head(todo).op = "ready"
<1>6. IF woken THEN kSyscallTaskWake(t) ELSE kSyscallTaskTimeout(t) \/ kSyscallTaskSignal(t)
  BY <1>2 DEF ReadySwtch, TimeoutReady, SignalReady
<1>7. woken \in BOOLEAN /\ (woken <=> Head(todo).op = "ready")
  OBVIOUS
<1>8. woken <=> ReadySwtchOf(t) \in WakesOf(t)
  BY <1>5, <1>7 DEF ReadySwtchOf
<1> HIDE DEF woken
<1>9. /\ call'[t].number = "NONE" /\ ret'[t].err # "RESTART"
      /\ call[t].number = "NONE" => ret'[t] = ret[t]
      /\ call[t].number # "NONE" =>
           ret'[t].number = call[t].number /\ ret'[t].arg = call[t].arg
      /\ call[t].number = "SEMAPHORE_PEND" => (ret'[t].err = "SUCCESS" <=> woken)
  <2>1. ContinuationInv /\ (call[t].number = "SEMAPHORE_PEND" => Pends(t, call[t].arg))
    BY <1>1, <1>4 DEF KernelFacts, Leaves
  <2> QED BY <1>4, <1>6, <1>7, <2>1, PendEnds
<1>10. ~Armed(t)'
  <2>1. PICK op \in WakeOps : /\ WakesOf(t) = {[op |-> op, task |-> t]}
                              /\ op \in {"ready", "timeoutReady"} => ~Armed(t)
    BY <1>4 DEF Leaves
  <2>2. [op |-> op, task |-> t].op = Head(todo).op
    BY <1>3, <2>1
  <2> QED BY <1>1, <1>5, <2>1, <2>2 DEF WakeOps
<1>11. Works(t)'
  BY <1>4, <1>5, <1>9, <1>10 DEF Works, AtLarge, Awake, Leaves
<1> QED BY <1>4, <1>5, <1>7, <1>8, <1>9, <1>11 DEF AwokenBy

\* Nodes that expire, walks, ticks and switches.
LEMMA Expired ==
  ASSUME PendersInv, TimeoutExpire
  PROVE  /\ KernelFacts' /\ UNCHANGED ret
         /\ \E t \in Task : /\ Leaves(t)' /\ Answered(t)' /\ OnQueues(t)' = {}
                            /\ ReadySwtchOf(t) \notin WakesOf(t)'
                            /\ \A u \in Task : WakesOf(u) = {}
                            /\ \A u \in Task \ {t} : Undisturbed(u)
         /\ UNCHANGED <<status, wqp, ttype>>
<1>1. KernelFacts /\ PlaceInv /\ tmo # <<>>
  BY DEF PendersInv, TimeoutExpire
<1>2. PICK t \in Task : t = Head(tmo)
  BY <1>1, TailFacts DEF KernelFacts, ListInv
<1>3. /\ KernelFacts' /\ Armed(t) /\ ~Armed(t)' /\ \A u \in Task : WakesOf(u) = {}
      /\ \A u \in Task \ {t} : Undisturbed(u)
      /\ WakesOf(t)' = {[op |-> "timeoutReady", task |-> t]}
      /\ OnQueues(t)' = IF ttype[t] = "BLOCKING" THEN OnQueues(t) \ {wqp[t]} ELSE OnQueues(t)
      /\ UNCHANGED <<run, status, owner, call, ret, wqp, ttype>>
  BY <1>1, <1>2, ExpiryStep
<1>4. /\ OnQueues(t)' = {} /\ status[t] \notin Awake /\ Answered(t)
      /\ call[t].number = "SEMAPHORE_PEND" => Pends(t, call[t].arg)
  <2>1. CASE Waits(t)
    BY <1>1, <1>3, <2>1 DEF Waits, Awake, PlaceInv, Pends
  <2>2. CASE Rests(t)
    BY <1>1, <1>3, <2>2 DEF Rests, Awake, PlaceInv
  <2>3. ~Works(t) /\ ~Leaves(t)
    BY <1>3 DEF Works, AtLarge, Leaves
  <2> QED BY <1>1, <2>1, <2>2, <2>3 DEF PlaceInv, Placed
<1>5. Leaves(t)' /\ Answered(t)'
  BY <1>3, <1>4 DEF Leaves, Pends, Answered, WakeOps
<1>6. ReadySwtchOf(t) \notin WakesOf(t)'
  BY <1>3 DEF ReadySwtchOf
<1> QED BY <1>3, <1>4, <1>5, <1>6

\* A walk that is not stale, the tick and PendSV disturb no task's place.
LEMMA QuietKernelStep ==
  ASSUME PendersInv, ~WalksStale, UpdatePrio \/ Tick \/ TickEnd \/ kSwtch
  PROVE  KernelFacts' /\ \A t \in Task : Undisturbed(t) /\ ret'[t] = ret[t]
<1>1. CASE UpdatePrio
  <2>1. ~StaleWait(Head(todo).task)
    BY <1>1 DEF UpdatePrio, WalksStale
  <2> QED BY <1>1, <2>1, WalkStep DEF PendersInv
<1>2. CASE Tick \/ TickEnd \/ kSwtch
  BY <1>2, QuietStep DEF PendersInv
<1> QED BY <1>1, <1>2

\* Every step of the kernel itself keeps the invariant.
LEMMA KernelKeeps ==
  ASSUME PendersInv, ~WalksStale, KernelStep \/ Tick
  PROVE  PendersInv'
<1>1. CASE UpdatePrio \/ Tick \/ TickEnd \/ kSwtch
  BY <1>1, QuietKernelStep, AllKept
<1>2. CASE ReadySwtch \/ TimeoutReady \/ SignalReady
  <2>1. KernelFacts' /\ \E t \in Task : AwokenBy(t, Head(todo).op = "ready")
    BY <1>2, Awoken
  <2>2. PICK t \in Task : AwokenBy(t, Head(todo).op = "ready")
    BY <2>1
  <2>3. Placed(t)' /\ Answered(t)'
    BY <2>2 DEF AwokenBy, Placed, Answered, Works
  <2>4. ret'[t].number = "SEMAPHORE_PEND" => t \in UserTask /\ ret'[t].arg \in Sema
    <3>1. CASE call[t].number = "NONE"
      BY <2>2, <3>1 DEF AwokenBy, PendersInv, PendInv
    <3>2. CASE call[t].number # "NONE"
      BY <2>2, <3>2 DEF AwokenBy, PendersInv, KernelFacts, ContinuationInv, Leaves, Pends
    <3> QED BY <3>1, <3>2
  <2>5. \A u \in Task \ {t} : Undisturbed(u) /\ ret'[u] = ret[u]
    BY <2>2 DEF AwokenBy
  <2> QED BY <2>1, <2>3, <2>4, <2>5, OthersKept
<1>3. CASE TimeoutExpire
  <2>1. PICK t \in Task : /\ Leaves(t)' /\ Answered(t)'
                          /\ \A u \in Task \ {t} : Undisturbed(u)
    BY <1>3, Expired
  <2>2. KernelFacts' /\ UNCHANGED ret /\ Placed(t)'
    BY <1>3, <2>1, Expired DEF Placed
  <2>3. ret'[t].number = "SEMAPHORE_PEND" => t \in UserTask /\ ret'[t].arg \in Sema
    BY <2>2 DEF PendersInv, PendInv
  <2> QED BY <2>1, <2>2, <2>3, OthersKept
<1> QED BY <1>1, <1>2, <1>3 DEF KernelStep

(***************************************************************************)
(* The calls of tasks on the scheduler, the mutexes and the signals.       *)
(***************************************************************************)
\* Who is taken off its queue to be made ready leaves its wait.
LEMMA ReleasedLeaves ==
  ASSUME PendersInv, NEW w \in Task, NEW o \in WaitObj, Released(w, o)
  PROVE  /\ Waits(w) /\ OnQueues(w) = {o} /\ call[w].arg = o
         /\ Leaves(w)' /\ OnQueues(w)' = {} /\ ReadySwtchOf(w) \in WakesOf(w)'
<1>1. Waits(w)
  BY DEF PendersInv, PlaceInv, Placed, Released, Works, AtLarge, Rests, Leaves
<1>2. OnQueues(w) = {o} /\ call[w].arg = o
  BY <1>1 DEF Waits, Released
<1>3. OnQueues(w)' = {} /\ status'[w] \notin Awake /\ ~Armed(w)'
  BY <1>1, <1>2 DEF Released, Waits, Awake
<1>4. call[w].number = "SEMAPHORE_PEND" => Pends(w, call[w].arg)
  BY <1>1 DEF Waits, Pends
<1>5. Leaves(w)'
  BY <1>3, <1>4 DEF Leaves, Released, Pends, WakeOps
<1>6. ReadySwtchOf(w) \in WakesOf(w)'
  BY DEF Released, ReadySwtchOf
<1> QED BY <1>1, <1>2, <1>3, <1>5, <1>6

\* The node of t names a semaphore afterwards only if it did, of a waiter that is
\* as it was.
KeepsName(t) ==
  wqp'[t] \in Sema =>
    /\ wqp'[t] = wqp[t] /\ ttype'[t] = ttype[t]
    /\ status[t] = "BLOCKED" =>
         /\ status'[t] = "BLOCKED"
         /\ ReadySwtchOf(t) \in WakesOf(t)' => ReadySwtchOf(t) \in WakesOf(t)

\* The running task ends the wait of t, though not with a token.
Interrupted(t) ==
  /\ t \in Task /\ t # run /\ Leaves(t)' /\ OnQueues(t)' = {} /\ KeepsName(t)
  /\ ReadySwtchOf(t) \in WakesOf(t)' => call[t].number # "SEMAPHORE_PEND"
  /\ WakesOf(t) = {} /\ call'[t] = call[t]

\* What a call of the running task that is about no semaphore does: it is
\* answered at once, or suspends its task elsewhere; it may wake a task that
\* waits for no semaphore; or it interrupts a task, which then leaves its wait.
OtherCall ==
  /\ KernelFacts' /\ run' = run
  /\ ret'[run].number # "SEMAPHORE_PEND" /\ Placed(run)' /\ Answered(run)'
  /\ OnQueues(run)' \cap Sema = {} /\ (wqp'[run] = wqp[run] \/ wqp'[run] \in Mutex)
  /\ \A u \in Task \ {run} : ret'[u] = ret[u]
  /\ \/ \A u \in Task \ {run} : Undisturbed(u)
     \/ \E t \in Task : Interrupted(t) /\ \A u \in Task \ {run, t} : Undisturbed(u)

\* Such a call keeps the invariant.
LEMMA OtherCallKeeps ==
  ASSUME PendersInv, OtherCall
  PROVE  PendersInv'
<1>1. ASSUME NEW u \in Task PROVE Placed(u)' /\ Answered(u)'
  <2>1. CASE u = run
    BY <2>1 DEF OtherCall
  <2>2. CASE u # run /\ Undisturbed(u)
    BY <2>2, PlaceKept DEF PendersInv, PlaceInv, OtherCall
  <2>3. CASE u # run /\ Interrupted(u)
    BY <2>3 DEF Interrupted, OtherCall, Placed, Answered, PendersInv, PlaceInv
  <2> QED BY <2>1, <2>2, <2>3 DEF OtherCall
<1>2. PendInv'
  BY DEF PendersInv, PendInv, OtherCall
<1> QED BY <1>1, <1>2 DEF PendersInv, PlaceInv, OtherCall

\* A call that disturbs nobody and is answered at once.
LEMMA AnsweredCall ==
  ASSUME PendersInv, Executing, KernelFacts', run' = run, \A u \in Task : Undisturbed(u),
         \A u \in Task \ {run} : ret'[u] = ret[u],
         ret'[run].err # "RESTART", ret'[run].number # "SEMAPHORE_PEND"
  PROVE  OtherCall
<1>1. run \in Task /\ Works(run) /\ Undisturbed(run)
  BY WorksFacts
<1>2. Works(run)'
  BY <1>1 DEF Undisturbed, Works, AtLarge
<1>3. Placed(run)' /\ Answered(run)' /\ OnQueues(run)' = {}
  BY <1>2 DEF Placed, Answered, Works, AtLarge
<1> QED BY <1>1, <1>3 DEF OtherCall, Undisturbed

\* The error code of an answer that was given by Returns.
LEMMA ReturnsCode ==
  ASSUME PendersInv, NEW number, NEW arg, NEW err, Returns(number, arg, err)
  PROVE  /\ ret'[run] = [number |-> number, arg |-> arg, err |-> err]
         /\ \A u \in Task \ {run} : ret'[u] = ret[u]
BY WorksFacts DEF Returns, KernelFacts, ContinuationInv

\* Calls without a result of their own answer SUCCESS.
LEMMA ReturnsNothing ==
  ASSUME PendersInv, Returns("NONE", None, "SUCCESS")
  PROVE  ret'[run].err # "RESTART" /\ ret'[run].number # "SEMAPHORE_PEND"
<1>1. ret'[run] = [number |-> "NONE", arg |-> None, err |-> "SUCCESS"]
  BY ReturnsCode
<1> QED BY <1>1

\* A task whose wait the running task ends, by a signal or by resuming it.
LEMMA InterruptedCall ==
  ASSUME PendersInv, Executing, KernelFacts', NEW t \in Task, t # run,
         \A u \in Task \ {t} : Undisturbed(u), UNCHANGED <<run, status, call, wqp, ttype>>,
         status[t] \notin Awake, OnQueues(t)' = {}, WakesOf(t) = {},
         NEW op \in WakeOps, WakesOf(t)' = {[op |-> op, task |-> t]},
         op # "signalReady" => /\ op = "ready" /\ ~Armed(t)' /\ status[t] # "BLOCKED"
                               /\ call[t].number # "SEMAPHORE_PEND",
         \A u \in Task \ {run} : ret'[u] = ret[u],
         ret'[run].err # "RESTART", ret'[run].number # "SEMAPHORE_PEND"
  PROVE  OtherCall
<1>1. run \in Task /\ Works(run) /\ Undisturbed(run)
  BY WorksFacts
<1>2. Works(run)'
  BY <1>1 DEF Undisturbed, Works, AtLarge
<1>3. Placed(run)' /\ Answered(run)' /\ OnQueues(run)' = {}
  BY <1>2 DEF Placed, Answered, Works, AtLarge
<1>4. call[t].number = "SEMAPHORE_PEND" => Pends(t, call[t].arg)
  <2>1. Placed(t) /\ status[t] \notin Awake
    BY DEF PendersInv, PlaceInv
  <2> QED BY <2>1 DEF Placed, Works, AtLarge, Waits, Rests, Leaves, Pends
<1>5. Leaves(t)'
  BY <1>4 DEF Leaves, Pends, WakeOps
<1>6. ReadySwtchOf(t) \in WakesOf(t)' => call[t].number # "SEMAPHORE_PEND"
  BY DEF ReadySwtchOf
<1>7. Interrupted(t)
  <2>1. KeepsName(t)
    BY DEF KeepsName, ReadySwtchOf
  <2> QED BY <1>5, <1>6, <2>1 DEF Interrupted
<1> QED BY <1>1, <1>3, <1>7 DEF OtherCall, Undisturbed

\* Locks of the scheduler, yields, delays and suspensions.
LEMMA SchedCallIsOther ==
  ASSUME PendersInv, ~YieldWhenLocked, SchedCall
  PROVE  OtherCall /\ Executing
<1>1. Executing
  BY DEF SchedCall, kSchLock, kSchUnlock, kYield, kSleepDelay, kTaskSelfSuspend, kTaskResume
<1>2. /\ KernelFacts /\ run \in UserTask /\ run \in Task /\ AtLarge(run) /\ call[run] = NoCall
  BY <1>1, WorksFacts
<1>3. CASE kSchLock \/ kSchUnlock \/ (kYield /\ schLock = 0)
  <2>1. /\ KernelFacts' /\ \A t \in Task : Undisturbed(t)
        /\ \A u \in Task \ {run} : ret'[u] = ret[u]
        /\ run' = run
    BY <1>2, <1>3, LockCountStep
  <2>2. Returns("NONE", None, "SUCCESS")
    BY <1>3 DEF kSchLock, kSchUnlock, kYield
  <2>3. ret'[run].err # "RESTART" /\ ret'[run].number # "SEMAPHORE_PEND"
    BY <2>2, ReturnsNothing
  <2> QED BY <1>1, <2>1, <2>3, AnsweredCall
<1>4. ASSUME NEW ticks, kSleepDelay(ticks) \/ kTaskSelfSuspend PROVE OtherCall
  <2>1. /\ KernelFacts' /\ \A u \in Task \ {run} : Undisturbed(u) /\ ret'[u] = ret[u]
        /\ OnQueues(run)' = {} /\ WakesOf(run)' = {}
        /\ \/ status'[run] = "SLEEPING_DELAY" /\ (Armed(run)' => ttype'[run] = "TIME_EVENT")
           \/ status'[run] = "SELF_SUSPENDED" /\ ~Armed(run)'
        /\ run' = run /\ wqp'[run] = wqp[run]
    BY <1>2, <1>4, RestStep
  <2>2. \E number \in {"SLEEP_DELAY", "TASK_SELF_SUSPEND"} :
          /\ call' = [call EXCEPT ![run].number = number, ![run].phase = "WAIT"]
          /\ Returns(number, None, "RESTART")
    BY <1>4 DEF kSleepDelay, kTaskSelfSuspend
  <2>3. PICK number \in {"SLEEP_DELAY", "TASK_SELF_SUSPEND"} :
          /\ call' = [call EXCEPT ![run].number = number, ![run].phase = "WAIT"]
          /\ Returns(number, None, "RESTART")
    BY <2>2
  <2>4. call'[run].number = number /\ call'[run].arg = None
    BY <1>2, <2>3 DEF KernelFacts, ContinuationInv, NoCall
  <2>5. ret'[run] = [number |-> number, arg |-> None, err |-> "RESTART"]
    BY <2>3, ReturnsCode
  <2>6. Rests(run)' /\ Answered(run)'
    BY <2>1, <2>4, <2>5 DEF Rests, Answered
  <2> QED BY <2>1, <2>5, <2>6 DEF OtherCall, Placed
<1>5. ASSUME NEW t \in MaySuspend, kTaskResume(t) PROVE OtherCall
  <2>0. t \in Task
    BY <1>5, MutexConstants DEF UserTask
  <2>1. /\ KernelFacts' /\ \A u \in Task \ {t} : Undisturbed(u)
        /\ WakesOf(t) = {} /\ WakesOf(t)' = {[op |-> "ready", task |-> t]}
        /\ status[t] = "SELF_SUSPENDED" /\ t # run
        /\ OnQueues(t)' = OnQueues(t) /\ (Armed(t)' <=> Armed(t))
        /\ \A u \in Task \ {run} : ret'[u] = ret[u]
        /\ UNCHANGED <<run, status, call, wqp, ttype>>
    BY <1>2, <1>5, <2>0, ResumeStep
  <2>2. Rests(t) /\ ~Armed(t) /\ status[t] \notin Awake
    BY <2>0, <2>1 DEF PendersInv, PlaceInv, Placed, Works, AtLarge, Waits, Rests, Leaves, Awake
  <2>3. Returns("NONE", None, "SUCCESS")
    BY <1>5 DEF kTaskResume
  <2>4. ret'[run].err # "RESTART" /\ ret'[run].number # "SEMAPHORE_PEND"
    BY <2>3, ReturnsNothing
  <2>5. /\ OnQueues(t)' = {} /\ ~Armed(t)' /\ status[t] # "BLOCKED"
        /\ call[t].number # "SEMAPHORE_PEND"
    BY <2>1, <2>2 DEF Rests
  <2>6. "ready" \in WakeOps
    BY DEF WakeOps
  <2> QED BY <1>1, <2>0, <2>1, <2>2, <2>4, <2>5, <2>6, InterruptedCall
<1> QED BY <1>1, <1>2, <1>3, <1>4, <1>5 DEF SchedCall, KernelFacts, LockInv

\* What a call to lock a mutex leaves in the frame of its task.
LEMMA LockAnswers ==
  ASSUME PendersInv, NEW m \in Mutex, NEW timeout, kMutexLock(m, timeout)
  PROVE  /\ ret'[run].number = "MUTEX_LOCK" /\ ret'[run].arg = m
         /\ \/ ret'[run].err # "RESTART" /\ UNCHANGED call
            \/ /\ ret'[run].err = "RESTART"
               /\ call'[run] = [number |-> "MUTEX_LOCK", arg |-> m, phase |-> "WAIT",
                                wake |-> "SUCCESS"]
<1>1. PICK err : Returns("MUTEX_LOCK", m, err)
  BY DEF kMutexLock, LockFaulted, LockFree, TakeMutex, LockNoWait, LockBlock, WaitForMutex, LockReturns
<1>2. ret'[run] = [number |-> "MUTEX_LOCK", arg |-> m, err |-> err]
  BY <1>1, ReturnsCode
<1>3. CASE LockBlock(m, timeout)
  <2>1. /\ Returns("MUTEX_LOCK", m, "RESTART")
        /\ call' = [call EXCEPT ![run] = [number |-> "MUTEX_LOCK", arg |-> m, phase |-> "WAIT",
                                          wake |-> "SUCCESS"]]
    BY <1>3 DEF LockBlock, WaitForMutex
  <2>2. ret'[run] = [number |-> "MUTEX_LOCK", arg |-> m, err |-> "RESTART"]
    BY <2>1, ReturnsCode
  <2> QED BY <2>1, <2>2, WorksFacts DEF KernelFacts, ContinuationInv
<1>4. CASE LockFaulted(m) \/ LockFree(m) \/ LockNoWait(m, timeout)
  <2>1. PICK e \in {"OWNER_FAULTED", "SUCCESS", "NOWAIT"} :
          Returns("MUTEX_LOCK", m, e) /\ UNCHANGED call
    BY <1>4 DEF LockFaulted, LockFree, TakeMutex, LockNoWait, LockReturns
  <2>2. ret'[run] = [number |-> "MUTEX_LOCK", arg |-> m, err |-> e]
    BY <2>1, ReturnsCode
  <2> QED BY <2>1, <2>2
<1> QED BY <1>3, <1>4 DEF kMutexLock

\* Locks and unlocks of mutexes.
LEMMA MutexCallIsOther ==
  ASSUME PendersInv, MutexCall
  PROVE  OtherCall /\ Executing
<1>1. PICK m \in Mutex : (\E timeout \in Timeout : kMutexLock(m, timeout)) \/ kMutexUnlock(m)
  BY DEF MutexCall
<1>2. Executing
  BY <1>1 DEF kMutexLock, kMutexUnlock
<1>3. /\ KernelFacts /\ run \in UserTask /\ run \in Task /\ AtLarge(run) /\ Works(run)
      /\ todo = <<>> /\ call[run] = NoCall /\ m \in WaitObj /\ m \notin Sema /\ m # None
  BY <1>2, WorksFacts, KernelConstants DEF WaitObj, Sema
<1>4. ASSUME NEW timeout, kMutexLock(m, timeout) PROVE OtherCall
  <2>1. /\ KernelFacts' /\ \A u \in Task \ {run} : Undisturbed(u) /\ ret'[u] = ret[u]
        /\ run' = run
        /\ \/ Undisturbed(run)
           \/ /\ status'[run] = "BLOCKED" /\ OnQueues(run)' = {m} /\ WakesOf(run)' = {}
              /\ wqp'[run] = m /\ call'[run].number = "MUTEX_LOCK"
              /\ Armed(run)' => ttype'[run] = "BLOCKING"
    BY <1>3, <1>4, MutexLockStep
  <2>2. /\ ret'[run].number = "MUTEX_LOCK" /\ ret'[run].arg = m
        /\ \/ ret'[run].err # "RESTART" /\ UNCHANGED call
           \/ /\ ret'[run].err = "RESTART"
              /\ call'[run] = [number |-> "MUTEX_LOCK", arg |-> m, phase |-> "WAIT",
                               wake |-> "SUCCESS"]
    BY <1>4, LockAnswers
  <2>3. CASE Undisturbed(run)
    <3>1. call'[run] = NoCall
      BY <1>3, <2>3 DEF Undisturbed
    <3>2. ret'[run].err # "RESTART"
      BY <2>2, <3>1 DEF NoCall
    <3>3. \A u \in Task : Undisturbed(u)
      BY <2>1, <2>3
    <3> QED BY <1>2, <2>1, <2>2, <3>2, <3>3, AnsweredCall
  <2>4. CASE /\ status'[run] = "BLOCKED" /\ OnQueues(run)' = {m} /\ WakesOf(run)' = {}
             /\ wqp'[run] = m /\ call'[run].number = "MUTEX_LOCK"
             /\ Armed(run)' => ttype'[run] = "BLOCKING"
    <3>1. /\ ret'[run].err = "RESTART"
          /\ call'[run] = [number |-> "MUTEX_LOCK", arg |-> m, phase |-> "WAIT",
                           wake |-> "SUCCESS"]
      BY <1>3, <2>2, <2>4 DEF NoCall
    <3>2. Waits(run)' /\ Answered(run)'
      BY <1>3, <2>1, <2>2, <2>4, <3>1 DEF Waits, Answered
    <3>3. OnQueues(run)' \cap Sema = {}
      BY <1>3, <2>4
    <3> QED BY <2>1, <2>2, <2>4, <3>2, <3>3 DEF OtherCall, Placed
  <2> QED BY <2>1, <2>3, <2>4
<1>5. CASE kMutexUnlock(m)
  <2>1. /\ ret'[run].number = "MUTEX_UNLOCK" /\ ret'[run].err # "RESTART"
        /\ \A u \in Task \ {run} : ret'[u] = ret[u]
        /\ ret' \in [Task -> FrameResult]
    <3>1. Returns("MUTEX_UNLOCK", m, "SUCCESS") /\ ContinuationInv
      BY <1>3, <1>5 DEF kMutexUnlock, KernelFacts
    <3>2. "MUTEX_UNLOCK" \in ResultNumber /\ "SUCCESS" \in Err /\ m \in WaitObj \cup {None}
      BY <1>3 DEF ResultNumber, Err
    <3> QED BY <1>3, <3>1, <3>2, CallAnswered, ReturnsCode
  <2>2. /\ KernelFacts'
        /\ \/ \A u \in Task : Undisturbed(u)
           \/ \E w \in Task : Released(w, m)
    <3>1. /\ owner[m] = run
          /\ UnlockFree(m) \/ UnlockHandOff(m)
          /\ UNCHANGED <<schedVars, mesgPrio, call>>
      BY <1>5 DEF kMutexUnlock
    <3> QED BY <1>3, <2>1, <3>1, UnlockStep
  <2>3. run' = run
    BY <1>5 DEF kMutexUnlock, schedVars
  <2>4. CASE \A u \in Task : Undisturbed(u)
    BY <1>2, <2>1, <2>2, <2>3, <2>4, AnsweredCall
  <2>5. ASSUME NEW w \in Task, Released(w, m) PROVE OtherCall
    <3>1. Waits(w) /\ call[w].arg = m /\ Leaves(w)' /\ OnQueues(w)' = {} /\ OnQueues(w) = {m}
      BY <1>3, <2>5, ReleasedLeaves
    <3>2. w # run /\ call[w].number # "SEMAPHORE_PEND"
      BY <1>3, <3>1 DEF Waits, Works, AtLarge, Pends
    <3>3. Interrupted(w) /\ \A u \in Task \ {w} : Undisturbed(u)
      <4>1. KeepsName(w)
        BY <1>3, <2>5, <3>1, KernelConstants DEF KeepsName, Released, Waits, Sema
      <4> QED BY <2>5, <3>1, <3>2, <4>1 DEF Interrupted, Released
    <3>4. Works(run)' /\ wqp'[run] = wqp[run]
      <4>0. Undisturbed(run)
        BY <1>3, <3>2, <3>3
      <4>1. Undisturbed(run) /\ wqp'[run] = wqp[run]
        BY <4>0 DEF Undisturbed
      <4> QED BY <1>3, <2>3, <4>1 DEF Undisturbed, Works, AtLarge
    <3>5. Placed(run)' /\ Answered(run)' /\ OnQueues(run)' = {}
      BY <2>1, <2>3, <3>4 DEF Placed, Answered, Works, AtLarge
    <3>6. \E t \in Task : Interrupted(t) /\ \A u \in Task \ {run, t} : Undisturbed(u)
      BY <3>3
    <3> QED BY <2>1, <2>2, <2>3, <3>4, <3>5, <3>6 DEF OtherCall
  <2>6. CASE \E w \in Task : Released(w, m)
    <3> PICK w \in Task : Released(w, m)
      BY <2>6
    <3> QED BY <1>2, <2>5
  <2> QED BY <1>2, <2>2, <2>4, <2>6
<1> QED BY <1>1, <1>2, <1>4, <1>5

\* A signal that ends a wait.
LEMMA SignalCallIsOther ==
  ASSUME PendersInv, SignalCall
  PROVE  OtherCall /\ Executing
<1>1. PICK t \in MaySignal : kTaskSignalReady(t)
  BY DEF SignalCall
<1>2. Executing /\ t \in Task
  BY <1>1, MutexConstants DEF kTaskSignalReady, UserTask
<1>3. KernelFacts /\ run \in Task
  BY WorksFacts
<1>4. /\ KernelFacts' /\ \A u \in Task \ {t} : Undisturbed(u)
      /\ WakesOf(t) = {} /\ WakesOf(t)' = {[op |-> "signalReady", task |-> t]}
      /\ status[t] \in Interruptible /\ t # run
      /\ OnQueues(t)' = OnQueues(t) \ {wqp[t]}
      /\ \A u \in Task \ {run} : ret'[u] = ret[u]
      /\ UNCHANGED <<run, status, call, wqp, ttype>>
  BY <1>1, <1>2, <1>3, SignalledStep
<1>5. status[t] \notin Awake /\ OnQueues(t)' = {}
  <2>1. status[t] \notin Awake /\ (Waits(t) \/ Rests(t))
    BY <1>2, <1>4
    DEF PendersInv, PlaceInv, Placed, Works, AtLarge, Leaves, Interruptible, Awake
  <2> QED BY <1>4, <2>1 DEF Waits, Rests
<1>6. ret'[run].err # "RESTART" /\ ret'[run].number # "SEMAPHORE_PEND"
  <2>1. Returns("NONE", None, "SUCCESS")
    BY <1>1 DEF kTaskSignalReady
  <2> QED BY <2>1, ReturnsNothing
<1>7. "signalReady" \in WakeOps
  BY DEF WakeOps
<1> QED BY <1>2, <1>4, <1>5, <1>6, <1>7, InterruptedCall

(***************************************************************************)
(* The calls on semaphores.                                                *)
(***************************************************************************)
\* A pend that takes a token, or is refused one.
LEMMA PendAnswered ==
  ASSUME PendersInv, Executing, NEW s \in Sema, NEW timeout, PendTake(s) \/ PendNoWait(s, timeout)
  PROVE  /\ KernelFacts' /\ \A u \in Task : Undisturbed(u)
         /\ \A u \in Task \ {run} : ret'[u] = ret[u]
         /\ ret'[run].number = "SEMAPHORE_PEND" /\ ret'[run].arg = s
         /\ PendTake(s) => ret'[run].err = "SUCCESS"
         /\ PendNoWait(s, timeout) => ret'[run].err = "SEMA_BLOCKED"
         /\ ret'[run].err \in {"SUCCESS", "SEMA_BLOCKED"}
<1>1. KernelFacts /\ run \in Task /\ todo = <<>> /\ s \in WaitObj \cup {None}
  BY WorksFacts DEF WaitObj, Sema
<1>2. /\ UNCHANGED <<schedVars, waitVars, mutexVars, timeVars, call, todo>>
      /\ PendTake(s) => Returns("SEMAPHORE_PEND", s, "SUCCESS")
      /\ PendNoWait(s, timeout) => Returns("SEMAPHORE_PEND", s, "SEMA_BLOCKED")
  BY DEF PendTake, PendNoWait
<1>3. ret' \in [Task -> FrameResult]
  <2>1. "SEMAPHORE_PEND" \in ResultNumber /\ "SUCCESS" \in Err /\ "SEMA_BLOCKED" \in Err
    BY DEF ResultNumber, CallNumber, Err
  <2>2. PICK err \in Err : Returns("SEMAPHORE_PEND", s, err)
    BY <1>2, <2>1
  <2> QED BY <1>1, <2>1, <2>2, CallAnswered DEF KernelFacts
<1>4. KernelFacts' /\ \A u \in Task : Undisturbed(u)
  BY <1>1, <1>2, <1>3, StillStep
<1>5. ASSUME PendTake(s) PROVE ret'[run] = [number |-> "SEMAPHORE_PEND", arg |-> s, err |-> "SUCCESS"]
                               /\ \A u \in Task \ {run} : ret'[u] = ret[u]
  BY <1>2, <1>5, ReturnsCode
<1>6. ASSUME PendNoWait(s, timeout)
      PROVE  /\ ret'[run] = [number |-> "SEMAPHORE_PEND", arg |-> s, err |-> "SEMA_BLOCKED"]
             /\ \A u \in Task \ {run} : ret'[u] = ret[u]
  BY <1>2, <1>6, ReturnsCode
<1> QED BY <1>4, <1>5, <1>6

\* A pend that waits.
LEMMA PendBlocked ==
  ASSUME PendersInv, Executing, NEW s \in Sema, NEW timeout, PendBlock(s, timeout)
  PROVE  /\ KernelFacts' /\ run' = run
         /\ \A u \in Task \ {run} : Undisturbed(u) /\ ret'[u] = ret[u]
         /\ ret'[run].number = "SEMAPHORE_PEND" /\ ret'[run].arg = s /\ ret'[run].err = "RESTART"
         /\ Waits(run)' /\ Answered(run)' /\ OnQueues(run)' = {s}
         /\ WakesOf(run)' = {} /\ wqp'[run] = s
         /\ timeout # Forever => ttype'[run] = "BLOCKING"
<1> DEFINE c == [number |-> "SEMAPHORE_PEND", arg |-> s, phase |-> "WAIT", wake |-> "SUCCESS"]
<1>1. /\ KernelFacts /\ run \in UserTask /\ run \in Task /\ status[run] = "RUNNING"
      /\ AtLarge(run) /\ todo = <<>> /\ s \in WaitObj /\ s # None
  BY WorksFacts, KernelConstants DEF WaitObj, Sema
<1>2. /\ ArmTimeout(run, "BLOCKING", timeout)
      /\ wqp' = [wqp EXCEPT ![run] = s]
      /\ status' = [status EXCEPT ![run] = "BLOCKED"]
      /\ waitQ' = [waitQ EXCEPT ![s] = kTCBQEnqByPrio(@, run, prio)]
      /\ call' = [call EXCEPT ![run] = c]
      /\ Returns("SEMAPHORE_PEND", s, "RESTART")
      /\ kPendCtxSwtch("BLOCKED")
      /\ UNCHANGED <<run, prio, readyQ, schLock, savedLock, mutexVars, todo>>
  BY DEF PendBlock
<1>3. /\ "BLOCKED" \in Status \ Awake /\ "BLOCKING" \in TimeoutType /\ "RESTART" \in Err
      /\ "SEMAPHORE_PEND" \in ResultNumber
  BY DEF Status, Awake, TimeoutType, Err, ResultNumber, CallNumber
<1>4. c \in Suspension
  BY <1>1 DEF Suspension, CallNumber, CallPhase, Err
<1>5. /\ c.number = "SEMAPHORE_PEND" /\ c.arg = s /\ c.phase = "WAIT" /\ c.wake = "SUCCESS"
  OBVIOUS
<1> HIDE DEF c
<1>6. /\ ret' \in [Task -> FrameResult] /\ ret'[run].number = "SEMAPHORE_PEND"
      /\ ret'[run].arg = s /\ ret'[run].err = "RESTART"
      /\ \A u \in Task \ {run} : ret'[u] = ret[u]
  BY <1>1, <1>2, <1>3, CallAnswered DEF KernelFacts
<1>7. HolderInv' /\ WalkList(todo')
  BY <1>1, <1>2, HolderSame, WalkListKinds DEF KernelFacts
<1>8. IF s = None THEN waitQ' = waitQ
                  ELSE waitQ' = [waitQ EXCEPT ![s] = kTCBQEnqByPrio(@, run, prio)]
  BY <1>1, <1>2
<1>9. /\ KernelFacts' /\ \A u \in Task \ {run} : Undisturbed(u)
      /\ status'[run] = "BLOCKED" /\ call'[run] = c /\ WakesOf(run)' = {}
      /\ OnQueues(run)' = (IF s = None THEN {} ELSE {s})
      /\ Armed(run)' <=> timeout # Forever
      /\ Armed(run)' => ttype'[run] = "BLOCKING"
  <2>1. /\ KernelFacts /\ run \in UserTask /\ status[run] = "RUNNING" /\ todo = <<>>
        /\ AtLarge(run) /\ status' = [status EXCEPT ![run] = "BLOCKED"]
        /\ kPendCtxSwtch("BLOCKED") /\ call' = [call EXCEPT ![run] = c]
        /\ ret' \in [Task -> FrameResult] /\ ArmTimeout(run, "BLOCKING", timeout)
    BY <1>1, <1>2, <1>6
  <2>2. /\ wqp' = [wqp EXCEPT ![run] = s] /\ WalkList(todo') /\ HolderInv'
        /\ UNCHANGED <<run, prio, readyQ, schLock, savedLock>>
    BY <1>2, <1>7
  <2>3. s \in WaitObj \cup {None}
    BY <1>1
  <2> QED BY <1>3, <1>4, <1>8, <2>1, <2>2, <2>3, RunSuspends
<1>10. wqp'[run] = s /\ OnQueues(run)' = {s}
  BY <1>1, <1>2, <1>9 DEF KernelFacts, ListInv
<1>11. Waits(run)' /\ Answered(run)'
  BY <1>1, <1>2, <1>5, <1>6, <1>9, <1>10 DEF Waits, Pends, Answered
<1> QED BY <1>2, <1>6, <1>9, <1>10, <1>11

\* A post that wakes the head of the queue, by a task or by an interrupt.
LEMMA PostWoken ==
  ASSUME PendersInv, todo = <<>>, NEW s \in Sema, PostWake(s),
         UNCHANGED <<schedVars, mutexVars, call>>, ret' \in [Task -> FrameResult]
  PROVE  /\ KernelFacts' /\ run' = run
         /\ \E w \in Task : /\ Released(w, s) /\ Waits(w) /\ Leaves(w)'
                            /\ OnQueues(w) = {s} /\ OnQueues(w)' = {}
                            /\ call[w].arg = s /\ call'[w] = call[w]
                            /\ ReadySwtchOf(w) \in WakesOf(w)'
<1>1. KernelFacts /\ s \in WaitObj /\ waitQ[s] # <<>> /\ WakeHead(s)
  BY DEF PendersInv, WaitObj, Sema, PostWake
<1>2. UNCHANGED <<schedVars, lock, owner, mesgPrio, call>> /\ run' = run
  BY DEF mutexVars, schedVars
<1>3. KernelFacts' /\ \E w \in Task : Released(w, s)
  BY <1>1, <1>2, WakeHeadStep
<1>4. PICK w \in Task : Released(w, s)
  BY <1>3
<1>5. /\ Waits(w) /\ OnQueues(w) = {s} /\ call[w].arg = s
      /\ Leaves(w)' /\ OnQueues(w)' = {} /\ ReadySwtchOf(w) \in WakesOf(w)'
  BY <1>1, <1>4, ReleasedLeaves
<1> QED BY <1>2, <1>3, <1>4, <1>5 DEF Released

\* A post that wakes nobody.
LEMMA PostUnheard ==
  ASSUME PendersInv, todo = <<>>, NEW s \in Sema, PostCount(s) \/ PostFull(s),
         UNCHANGED <<schedVars, mutexVars, call>>, ret' \in [Task -> FrameResult]
  PROVE  KernelFacts' /\ run' = run /\ \A u \in Task : Undisturbed(u)
<1>1. UNCHANGED <<waitVars, timeVars, todo>> /\ run' = run
  BY DEF PostCount, PostFull, AddToken, schedVars
<1> QED BY <1>1, StillStep DEF PendersInv

\* What a post leaves in the frame of the task that makes it.
LEMMA PostAnswers ==
  ASSUME PendersInv, NEW s \in Sema, kSemaphorePost(s)
  PROVE  /\ Executing /\ todo = <<>> /\ ret' \in [Task -> FrameResult]
         /\ ret'[run].number = "SEMAPHORE_POST" /\ ret'[run].err # "RESTART"
         /\ \A u \in Task \ {run} : ret'[u] = ret[u]
         /\ UNCHANGED <<schedVars, mutexVars, call>>
         /\ PostWake(s) \/ PostCount(s) \/ PostFull(s)
<1>1. /\ Executing /\ UNCHANGED <<schedVars, mutexVars, call>>
      /\ PostWake(s) \/ PostCount(s) \/ PostFull(s)
      /\ Returns("SEMAPHORE_POST", s, "SUCCESS") \/ Returns("SEMAPHORE_POST", s, "SEMA_FULL")
  BY DEF kSemaphorePost
<1>2. KernelFacts /\ run \in Task /\ todo = <<>> /\ s \in WaitObj \cup {None}
  BY <1>1, WorksFacts DEF WaitObj, Sema
<1>3. "SEMAPHORE_POST" \in ResultNumber /\ "SUCCESS" \in Err /\ "SEMA_FULL" \in Err
  BY DEF ResultNumber, Err
<1>4. PICK err \in {"SUCCESS", "SEMA_FULL"} : Returns("SEMAPHORE_POST", s, err) /\ err \in Err
  BY <1>1, <1>3
<1>5. ret'[run] = [number |-> "SEMAPHORE_POST", arg |-> s, err |-> err]
      /\ \A u \in Task \ {run} : ret'[u] = ret[u]
  BY <1>4, ReturnsCode
<1>6. ret' \in [Task -> FrameResult]
  BY <1>2, <1>3, <1>4, CallAnswered DEF KernelFacts
<1> QED BY <1>1, <1>2, <1>4, <1>5, <1>6

\* Calls on semaphores, by tasks and by interrupts.
LEMMA SemaCallKeeps ==
  ASSUME PendersInv, SemaCall
  PROVE  PendersInv'
<1>1. PICK s \in Sema : \/ \E timeout \in PendTimeout : kSemaphorePend(s, timeout)
                        \/ kSemaphorePost(s) \/ IsrPost(s)
  BY DEF SemaCall
<1>2. ASSUME NEW timeout, kSemaphorePend(s, timeout) PROVE PendersInv'
  <2>1. Executing /\ run \in UserTask /\ run \in Task /\ Works(run)
    BY <1>2, WorksFacts DEF kSemaphorePend
  <2>2. CASE PendTake(s) \/ PendNoWait(s, timeout)
    <3>1. /\ KernelFacts' /\ \A u \in Task : Undisturbed(u)
          /\ \A u \in Task \ {run} : ret'[u] = ret[u]
          /\ ret'[run].arg = s /\ ret'[run].err \in {"SUCCESS", "SEMA_BLOCKED"}
      BY <2>1, <2>2, PendAnswered
    <3> QED BY <2>1, <3>1, AnsweredAtOnce
  <2>3. CASE PendBlock(s, timeout)
    <3>1. /\ KernelFacts' /\ \A u \in Task \ {run} : Undisturbed(u) /\ ret'[u] = ret[u]
          /\ ret'[run].arg = s /\ Placed(run)' /\ Answered(run)'
      BY <2>1, <2>3, PendBlocked DEF Placed
    <3>2. run' = run
      BY <2>3 DEF PendBlock
    <3>3. PICK r \in Task : r = run
      BY <2>1
    <3>4. Placed(r)' /\ Answered(r)'
      BY <3>1, <3>2, <3>3
    <3> QED BY <2>1, <3>1, <3>3, <3>4, OthersKept
  <2> QED BY <1>2, <2>2, <2>3 DEF kSemaphorePend
<1>3. CASE kSemaphorePost(s)
  <2>1. /\ Executing /\ todo = <<>> /\ ret' \in [Task -> FrameResult]
        /\ ret'[run].number = "SEMAPHORE_POST" /\ ret'[run].err # "RESTART"
        /\ \A u \in Task \ {run} : ret'[u] = ret[u]
        /\ UNCHANGED <<schedVars, mutexVars, call>>
        /\ PostWake(s) \/ PostCount(s) \/ PostFull(s)
    BY <1>3, PostAnswers
  <2>2. run \in UserTask /\ run \in Task /\ Works(run)
    BY <2>1, WorksFacts
  <2>3. CASE PostWake(s)
    <3>1. KernelFacts' /\ run' = run
      BY <2>1, <2>3, PostWoken
    <3>2. PICK w \in Task : /\ Released(w, s) /\ Waits(w) /\ Leaves(w)'
                            /\ OnQueues(w)' = {} /\ call'[w] = call[w] /\ call[w].arg = s
      BY <2>1, <2>3, PostWoken
    <3>3. w # run /\ Undisturbed(run) /\ \A u \in Task \ {w} : Undisturbed(u)
      BY <2>2, <3>2 DEF Waits, Works, AtLarge, Released, Awake
    <3>4. ASSUME NEW u \in Task PROVE Placed(u)' /\ Answered(u)'
      <4>1. CASE u = run
        <5>1. Works(u)'
          BY <2>2, <3>3, <4>1 DEF Undisturbed, Works, AtLarge
        <5> QED BY <2>1, <4>1, <5>1 DEF Placed, Answered, Works
      <4>2. CASE u = w
        BY <2>1, <3>2, <3>3, <4>2 DEF Placed, Answered, PendersInv, PlaceInv
      <4>3. CASE u \notin {run, w}
        BY <2>1, <3>3, <4>3, PlaceKept DEF PendersInv, PlaceInv
      <4> QED BY <4>1, <4>2, <4>3
    <3>5. PendInv'
      BY <2>1 DEF PendersInv, PendInv
    <3> QED BY <3>1, <3>4, <3>5 DEF PendersInv, PlaceInv
  <2>4. CASE PostCount(s) \/ PostFull(s)
    <3>1. KernelFacts' /\ \A u \in Task : Undisturbed(u)
      BY <2>1, <2>4, PostUnheard
    <3> QED BY <2>1, <2>2, <3>1, AnsweredAtOnce
  <2> QED BY <2>1, <2>3, <2>4
<1>4. CASE IsrPost(s)
  <2>1. /\ todo = <<>> /\ UNCHANGED <<schedVars, mutexVars, call>> /\ UNCHANGED ret
        /\ ret' \in [Task -> FrameResult] /\ (PostWake(s) \/ PostCount(s))
    BY <1>4 DEF IsrPost, callVars, PendersInv, KernelFacts, ContinuationInv
  <2>2. CASE PostWake(s)
    <3>1. KernelFacts'
      BY <2>1, <2>2, PostWoken
    <3>2. PICK w \in Task : Released(w, s) /\ Leaves(w)' /\ call'[w] = call[w]
      BY <2>1, <2>2, PostWoken
    <3>3. Placed(w)' /\ Answered(w)' /\ \A u \in Task \ {w} : Undisturbed(u)
      BY <2>1, <3>2 DEF Placed, Answered, Released, PendersInv, PlaceInv
    <3>4. ret'[w].number = "SEMAPHORE_PEND" => w \in UserTask /\ ret'[w].arg \in Sema
      BY <2>1 DEF PendersInv, PendInv
    <3> QED BY <2>1, <3>1, <3>3, <3>4, OthersKept
  <2>3. CASE PostCount(s)
    <3>1. KernelFacts' /\ \A u \in Task : Undisturbed(u)
      BY <2>1, <2>3, PostUnheard
    <3> QED BY <2>1, <3>1, AllKept
  <2> QED BY <2>1, <2>2, <2>3
<1> QED BY <1>1, <1>2, <1>3, <1>4

(***************************************************************************)
(* The theorems about the places.                                          *)
(***************************************************************************)
\* Every step keeps every task at its place, unless it is a stale walk.
LEMMA PendersStep ==
  ASSUME ~YieldWhenLocked, PendersInv, ~WalksStale, [SemaNext]_semaVars
  PROVE  PendersInv'
<1>1. CASE KernelStep \/ Tick
  BY <1>1, KernelKeeps
<1>2. CASE SchedCall \/ MutexCall \/ SignalCall
  BY <1>2, SchedCallIsOther, MutexCallIsOther, SignalCallIsOther, OtherCallKeeps
<1>3. CASE SemaCall
  BY <1>3, SemaCallKeeps
<1>4. CASE UNCHANGED semaVars
  <2>1. /\ UNCHANGED <<run, status, prio, readyQ, schLock, savedLock, pendSV, waitQ, wqp>>
        /\ UNCHANGED <<lock, owner, mesgPrio, tmo, ttype, call, ret, todo>>
    BY <1>4 DEF semaVars, kernelVars, schedVars, waitVars, mutexVars, timeVars, callVars
  <2>2. KernelFacts'
    <3>1. DispatchInv' /\ ListInv' /\ ContinuationInv' /\ HolderInv'
      BY <2>1 DEF PendersInv, KernelFacts, DispatchInv, ListInv, ContinuationInv, HolderInv
    <3>2. PendingInv' /\ LockInv'
      BY <2>1 DEF PendersInv, KernelFacts, PendingInv, OneWake, LockInv
    <3> QED BY <3>1, <3>2 DEF KernelFacts
  <2>3. \A t \in Task : Undisturbed(t) /\ ret'[t] = ret[t]
    BY <2>1 DEF Undisturbed, OnQueues, Armed, WakesOf
  <2> QED BY <2>2, <2>3, AllKept
<1> QED BY <1>1, <1>2, <1>3, <1>4 DEF SemaNext, Next

\* In the initial states every task is at its place.
LEMMA PendersStart ==
  ASSUME SemaInit
  PROVE  PendersInv
<1>1. /\ KernelFacts
      /\ \A t \in Task : /\ OnQueues(t) = {} /\ ~Armed(t) /\ WakesOf(t) = {}
                         /\ call[t] = NoCall /\ ret[t] = NoRet
                         /\ (status[t] = "SLEEPING_EV_FLAG" \/ status[t] \in Awake)
  BY InitKernelFacts DEF SemaInit
<1>2. \A t \in Task : Placed(t) /\ Answered(t)
  BY <1>1 DEF Placed, Works, AtLarge, Rests, Answered, NoCall, NoRet
<1> QED BY <1>1, <1>2 DEF PendersInv, PlaceInv, PendInv, NoRet

\* As long as no walk of inheritance reaches a stale task, every task is at
\* work, or where its call says it waits, or on its way from there.
THEOREM PlacesKept ==
  ASSUME ~YieldWhenLocked
  PROVE  SemaSpec /\ []~WalksStale => []PendersInv
<1>1. SemaInit => PendersInv
  BY PendersStart
<1>2. PendersInv /\ ~WalksStale /\ [SemaNext]_semaVars => PendersInv'
  BY PendersStep
<1> QED BY <1>1, <1>2, PTL DEF SemaSpec

\* Tasks at their places are found where they are looked for.
LEMMA PlacesReachable ==
  ASSUME PendersInv
  PROVE  EveryTaskReachable
<1> SUFFICES ASSUME Quiet, NEW t \in Task
             PROVE  /\ status[t] = "READY" => LinkedOn(t) = {prio[t]}
                    /\ status[t] = "BLOCKED" => LinkedOn(t) = {call[t].arg} /\ wqp[t] = call[t].arg
  BY DEF EveryTaskReachable
<1>1. KernelFacts /\ Placed(t) /\ DispatchInv
  BY DEF PendersInv, PlaceInv, KernelFacts
<1>2. WakesOf(t) = {}
  BY NobodyWoken DEF Quiet
<1>3. LinkedOn(t) = {p \in Prio : t \in ToSet(readyQ[p])} \cup OnQueues(t)
  BY DEF LinkedOn, OnQueues
<1>4. {p \in Prio : t \in ToSet(readyQ[p])} = IF status[t] = "READY" THEN {prio[t]} ELSE {}
  BY <1>1 DEF DispatchInv
<1>5. status[t] = "READY" => OnQueues(t) = {}
  BY <1>1 DEF Placed, Works, AtLarge, Waits, Rests, Leaves, Awake
<1>6. status[t] = "BLOCKED" => OnQueues(t) = {call[t].arg} /\ wqp[t] = call[t].arg
  BY <1>1, <1>2 DEF Placed, Works, AtLarge, Waits, Rests, Leaves, Awake
<1> QED BY <1>3, <1>4, <1>5, <1>6

(***************************************************************************)
(* Which nodes name the queues of semaphores.                              *)
(***************************************************************************)
\* A node of which nothing changes but that the wait ends still fits its task.
LEMMA NameKept ==
  ASSUME NEW t \in Task, Named(t), KeepsName(t)
  PROVE  Named(t)'
BY DEF Named, KeepsName

\* So does the node of a task nothing happens to.
LEMMA NameUndisturbed ==
  ASSUME NEW t \in Task, Named(t), Undisturbed(t)
  PROVE  Named(t)'
<1>1. /\ wqp'[t] = wqp[t] /\ ttype'[t] = ttype[t] /\ WakesOf(t)' = WakesOf(t)
      /\ status[t] = "BLOCKED" => status'[t] = "BLOCKED"
  BY DEF Undisturbed, Awake
<1> QED BY <1>1 DEF Named

\* Where no node names a semaphore wrongly, no walk of inheritance is stale.
LEMMA NamedFresh ==
  ASSUME NamedInv, PendersInv
  PROVE  ~WalksStale
<1> SUFFICES ASSUME WalksStale PROVE FALSE
  OBVIOUS
<1>1. PICK t : t = Head(todo).task
  OBVIOUS
<1>2. todo # <<>> /\ Head(todo) \in KernelCall /\ Head(todo).op = "updatePrio"
  BY HeadGone DEF WalksStale, PendersInv, KernelFacts
<1>3. t \in Task
  BY <1>1, <1>2 DEF KernelCall
<1>4. status[t] = "READY" /\ wqp[t] \in Sema
  BY <1>1 DEF WalksStale, StaleWait, Sema
<1> QED BY <1>3, <1>4 DEF NamedInv, Named

\* A step of the kernel: an expiry leaves the node as it is, a wake-up resets it
\* unless the waker did.
LEMMA NamedKernelStep ==
  ASSUME NamedInv, PendersInv, KernelStep \/ Tick
  PROVE  NamedInv'
<1>1. CASE UpdatePrio \/ Tick \/ TickEnd \/ kSwtch
  BY <1>1, NamedFresh, QuietKernelStep, NameUndisturbed DEF NamedInv
<1>2. CASE ReadySwtch \/ TimeoutReady \/ SignalReady
  <2> DEFINE woken == Head(todo).op = "ready"
  <2>1. PICK t \in Task : AwokenBy(t, woken)
    BY <1>2, Awoken
  <2> HIDE DEF woken
  <2>2. wqp'[t] \notin Sema
    BY <2>1, KernelConstants DEF AwokenBy, NamedInv, Named, Sema
  <2>3. ASSUME NEW u \in Task PROVE Named(u)'
    <3>1. CASE u = t
      BY <2>2, <3>1 DEF Named
    <3>2. CASE u # t
      BY <2>1, <3>2, NameUndisturbed DEF AwokenBy, NamedInv
    <3> QED BY <3>1, <3>2
  <2> QED BY <2>3 DEF NamedInv
<1>3. CASE TimeoutExpire
  <2>1. PICK t \in Task : /\ ReadySwtchOf(t) \notin WakesOf(t)'
                          /\ \A u \in Task \ {t} : Undisturbed(u)
    BY <1>3, Expired
  <2>2. UNCHANGED <<status, wqp, ttype>>
    BY <1>3, Expired
  <2>3. KeepsName(t)
    BY <2>1, <2>2 DEF KeepsName
  <2>4. ASSUME NEW u \in Task PROVE Named(u)'
    <3>1. CASE u = t
      BY <2>3, <3>1, NameKept DEF NamedInv
    <3>2. CASE u # t
      BY <2>1, <3>2, NameUndisturbed DEF NamedInv
    <3> QED BY <3>1, <3>2
  <2> QED BY <2>4 DEF NamedInv
<1> QED BY <1>1, <1>2, <1>3 DEF KernelStep

\* A call that is about no semaphore.
LEMMA NamedOtherCall ==
  ASSUME NamedInv, PendersInv, OtherCall, Executing
  PROVE  NamedInv'
<1>1. run \in Task /\ status[run] \in Awake /\ run' = run
  BY WorksFacts DEF OtherCall, Awake
<1>2. wqp[run] \notin Sema
  BY <1>1 DEF NamedInv, Named, Awake
<1>3. wqp'[run] \notin Sema
  BY <1>2, KernelConstants DEF OtherCall, Sema
<1>4. ASSUME NEW u \in Task PROVE Named(u)'
  <2>1. CASE u = run
    BY <1>3, <2>1 DEF Named
  <2>2. CASE u # run /\ Undisturbed(u)
    BY <2>2, NameUndisturbed DEF NamedInv
  <2>3. CASE u # run /\ Interrupted(u)
    BY <2>3, NameKept DEF NamedInv, Interrupted
  <2> QED BY <2>1, <2>2, <2>3 DEF OtherCall
<1> QED BY <1>4 DEF NamedInv

\* A call on a semaphore: without pends for ever a waiter's node is armed, and
\* the post that releases it resets the node.
LEMMA NamedSemaCall ==
  ASSUME Forever \notin PendTimeout, NamedInv, PendersInv, SemaCall
  PROVE  NamedInv'
<1>1. PICK s \in Sema : \/ \E timeout \in PendTimeout : kSemaphorePend(s, timeout)
                        \/ kSemaphorePost(s) \/ IsrPost(s)
  BY DEF SemaCall
<1>2. ASSUME NEW timeout \in PendTimeout, kSemaphorePend(s, timeout) PROVE NamedInv'
  <2>1. Executing /\ run \in Task /\ timeout # Forever
    BY <1>2, WorksFacts DEF kSemaphorePend
  <2>2. CASE PendTake(s) \/ PendNoWait(s, timeout)
    BY <2>1, <2>2, PendAnswered, NameUndisturbed DEF NamedInv
  <2>3. CASE PendBlock(s, timeout)
    <3>1. /\ \A u \in Task \ {run} : Undisturbed(u)
          /\ Waits(run)' /\ WakesOf(run)' = {} /\ ttype'[run] = "BLOCKING" /\ run' = run
      BY <2>1, <2>3, PendBlocked
    <3>2. ASSUME NEW u \in Task PROVE Named(u)'
      <4>1. CASE u = run
        BY <3>1, <4>1 DEF Named, Waits
      <4>2. CASE u # run
        BY <3>1, <4>2, NameUndisturbed DEF NamedInv
      <4> QED BY <4>1, <4>2
    <3> QED BY <3>2 DEF NamedInv
  <2> QED BY <1>2, <2>2, <2>3 DEF kSemaphorePend
<1>3. CASE kSemaphorePost(s) \/ IsrPost(s)
  <2>1. /\ todo = <<>> /\ ret' \in [Task -> FrameResult] /\ UNCHANGED <<schedVars, mutexVars, call>>
        /\ PostWake(s) \/ PostCount(s) \/ PostFull(s)
    <3>1. CASE kSemaphorePost(s)
      BY <3>1, PostAnswers
    <3>2. CASE IsrPost(s)
      BY <3>2 DEF IsrPost, callVars, PendersInv, KernelFacts, ContinuationInv
    <3> QED BY <1>3, <3>1, <3>2
  <2>2. CASE PostWake(s)
    <3>1. PICK w \in Task : Released(w, s) /\ Waits(w) /\ call[w].arg = s
      BY <2>1, <2>2, PostWoken
    <3>2. wqp[w] = s /\ ttype[w] = "BLOCKING"
      BY <3>1 DEF Waits, NamedInv, Named
    <3>3. wqp'[w] \notin Sema
      BY <3>1, <3>2, KernelConstants DEF Released, Sema
    <3>4. ASSUME NEW u \in Task PROVE Named(u)'
      <4>1. CASE u = w
        BY <3>3, <4>1 DEF Named
      <4>2. CASE u # w
        BY <3>1, <4>2, NameUndisturbed DEF NamedInv, Released
      <4> QED BY <4>1, <4>2
    <3> QED BY <3>4 DEF NamedInv
  <2>3. CASE PostCount(s) \/ PostFull(s)
    BY <2>1, <2>3, PostUnheard, NameUndisturbed DEF NamedInv
  <2> QED BY <2>1, <2>2, <2>3
<1> QED BY <1>1, <1>2, <1>3

\* Without pends for ever no walk of inheritance is ever stale.
THEOREM NoStaleWalks ==
  ASSUME ~YieldWhenLocked, Forever \notin PendTimeout
  PROVE  SemaSpec => []~WalksStale
<1>1. SemaInit => PendersInv /\ NamedInv
  <2> SUFFICES ASSUME SemaInit PROVE NamedInv
    BY PendersStart
  <2>1. \A t \in Task : wqp[t] = None
    BY DEF SemaInit, Init, KernelInit
  <2> QED BY <2>1, KernelConstants DEF NamedInv, Named, Sema
<1>2. PendersInv /\ NamedInv /\ [SemaNext]_semaVars => PendersInv' /\ NamedInv'
  <2> SUFFICES ASSUME PendersInv, NamedInv, [SemaNext]_semaVars PROVE PendersInv' /\ NamedInv'
    OBVIOUS
  <2>1. PendersInv'
    BY NamedFresh, PendersStep
  <2>2. CASE KernelStep \/ Tick
    BY <2>1, <2>2, NamedKernelStep
  <2>3. CASE SchedCall \/ MutexCall \/ SignalCall
    BY <2>1, <2>3, SchedCallIsOther, MutexCallIsOther, SignalCallIsOther, NamedOtherCall
  <2>4. CASE SemaCall
    BY <2>1, <2>4, NamedSemaCall
  <2>5. CASE UNCHANGED semaVars
    <3>1. UNCHANGED <<wqp, ttype, status, todo>>
      BY <2>5 DEF semaVars, kernelVars, schedVars, waitVars, timeVars, callVars
    <3> QED BY <2>1, <3>1 DEF NamedInv, Named, WakesOf
  <2> QED BY <2>2, <2>3, <2>4, <2>5 DEF SemaNext, Next
<1>3. PendersInv /\ NamedInv => ~WalksStale
  BY NamedFresh
<1> QED BY <1>1, <1>2, <1>3, PTL DEF SemaSpec

(***************************************************************************)
(* Every task is found where it is looked for.                             *)
(***************************************************************************)
\* Between two kernel regions a READY task is in its ready queue and nowhere
\* else, and a BLOCKED one on the queue its call names: unless a walk of
\* inheritance (kTaskRequeueWaiterByPrio_) moves a task whose wait is over.
THEOREM TasksAreReachable ==
  ASSUME ~YieldWhenLocked
  PROVE  SemaSpec /\ []~WalksStale => []EveryTaskReachable
<1>1. PendersInv => EveryTaskReachable
  BY PlacesReachable
<1> QED BY <1>1, PlacesKept, PTL

\* Which cannot happen where nobody pends for ever.
THEOREM TimedTasksAreReachable ==
  ASSUME ~YieldWhenLocked, Forever \notin PendTimeout
  PROVE  SemaSpec => []EveryTaskReachable
BY NoStaleWalks, TasksAreReachable, PTL

(***************************************************************************)
(* Tokens are conserved: the outcome of a pend depends on the frame of its *)
(* task, on the queues it is on and on whether a post has woken it.        *)
(***************************************************************************)
CameTo(frame, queues, woken) ==
  IF frame.number # "SEMAPHORE_PEND" THEN "NONE"
  ELSE IF frame.err = "SUCCESS" THEN "GRANTED"
  ELSE IF frame.err # "RESTART" THEN "FAILED"
  ELSE IF frame.arg \in queues THEN "WAITING"
  ELSE IF woken THEN "GRANTED" ELSE "FAILED"

\* One step of the abstract semaphores, or none.
TokenStep == [Tokens!Next]_(Tokens!absVars)

\* The queues and the tokens are those of before.
SameWaiters == \A s \in Sema : ToSet(waitQ'[s]) = ToSet(waitQ[s])

\* The pend of t comes to `result`; p goes on.
Settles(t, result, p) ==
  \A u \in Task : PendOutcome(u)' = IF u = t THEN result
                                    ELSE IF u = p /\ PendOutcome(p) \in Tokens!Ended THEN "NONE"
                                    ELSE PendOutcome(u)

\* What the outcome of a pend depends on, before and after a step.
LEMMA OutcomeIs ==
  ASSUME PendInv, PendInv', NEW t \in Task
  PROVE  /\ PendOutcome(t) = CameTo(ret[t], OnQueues(t), ReadySwtchOf(t) \in WakesOf(t))
         /\ PendOutcome(t)' = CameTo(ret'[t], OnQueues(t)', ReadySwtchOf(t) \in WakesOf(t)')
<1>1. /\ ReadySwtchOf(t) \in WakesOf(t) <=> ReadySwtchOf(t) \in ToSet(todo)
      /\ ReadySwtchOf(t) \in WakesOf(t)' <=> ReadySwtchOf(t) \in ToSet(todo')
  BY DEF WakesOf, ReadySwtchOf, WakeOps
<1>2. /\ ret[t].number = "SEMAPHORE_PEND" =>
           (ret[t].arg \in OnQueues(t) <=> t \in ToSet(waitQ[ret[t].arg]))
      /\ ret'[t].number = "SEMAPHORE_PEND" =>
           (ret'[t].arg \in OnQueues(t)' <=> t \in ToSet(waitQ'[ret'[t].arg]))
  BY DEF PendInv, OnQueues, WaitObj, Sema
<1>3. PendOutcome(t) = CameTo(ret[t], OnQueues(t), ReadySwtchOf(t) \in WakesOf(t))
  BY <1>1, <1>2 DEF PendOutcome, CameTo
<1>4. PendOutcome(t)' = CameTo(ret'[t], OnQueues(t)', ReadySwtchOf(t) \in WakesOf(t)')
  BY <1>1, <1>2 DEF PendOutcome, CameTo
<1> QED BY <1>3, <1>4

\* A task nothing happens to keeps its outcome.
LEMMA OutcomeKept ==
  ASSUME PendInv, PendInv', NEW t \in Task, ret'[t] = ret[t],
         \/ OnQueues(t)' = OnQueues(t) /\ WakesOf(t)' = WakesOf(t)
         \/ ret[t].number # "SEMAPHORE_PEND"
         \/ ret[t].err # "RESTART"
  PROVE  PendOutcome(t)' = PendOutcome(t)
BY OutcomeIs DEF CameTo

\* Who waits on which semaphore follows from the queues each task is on.
LEMMA WaitersKept ==
  ASSUME KernelFacts, KernelFacts',
         \A t \in Task : OnQueues(t)' \cap Sema = OnQueues(t) \cap Sema
  PROVE  SameWaiters
<1> SUFFICES ASSUME NEW s \in Sema PROVE ToSet(waitQ'[s]) = ToSet(waitQ[s])
  BY DEF SameWaiters
<1>1. s \in WaitObj /\ waitQ[s] \in Seq(Task) /\ waitQ'[s] \in Seq(Task)
  BY DEF KernelFacts, ListInv, WaitObj, Sema
<1>2. ToSet(waitQ[s]) \subseteq Task /\ ToSet(waitQ'[s]) \subseteq Task
  BY <1>1 DEF ToSet
<1>3. \A t \in Task : t \in ToSet(waitQ'[s]) <=> t \in ToSet(waitQ[s])
  BY <1>1 DEF OnQueues
<1> QED BY <1>2, <1>3

\* One task leaves the queue of a semaphore, or joins it.
LEMMA WaitersChange ==
  ASSUME KernelFacts, KernelFacts', NEW w \in Task, NEW s \in Sema,
         \A t \in Task \ {w} : OnQueues(t)' \cap Sema = OnQueues(t) \cap Sema,
         \/ OnQueues(w) \cap Sema = {s} /\ OnQueues(w)' \cap Sema = {}
         \/ OnQueues(w) \cap Sema = {} /\ OnQueues(w)' \cap Sema = {s}
  PROVE  /\ \A o \in Sema \ {s} : ToSet(waitQ'[o]) = ToSet(waitQ[o])
         /\ w \in ToSet(waitQ[s]) => ToSet(waitQ'[s]) = ToSet(waitQ[s]) \ {w}
         /\ w \notin ToSet(waitQ[s]) => ToSet(waitQ'[s]) = ToSet(waitQ[s]) \cup {w}
         /\ w \in ToSet(waitQ[s]) <=> s \in OnQueues(w)
<1>1. \A o \in Sema : o \in WaitObj /\ waitQ[o] \in Seq(Task) /\ waitQ'[o] \in Seq(Task)
  BY DEF KernelFacts, ListInv, WaitObj, Sema
<1>2. \A o \in Sema : ToSet(waitQ[o]) \subseteq Task /\ ToSet(waitQ'[o]) \subseteq Task
  BY <1>1 DEF ToSet
<1>3. \A o \in Sema, t \in Task : /\ o \in OnQueues(t) <=> t \in ToSet(waitQ[o])
                                  /\ o \in OnQueues(t)' <=> t \in ToSet(waitQ'[o])
  BY <1>1 DEF OnQueues
<1>4. \A o \in Sema, t \in Task \ {w} : t \in ToSet(waitQ'[o]) <=> t \in ToSet(waitQ[o])
  BY <1>3
<1>5. \A o \in Sema \ {s} : w \in ToSet(waitQ'[o]) <=> w \in ToSet(waitQ[o])
  BY <1>3
<1>6. ASSUME NEW o \in Sema \ {s} PROVE ToSet(waitQ'[o]) = ToSet(waitQ[o])
  <2>1. \A t \in Task : t \in ToSet(waitQ'[o]) <=> t \in ToSet(waitQ[o])
    BY <1>4, <1>5
  <2> QED BY <1>2, <2>1
<1>7. w \in ToSet(waitQ'[s]) <=> w \notin ToSet(waitQ[s])
  BY <1>3
<1>8. w \in ToSet(waitQ[s]) => ToSet(waitQ'[s]) = ToSet(waitQ[s]) \ {w}
  BY <1>2, <1>4, <1>7
<1>9. w \notin ToSet(waitQ[s]) => ToSet(waitQ'[s]) = ToSet(waitQ[s]) \cup {w}
  BY <1>2, <1>4, <1>7
<1> QED BY <1>3, <1>6, <1>8, <1>9

\* Where a pend that has not been answered stands.
LEMMA PendStands ==
  ASSUME PendersInv, NEW t \in Task
  PROVE  /\ \A s \in Sema : s \in OnQueues(t) =>
              /\ OnQueues(t) = {s} /\ WakesOf(t) = {} /\ status[t] \notin Awake
              /\ ret[t].number = "SEMAPHORE_PEND" /\ ret[t].arg = s /\ ret[t].err = "RESTART"
              /\ call[t].number = "SEMAPHORE_PEND"
         /\ OnQueues(t) \cap Sema = {} /\ WakesOf(t) = {} =>
              ret[t].number # "SEMAPHORE_PEND" \/ ret[t].err # "RESTART"
<1>1. Placed(t) /\ Answered(t)
  BY DEF PendersInv, PlaceInv
<1>2. ASSUME NEW s \in Sema, s \in OnQueues(t)
      PROVE  /\ OnQueues(t) = {s} /\ WakesOf(t) = {} /\ status[t] \notin Awake
             /\ call[t].number = "SEMAPHORE_PEND" /\ call[t].arg = s
  <2>1. Waits(t)
    BY <1>1, <1>2 DEF Placed, Works, AtLarge, Rests, Leaves
  <2>2. call[t].arg = s
    BY <1>2, <2>1 DEF Waits
  <2>3. s \notin Mutex
    BY KernelConstants DEF Sema
  <2> QED BY <2>1, <2>2, <2>3 DEF Waits, Pends, Awake
<1>3. ASSUME NEW s \in Sema, s \in OnQueues(t)
      PROVE  ret[t].number = "SEMAPHORE_PEND" /\ ret[t].arg = s /\ ret[t].err = "RESTART"
  BY <1>1, <1>2, <1>3 DEF Answered
<1>4. ASSUME OnQueues(t) \cap Sema = {}, WakesOf(t) = {}, ret[t].number = "SEMAPHORE_PEND",
             ret[t].err = "RESTART"
      PROVE  FALSE
  <2>1. call[t].number = "SEMAPHORE_PEND"
    BY <1>1, <1>4 DEF Answered
  <2>2. Waits(t)
    BY <1>1, <1>4, <2>1 DEF Placed, Works, Rests, Leaves
  <2>3. Pends(t, call[t].arg) /\ OnQueues(t) = {call[t].arg}
    BY <2>1, <2>2 DEF Waits
  <2> QED BY <1>4, <2>3 DEF Pends
<1> QED BY <1>2, <1>3, <1>4

\* Nothing happens to the tokens.
LEMMA TokenStutter ==
  ASSUME UNCHANGED value, SameWaiters, \A t \in Task : PendOutcome(t)' = PendOutcome(t)
  PROVE  TokenStep
BY DEF TokenStep, Tokens!absVars, SameWaiters

\* The outcomes of pends are those that the abstract semaphores know.
LEMMA OutcomeKinds ==
  ASSUME NEW t
  PROVE  PendOutcome(t) \in {"NONE", "WAITING"} \cup Tokens!Ended
BY DEF PendOutcome, Tokens!Ended

\* A task goes on with something else.
LEMMA TokenGoOn ==
  ASSUME UNCHANGED value, SameWaiters, NEW p \in Task,
         PendOutcome(p) # "WAITING", PendOutcome(p)' = "NONE",
         \A t \in Task \ {p} : PendOutcome(t)' = PendOutcome(t)
  PROVE  TokenStep
<1>1. CASE PendOutcome(p) \in Tokens!Ended
  <2>1. Tokens!GoOn(p)
    BY <1>1 DEF Tokens!GoOn, SameWaiters
  <2> QED BY <2>1 DEF TokenStep, Tokens!Next
<1>2. CASE PendOutcome(p) \notin Tokens!Ended
  <2>1. PendOutcome(p) = "NONE"
    BY <1>2, OutcomeKinds
  <2> QED BY <2>1, TokenStutter
<1> QED BY <1>1, <1>2

\* A pend finds a token.
LEMMA TokenTake ==
  ASSUME NEW t \in Task, NEW s \in Sema, \A o \in Sema : t \notin ToSet(waitQ[o]),
         value[s] > 0, value = [o \in Sema |-> value[o]],
         value' = [value EXCEPT ![s] = @ - 1], SameWaiters, Settles(t, "GRANTED", t)
  PROVE  TokenStep
<1>1. Tokens!WaitsNowhere(t) /\ Tokens!Outcome(t, "GRANTED", t)
  BY DEF Tokens!WaitsNowhere, Tokens!Outcome, Settles
<1>2. Tokens!Take(t, s)
  BY <1>1 DEF Tokens!Take, SameWaiters
<1> QED BY <1>2 DEF TokenStep, Tokens!Next

\* A pend finds no token and does not wait.
LEMMA TokenRefuse ==
  ASSUME NEW t \in Task, NEW s \in Sema, \A o \in Sema : t \notin ToSet(waitQ[o]),
         value[s] = 0, UNCHANGED value, SameWaiters, Settles(t, "FAILED", t)
  PROVE  TokenStep
<1>1. Tokens!WaitsNowhere(t) /\ Tokens!Outcome(t, "FAILED", t)
  BY DEF Tokens!WaitsNowhere, Tokens!Outcome, Settles
<1>2. Tokens!Refuse(t, s)
  BY <1>1 DEF Tokens!Refuse, SameWaiters
<1> QED BY <1>2 DEF TokenStep, Tokens!Next

\* A pend finds no token and waits.
LEMMA TokenWait ==
  ASSUME NEW t \in Task, NEW s \in Sema, \A o \in Sema : t \notin ToSet(waitQ[o]),
         value[s] = 0, UNCHANGED value, ToSet(waitQ'[s]) = ToSet(waitQ[s]) \cup {t},
         \A o \in Sema \ {s} : ToSet(waitQ'[o]) = ToSet(waitQ[o]), Settles(t, "WAITING", t)
  PROVE  TokenStep
<1>1. Tokens!WaitsNowhere(t) /\ Tokens!Outcome(t, "WAITING", t)
  BY DEF Tokens!WaitsNowhere, Tokens!Outcome, Settles
<1>2. Tokens!Wait(t, s)
  BY <1>1 DEF Tokens!Wait
<1> QED BY <1>2 DEF TokenStep, Tokens!Next

\* A waiter gets a token.
LEMMA TokenGive ==
  ASSUME NEW p \in Task, NEW s \in Sema, NEW t \in ToSet(waitQ[s]), t \in Task,
         UNCHANGED value, ToSet(waitQ'[s]) = ToSet(waitQ[s]) \ {t},
         \A o \in Sema \ {s} : ToSet(waitQ'[o]) = ToSet(waitQ[o]), Settles(t, "GRANTED", p)
  PROVE  TokenStep
<1>1. Tokens!Outcome(t, "GRANTED", p)
  BY DEF Tokens!Outcome, Settles
<1>2. Tokens!Give(p, s, t)
  BY <1>1 DEF Tokens!Give
<1> QED BY <1>2 DEF TokenStep, Tokens!Next

\* A waiter leaves without a token.
LEMMA TokenLeave ==
  ASSUME NEW p \in Task, NEW s \in Sema, NEW t \in ToSet(waitQ[s]), t \in Task,
         UNCHANGED value, ToSet(waitQ'[s]) = ToSet(waitQ[s]) \ {t},
         \A o \in Sema \ {s} : ToSet(waitQ'[o]) = ToSet(waitQ[o]), Settles(t, "FAILED", p)
  PROVE  TokenStep
<1>1. Tokens!Outcome(t, "FAILED", p)
  BY DEF Tokens!Outcome, Settles
<1>2. Tokens!Leave(p, t, s)
  BY <1>1 DEF Tokens!Leave
<1> QED BY <1>2 DEF TokenStep, Tokens!Next

\* A posted token is kept.
LEMMA TokenKeep ==
  ASSUME NEW p \in Task, NEW s \in Sema, ToSet(waitQ[s]) = {}, value[s] < MaxValue[s],
         value = [o \in Sema |-> value[o]], value' = [value EXCEPT ![s] = @ + 1], SameWaiters,
         Settles(p, IF PendOutcome(p) \in Tokens!Ended THEN "NONE" ELSE PendOutcome(p), p)
  PROVE  TokenStep
<1>1. Tokens!Outcome(p, IF PendOutcome(p) \in Tokens!Ended THEN "NONE" ELSE PendOutcome(p), p)
  BY DEF Tokens!Outcome, Settles
<1>2. Tokens!Keep(p, s)
  BY <1>1 DEF Tokens!Keep, SameWaiters
<1> QED BY <1>2 DEF TokenStep, Tokens!Next

\* What the steps of the proof know before and after a step.
PendersKept == PendersInv /\ PendersInv' /\ TokenInv

\* The kernel's own steps: an expired pender leaves, nothing else happens.
LEMMA TokensKernelStep ==
  ASSUME PendersKept, ~WalksStale, KernelStep \/ Tick, UNCHANGED value
  PROVE  TokenStep
<1>1. /\ PendersInv /\ PendInv /\ PendInv' /\ KernelFacts /\ KernelFacts'
      /\ \A t \in Task : Answered(t)
  BY DEF PendersKept, PendersInv, PlaceInv
<1>2. CASE UpdatePrio \/ Tick \/ TickEnd \/ kSwtch
  <2>1. \A t \in Task : /\ OnQueues(t)' = OnQueues(t) /\ WakesOf(t)' = WakesOf(t)
                        /\ ret'[t] = ret[t]
    BY <1>1, <1>2, QuietKernelStep DEF Undisturbed
  <2>2. \A t \in Task : PendOutcome(t)' = PendOutcome(t)
    BY <1>1, <2>1, OutcomeKept
  <2>3. SameWaiters
    BY <1>1, <2>1, WaitersKept
  <2> QED BY <2>2, <2>3, TokenStutter
<1>3. CASE ReadySwtch \/ TimeoutReady \/ SignalReady
  <2> DEFINE woken == Head(todo).op = "ready"
  <2>1. PICK t \in Task : AwokenBy(t, woken)
    BY <1>1, <1>3, Awoken
  <2> HIDE DEF woken
  <2>2. \A u \in Task \ {t} : /\ OnQueues(u)' = OnQueues(u) /\ WakesOf(u)' = WakesOf(u)
                              /\ ret'[u] = ret[u]
    BY <2>1 DEF AwokenBy, Undisturbed
  <2>3. OnQueues(t)' = {} /\ OnQueues(t) = {} /\ (woken <=> ReadySwtchOf(t) \in WakesOf(t))
    BY <2>1 DEF AwokenBy, Leaves
  <2>4. PendOutcome(t)' = PendOutcome(t)
    <3>1. CASE call[t].number = "NONE"
      <4>1. ret'[t] = ret[t] /\ ret[t].err # "RESTART"
        BY <1>1, <2>1, <3>1 DEF AwokenBy, Answered
      <4> QED BY <1>1, <4>1, OutcomeKept
    <3>2. CASE call[t].number = "SEMAPHORE_PEND"
      <4>1. ret[t].number = "SEMAPHORE_PEND" /\ ret[t].err = "RESTART"
        BY <1>1, <3>2 DEF Answered
      <4>2. /\ ret'[t].number = "SEMAPHORE_PEND" /\ ret'[t].err # "RESTART"
            /\ ret'[t].err = "SUCCESS" <=> woken
        BY <2>1, <3>2 DEF AwokenBy
      <4> QED BY <1>1, <2>3, <4>1, <4>2, OutcomeIs DEF CameTo
    <3>3. CASE call[t].number \notin {"NONE", "SEMAPHORE_PEND"}
      <4>1. ret[t].number # "SEMAPHORE_PEND" /\ ret'[t].number # "SEMAPHORE_PEND"
        BY <1>1, <2>1, <3>3 DEF AwokenBy, Answered
      <4> QED BY <1>1, <4>1, OutcomeIs DEF CameTo
    <3> QED BY <3>1, <3>2, <3>3
  <2>5. \A u \in Task : PendOutcome(u)' = PendOutcome(u)
    BY <1>1, <2>2, <2>4, OutcomeKept
  <2>6. SameWaiters
    BY <1>1, <2>2, <2>3, WaitersKept
  <2> QED BY <2>5, <2>6, TokenStutter
<1>4. CASE TimeoutExpire
  <2>1. PICK t \in Task : /\ OnQueues(t)' = {} /\ ReadySwtchOf(t) \notin WakesOf(t)'
                          /\ \A u \in Task : WakesOf(u) = {}
                          /\ \A u \in Task \ {t} : Undisturbed(u)
    BY <1>1, <1>4, Expired
  <2>2. /\ UNCHANGED ret
        /\ \A u \in Task \ {t} : OnQueues(u)' = OnQueues(u) /\ WakesOf(u)' = WakesOf(u)
    BY <1>1, <1>4, <2>1, Expired DEF Undisturbed
  <2>3. \A u \in Task \ {t} : PendOutcome(u)' = PendOutcome(u)
    BY <1>1, <2>2, OutcomeKept
  <2>4. CASE OnQueues(t) \cap Sema = {}
    <3>1. PendOutcome(t)' = PendOutcome(t)
      BY <1>1, <2>1, <2>2, <2>4, PendStands, OutcomeKept
    <3>2. SameWaiters
      BY <1>1, <2>1, <2>2, <2>4, WaitersKept
    <3> QED BY <2>3, <3>1, <3>2, TokenStutter
  <2>5. ASSUME NEW s \in Sema, s \in OnQueues(t) PROVE TokenStep
    <3>1. /\ OnQueues(t) = {s} /\ ret[t].number = "SEMAPHORE_PEND" /\ ret[t].err = "RESTART"
      BY <1>1, <2>5, PendStands
    <3>2. PendOutcome(t)' = "FAILED"
      BY <1>1, <2>1, <2>2, <3>1, OutcomeIs DEF CameTo
    <3>3. Settles(t, "FAILED", t)
      BY <2>3, <3>2 DEF Settles
    <3>4. /\ t \in ToSet(waitQ[s]) /\ ToSet(waitQ'[s]) = ToSet(waitQ[s]) \ {t}
          /\ \A o \in Sema \ {s} : ToSet(waitQ'[o]) = ToSet(waitQ[o])
      <4>1. KernelFacts /\ KernelFacts'
        BY <1>1
      <4>2. /\ OnQueues(t) \cap Sema = {s} /\ OnQueues(t)' \cap Sema = {}
            /\ \A u \in Task \ {t} : OnQueues(u)' \cap Sema = OnQueues(u) \cap Sema
        BY <2>1, <2>2, <3>1
      <4>3. /\ \A o \in Sema \ {s} : ToSet(waitQ'[o]) = ToSet(waitQ[o])
            /\ t \in ToSet(waitQ[s]) => ToSet(waitQ'[s]) = ToSet(waitQ[s]) \ {t}
            /\ t \in ToSet(waitQ[s]) <=> s \in OnQueues(t)
        BY <4>1, <4>2, WaitersChange
      <4>4. t \in ToSet(waitQ[s])
        BY <2>5, <4>3
      <4> QED BY <4>3, <4>4
    <3> QED BY <3>3, <3>4, TokenLeave
  <2> QED BY <2>4, <2>5
<1> QED BY <1>2, <1>3, <1>4 DEF KernelStep

\* A call about no semaphore: its task goes on, and may interrupt a pender.
LEMMA TokensOtherCall ==
  ASSUME PendersKept, OtherCall, Executing, UNCHANGED value
  PROVE  TokenStep
<1>1. /\ PendersInv /\ PendInv /\ PendInv' /\ KernelFacts /\ KernelFacts'
  BY DEF PendersKept, PendersInv
<1>2. PICK r \in Task : r = run
  BY <1>1, WorksFacts
<1>3. /\ Works(r) /\ OnQueues(r) = {} /\ ret'[r].number # "SEMAPHORE_PEND"
      /\ OnQueues(r)' \cap Sema = {} /\ ret[r].err # "RESTART"
      /\ \A u \in Task \ {r} : ret'[u] = ret[u]
  BY <1>1, <1>2, WorksFacts DEF OtherCall, AtLarge
<1>4. PendOutcome(r)' = "NONE" /\ PendOutcome(r) # "WAITING"
  BY <1>1, <1>3, OutcomeIs DEF CameTo
<1>5. CASE \A u \in Task \ {r} : Undisturbed(u)
  <2>1. \A u \in Task \ {r} : /\ OnQueues(u)' = OnQueues(u) /\ WakesOf(u)' = WakesOf(u)
                              /\ ret'[u] = ret[u]
    BY <1>3, <1>5 DEF Undisturbed
  <2>2. \A u \in Task \ {r} : PendOutcome(u)' = PendOutcome(u)
    BY <1>1, <2>1, OutcomeKept
  <2>3. SameWaiters
    BY <1>1, <1>3, <2>1, WaitersKept
  <2> QED BY <1>4, <2>2, <2>3, TokenGoOn
<1>6. ASSUME NEW t \in Task, Interrupted(t), \A u \in Task \ {r, t} : Undisturbed(u)
      PROVE  TokenStep
  <2>1. \A u \in Task \ {r, t} : /\ OnQueues(u)' = OnQueues(u) /\ WakesOf(u)' = WakesOf(u)
                                 /\ ret'[u] = ret[u]
    BY <1>3, <1>6 DEF Undisturbed
  <2>2. /\ t # r /\ OnQueues(t)' = {} /\ WakesOf(t) = {} /\ ret'[t] = ret[t]
        /\ ReadySwtchOf(t) \in WakesOf(t)' => call[t].number # "SEMAPHORE_PEND"
    BY <1>2, <1>3, <1>6 DEF Interrupted
  <2>3. \A u \in Task \ {r, t} : PendOutcome(u)' = PendOutcome(u)
    BY <1>1, <2>1, OutcomeKept
  <2>4. CASE OnQueues(t) \cap Sema = {}
    <3>1. PendOutcome(t)' = PendOutcome(t)
      BY <1>1, <2>2, <2>4, PendStands, OutcomeKept
    <3>2. SameWaiters
      BY <1>1, <1>3, <2>1, <2>2, <2>4, WaitersKept
    <3> QED BY <1>4, <2>3, <3>1, <3>2, TokenGoOn
  <2>5. ASSUME NEW s \in Sema, s \in OnQueues(t) PROVE TokenStep
    <3>1. /\ OnQueues(t) = {s} /\ ret[t].number = "SEMAPHORE_PEND" /\ ret[t].err = "RESTART"
          /\ call[t].number = "SEMAPHORE_PEND"
      BY <1>1, <2>5, PendStands
    <3>2. PendOutcome(t)' = "FAILED"
      BY <1>1, <2>2, <3>1, OutcomeIs DEF CameTo
    <3>3. Settles(t, "FAILED", r)
      BY <1>4, <2>3, <3>2, OutcomeKinds DEF Settles
    <3>4. \A u \in Task \ {t} : OnQueues(u)' \cap Sema = OnQueues(u) \cap Sema
      BY <1>3, <2>1
    <3>5. /\ t \in ToSet(waitQ[s]) /\ ToSet(waitQ'[s]) = ToSet(waitQ[s]) \ {t}
          /\ \A o \in Sema \ {s} : ToSet(waitQ'[o]) = ToSet(waitQ[o])
      <4>1. KernelFacts /\ KernelFacts'
        BY <1>1
      <4>2. /\ OnQueues(t) \cap Sema = {s} /\ OnQueues(t)' \cap Sema = {}
            /\ \A u \in Task \ {t} : OnQueues(u)' \cap Sema = OnQueues(u) \cap Sema
        BY <2>2, <3>1, <3>4
      <4>3. /\ \A o \in Sema \ {s} : ToSet(waitQ'[o]) = ToSet(waitQ[o])
            /\ t \in ToSet(waitQ[s]) => ToSet(waitQ'[s]) = ToSet(waitQ[s]) \ {t}
            /\ t \in ToSet(waitQ[s]) <=> s \in OnQueues(t)
        BY <4>1, <4>2, WaitersChange
      <4>4. t \in ToSet(waitQ[s])
        BY <2>5, <4>3
      <4> QED BY <4>3, <4>4
    <3> QED BY <3>3, <3>5, TokenLeave
  <2> QED BY <2>4, <2>5
<1> QED BY <1>2, <1>5, <1>6 DEF OtherCall

\* A pend takes a token, is refused one, or waits.
LEMMA TokensPend ==
  ASSUME PendersKept, NEW s \in Sema, NEW timeout, kSemaphorePend(s, timeout)
  PROVE  TokenStep
<1>1. /\ PendersInv /\ PendInv /\ PendInv' /\ KernelFacts /\ KernelFacts'
      /\ value = [o \in Sema |-> value[o]] /\ Executing
  BY DEF PendersKept, PendersInv, TokenInv, kSemaphorePend
<1>2. PICK r \in Task : r = run
  BY <1>1, WorksFacts
<1>3. OnQueues(r) = {}
  BY <1>1, <1>2, WorksFacts DEF AtLarge
<1>4. \A o \in Sema : r \notin ToSet(waitQ[o])
  BY <1>3 DEF OnQueues, WaitObj, Sema
<1>5. CASE PendTake(s) \/ PendNoWait(s, timeout)
  <2>1. /\ \A u \in Task : OnQueues(u)' = OnQueues(u) /\ WakesOf(u)' = WakesOf(u)
        /\ \A u \in Task \ {r} : ret'[u] = ret[u]
        /\ ret'[r].number = "SEMAPHORE_PEND" /\ ret'[r].arg = s
        /\ PendTake(s) => ret'[r].err = "SUCCESS"
        /\ PendNoWait(s, timeout) => ret'[r].err = "SEMA_BLOCKED"
    BY <1>1, <1>2, <1>5, PendAnswered DEF Undisturbed
  <2>2. SameWaiters
    BY <1>1, <2>1, WaitersKept
  <2>3. \A u \in Task \ {r} : PendOutcome(u)' = PendOutcome(u)
    BY <1>1, <2>1, OutcomeKept
  <2>4. CASE PendTake(s)
    <3>1. value[s] > 0 /\ value' = [value EXCEPT ![s] = @ - 1]
      BY <2>4 DEF PendTake
    <3>2. PendOutcome(r)' = "GRANTED"
      BY <1>1, <2>1, <2>4, OutcomeIs DEF CameTo
    <3>3. Settles(r, "GRANTED", r)
      BY <2>3, <3>2 DEF Settles
    <3> QED BY <1>1, <1>4, <2>2, <3>1, <3>3, TokenTake
  <2>5. CASE PendNoWait(s, timeout)
    <3>1. value[s] = 0 /\ UNCHANGED value
      BY <2>5 DEF PendNoWait
    <3>2. PendOutcome(r)' = "FAILED"
      BY <1>1, <2>1, <2>5, OutcomeIs DEF CameTo
    <3>3. Settles(r, "FAILED", r)
      BY <2>3, <3>2 DEF Settles
    <3> QED BY <1>4, <2>2, <3>1, <3>3, TokenRefuse
  <2> QED BY <1>5, <2>4, <2>5
<1>6. CASE PendBlock(s, timeout)
  <2>1. /\ \A u \in Task \ {r} : Undisturbed(u) /\ ret'[u] = ret[u]
        /\ ret'[r].number = "SEMAPHORE_PEND" /\ ret'[r].arg = s /\ ret'[r].err = "RESTART"
        /\ OnQueues(r)' = {s}
    <3>1. /\ \A u \in Task \ {run} : Undisturbed(u) /\ ret'[u] = ret[u]
          /\ ret'[run].number = "SEMAPHORE_PEND" /\ ret'[run].arg = s
          /\ ret'[run].err = "RESTART" /\ OnQueues(run)' = {s} /\ run' = run
      BY <1>1, <1>6, PendBlocked
    <3> QED BY <1>2, <3>1
  <2>2. \A u \in Task \ {r} : OnQueues(u)' = OnQueues(u) /\ WakesOf(u)' = WakesOf(u)
    BY <2>1 DEF Undisturbed
  <2>3. \A u \in Task \ {r} : PendOutcome(u)' = PendOutcome(u)
    BY <1>1, <2>1, <2>2, OutcomeKept
  <2>4. PendOutcome(r)' = "WAITING"
    BY <1>1, <2>1, OutcomeIs DEF CameTo
  <2>5. Settles(r, "WAITING", r)
    BY <2>3, <2>4 DEF Settles
  <2>6. /\ \A o \in Sema \ {s} : ToSet(waitQ'[o]) = ToSet(waitQ[o])
        /\ ToSet(waitQ'[s]) = ToSet(waitQ[s]) \cup {r}
    <3>1. KernelFacts /\ KernelFacts'
      BY <1>1
    <3>2. /\ OnQueues(r) \cap Sema = {} /\ OnQueues(r)' \cap Sema = {s}
          /\ \A u \in Task \ {r} : OnQueues(u)' \cap Sema = OnQueues(u) \cap Sema
      BY <1>3, <1>4, <2>1, <2>2
    <3>3. /\ \A o \in Sema \ {s} : ToSet(waitQ'[o]) = ToSet(waitQ[o])
          /\ r \notin ToSet(waitQ[s]) => ToSet(waitQ'[s]) = ToSet(waitQ[s]) \cup {r}
          /\ r \in ToSet(waitQ[s]) <=> s \in OnQueues(r)
      BY <3>1, <3>2, WaitersChange
    <3>4. r \notin ToSet(waitQ[s])
      BY <3>2, <3>3
    <3> QED BY <3>3, <3>4
  <2>7. value[s] = 0 /\ UNCHANGED value
    BY <1>6 DEF PendBlock
  <2> QED BY <1>4, <2>5, <2>6, <2>7, TokenWait
<1> QED BY <1>5, <1>6 DEF kSemaphorePend

\* A post, which is answered when a task makes it: a waiter gets the token, or it
\* is kept, or there is no room for it.
LEMMA TokensPost ==
  ASSUME PendersKept, NEW s \in Sema, NEW r \in Task, r = run, todo = <<>>,
         UNCHANGED <<schedVars, mutexVars, call>>, ret' \in [Task -> FrameResult],
         PostWake(s) \/ PostCount(s) \/ PostFull(s),
         \A u \in Task \ {r} : ret'[u] = ret[u],
         \/ ret'[r] = ret[r]
         \/ OnQueues(r) = {} /\ ret[r].err # "RESTART" /\ ret'[r].number # "SEMAPHORE_PEND"
  PROVE  TokenStep
<1>1. /\ PendersInv /\ PendInv /\ PendInv' /\ KernelFacts /\ KernelFacts'
      /\ value = [o \in Sema |-> value[o]]
  BY DEF PendersKept, PendersInv, TokenInv
<1>2. ASSUME OnQueues(r) = {}, ret[r].err # "RESTART", ret'[r].number # "SEMAPHORE_PEND"
      PROVE  PendOutcome(r) # "WAITING" /\ PendOutcome(r)' = "NONE"
  BY <1>1, <1>2, OutcomeIs DEF CameTo
<1>3. CASE PostWake(s)
  <2>1. PICK w \in Task : /\ Released(w, s) /\ OnQueues(w) = {s} /\ OnQueues(w)' = {}
                          /\ ReadySwtchOf(w) \in WakesOf(w)'
    BY <1>1, <1>3, PostWoken
  <2>2. /\ \A u \in Task \ {w} : OnQueues(u)' = OnQueues(u) /\ WakesOf(u)' = WakesOf(u)
        /\ UNCHANGED value
    BY <1>3, <2>1 DEF Released, Undisturbed, PostWake
  <2>3. /\ w \in ToSet(waitQ[s]) /\ ToSet(waitQ'[s]) = ToSet(waitQ[s]) \ {w}
        /\ \A o \in Sema \ {s} : ToSet(waitQ'[o]) = ToSet(waitQ[o])
    <3>1. KernelFacts /\ KernelFacts'
      BY <1>1
    <3>2. /\ OnQueues(w) \cap Sema = {s} /\ OnQueues(w)' \cap Sema = {}
          /\ \A t \in Task \ {w} : OnQueues(t)' \cap Sema = OnQueues(t) \cap Sema
      BY <2>1, <2>2
    <3>3. /\ \A o \in Sema \ {s} : ToSet(waitQ'[o]) = ToSet(waitQ[o])
          /\ w \in ToSet(waitQ[s]) => ToSet(waitQ'[s]) = ToSet(waitQ[s]) \ {w}
          /\ w \in ToSet(waitQ[s]) <=> s \in OnQueues(w)
      BY <3>1, <3>2, WaitersChange
    <3>4. w \in ToSet(waitQ[s])
      BY <2>1, <3>3
    <3> QED BY <3>3, <3>4
  <2>4. ret[w].number = "SEMAPHORE_PEND" /\ ret[w].err = "RESTART"
    BY <1>1, <2>1, PendStands
  <2>5. CASE ret'[r] = ret[r]
    <3>1. \A u \in Task : ret'[u] = ret[u]
      BY <2>5
    <3>2. PendOutcome(w)' = "GRANTED"
      BY <1>1, <2>1, <2>4, <3>1, OutcomeIs DEF CameTo
    <3>3. \A u \in Task \ {w} : PendOutcome(u)' = PendOutcome(u)
      BY <1>1, <2>2, <3>1, OutcomeKept
    <3>4. Settles(w, "GRANTED", w)
      BY <3>2, <3>3 DEF Settles
    <3> QED BY <2>2, <2>3, <3>4, TokenGive
  <2>6. CASE OnQueues(r) = {} /\ ret[r].err # "RESTART" /\ ret'[r].number # "SEMAPHORE_PEND"
    <3>1. w # r /\ ret'[w] = ret[w]
      BY <2>1, <2>6
    <3>2. PendOutcome(w)' = "GRANTED"
      BY <1>1, <2>1, <2>4, <3>1, OutcomeIs DEF CameTo
    <3>3. \A u \in Task \ {w, r} : PendOutcome(u)' = PendOutcome(u)
      BY <1>1, <2>2, OutcomeKept
    <3>4. PendOutcome(r) # "WAITING" /\ PendOutcome(r)' = "NONE"
      BY <1>2, <2>6
    <3>5. Settles(w, "GRANTED", r)
      BY <3>2, <3>3, <3>4, OutcomeKinds DEF Settles
    <3> QED BY <2>2, <2>3, <3>5, TokenGive
  <2> QED BY <2>5, <2>6
<1>4. CASE PostCount(s) \/ PostFull(s)
  <2>1. \A u \in Task : OnQueues(u)' = OnQueues(u) /\ WakesOf(u)' = WakesOf(u)
    BY <1>1, <1>4, PostUnheard DEF Undisturbed
  <2>2. SameWaiters
    BY <1>1, <2>1, WaitersKept
  <2>3. \A u \in Task \ {r} : PendOutcome(u)' = PendOutcome(u)
    BY <1>1, <2>1, OutcomeKept
  <2>4. CASE PostFull(s)
    <3>1. UNCHANGED value
      BY <2>4 DEF PostFull
    <3>2. CASE ret'[r] = ret[r]
      <4>1. PendOutcome(r)' = PendOutcome(r)
        BY <1>1, <2>1, <3>2, OutcomeKept
      <4> QED BY <2>2, <2>3, <3>1, <4>1, TokenStutter
    <3>3. CASE OnQueues(r) = {} /\ ret[r].err # "RESTART" /\ ret'[r].number # "SEMAPHORE_PEND"
      <4>1. PendOutcome(r) # "WAITING" /\ PendOutcome(r)' = "NONE"
        BY <1>2, <3>3
      <4> QED BY <2>2, <2>3, <3>1, <4>1, TokenGoOn
    <3> QED BY <3>2, <3>3
  <2>5. CASE PostCount(s)
    <3>1. /\ ToSet(waitQ[s]) = {} /\ value[s] < MaxValue[s]
          /\ value' = [value EXCEPT ![s] = @ + 1]
      BY <2>5 DEF PostCount, AddToken, ToSet
    <3>2. CASE ret'[r] = ret[r]
      <4>1. PICK p \in Task : p = IdleTask
        BY KernelConstants
      <4>2. PendOutcome(p) = "NONE"
        BY <1>1, <4>1, OutcomeIs DEF PendInv, UserTask, CameTo
      <4>3. \A u \in Task : PendOutcome(u)' = PendOutcome(u)
        BY <1>1, <2>1, <2>3, <3>2, OutcomeKept
      <4>4. Settles(p, IF PendOutcome(p) \in Tokens!Ended THEN "NONE" ELSE PendOutcome(p), p)
        BY <4>2, <4>3 DEF Settles
      <4> QED BY <1>1, <2>2, <3>1, <4>4, TokenKeep
    <3>3. CASE OnQueues(r) = {} /\ ret[r].err # "RESTART" /\ ret'[r].number # "SEMAPHORE_PEND"
      <4>1. PendOutcome(r) # "WAITING" /\ PendOutcome(r)' = "NONE"
        BY <1>2, <3>3
      <4>2. Settles(r, IF PendOutcome(r) \in Tokens!Ended THEN "NONE" ELSE PendOutcome(r), r)
        BY <2>3, <4>1, OutcomeKinds DEF Settles
      <4> QED BY <1>1, <2>2, <3>1, <4>2, TokenKeep
    <3> QED BY <3>2, <3>3
  <2> QED BY <1>4, <2>4, <2>5
<1> QED BY <1>3, <1>4

\* A call on a semaphore, by a task or an interrupt.
LEMMA TokensSemaCall ==
  ASSUME PendersKept, SemaCall
  PROVE  TokenStep
<1>1. PICK s \in Sema : \/ \E timeout \in PendTimeout : kSemaphorePend(s, timeout)
                        \/ kSemaphorePost(s) \/ IsrPost(s)
  BY DEF SemaCall
<1>2. PendersInv
  BY DEF PendersKept
<1>3. PICK r \in Task : r = run
  BY <1>2, WorksFacts
<1>4. CASE \E timeout \in PendTimeout : kSemaphorePend(s, timeout)
  <2>1. PICK timeout \in PendTimeout : kSemaphorePend(s, timeout)
    BY <1>4
  <2> QED BY <2>1, TokensPend
<1>5. CASE kSemaphorePost(s)
  <2>1. /\ Executing /\ todo = <<>> /\ ret' \in [Task -> FrameResult]
        /\ ret'[run].number = "SEMAPHORE_POST"
        /\ \A u \in Task \ {run} : ret'[u] = ret[u]
        /\ UNCHANGED <<schedVars, mutexVars, call>>
        /\ PostWake(s) \/ PostCount(s) \/ PostFull(s)
    BY <1>2, <1>5, PostAnswers
  <2>2. OnQueues(r) = {} /\ ret[r].err # "RESTART"
    BY <1>2, <1>3, <2>1, WorksFacts DEF AtLarge
  <2> QED BY <1>3, <2>1, <2>2, TokensPost
<1>6. CASE IsrPost(s)
  <2>1. /\ todo = <<>> /\ UNCHANGED <<schedVars, mutexVars, call>> /\ UNCHANGED ret
        /\ ret' \in [Task -> FrameResult] /\ (PostWake(s) \/ PostCount(s))
    BY <1>2, <1>6 DEF IsrPost, callVars, PendersInv, KernelFacts, ContinuationInv
  <2> QED BY <1>3, <2>1, TokensPost
<1> QED BY <1>1, <1>4, <1>5, <1>6

\* Nothing at all happens.
LEMMA TokensIdle ==
  ASSUME UNCHANGED semaVars
  PROVE  TokenStep
<1>1. UNCHANGED <<waitQ, ret, todo, value>>
  BY DEF semaVars, kernelVars, waitVars, callVars
<1>2. SameWaiters /\ \A t \in Task : PendOutcome(t)' = PendOutcome(t)
  BY <1>1 DEF SameWaiters, PendOutcome
<1> QED BY <1>1, <1>2, TokenStutter

\* Before the first step nobody waits and no pend came to anything.
LEMMA TokensStart ==
  ASSUME SemaInit
  PROVE  Tokens!Init
<1>1. \A s \in Sema : waitQ[s] = <<>>
  BY DEF SemaInit, Init, KernelInit, WaitObj, Sema
<1>2. \A t \in Task : ret[t] = NoRet
  BY DEF SemaInit, Init, KernelInit
<1>3. \A t \in Task : PendOutcome(t) = "NONE"
  BY <1>2 DEF PendOutcome, NoRet
<1>4. \A s \in Sema : ToSet(waitQ[s]) = {}
  BY <1>1 DEF ToSet
<1> QED BY <1>3, <1>4 DEF Tokens!Init, SemaInit

\* Semaphores implement SemaAbs: each pend that reports success consumed a
\* token, one that timed out or was interrupted, however late, consumed none,
\* and no post with room is lost (ksema.c, while the tick and signals end waits).
THEOREM TokensConserved ==
  ASSUME ~YieldWhenLocked
  PROVE  SemaSpec /\ []~WalksStale => ConservesTokens
<1>1. SemaInit => Tokens!Init
  BY TokensStart
<1>2. PendersKept /\ ~WalksStale /\ [SemaNext]_semaVars => TokenStep
  <2> SUFFICES ASSUME PendersKept, ~WalksStale, [SemaNext]_semaVars PROVE TokenStep
    OBVIOUS
  <2>1. PendersInv
    BY DEF PendersKept
  <2>2. CASE (KernelStep \/ Tick) /\ UNCHANGED value
    BY <2>2, TokensKernelStep
  <2>3. CASE (SchedCall \/ MutexCall \/ SignalCall) /\ UNCHANGED value
    BY <2>1, <2>3, SchedCallIsOther, MutexCallIsOther, SignalCallIsOther, TokensOtherCall
  <2>4. CASE SemaCall
    BY <2>4, TokensSemaCall
  <2>5. CASE UNCHANGED semaVars
    BY <2>5, TokensIdle
  <2> QED BY <2>2, <2>3, <2>4, <2>5 DEF SemaNext, Next
<1>3. PendersInv /\ PendersInv' /\ TokenInv => PendersKept
  BY DEF PendersKept
<1>4. SemaSpec /\ []~WalksStale => []PendersInv
  BY PlacesKept
<1>5. SemaSpec => [](TokenInv)
  BY TokenInvariance
<1> QED BY <1>1, <1>2, <1>3, <1>4, <1>5, PTL
    DEF SemaSpec, ConservesTokens, Tokens!Spec, TokenStep

\* Without pends for ever they do so unconditionally.
THEOREM TimedTokensConserved ==
  ASSUME ~YieldWhenLocked, Forever \notin PendTimeout
  PROVE  SemaSpec => ConservesTokens
<1>1. SemaSpec => []~WalksStale
  BY NoStaleWalks
<1>2. SemaSpec /\ []~WalksStale => ConservesTokens
  BY TokensConserved
<1> QED BY <1>1, <1>2, PTL
==============================================================================
