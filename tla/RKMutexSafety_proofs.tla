------------------------ MODULE RKMutexSafety_proofs ------------------------
(***************************************************************************)
(* The proofs that the mutex service keeps tasks on the right lists, tells *)
(* them the truth, lends priorities exactly while they are owed, and       *)
(* implements MutexAbs and TimeoutAbs.                                     *)
(***************************************************************************)
EXTENDS RKMutex_proofs

(***************************************************************************)
(* The inductive invariant.                                                *)
(***************************************************************************)
\* What a task is suspended in is what its status says.
SuspendInv ==
  \A t \in Task :
    /\ status[t] = "BLOCKED" <=> call[t].number = "MUTEX_LOCK"
    /\ status[t] = "SLEEPING_DELAY" <=> call[t].number = "SLEEP_DELAY"
    /\ status[t] = "SELF_SUSPENDED" <=> call[t].number = "TASK_SELF_SUSPEND"
    /\ call[t].number \in {"NONE", "MUTEX_LOCK", "SLEEP_DELAY",
                           "TASK_SELF_SUSPEND"}
    /\ t # PostProc /\ call[t].number = "NONE"
         => status[t] \in {"READY", "RUNNING"}
    /\ call[t].number = "MUTEX_LOCK"
         => call[t].arg \in Mutex /\ call[t].wake = "SUCCESS"

\* A task about to be made ready is suspended; if in a lock call, it owns the
\* mutex by then exactly when it was handed it.
WakeInv ==
  /\ OneWake(todo)
  /\ \A c \in ToSet(todo) :
       /\ c.op = "timeoutReady" => HandleTimeoutsOf(TRUE) \in ToSet(todo)
       /\ c.op \in WakeOps => call[c.task].number # "NONE"
       /\ c.op \in WakeOps /\ call[c.task].number = "MUTEX_LOCK"
            => (c.op = "ready" <=> owner[call[c.task].arg] = c.task)

\* The ready queues hold READY tasks by their priorities, each once.
ReadyPlaces ==
  /\ \A p \in Prio : NoDuplicates(readyQ[p])
  /\ \A p \in Prio : \A t \in ToSet(readyQ[p]) : status[t] = "READY" /\ prio[t] = p

\* A queued task knows which mutex it waits for.
WaitPlaces ==
  \A o \in WaitObj : \A t \in ToSet(waitQ[o]) : waitingFor[t] = o /\ call[t].arg = o

\* A BLOCKED task is in the queue of a mutex, unless the critical region is
\* about to make it ready.
BlockedPlaces ==
  \A t \in Task : status[t] = "BLOCKED" =>
    \/ \E m \in Mutex : t \in ToSet(waitQ[m])
    \/ \E c \in ToSet(todo) : c.op \in WakeOps /\ c.task = t

PlaceInv == ReadyPlaces /\ WaitPlaces /\ BlockedPlaces

\* A task that is no longer RUNNING has a switch pended.
RunInv == ~pendSV => status[run] = "RUNNING"

\* The result a lock call left is true until the task calls again.
ResultInv ==
  \A t \in Task :
    ret[t].number = "MUTEX_LOCK" /\ call[t].number = "NONE" =>
      /\ ret[t].arg \in Mutex
      /\ ret[t].err = "SUCCESS" <=> owner[ret[t].arg] = t

\* The waiters are in order even within a critical region.
OrderInv == \A o \in WaitObj : OrderedBy(waitQ[o], prio)

\* A priority that is not what its causes make it is about to be recomputed.
PrioInv ==
  /\ \A t \in Task : mesgPrio[t] = [base    |-> NominalPrio[t],
                                    ceiling |-> NominalPrio[IdleTask]]
  /\ \A t \in Task : \/ prio[t] = kTaskCalcEffectivePrio_(t)
                     \/ UpdatePrioOf(t) \in ToSet(todo)

\* A preemption that is due is pended, deferred, or about to be found by the
\* tick handler.
PreemptInv ==
  /\ ~pendSV /\ status[run] = "RUNNING" /\ run \notin NoPreempt
  /\ HandleTimeoutsOf(TRUE) \notin ToSet(todo)
  /\ \E t \in Task : status[t] = "READY" /\ prio[t] < prio[run]
  => schLock > 0 /\ pendingSw

ServiceInv ==
  /\ IInv /\ SuspendInv /\ WakeInv /\ PlaceInv /\ RunInv /\ ResultInv
  /\ OrderInv /\ PrioInv /\ PreemptInv

LEMMA ServiceParts == ServiceInv => KernelInv /\ ReadyPlaces
BY DEF ServiceInv, IInv, PlaceInv

(***************************************************************************)
(* The list of calls still to be made.                                     *)
(***************************************************************************)
(***************************************************************************)
(* Waking a task.                                                          *)
(***************************************************************************)
\* A suspended call is completed however the task is woken, with SUCCESS only
\* when its wait was satisfied.
LEMMA WokenCall ==
  ASSUME TypeOK, SuspendInv, NEW t \in Task, call[t].number # "NONE",
         \/ kSyscallTaskWake(t) \/ kSyscallTaskTimeout(t) \/ kSyscallTaskSignal(t)
  PROVE  /\ call' = [call EXCEPT ![t] = NoCall]
         /\ \A u \in Task \ {t} : ret'[u] = ret[u]
         /\ ret'[t].number = call[t].number /\ ret'[t].arg = call[t].arg
         /\ call[t].number = "MUTEX_LOCK" =>
              /\ kSyscallTaskWake(t) => ret'[t].err = "SUCCESS"
              /\ kSyscallTaskTimeout(t) => ret'[t].err = "TIMEOUT"
              /\ kSyscallTaskSignal(t) => ret'[t].err = "SIGNAL_INTERRUPTED"
<1>1. /\ call[t].number \in {"MUTEX_LOCK", "SLEEP_DELAY", "TASK_SELF_SUSPEND"}
      /\ call[t].number = "MUTEX_LOCK" => call[t].wake = "SUCCESS"
      /\ call[t].number = "MUTEX_LOCK" => call[t].number \in WakeResultCall
      /\ call[t].number # "MUTEX_LOCK" => call[t].number \notin WakeResultCall
      /\ call[t].number \notin RunsAgainCall
  BY DEF SuspendInv, WakeResultCall, RunsAgainCall
<1>2. ASSUME kSyscallTaskWake(t)
      PROVE  kSyscallTaskComplete_(t, "SUCCESS")
  <2>1. CASE call[t].number = "MUTEX_LOCK"
    <3>1. kSyscallTaskComplete_(t, call[t].wake)
      BY <1>1, <1>2, <2>1 DEF kSyscallTaskWake
    <3> QED BY <1>1, <2>1, <3>1 DEF kSyscallTaskComplete_
  <2>2. CASE call[t].number # "MUTEX_LOCK"
    BY <1>1, <1>2, <2>2 DEF kSyscallTaskWake
  <2> QED BY <2>1, <2>2
<1>3. ASSUME kSyscallTaskTimeout(t)
      PROVE  \E e \in {"SUCCESS", "TIMEOUT"} :
               /\ kSyscallTaskComplete_(t, e)
               /\ call[t].number = "MUTEX_LOCK" => e = "TIMEOUT"
  BY <1>1, <1>3 DEF kSyscallTaskTimeout
<1>4. ASSUME kSyscallTaskSignal(t)
      PROVE  kSyscallTaskComplete_(t, "SIGNAL_INTERRUPTED")
  BY <1>1, <1>4 DEF kSyscallTaskSignal
<1>5. ASSUME NEW e, kSyscallTaskComplete_(t, e)
      PROVE  /\ call' = [call EXCEPT ![t] = NoCall]
             /\ \A u \in Task \ {t} : ret'[u] = ret[u]
             /\ ret'[t].number = call[t].number /\ ret'[t].arg = call[t].arg
             /\ ret'[t].err = e
  BY <1>5 DEF kSyscallTaskComplete_, TypeOK, CallTypeOK
<1> QED BY <1>2, <1>3, <1>4, <1>5

\* What the three ways of making a task ready have in common.
Woken(t) ==
  /\ todo # <<>> /\ Head(todo).op \in WakeOps /\ Head(todo).task = t
  /\ todo' = Tail(todo)
  /\ \A c \in ToSet(Tail(todo)) : c.op = "handleTimeouts"
  /\ call[t].number \in {"MUTEX_LOCK", "SLEEP_DELAY", "TASK_SELF_SUSPEND"}
  /\ \A o \in WaitObj : t \notin ToSet(waitQ[o])
  /\ status' = [status EXCEPT ![t] = "READY"]
  /\ call' = [call EXCEPT ![t] = NoCall]
  /\ \/ readyQ' = [readyQ EXCEPT ![prio[t]] = kTCBQEnq(@, t)]
     \/ readyQ' = [readyQ EXCEPT ![prio[t]] = kTCBQJam(@, t)]
  /\ \A u \in Task \ {t} : ret'[u] = ret[u] /\ waitingFor'[u] = waitingFor[u]
  /\ ret'[t].number = call[t].number /\ ret'[t].arg = call[t].arg
  /\ call[t].number = "MUTEX_LOCK" =>
       (ret'[t].err = "SUCCESS" <=> Head(todo).op = "ready")
  /\ UNCHANGED <<run, prio, schLock, savedLock, waitQ, lock, owner, faulted,
                 owned, mesgPrio>>

\* They have.
LEMMA WakeEffects ==
  ASSUME ServiceInv, ReadySwtch \/ TimeoutReady \/ SignalReady
  PROVE  \E t \in Task : Woken(t)
<1> DEFINE t == Head(todo).task
<1>1. TypeOK /\ TodoInv /\ SuspendInv /\ WakeInv
  BY DEF ServiceInv, IInv, KernelInv
<1>2. /\ todo # <<>> /\ todo' = Tail(todo) /\ t \in Task
      /\ Head(todo).op \in WakeOps /\ todo \in Seq(KernelCall)
  BY <1>1, HeadTask
  DEF ReadySwtch, TimeoutReady, SignalReady, WakeOps, TypeOK
<1>3. Head(todo) \in ToSet(todo)
  BY <1>1, <1>2, TodoSets
<1>4. /\ call[t].number # "NONE"
      /\ \A o \in WaitObj : t \notin ToSet(waitQ[o])
  BY <1>1, <1>2, <1>3 DEF WakeInv, TodoInv, WakeOps
<1>5. \A c \in ToSet(Tail(todo)) : c.op = "handleTimeouts"
  BY <1>1, <1>2, OneWakeTail DEF WakeInv, WakeOps
<1>6. call[t].number \in {"MUTEX_LOCK", "SLEEP_DELAY", "TASK_SELF_SUSPEND"}
  BY <1>1, <1>2, <1>4 DEF SuspendInv
<1>7. /\ status' = [status EXCEPT ![t] = "READY"]
      /\ UNCHANGED <<run, prio, schLock, savedLock, waitQ, lock, owner, faulted,
                     owned, mesgPrio>>
      /\ \/ readyQ' = [readyQ EXCEPT ![prio[t]] = kTCBQEnq(@, t)]
         \/ readyQ' = [readyQ EXCEPT ![prio[t]] = kTCBQJam(@, t)]
      /\ \/ kSyscallTaskWake(t) \/ kSyscallTaskTimeout(t) \/ kSyscallTaskSignal(t)
  BY DEF ReadySwtch, TimeoutReady, SignalReady, ReadyEnq, waitVars, mutexVars
<1>8. \A u \in Task \ {t} : waitingFor'[u] = waitingFor[u]
  BY <1>1 DEF ReadySwtch, TimeoutReady, SignalReady, kSyscallTaskTimeout,
              kSyscallTaskSignal, mutexVars, TypeOK, MutexTypeOK
<1>9. /\ Head(todo).op = "ready" => kSyscallTaskWake(t)
      /\ Head(todo).op # "ready" => kSyscallTaskTimeout(t) \/ kSyscallTaskSignal(t)
  BY DEF ReadySwtch, TimeoutReady, SignalReady
<1>10. PICK u \in Task : u = t
  BY <1>2
<1> HIDE DEF t
<1>11. /\ call' = [call EXCEPT ![u] = NoCall]
       /\ \A v \in Task \ {u} : ret'[v] = ret[v]
       /\ ret'[u].number = call[u].number /\ ret'[u].arg = call[u].arg
       /\ call[u].number = "MUTEX_LOCK" =>
            (ret'[u].err = "SUCCESS" <=> Head(todo).op = "ready")
  BY <1>1, <1>4, <1>7, <1>9, <1>10, WokenCall
<1>12. Woken(u)
  BY <1>2, <1>4, <1>5, <1>6, <1>7, <1>8, <1>10, <1>11 DEF Woken, t
<1> QED BY <1>12

\* The tasks PendSV chooses among.
CanRun(u) == status[u] = "READY" \/ (u = run /\ status[run] = "RUNNING")

\* The switch to the task `next`.
Switched(next) ==
  /\ todo = <<>> /\ run' = next /\ pendSV' = FALSE
  /\ status' = [status EXCEPT ![run] = IF status[run] = "RUNNING" THEN "READY" ELSE @,
                              ![next] = "RUNNING"]
  /\ CanRun(next) /\ \A u \in Task : CanRun(u) => prio[next] <= prio[u]
  /\ \A p \in Prio : NoDuplicates(readyQ'[p])
  /\ \A p \in Prio : \A t \in ToSet(readyQ'[p]) :
       t # next /\ prio[t] = p /\ CanRun(t) /\ t \in Task
  /\ UNCHANGED <<prio, pendingSw, waitVars, mutexVars, timeVars, callVars, todo>>

\* PendSV switches to a most urgent task that can run.
LEMMA SwitchEffects ==
  ASSUME KernelInv, ReadyPlaces, kSwtch
  PROVE  \E next \in Task : Switched(next)
<1> DEFINE preempted == status[run] = "RUNNING"
           rq == IF preempted THEN [readyQ EXCEPT ![prio[run]] = kTCBQJam(@, run)]
                              ELSE readyQ
           p == kCalcNextTaskPrio_(rq)
           next == Head(rq[p])
<1>1. /\ TypeOK /\ ReadyInv /\ run \in Task /\ IdleTask \in Task
      /\ \A u \in Task : prio[u] \in Prio
      /\ readyQ \in [Prio -> Seq(Task)] /\ Prio \subseteq Nat
      /\ status \in [Task -> Status]
  BY KernelConstants, NominalPrioType DEF KernelInv, TypeOK, SchedTypeOK
<1>2. /\ todo = <<>> /\ readyQ' = [rq EXCEPT ![p] = Tail(@)]
      /\ status' = [status EXCEPT ![run] = IF preempted THEN "READY" ELSE @,
                                  ![next] = "RUNNING"]
      /\ run' = next /\ pendSV' = FALSE
      /\ UNCHANGED <<prio, pendingSw, waitVars, mutexVars, timeVars, callVars, todo>>
  BY DEF kSwtch
<1>3. /\ rq \in [Prio -> Seq(Task)]
      /\ \A q \in Prio : NoDuplicates(rq[q])
      /\ \A q \in Prio : \A t \in ToSet(rq[q]) : prio[t] = q /\ CanRun(t)
      /\ \A u \in Task : CanRun(u) => u \in ToSet(rq[prio[u]])
  <2>1. CASE preempted
    <3>1. /\ kTCBQJam(readyQ[prio[run]], run) \in Seq(Task)
          /\ ToSet(kTCBQJam(readyQ[prio[run]], run))
               = ToSet(readyQ[prio[run]]) \cup {run}
      BY <1>1, ReadyEnqProperties
    <3>2. run \notin ToSet(readyQ[prio[run]])
      BY <1>1, <2>1 DEF ReadyPlaces
    <3>3. NoDuplicates(kTCBQJam(readyQ[prio[run]], run))
      <4>1. readyQ[prio[run]] \in Seq(Task) /\ NoDuplicates(readyQ[prio[run]])
        BY <1>1 DEF ReadyPlaces
      <4> QED BY <1>1, <3>2, <4>1, EnterOnce
    <3>4. /\ rq[prio[run]] = kTCBQJam(readyQ[prio[run]], run)
          /\ \A q \in Prio \ {prio[run]} : rq[q] = readyQ[q]
          /\ rq \in [Prio -> Seq(Task)]
      BY <1>1, <2>1, <3>1
    <3> HIDE DEF rq
    <3>5. \A q \in Prio : ToSet(rq[q]) = IF q = prio[run] THEN ToSet(readyQ[q]) \cup {run}
                                         ELSE ToSet(readyQ[q])
      BY <3>1, <3>4
    <3>6. \A q \in Prio : NoDuplicates(rq[q])
      BY <1>1, <3>3, <3>4 DEF ReadyPlaces
    <3>7. \A q \in Prio : \A t \in ToSet(rq[q]) : prio[t] = q /\ CanRun(t)
      <4> TAKE q \in Prio
      <4> TAKE t \in ToSet(rq[q])
      <4>1. t \in ToSet(readyQ[q]) \/ (q = prio[run] /\ t = run)
        BY <3>5
      <4>2. t \in ToSet(readyQ[q]) => prio[t] = q /\ status[t] = "READY"
        BY <1>1 DEF ReadyPlaces
      <4> QED BY <2>1, <4>1, <4>2 DEF CanRun
    <3>8. \A u \in Task : CanRun(u) => u \in ToSet(rq[prio[u]])
      BY <1>1, <3>5 DEF ReadyInv, CanRun
    <3> QED BY <3>4, <3>6, <3>7, <3>8
  <2>2. CASE ~preempted
    <3>1. rq = readyQ
      BY <2>2
    <3> HIDE DEF rq
    <3> QED BY <1>1, <2>2, <3>1 DEF ReadyPlaces, ReadyInv, CanRun
  <2> QED BY <2>1, <2>2
<1> HIDE DEF rq
<1>4. CanRun(IdleTask)
  BY <1>1 DEF ReadyInv, CanRun
<1>5. \A q \in Prio : ToSet(rq[q]) # {} => rq[q] # <<>>
  BY <1>3, EmptySet
<1>6. p \in Prio /\ rq[p] # <<>> /\ \A u \in Task : CanRun(u) => p <= prio[u]
  BY <1>1, <1>3, <1>4, <1>5, NextPrioProperties
<1> HIDE DEF p
<1>7. /\ next \in Task /\ next \in ToSet(rq[p]) /\ next \notin ToSet(Tail(rq[p]))
      /\ ToSet(Tail(rq[p])) \subseteq ToSet(rq[p]) /\ NoDuplicates(Tail(rq[p]))
      /\ \A q \in Prio : ToSet(rq[q]) \subseteq Task
  <2>1. rq[p] \in Seq(Task) /\ NoDuplicates(rq[p])
    BY <1>3, <1>6
  <2>2. /\ next \in Task /\ next \in ToSet(rq[p]) /\ next \notin ToSet(Tail(rq[p]))
        /\ ToSet(Tail(rq[p])) \subseteq ToSet(rq[p]) /\ NoDuplicates(Tail(rq[p]))
    BY <1>6, <2>1, TailFacts
  <2>3. \A q \in Prio : rq[q] \in Seq(Task)
    BY <1>3
  <2>4. ASSUME NEW q \in Seq(Task) PROVE ToSet(q) \subseteq Task
    BY LenProperties, ElementOfSeq DEF ToSet
  <2> QED BY <2>2, <2>3, <2>4
<1>8. CanRun(next) /\ prio[next] = p
  BY <1>3, <1>6, <1>7
<1>9. readyQ'[p] = Tail(rq[p]) /\ \A q \in Prio \ {p} : readyQ'[q] = rq[q]
  BY <1>2, <1>3, <1>6
<1>10. \A q \in Prio : NoDuplicates(readyQ'[q])
  BY <1>3, <1>7, <1>9
<1>11. \A q \in Prio : \A t \in ToSet(readyQ'[q]) :
         t # next /\ prio[t] = q /\ CanRun(t) /\ t \in Task
  <2> HIDE DEF next
  <2>1. \A t \in ToSet(readyQ'[p]) :
          t # next /\ prio[t] = p /\ CanRun(t) /\ t \in Task
    BY <1>3, <1>6, <1>7, <1>9
  <2>2. ASSUME NEW q \in Prio \ {p}, NEW t \in ToSet(readyQ'[q])
        PROVE  t # next /\ prio[t] = q /\ CanRun(t) /\ t \in Task
    BY <1>3, <1>7, <1>8, <1>9, <2>2
  <2> QED BY <2>1, <2>2
<1>12. Switched(next)
  BY <1>2, <1>6, <1>8, <1>10, <1>11 DEF Switched
<1> QED BY <1>7, <1>12

(***************************************************************************)
(* What tasks are suspended in.                                            *)
(***************************************************************************)
\* A task that executes is RUNNING, on no list and in no call.
LEMMA ExecutingRuns ==
  ASSUME ServiceInv, Executing
  PROVE  /\ IInv /\ run \in Task /\ todo = <<>> /\ ~pendSV /\ run # PostProc
         /\ status[run] = "RUNNING" /\ call[run].number = "NONE"
         /\ \A o \in WaitObj : run \notin ToSet(waitQ[o])
         /\ \A p \in Prio : run \notin ToSet(readyQ[p])
         /\ ToSet(todo) = {}
<1>1. /\ IInv /\ RunInv /\ PlaceInv /\ ~pendSV /\ run # PostProc /\ todo = <<>>
      /\ ToSet(<<>>) = {}
  BY DEF ServiceInv, Executing, UserTask, ToSet
<1> QED BY <1>1, ExecutingFacts DEF IInv, RunInv, PlaceInv, ReadyPlaces

\* A step that changes neither a status nor a call.
LEMMA SuspendFrame ==
  ASSUME SuspendInv, UNCHANGED <<status, call>>
  PROVE  SuspendInv'
BY DEF SuspendInv

\* Nor does one that suspends the running task in a call, or readies a task
\* whose call is over.
LEMMA SuspendChange ==
  ASSUME ServiceInv, NEW t \in Task,
         \A u \in Task \ {t} : status'[u] = status[u] /\ call'[u] = call[u],
         \/ status'[t] \in {"READY", "RUNNING"} /\ call'[t].number = "NONE"
         \/ /\ status'[t] = "BLOCKED" /\ call'[t].number = "MUTEX_LOCK"
            /\ call'[t].arg \in Mutex /\ call'[t].wake = "SUCCESS"
         \/ status'[t] = "SLEEPING_DELAY" /\ call'[t].number = "SLEEP_DELAY"
         \/ status'[t] = "SELF_SUSPENDED" /\ call'[t].number = "TASK_SELF_SUSPEND"
  PROVE  SuspendInv'
BY DEF ServiceInv, SuspendInv

\* No step makes the status of a task and its call disagree.
LEMMA SuspendStep ==
  ASSUME ServiceInv, [Next]_kernelVars
  PROVE  SuspendInv'
<1>1. TypeOK /\ SuspendInv /\ status \in [Task -> Status] /\ run \in Task
      /\ call \in [Task -> Suspension]
  BY DEF ServiceInv, IInv, KernelInv, TypeOK, SchedTypeOK, CallTypeOK
<1>2. CASE UNCHANGED <<status, call>>
  BY <1>1, <1>2, SuspendFrame
<1>3. CASE ReadySwtch \/ TimeoutReady \/ SignalReady
  <2> PICK t \in Task : Woken(t)
    BY <1>3, WakeEffects
  <2>1. /\ status' = [status EXCEPT ![t] = "READY"]
        /\ call' = [call EXCEPT ![t] = NoCall]
    BY DEF Woken
  <2> QED BY <1>1, <2>1, SuspendChange DEF NoCall
<1>4. CASE kSwtch
  <2> PICK next \in Task : Switched(next)
    BY <1>4, SwitchEffects, ServiceParts
  <2>1. /\ status' = [status EXCEPT ![run] = IF status[run] = "RUNNING" THEN "READY" ELSE @,
                                    ![next] = "RUNNING"]
        /\ CanRun(next) /\ UNCHANGED call
    BY DEF Switched, callVars
  <2> QED BY <1>1, <2>1 DEF SuspendInv, CanRun
<1>5. CASE SchedCall
  <2> SUFFICES ASSUME Executing PROVE SuspendInv'
    BY <1>5 DEF SchedCall, kSchLock, kSchUnlock, kYield, kSleepDelay,
                kTaskSelfSuspend, kTaskResume
  <2>1. call[run].number = "NONE"
    BY ExecutingRuns
  <2>2. CASE kSchLock \/ kSchUnlock \/ \E t \in MaySuspend : kTaskResume(t)
    BY <1>2, <2>2 DEF kSchLock, kSchUnlock, kTaskResume, schedVars
  <2>3. CASE kYield
    <3>1. status' = [status EXCEPT ![run] = "READY"] /\ UNCHANGED call
      BY <2>3 DEF kYield
    <3> QED BY <1>1, <2>1, <3>1, SuspendChange
  <2>4. ASSUME NEW ticks, kSleepDelay(ticks) PROVE SuspendInv'
    <3>1. /\ status' = [status EXCEPT ![run] = "SLEEPING_DELAY"]
          /\ call'[run].number = "SLEEP_DELAY"
          /\ \A u \in Task \ {run} : call'[u] = call[u]
      BY <1>1, <2>4 DEF kSleepDelay, Suspension
    <3>2. /\ status'[run] = "SLEEPING_DELAY"
          /\ \A u \in Task \ {run} : status'[u] = status[u]
      BY <1>1, <3>1
    <3> QED BY <1>1, <3>1, <3>2, SuspendChange
  <2>5. CASE kTaskSelfSuspend
    <3>1. /\ status' = [status EXCEPT ![run] = "SELF_SUSPENDED"]
          /\ call'[run].number = "TASK_SELF_SUSPEND"
          /\ \A u \in Task \ {run} : call'[u] = call[u]
      BY <1>1, <2>5 DEF kTaskSelfSuspend, Suspension
    <3>2. /\ status'[run] = "SELF_SUSPENDED"
          /\ \A u \in Task \ {run} : status'[u] = status[u]
      BY <1>1, <3>1
    <3> QED BY <1>1, <3>1, <3>2, SuspendChange
  <2> QED BY <1>5, <2>2, <2>3, <2>4, <2>5 DEF SchedCall
<1>6. ASSUME NEW m \in Mutex, NEW timeout, LockBlock(m, timeout)
      PROVE  SuspendInv'
  <2>1. /\ status' = [status EXCEPT ![run] = "BLOCKED"]
        /\ call' = [call EXCEPT ![run] = [number |-> "MUTEX_LOCK", arg |-> m,
                                          phase |-> "WAIT", wake |-> "SUCCESS"]]
    BY <1>6 DEF LockBlock, WaitForMutex
  <2>2. /\ status'[run] = "BLOCKED" /\ call'[run].number = "MUTEX_LOCK"
        /\ call'[run].arg = m /\ call'[run].wake = "SUCCESS"
        /\ \A u \in Task \ {run} : status'[u] = status[u] /\ call'[u] = call[u]
    BY <1>1, <2>1
  <2> QED BY <1>1, <2>2, SuspendChange
<1>7. CASE MutexCall
  <2> PICK m \in Mutex : \/ \E timeout \in Timeout : kMutexLock(m, timeout)
                         \/ kMutexUnlock(m)
    BY <1>7 DEF MutexCall
  <2>1. CASE kMutexUnlock(m)
    BY <1>2, <2>1 DEF kMutexUnlock, schedVars
  <2>2. ASSUME NEW timeout \in Timeout,
               LockFaulted(m) \/ LockFree(m) \/ LockNoWait(m, timeout)
        PROVE  UNCHANGED <<status, call>>
    BY <2>2 DEF LockFaulted, LockFree, LockNoWait, TakeMutex, schedVars
  <2> QED BY <1>2, <1>6, <2>1, <2>2 DEF kMutexLock
<1> QED BY <1>2, <1>3, <1>4, <1>5, <1>7
    DEF Next, KernelStep, UpdatePrio, TimeoutExpire, TickEnd, Tick, SignalCall,
        kTaskSignalReady, kernelVars, schedVars, callVars

(***************************************************************************)
(* Who is about to be made ready.                                          *)
(***************************************************************************)
\* A step that leaves walks behind, or that wakes nobody but a suspended task,
\* handed what it waits for exactly when it is woken for that.
LEMMA WakeFrame ==
  ASSUME OneWake(todo'), NEW t,
         \A c \in ToSet(todo') :
           \/ c.op \in {"updatePrio", "handleTimeouts"}
           \/ c.op \in WakeOps /\ c.task = t
              /\ (c.op = "timeoutReady" => HandleTimeoutsOf(TRUE) \in ToSet(todo')),
         \A c \in ToSet(todo') : c.op \in WakeOps =>
           /\ call'[t].number # "NONE"
           /\ call'[t].number = "MUTEX_LOCK" =>
                (c.op = "ready" <=> owner'[call'[t].arg] = t)
  PROVE  WakeInv'
BY DEF WakeInv, WakeOps

\* A task that is in the middle of a lock call, and is not about to be woken,
\* is in the queue of the mutex it asked for, which it does not own.
LEMMA BlockedWaits ==
  ASSUME ServiceInv, NEW t \in Task, call[t].number = "MUTEX_LOCK",
         \A c \in ToSet(todo) : c.op \notin WakeOps
  PROVE  /\ \E m \in Mutex : /\ t \in ToSet(waitQ[m]) /\ m = call[t].arg
                             /\ m = waitingFor[t] /\ m = wqp[t]
         /\ owner[call[t].arg] # t
<1>1. status[t] = "BLOCKED"
  BY DEF ServiceInv, SuspendInv
<1>2. PICK m \in Mutex : t \in ToSet(waitQ[m])
  BY <1>1 DEF ServiceInv, PlaceInv, BlockedPlaces
<1>3. m \in WaitObj
  BY DEF WaitObj
<1>4. m = call[t].arg /\ m = waitingFor[t] /\ m = wqp[t] /\ owner[m] # t
  BY <1>2, <1>3 DEF ServiceInv, IInv, KernelInv, QueueInv, PlaceInv, WaitPlaces, OwnerInv
<1> QED BY <1>2, <1>4

\* No step is about to wake a task that does not wait, or two tasks.
LEMMA WakeStep ==
  ASSUME ServiceInv, [Next]_kernelVars
  PROVE  WakeInv'
<1>1. /\ IInv /\ TypeOK /\ SuspendInv /\ WakeInv /\ TimeInv /\ QueueInv
      /\ todo \in Seq(KernelCall) /\ OneWake(todo)
  BY DEF ServiceInv, IInv, KernelInv, TypeOK, WakeInv
<1>2. CASE UpdatePrio
  <2>1. UNCHANGED <<call, owner>>
    BY <1>2 DEF UpdatePrio, callVars, mutexVars
  <2>2. /\ ToSet(Tail(todo)) \subseteq ToSet(todo')
        /\ \A c \in ToSet(todo') : c \in ToSet(Tail(todo)) \/ c.op = "updatePrio"
        /\ ToSet(todo) = {Head(todo)} \cup ToSet(Tail(todo))
        /\ Head(todo).op = "updatePrio"
    BY <1>1, <1>2, UpdatePrioOps
  <2>3. OneWake(todo')
    <3>1. todo # <<>>
      BY <1>2 DEF UpdatePrio
    <3>2. OneWake(Tail(todo)) /\ Tail(todo) \in Seq(KernelCall)
      BY <1>1, <3>1, OneWakeTail, TodoTypes
    <3>3. todo' = Tail(todo) \/ \E a \in Seq(KernelCall) :
            /\ todo' = a \o Tail(todo) /\ \A c \in ToSet(a) : c.op = "updatePrio"
      <4> DEFINE t == Head(todo).task
                 next == waitingFor[t]
                 up == IF /\ status[t] = "BLOCKED" /\ next # None
                          /\ next \in Inherit /\ owner[next] # None
                       THEN <<UpdatePrioOf(owner[next])>> ELSE <<>>
      <4>1. todo' = Tail(todo) \/ todo' = up \o Tail(todo)
        BY <1>2 DEF UpdatePrio
      <4>2. next # None => next \in Mutex
        BY <1>1, <1>2, HeadTask DEF UpdatePrio, TypeOK, MutexTypeOK
      <4>3. next # None /\ owner[next] # None => owner[next] \in Task
        BY <1>1, <4>2 DEF TypeOK, MutexTypeOK
      <4>4. up \in Seq(KernelCall)
        BY <1>1, <4>3, TodoTypes
      <4>5. \A c \in ToSet(up) : c.op = "updatePrio"
        BY DEF UpdatePrioOf, ToSet
      <4> HIDE DEF up
      <4> QED BY <4>1, <4>4, <4>5
    <3> QED BY <3>2, <3>3, OneWakeConcat
  <2>4. HandleTimeoutsOf(TRUE) \in ToSet(todo) => HandleTimeoutsOf(TRUE) \in ToSet(todo')
    BY <2>2 DEF HandleTimeoutsOf
  <2> QED BY <1>1, <2>1, <2>2, <2>3, <2>4 DEF WakeInv, WakeOps
<1>3. CASE ReadySwtch \/ TimeoutReady \/ SignalReady
  <2> PICK t \in Task : Woken(t)
    BY <1>3, WakeEffects
  <2>1. OneWake(todo') /\ \A c \in ToSet(todo') : c.op = "handleTimeouts"
    BY <1>1, OneWakeTail DEF Woken
  <2> QED BY <2>1, WakeFrame DEF WakeOps
<1>4. CASE TickEnd
  <2>1. todo # <<>> /\ Head(todo).op = "handleTimeouts" /\ todo' = Tail(todo)
    BY <1>4 DEF TickEnd
  <2>2. OneWake(todo') /\ \A c \in ToSet(todo') : FALSE
    BY <1>1, <2>1, OneWakeTail
  <2> QED BY <2>2 DEF WakeInv
<1>5. CASE TimeoutExpire
  <2> DEFINE h == Head(tmo)
  <2>1. /\ h \in Task
        /\ HandleTimeoutsOf(TRUE) \in ToSet(todo')
        /\ \A c \in ToSet(todo') :
             \/ c.op = "updatePrio"
             \/ c = [op |-> "timeoutReady", task |-> h]
             \/ c = HandleTimeoutsOf(TRUE)
    BY <1>1, <1>5, ExpireTodo
  <2>2. todo # <<>> /\ Head(todo).op = "handleTimeouts" /\ UNCHANGED <<call, owner>>
    BY <1>5 DEF TimeoutExpire, callVars, mutexVars
  <2>3. \A c \in ToSet(todo) : c.op = "handleTimeouts"
    BY <1>1, <2>2, OneWakeTail, TodoSets
  <2>4. call[h].number \in {"MUTEX_LOCK", "SLEEP_DELAY"}
    <3>1. tmo \in Seq(Task) /\ tmo # <<>>
      BY <1>1, <1>5 DEF TimeoutExpire, TypeOK, TimeTypeOK
    <3>2. h \in ToSet(tmo)
      BY <3>1, TailFacts
    <3> QED BY <1>1, <3>2 DEF TimeInv
  <2>5. call[h].number = "MUTEX_LOCK" => owner[call[h].arg] # h
    BY <2>1, <2>3, BlockedWaits DEF WakeOps
  <2>6. OneWake(todo')
    <3> DEFINE first == IF ttype[h] = "BLOCKING" THEN WaiterRemoved(h) ELSE <<>>
               last == <<[op |-> "timeoutReady", task |-> h], HandleTimeoutsOf(TRUE)>>
    <3>1. todo' = first \o last
      BY <1>5 DEF TimeoutExpire
    <3>2. first \in Seq(KernelCall) /\ \A c \in ToSet(first) : c.op = "updatePrio"
      <4>1. \A c \in ToSet(<<>>) : c.op = "updatePrio"
        BY DEF ToSet
      <4> QED BY <1>1, <2>1, <4>1, TodoTypes, WaiterRemovedOps
    <3>3. last \in Seq(KernelCall)
      BY <2>1 DEF KernelCall, HandleTimeoutsOf
    <3>4. OneWake(last)
      BY OneWakeShort
    <3> HIDE DEF first, last
    <3> QED BY <3>1, <3>2, <3>3, <3>4, OneWakeConcat
  <2> HIDE DEF h
  <2>7. \A c \in ToSet(todo') :
          \/ c.op \in {"updatePrio", "handleTimeouts"}
          \/ c.op = "timeoutReady" /\ c.task = h
    BY <2>1 DEF HandleTimeoutsOf
  <2>8. \A c \in ToSet(todo') : c.op \in WakeOps =>
          /\ call'[h].number # "NONE"
          /\ call'[h].number = "MUTEX_LOCK" => (c.op = "ready" <=> owner'[call'[h].arg] = h)
    BY <2>2, <2>4, <2>5, <2>7 DEF WakeOps
  <2>9. \A c \in ToSet(todo') :
          \/ c.op \in {"updatePrio", "handleTimeouts"}
          \/ c.op \in WakeOps /\ c.task = h
             /\ (c.op = "timeoutReady" => HandleTimeoutsOf(TRUE) \in ToSet(todo'))
    BY <2>1, <2>7 DEF WakeOps
  <2> QED BY <2>6, <2>8, <2>9, WakeFrame
<1>6. CASE SignalCall
  <2> PICK t \in MaySignal : kTaskSignalReady(t)
    BY <1>6 DEF SignalCall
  <2>1. /\ t \in Task /\ t # PostProc /\ Executing /\ status[t] \in Interruptible
        /\ UNCHANGED <<call, owner>>
    BY MutexConstants DEF kTaskSignalReady, UserTask, mutexVars
  <2>2. \A c \in ToSet(todo') :
          c.op = "updatePrio" \/ c = [op |-> "signalReady", task |-> t]
    BY <1>1, <2>1, SignalTodo
  <2>3. call[t].number # "NONE"
    BY <1>1, <2>1 DEF SuspendInv, Interruptible
  <2>4. call[t].number = "MUTEX_LOCK" => owner[call[t].arg] # t
    BY <2>1, ExecutingRuns, BlockedWaits
  <2>5. OneWake(todo')
    <3> DEFINE first == IF wqp[t] # None THEN WaiterRemoved(t) ELSE <<>>
               last == <<[op |-> "signalReady", task |-> t]>>
    <3>1. todo' = first \o last
      BY DEF kTaskSignalReady
    <3>2. first \in Seq(KernelCall) /\ \A c \in ToSet(first) : c.op = "updatePrio"
      <4>1. \A c \in ToSet(<<>>) : c.op = "updatePrio"
        BY DEF ToSet
      <4> QED BY <1>1, <2>1, <4>1, TodoTypes, WaiterRemovedOps
    <3>3. last \in Seq(KernelCall) /\ OneWake(last)
      BY <2>1, OneWakeShort DEF KernelCall
    <3> HIDE DEF first, last
    <3> QED BY <3>1, <3>2, <3>3, OneWakeConcat
  <2>6. \A c \in ToSet(todo') :
          c.op = "updatePrio" \/ (c.op = "signalReady" /\ c.task = t)
    BY <2>2
  <2> QED BY <2>1, <2>3, <2>4, <2>5, <2>6, WakeFrame DEF WakeOps
<1>7. CASE (todo' = todo /\ todo = <<>>) \/ todo' = <<>>
           \/ \E u : todo' = <<UpdatePrioOf(u)>>
           \/ todo' = <<HandleTimeoutsOf(FALSE)>>
  <2>1. OneWake(todo')
    BY <1>7, OneWakeShort
  <2>2. \A c \in ToSet(todo') : c.op \in {"updatePrio", "handleTimeouts"}
    BY <1>7 DEF ToSet, UpdatePrioOf, HandleTimeoutsOf
  <2> QED BY <2>1, <2>2, WakeFrame DEF WakeOps
<1>8. CASE SchedCall
  <2>1. ASSUME NEW t \in MaySuspend, kTaskResume(t) PROVE WakeInv'
    <3>1. /\ t \in Task /\ status[t] = "SELF_SUSPENDED" /\ UNCHANGED <<call, owner>>
          /\ todo' = <<ReadySwtchOf(t)>>
      BY <2>1, MutexConstants DEF kTaskResume, UserTask, mutexVars
    <3>2. call[t].number = "TASK_SELF_SUSPEND"
      BY <1>1, <3>1 DEF SuspendInv
    <3>3. OneWake(todo')
      BY <3>1, OneWakeShort
    <3>4. \A c \in ToSet(todo') : c.op = "ready" /\ c.task = t
      BY <3>1 DEF ToSet, ReadySwtchOf
    <3> QED BY <3>1, <3>2, <3>3, <3>4, WakeFrame DEF WakeOps
  <2> QED BY <1>7, <1>8, <2>1
      DEF SchedCall, kSchLock, kSchUnlock, kYield, kSleepDelay, kTaskSelfSuspend,
          Executing
<1>9. CASE MutexCall
  <2> PICK m \in Mutex : \/ \E timeout \in Timeout : kMutexLock(m, timeout)
                         \/ kMutexUnlock(m)
    BY <1>9 DEF MutexCall
  <2>1. CASE UnlockHandOff(m)
    <3> DEFINE w == Head(waitQ[m])
    <3>1. /\ w \in Task
          /\ \A c \in ToSet(todo') : c.op = "updatePrio" \/ c = ReadySwtchOf(w)
      BY <1>1, <2>1, HandOffTodo
    <3>2. /\ m \in WaitObj /\ w \in ToSet(waitQ[m])
      BY <1>1, <2>1, HandOffQueues DEF WaitObj
    <3>3. call[w].number = "MUTEX_LOCK" /\ call[w].arg = m
      BY <1>1, <3>2 DEF QueueInv, ServiceInv, PlaceInv, WaitPlaces
    <3>4. owner'[m] = w
      BY <1>1, <2>1 DEF UnlockHandOff, TypeOK, MutexTypeOK
    <3>5. OneWake(todo')
      <4> DEFINE first == IF m \in Inherit THEN <<UpdatePrioOf(run), UpdatePrioOf(w)>>
                                           ELSE <<>>
                 last == <<ReadySwtchOf(w)>>
      <4>1. todo' = first \o last
        BY <2>1 DEF UnlockHandOff
      <4>2. first \in Seq(KernelCall) /\ \A c \in ToSet(first) : c.op = "updatePrio"
        <5>1. UpdatePrioOf(run) \in KernelCall /\ UpdatePrioOf(w) \in KernelCall
          BY <1>1, <3>1 DEF UpdatePrioOf, KernelCall, TypeOK, SchedTypeOK
        <5>2. UpdatePrioOf(run).op = "updatePrio" /\ UpdatePrioOf(w).op = "updatePrio"
          BY DEF UpdatePrioOf
        <5> HIDE DEF KernelCall, w
        <5> QED BY <5>1, <5>2, SmallSequences
      <4>3. last \in Seq(KernelCall) /\ OneWake(last)
        BY <3>1, OneWakeShort DEF KernelCall, ReadySwtchOf
      <4> HIDE DEF first, last
      <4> QED BY <4>1, <4>2, <4>3, OneWakeConcat
    <3>6. CASE kMutexUnlock(m)
      <4>1. UNCHANGED call
        BY <3>6 DEF kMutexUnlock
      <4> HIDE DEF w
      <4>2. \A c \in ToSet(todo') : c.op = "updatePrio" \/ (c.op = "ready" /\ c.task = w)
        BY <3>1 DEF ReadySwtchOf
      <4> QED BY <3>3, <3>4, <3>5, <4>1, <4>2, WakeFrame DEF WakeOps
    <3>7. CASE \E timeout \in Timeout : kMutexLock(m, timeout)
      <4>1. todo' = <<>> \/ \E u : todo' = <<UpdatePrioOf(u)>>
        BY <3>7 DEF kMutexLock, LockFaulted, LockFree, TakeMutex, OwnMutex, LockNoWait,
                    LockBlock, WaitForMutex, Executing
      <4> QED BY <4>1, <1>7
    <3> QED BY <3>6, <3>7
  <2>2. CASE ~UnlockHandOff(m)
    <3>1. todo' = <<>> \/ \E u : todo' = <<UpdatePrioOf(u)>>
      BY <2>2 DEF kMutexLock, kMutexUnlock, LockFaulted, LockFree, TakeMutex, OwnMutex,
                  LockNoWait, LockBlock, WaitForMutex, Executing, UnlockFree, FreeMutex
    <3> QED BY <3>1, <1>7
  <2> QED BY <2>1, <2>2
<1>10. CASE kSwtch \/ Tick
  BY <1>7, <1>10 DEF kSwtch, Tick
<1>11. CASE UNCHANGED kernelVars
  BY <1>1, <1>11 DEF WakeInv, kernelVars, callVars, mutexVars
<1> QED BY <1>2, <1>3, <1>4, <1>5, <1>6, <1>8, <1>9, <1>10, <1>11 DEF Next, KernelStep

(***************************************************************************)
(* Where tasks are queued.                                                 *)
(***************************************************************************)
\* A task that was not READY enters the queue of its priority.
LEMMA ReadyEnter ==
  ASSUME KernelInv, ReadyPlaces, NEW t \in Task, status[t] # "READY",
         \/ readyQ' = [readyQ EXCEPT ![prio[t]] = kTCBQEnq(@, t)]
         \/ readyQ' = [readyQ EXCEPT ![prio[t]] = kTCBQJam(@, t)],
         status' = [status EXCEPT ![t] = "READY"], UNCHANGED prio
  PROVE  ReadyPlaces'
<1>1. /\ TypeOK /\ prio[t] \in Prio /\ readyQ \in [Prio -> Seq(Task)]
      /\ status \in [Task -> Status]
  BY DEF KernelInv, TypeOK, SchedTypeOK
<1> DEFINE q == readyQ[prio[t]]
<1>2. q \in Seq(Task) /\ NoDuplicates(q) /\ t \notin ToSet(q)
  BY <1>1 DEF ReadyPlaces
<1>3. /\ NoDuplicates(kTCBQEnq(q, t)) /\ NoDuplicates(kTCBQJam(q, t))
      /\ ToSet(kTCBQEnq(q, t)) = ToSet(q) \cup {t}
      /\ ToSet(kTCBQJam(q, t)) = ToSet(q) \cup {t}
  <2>1. NoDuplicates(kTCBQEnq(q, t)) /\ NoDuplicates(kTCBQJam(q, t))
    BY <1>2, EnterOnce
  <2> QED BY <1>1, <2>1, ReadyEnqProperties
<1>4. /\ \A p \in Prio \ {prio[t]} : readyQ'[p] = readyQ[p]
      /\ readyQ'[prio[t]] = kTCBQEnq(q, t) \/ readyQ'[prio[t]] = kTCBQJam(q, t)
  BY <1>1
<1>5. /\ NoDuplicates(readyQ'[prio[t]])
      /\ ToSet(readyQ'[prio[t]]) = ToSet(readyQ[prio[t]]) \cup {t}
  BY <1>3, <1>4
<1>6. \A p \in Prio : NoDuplicates(readyQ'[p])
  BY <1>1, <1>4, <1>5 DEF ReadyPlaces
<1>7. ASSUME NEW p \in Prio, NEW u \in ToSet(readyQ'[p])
      PROVE  status'[u] = "READY" /\ prio'[u] = p
  <2>1. u \in ToSet(readyQ[p]) \/ (u = t /\ p = prio[t])
    BY <1>4, <1>5, <1>7
  <2>2. u \in ToSet(readyQ[p]) => status[u] = "READY" /\ prio[u] = p
    BY <1>1 DEF ReadyPlaces
  <2>3. CASE u = t
    BY <1>1, <2>1, <2>2, <2>3
  <2>4. CASE u # t
    BY <1>1, <2>1, <2>2, <2>4 DEF TypeOK
  <2> QED BY <2>3, <2>4
<1> QED BY <1>6, <1>7 DEF ReadyPlaces

\* A walk moves a READY task to the queue of its new priority.
LEMMA ReadyWalk ==
  ASSUME KernelInv, ReadyPlaces, UpdatePrio
  PROVE  ReadyPlaces'
<1> DEFINE t == Head(todo).task
           new == kTaskCalcEffectivePrio_(t)
<1>1. /\ TypeOK /\ readyQ \in [Prio -> Seq(Task)]
      /\ status \in [Task -> Status] /\ prio \in [Task -> Prio]
      /\ t \in Task /\ new \in Prio /\ ~StaleWait(t) /\ ReadyPlaces
  BY HeadTask, CalcEffectiveProperties
  DEF KernelInv, TypeOK, SchedTypeOK, UpdatePrio, StaleInv, StaleWait, ReadyPlaces
<1>2. CASE new = prio[t]
  BY <1>1, <1>2 DEF UpdatePrio, schedVars, ReadyPlaces
<1>3. CASE new # prio[t]
  <2>1. /\ prio' = [prio EXCEPT ![t] = new] /\ UNCHANGED status
        /\ readyQ' = IF status[t] = "READY"
                     THEN [readyQ EXCEPT ![prio[t]] = kTCBQRem(@, t),
                                         ![new] = kTCBQEnq(@, t)]
                     ELSE readyQ
    BY <1>1, <1>3 DEF UpdatePrio
  <2> HIDE DEF t, new
  <2>2. \A u \in Task \ {t} : prio'[u] = prio[u]
    BY <1>1, <2>1
  <2>3. CASE status[t] # "READY"
    <3>1. \A p \in Prio : t \notin ToSet(readyQ[p]) /\ readyQ[p] \in Seq(Task)
      BY <1>1, <2>3 DEF ReadyPlaces
    <3>2. \A p \in Prio : ToSet(readyQ[p]) \subseteq Task \ {t}
      BY <3>1, LenProperties, ElementOfSeq DEF ToSet
    <3> QED BY <1>1, <2>1, <2>2, <2>3, <3>2 DEF ReadyPlaces
  <2>4. CASE status[t] = "READY"
    <3>1. /\ readyQ'[prio[t]] = kTCBQRem(readyQ[prio[t]], t)
          /\ readyQ'[new] = kTCBQEnq(readyQ[new], t)
          /\ \A p \in Prio \ {prio[t], new} : readyQ'[p] = readyQ[p]
      BY <1>1, <1>3, <2>1, <2>4
    <3>2. /\ readyQ[prio[t]] \in Seq(Task) /\ readyQ[new] \in Seq(Task)
          /\ NoDuplicates(readyQ[prio[t]]) /\ NoDuplicates(readyQ[new])
          /\ t \notin ToSet(readyQ[new])
      BY <1>1, <1>3 DEF ReadyPlaces
    <3>3. /\ NoDuplicates(readyQ'[prio[t]]) /\ t \notin ToSet(readyQ'[prio[t]])
          /\ ToSet(readyQ'[prio[t]]) \subseteq ToSet(readyQ[prio[t]])
      <4>1. /\ NoDuplicates(kTCBQRem(readyQ[prio[t]], t))
            /\ t \notin ToSet(kTCBQRem(readyQ[prio[t]], t))
            /\ ToSet(kTCBQRem(readyQ[prio[t]], t)) \subseteq ToSet(readyQ[prio[t]])
        BY <3>2, RemProperties
      <4> QED BY <3>1, <4>1
    <3>4. /\ NoDuplicates(readyQ'[new])
          /\ ToSet(readyQ'[new]) = ToSet(readyQ[new]) \cup {t}
      <4>1. NoDuplicates(kTCBQEnq(readyQ[new], t))
        BY <1>1, <3>2, EnterOnce
      <4>2. ToSet(kTCBQEnq(readyQ[new], t)) = ToSet(readyQ[new]) \cup {t}
        BY <1>1, ReadyEnqProperties
      <4> QED BY <3>1, <4>1, <4>2
    <3>5. \A p \in Prio : NoDuplicates(readyQ'[p])
      BY <1>1, <3>1, <3>3, <3>4 DEF ReadyPlaces
    <3>6. ASSUME NEW p \in Prio, NEW u \in ToSet(readyQ'[p])
          PROVE  status'[u] = "READY" /\ prio'[u] = p
      <4>1. CASE u = t
        <5>1. p = new
          <6>1. p # prio[t]
            BY <3>3, <3>6, <4>1
          <6>2. p # new => t \in ToSet(readyQ[p])
            BY <3>1, <3>6, <4>1, <6>1
          <6> QED BY <1>1, <6>1, <6>2 DEF ReadyPlaces
        <5> QED BY <1>1, <2>1, <2>4, <4>1, <5>1
      <4>2. CASE u # t
        <5>1. u \in ToSet(readyQ[p])
          BY <3>1, <3>3, <3>4, <3>6, <4>2
        <5>2. status[u] = "READY" /\ prio[u] = p /\ readyQ[p] \in Seq(Task)
          BY <1>1, <5>1 DEF ReadyPlaces
        <5>3. u \in Task
          BY <5>1, <5>2, LenProperties, ElementOfSeq DEF ToSet
        <5> QED BY <2>1, <2>2, <4>2, <5>2, <5>3
      <4> QED BY <4>1, <4>2
    <3> QED BY <3>5, <3>6 DEF ReadyPlaces
  <2> QED BY <2>3, <2>4
<1> QED BY <1>2, <1>3

\* The running task stops being RUNNING, or nothing changes.
LEMMA ReadyKept ==
  ASSUME KernelInv, ReadyPlaces, UNCHANGED <<readyQ, prio>>, NEW st,
         UNCHANGED status
         \/ (status[run] = "RUNNING" /\ status' = [status EXCEPT ![run] = st])
  PROVE  ReadyPlaces'
<1>1. readyQ \in [Prio -> Seq(Task)] /\ status \in [Task -> Status]
  BY DEF KernelInv, TypeOK, SchedTypeOK
<1>2. \A p \in Prio : readyQ[p] \in Seq(Task)
  BY <1>1
<1>3. \A p \in Prio : ToSet(readyQ[p]) \subseteq Task
  BY <1>2, LenProperties, ElementOfSeq DEF ToSet
<1> QED BY <1>1, <1>3 DEF ReadyPlaces

\* No step misplaces a READY task.
LEMMA ReadyPlaceStep ==
  ASSUME ServiceInv, [Next]_kernelVars
  PROVE  ReadyPlaces'
<1>1. TypeOK /\ SuspendInv /\ run \in Task /\ status \in [Task -> Status]
  BY DEF ServiceInv, IInv, KernelInv, TypeOK, SchedTypeOK
<1>2. CASE UpdatePrio
  BY <1>2, ReadyWalk, ServiceParts
<1>3. CASE ReadySwtch \/ TimeoutReady \/ SignalReady
  <2> PICK t \in Task : Woken(t)
    BY <1>3, WakeEffects
  <2>1. status[t] # "READY"
    BY <1>1 DEF Woken, SuspendInv
  <2> QED BY <2>1, ReadyEnter, ServiceParts DEF Woken
<1>4. CASE kSwtch
  <2> PICK next \in Task : Switched(next)
    BY <1>4, SwitchEffects, ServiceParts
  <2>1. /\ \A p \in Prio : NoDuplicates(readyQ'[p])
        /\ \A p \in Prio : \A t \in ToSet(readyQ'[p]) :
             t # next /\ prio[t] = p /\ CanRun(t) /\ t \in Task
        /\ status' = [status EXCEPT ![run] = IF status[run] = "RUNNING" THEN "READY" ELSE @,
                                    ![next] = "RUNNING"]
        /\ prio' = prio
    BY DEF Switched
  <2>2. \A t \in Task \ {next} : CanRun(t) => status'[t] = "READY"
    BY <1>1, <2>1 DEF CanRun
  <2>3. \A p \in Prio : \A t \in ToSet(readyQ'[p]) : status'[t] = "READY" /\ prio'[t] = p
    BY <2>1, <2>2
  <2> QED BY <2>1, <2>3 DEF ReadyPlaces
<1>5. CASE UNCHANGED <<readyQ, prio, status>>
  BY <1>5, ReadyKept, ServiceParts
<1>6. CASE SchedCall
  <2> SUFFICES ASSUME Executing PROVE ReadyPlaces'
    BY <1>6 DEF SchedCall, kSchLock, kSchUnlock, kYield, kSleepDelay,
                kTaskSelfSuspend, kTaskResume
  <2>1. status[run] = "RUNNING"
    BY ExecutingRuns
  <2>2. CASE kYield
    <3>1. /\ readyQ' = [readyQ EXCEPT ![prio[run]] = kTCBQEnq(@, run)]
          /\ status' = [status EXCEPT ![run] = "READY"] /\ UNCHANGED prio
      BY <2>2 DEF kYield
    <3> QED BY <1>1, <2>1, <3>1, ReadyEnter, ServiceParts
  <2>3. CASE \/ \E ticks \in Timeout : kSleepDelay(ticks)
             \/ kTaskSelfSuspend
    BY <2>1, <2>3, ReadyKept, ServiceParts DEF kSleepDelay, kTaskSelfSuspend
  <2> QED BY <1>5, <1>6, <2>2, <2>3 DEF SchedCall, kSchLock, kSchUnlock, kTaskResume,
                                        schedVars
<1>7. CASE MutexCall
  <2> PICK m \in Mutex : \/ \E timeout \in Timeout : kMutexLock(m, timeout)
                         \/ kMutexUnlock(m)
    BY <1>7 DEF MutexCall
  <2>1. ASSUME NEW timeout \in Timeout, Executing, LockBlock(m, timeout)
        PROVE  ReadyPlaces'
    BY <2>1, ExecutingRuns, ReadyKept, ServiceParts DEF LockBlock, WaitForMutex
  <2>2. ASSUME NEW timeout \in Timeout,
               LockFaulted(m) \/ LockFree(m) \/ LockNoWait(m, timeout)
        PROVE  UNCHANGED <<readyQ, prio, status>>
    BY <2>2 DEF LockFaulted, LockFree, LockNoWait, TakeMutex, schedVars
  <2> QED BY <1>5, <2>1, <2>2 DEF kMutexLock, kMutexUnlock, schedVars
<1> QED BY <1>2, <1>3, <1>4, <1>5, <1>6, <1>7
    DEF Next, KernelStep, TimeoutExpire, TickEnd, Tick, SignalCall,
        kTaskSignalReady, kernelVars, schedVars

\* A step that queues nobody, and changes the call of a task only if it leaves
\* it on no queue.
LEMMA WaitPlacesFrame ==
  ASSUME ServiceInv, NEW t,
         \A u \in Task \ {t} : waitingFor'[u] = waitingFor[u] /\ call'[u] = call[u],
         \A o \in WaitObj : ToSet(waitQ'[o]) \subseteq ToSet(waitQ[o]) \ {t}
  PROVE  WaitPlaces'
BY ListedTasks DEF ServiceInv, IInv, KernelInv, PlaceInv, WaitPlaces

\* The lists after a waiter has been unlinked from the queue its node names.
LEMMA UnlinkSets ==
  ASSUME KernelInv, NEW t \in Task,
         \/ waitQ' = [waitQ EXCEPT ![wqp[t]] = kTCBQRem(@, t)]
         \/ waitQ' = waitQ /\ \A o \in WaitObj : t \notin ToSet(waitQ[o])
  PROVE  \A o \in WaitObj : ToSet(waitQ'[o]) = ToSet(waitQ[o]) \ {t}
<1>1. TypeOK /\ QueueInv
  BY DEF KernelInv
<1>2. \A o \in WaitObj : ToSet(waitQ'[o]) \subseteq ToSet(waitQ[o]) \ {t}
  BY <1>1, UnlinkQueues
<1>3. \A o \in WaitObj : ToSet(waitQ[o]) \ {t} \subseteq ToSet(kTCBQRem(waitQ[o], t))
  <2> TAKE o \in WaitObj
  <2>1. waitQ[o] \in Seq(Task)
    BY <1>1 DEF TypeOK, WaitTypeOK
  <2> QED BY <2>1, RemProperties
<1>4. \A o \in WaitObj : waitQ'[o] = waitQ[o] \/ waitQ'[o] = kTCBQRem(waitQ[o], t)
  BY <1>1 DEF TypeOK, WaitTypeOK
<1> QED BY <1>2, <1>3, <1>4

\* What an expiry and a signal do to the queues and to the calls still to be
\* made: t is unlinked, and is the only task about to be made ready.
Unlinked(t) ==
  /\ \A o \in WaitObj : ToSet(waitQ'[o]) = ToSet(waitQ[o]) \ {t}
  /\ \/ waitQ' = [waitQ EXCEPT ![wqp[t]] = kTCBQRem(@, t)]
     \/ waitQ' = waitQ /\ \A o \in WaitObj : t \notin ToSet(waitQ[o])
  /\ \E c \in ToSet(todo') : c.op \in WakeOps /\ c.task = t
  /\ \A c \in ToSet(todo) : c.op = "handleTimeouts"
  /\ ToSet(WaiterRemoved(t)) \subseteq ToSet(todo')
       \/ \A o \in WaitObj : t \notin ToSet(waitQ[o])
  /\ UNCHANGED <<schedVars, mutexVars, call>>

LEMMA ExpireUnlinks ==
  ASSUME ServiceInv, TimeoutExpire
  PROVE  \E t \in Task : Unlinked(t) /\ UNCHANGED ret
<1> DEFINE t == Head(tmo)
           x == [op |-> "timeoutReady", task |-> t]
           first == IF ttype[t] = "BLOCKING" THEN WaiterRemoved(t) ELSE <<>>
           y == HandleTimeoutsOf(TRUE)
           last == <<x, y>>
<1>1. /\ TypeOK /\ QueueInv /\ t \in Task /\ tmo \in Seq(Task) /\ tmo # <<>>
      /\ OneWake(todo) /\ todo \in Seq(KernelCall)
      /\ todo # <<>> /\ Head(todo).op = "handleTimeouts"
      /\ UNCHANGED <<schedVars, mutexVars, callVars>>
  BY ExpireTodo DEF ServiceInv, IInv, KernelInv, TimeoutExpire, TypeOK, TimeTypeOK, WakeInv
<1>2. \A c \in ToSet(todo) : c.op = "handleTimeouts"
  BY <1>1, OneWakeTail, TodoSets
<1>3. waitQ' = IF ttype[t] = "BLOCKING"
                 THEN [waitQ EXCEPT ![wqp[t]] = kTCBQRem(@, t)] ELSE waitQ
  BY DEF TimeoutExpire
<1>4. ttype[t] # "BLOCKING" => \A o \in WaitObj : t \notin ToSet(waitQ[o])
  <2>1. t \in ToSet(tmo)
    BY <1>1, TailFacts
  <2> QED BY <1>1, <2>1 DEF QueueInv
<1>5. PICK u \in Task : u = t
  BY <1>1
<1>6. /\ \/ waitQ' = [waitQ EXCEPT ![wqp[u]] = kTCBQRem(@, u)]
         \/ waitQ' = waitQ /\ \A o \in WaitObj : u \notin ToSet(waitQ[o])
      /\ \A o \in WaitObj : ToSet(waitQ'[o]) = ToSet(waitQ[o]) \ {u}
  <2> HIDE DEF t
  <2>1. \/ waitQ' = [waitQ EXCEPT ![wqp[u]] = kTCBQRem(@, u)]
        \/ waitQ' = waitQ /\ \A o \in WaitObj : u \notin ToSet(waitQ[o])
    BY <1>3, <1>4, <1>5
  <2> QED BY <2>1, UnlinkSets, ServiceParts
<1>7. ToSet(todo') = ToSet(first) \cup {x, y}
  <2>1. todo' = first \o last
    BY DEF TimeoutExpire
  <2>2. first \in Seq(KernelCall)
    BY <1>1, TodoTypes
  <2>3. x \in KernelCall /\ y \in KernelCall
    BY <1>1 DEF KernelCall, HandleTimeoutsOf
  <2> HIDE DEF first, x, y, KernelCall
  <2>4. last \in Seq(KernelCall) /\ ToSet(last) = {x, y}
    BY <2>3, SmallSequences
  <2> HIDE DEF last
  <2> QED BY <2>1, <2>2, <2>4, ConcatSet
<1>8. x \in ToSet(todo') /\ x.op \in WakeOps /\ x.task = t
  BY <1>7 DEF WakeOps
<1>9. ToSet(WaiterRemoved(u)) \subseteq ToSet(todo')
       \/ \A o \in WaitObj : u \notin ToSet(waitQ[o])
  BY <1>4, <1>5, <1>7
<1>10. Unlinked(u)
  <2> HIDE DEF t, x, y, first, last
  <2> QED BY <1>1, <1>2, <1>5, <1>6, <1>8, <1>9 DEF Unlinked, callVars
<1> QED BY <1>1, <1>10 DEF callVars

LEMMA SignalUnlinks ==
  ASSUME ServiceInv, NEW t \in Task, kTaskSignalReady(t)
  PROVE  Unlinked(t)
<1> DEFINE x == [op |-> "signalReady", task |-> t]
           first == IF wqp[t] # None THEN WaiterRemoved(t) ELSE <<>>
           last == <<x>>
<1>1. /\ TypeOK /\ QueueInv /\ Executing /\ UNCHANGED <<schedVars, mutexVars, call>>
  BY DEF ServiceInv, IInv, KernelInv, kTaskSignalReady
<1>2. \A c \in ToSet(todo) : c.op = "handleTimeouts"
  BY <1>1, ExecutingRuns
<1>3. wqp[t] = None => \A o \in WaitObj : t \notin ToSet(waitQ[o])
  BY <1>1, KernelConstants DEF QueueInv, WaitObj
<1>4. waitQ' = IF wqp[t] # None THEN [waitQ EXCEPT ![wqp[t]] = kTCBQRem(@, t)]
                               ELSE waitQ
  BY DEF kTaskSignalReady
<1>5. /\ \/ waitQ' = [waitQ EXCEPT ![wqp[t]] = kTCBQRem(@, t)]
         \/ waitQ' = waitQ /\ \A o \in WaitObj : t \notin ToSet(waitQ[o])
      /\ \A o \in WaitObj : ToSet(waitQ'[o]) = ToSet(waitQ[o]) \ {t}
  BY <1>3, <1>4, UnlinkSets, ServiceParts
<1>6. ToSet(todo') = ToSet(first) \cup {x}
  <2>1. todo' = first \o last
    BY DEF kTaskSignalReady
  <2>2. first \in Seq(KernelCall)
    BY <1>1, TodoTypes
  <2>3. x \in KernelCall
    BY DEF KernelCall
  <2> HIDE DEF first, x, KernelCall
  <2>4. last \in Seq(KernelCall) /\ ToSet(last) = {x}
    BY <2>3, SmallSequences
  <2> HIDE DEF last
  <2> QED BY <2>1, <2>2, <2>4, ConcatSet
<1>7. x \in ToSet(todo') /\ x.op \in WakeOps /\ x.task = t
  BY <1>6 DEF WakeOps
<1>8. ToSet(WaiterRemoved(t)) \subseteq ToSet(todo')
       \/ \A o \in WaitObj : t \notin ToSet(waitQ[o])
  BY <1>3, <1>6
<1> HIDE DEF x, first, last
<1> QED BY <1>1, <1>2, <1>5, <1>7, <1>8 DEF Unlinked

\* No step queues a task that does not know where it waits.
LEMMA WaitPlaceStep ==
  ASSUME ServiceInv, [Next]_kernelVars
  PROVE  WaitPlaces'
<1>1. /\ IInv /\ TypeOK /\ QueueInv /\ StaleInv /\ PlaceInv /\ WaitPlaces /\ run \in Task
      /\ call \in [Task -> Suspension] /\ waitingFor \in [Task -> Mutex \cup {None}]
      /\ \A o \in WaitObj : ToSet(waitQ[o]) \subseteq Task
  BY ListedTasks DEF ServiceInv, IInv, KernelInv, TypeOK, SchedTypeOK, CallTypeOK, MutexTypeOK,
                     PlaceInv
<1>2. CASE UpdatePrio
  <2>1. UNCHANGED <<waitingFor, call>>
    BY <1>2 DEF UpdatePrio, mutexVars, callVars
  <2> QED BY <1>1, <1>2, <2>1, WalkQueues DEF WaitPlaces
<1>3. CASE ReadySwtch \/ TimeoutReady \/ SignalReady
  <2> PICK t \in Task : Woken(t)
    BY <1>3, WakeEffects
  <2>1. /\ \A u \in Task \ {t} : waitingFor'[u] = waitingFor[u] /\ call'[u] = call[u]
        /\ \A o \in WaitObj : ToSet(waitQ'[o]) \subseteq ToSet(waitQ[o]) \ {t}
    BY <1>1 DEF Woken
  <2> QED BY <2>1, WaitPlacesFrame
<1>4. ASSUME NEW t \in Task, Unlinked(t) PROVE WaitPlaces'
  <2>1. /\ UNCHANGED <<waitingFor, call>>
        /\ \A o \in WaitObj : ToSet(waitQ'[o]) \subseteq ToSet(waitQ[o])
    BY <1>4 DEF Unlinked, mutexVars
  <2> QED BY <1>1, <2>1 DEF WaitPlaces
<1>5. CASE UNCHANGED <<waitQ, waitingFor, call>>
  BY <1>1, <1>5 DEF WaitPlaces
<1>6. CASE SchedCall
  <2> SUFFICES ASSUME Executing, UNCHANGED <<waitQ, waitingFor>>,
                      \A u \in Task \ {run} : call'[u] = call[u]
               PROVE  WaitPlaces'
    BY <1>1, <1>6 DEF SchedCall, kSchLock, kSchUnlock, kYield, kSleepDelay,
                      kTaskSelfSuspend, kTaskResume, waitVars, mutexVars
  <2>1. \A o \in WaitObj : run \notin ToSet(waitQ[o])
    BY ExecutingRuns
  <2> QED BY <1>1, <2>1 DEF WaitPlaces
<1>7. CASE MutexCall
  <2> SUFFICES ASSUME NEW m \in Mutex, Executing,
                      \/ \E timeout \in Timeout : kMutexLock(m, timeout)
                      \/ kMutexUnlock(m)
               PROVE  WaitPlaces'
    BY <1>7 DEF MutexCall, kMutexLock, kMutexUnlock
  <2>1. ASSUME NEW timeout \in Timeout, LockBlock(m, timeout) PROVE WaitPlaces'
    <3>1. /\ waitingFor' = [waitingFor EXCEPT ![run] = m]
          /\ call' = [call EXCEPT ![run] = [number |-> "MUTEX_LOCK", arg |-> m,
                                            phase |-> "WAIT", wake |-> "SUCCESS"]]
      BY <2>1 DEF LockBlock, WaitForMutex
    <3>2. /\ waitingFor'[run] = m /\ call'[run].arg = m
          /\ \A u \in Task \ {run} : waitingFor'[u] = waitingFor[u] /\ call'[u] = call[u]
      BY <1>1, <3>1
    <3>3. /\ ToSet(waitQ'[m]) = ToSet(waitQ[m]) \cup {run}
          /\ \A o \in WaitObj \ {m} : waitQ'[o] = waitQ[o]
      BY <1>1, <2>1, BlockQueues DEF IInv
    <3>4. \A o \in WaitObj : run \notin ToSet(waitQ[o])
      BY ExecutingRuns
    <3> QED BY <1>1, <3>2, <3>3, <3>4 DEF WaitPlaces
  <2>2. CASE kMutexUnlock(m) /\ UnlockHandOff(m)
    <3> DEFINE w == Head(waitQ[m])
    <3>1. \A o \in WaitObj : ToSet(waitQ'[o]) \subseteq ToSet(waitQ[o]) \ {w}
      BY <1>1, <2>2, HandOffQueues
    <3>2. waitingFor' = [waitingFor EXCEPT ![w] = None] /\ UNCHANGED call
      BY <2>2 DEF UnlockHandOff, kMutexUnlock
    <3> HIDE DEF w
    <3>3. \A u \in Task \ {w} : waitingFor'[u] = waitingFor[u] /\ call'[u] = call[u]
      BY <1>1, <3>2
    <3> QED BY <3>1, <3>3, WaitPlacesFrame
  <2>3. CASE LockFaulted(m) \/ LockFree(m) \/ \E timeout \in Timeout : LockNoWait(m, timeout)
    BY <1>5, <2>3 DEF LockFaulted, LockFree, TakeMutex, OwnMutex, LockNoWait,
                      waitVars, mutexVars
  <2>4. CASE kMutexUnlock(m) /\ UnlockFree(m)
    BY <1>5, <2>4 DEF kMutexUnlock, UnlockFree, FreeMutex, waitVars
  <2> QED BY <2>1, <2>2, <2>3, <2>4 DEF kMutexLock, kMutexUnlock
<1>8. CASE TimeoutExpire
  BY <1>4, <1>8, ExpireUnlinks
<1>9. CASE SignalCall
  <2> PICK t \in MaySignal : kTaskSignalReady(t)
    BY <1>9 DEF SignalCall
  <2>1. t \in Task
    BY MutexConstants DEF UserTask
  <2> QED BY <1>4, <2>1, SignalUnlinks
<1> QED BY <1>2, <1>3, <1>5, <1>6, <1>7, <1>8, <1>9
    DEF Next, KernelStep, TickEnd, Tick, kSwtch, kernelVars, waitVars, mutexVars, callVars

\* A BLOCKED task is still placed after a step that takes at most one task from a queue, to wake it or
\* with its wait over.
LEMMA BlockedFrame ==
  ASSUME ServiceInv, NEW t,
         \A u \in Task \ {t} :
           /\ status'[u] = "BLOCKED" => status[u] = "BLOCKED"
           /\ \A m \in Mutex : u \in ToSet(waitQ[m]) => u \in ToSet(waitQ'[m]),
         \A c \in ToSet(todo) : c.op \in WakeOps => c \in ToSet(todo') \/ c.task = t,
         \/ t \notin Task \/ status'[t] # "BLOCKED"
         \/ \E m \in Mutex : t \in ToSet(waitQ'[m])
         \/ \E c \in ToSet(todo') : c.op \in WakeOps /\ c.task = t
  PROVE  BlockedPlaces'
<1>1. PlaceInv
  BY DEF ServiceInv
<1> SUFFICES ASSUME NEW u \in Task, status'[u] = "BLOCKED", u # t
             PROVE  \/ \E m \in Mutex : u \in ToSet(waitQ'[m])
                    \/ \E c \in ToSet(todo') : c.op \in WakeOps /\ c.task = u
  BY DEF BlockedPlaces
<1>2. status[u] = "BLOCKED"
  OBVIOUS
<1>3. CASE \E m \in Mutex : u \in ToSet(waitQ[m])
  BY <1>3
<1>4. CASE \E c \in ToSet(todo) : c.op \in WakeOps /\ c.task = u
  BY <1>4
<1> QED BY <1>1, <1>2, <1>3, <1>4 DEF PlaceInv, BlockedPlaces

\* No step forgets a BLOCKED task.
LEMMA BlockedStep ==
  ASSUME ServiceInv, [Next]_kernelVars
  PROVE  BlockedPlaces'
<1>1. /\ IInv /\ TypeOK /\ QueueInv /\ StaleInv /\ PlaceInv /\ run \in Task
      /\ status \in [Task -> Status] /\ Mutex \subseteq WaitObj
      /\ todo \in Seq(KernelCall)
  BY DEF ServiceInv, IInv, KernelInv, TypeOK, SchedTypeOK, WaitObj
<1>2. CASE UpdatePrio
  <2>1. UNCHANGED status
    BY <1>2 DEF UpdatePrio, schedVars
  <2>2. /\ ToSet(Tail(todo)) \subseteq ToSet(todo')
        /\ ToSet(todo) = {Head(todo)} \cup ToSet(Tail(todo))
        /\ Head(todo).op = "updatePrio"
    BY <1>1, <1>2, UpdatePrioOps
  <2>3. \A m \in Mutex : ToSet(waitQ'[m]) = ToSet(waitQ[m])
    BY <1>1, <1>2, WalkQueues
  <2>4. \A c \in ToSet(todo) : c.op \in WakeOps => c \in ToSet(todo')
    BY <2>2 DEF WakeOps
  <2> QED BY <1>1, <2>1, <2>3, <2>4 DEF PlaceInv, BlockedPlaces
<1>3. CASE ReadySwtch \/ TimeoutReady \/ SignalReady
  <2> PICK t \in Task : Woken(t)
    BY <1>3, WakeEffects
  <2>1. /\ status' = [status EXCEPT ![t] = "READY"] /\ UNCHANGED waitQ
        /\ todo # <<>> /\ Head(todo).task = t /\ todo' = Tail(todo)
    BY DEF Woken
  <2>2. \A c \in ToSet(todo) : c \in ToSet(todo') \/ c.task = t
    BY <1>1, <2>1, TodoSets
  <2>3. status'[t] = "READY" /\ \A u \in Task \ {t} : status'[u] = status[u]
    BY <1>1, <2>1
  <2> QED BY <2>1, <2>2, <2>3, BlockedFrame
<1>4. ASSUME NEW t \in Task, Unlinked(t) PROVE BlockedPlaces'
  <2>1. /\ \A o \in WaitObj : ToSet(waitQ'[o]) = ToSet(waitQ[o]) \ {t}
        /\ \A c \in ToSet(todo) : c.op \notin WakeOps
        /\ \E c \in ToSet(todo') : c.op \in WakeOps /\ c.task = t
        /\ UNCHANGED status
    BY <1>4 DEF Unlinked, schedVars, WakeOps
  <2>2. \A u \in Task \ {t} : \A m \in Mutex : u \in ToSet(waitQ[m]) => u \in ToSet(waitQ'[m])
    BY <1>1, <2>1
  <2>3. \A u \in Task \ {t} : status'[u] = "BLOCKED" => status[u] = "BLOCKED"
    BY <2>1
  <2> QED BY <2>1, <2>2, <2>3, BlockedFrame
<1>5. CASE kSwtch
  <2> PICK next \in Task : Switched(next)
    BY <1>5, SwitchEffects, ServiceParts
  <2>1. /\ todo = <<>> /\ UNCHANGED <<waitQ, todo>> /\ CanRun(next)
        /\ status' = [status EXCEPT ![run] = IF status[run] = "RUNNING" THEN "READY" ELSE @,
                                    ![next] = "RUNNING"]
    BY DEF Switched, waitVars
  <2>2. \A u \in Task : status'[u] = "BLOCKED" => status[u] = "BLOCKED"
    BY <1>1, <2>1
  <2> QED BY <1>1, <2>1, <2>2 DEF PlaceInv, BlockedPlaces
<1>6. CASE SchedCall \/ Tick \/ TickEnd \/ UNCHANGED kernelVars
  <2>1. /\ \A u \in Task : status'[u] = "BLOCKED" => status[u] = "BLOCKED"
        /\ UNCHANGED waitQ
    BY <1>1, <1>6
    DEF SchedCall, kSchLock, kSchUnlock, kYield, kSleepDelay, kTaskSelfSuspend, kTaskResume,
        Tick, TickEnd, kernelVars, schedVars, waitVars
  <2>2. \A c \in ToSet(todo) : c.op \in WakeOps => c \in ToSet(todo')
    <3>1. CASE TickEnd
      <4>1. todo # <<>> /\ Head(todo).op = "handleTimeouts" /\ todo' = Tail(todo)
        BY <3>1 DEF TickEnd
      <4> QED BY <1>1, <4>1, TodoSets DEF WakeOps
    <3>2. CASE todo = <<>>
      BY <3>2 DEF ToSet
    <3> QED BY <1>6, <3>1, <3>2
        DEF SchedCall, kSchLock, kSchUnlock, kYield, kSleepDelay, kTaskSelfSuspend,
            kTaskResume, Executing, Tick, kernelVars
  <2> QED BY <1>1, <2>1, <2>2 DEF PlaceInv, BlockedPlaces
<1>7. CASE MutexCall
  <2> SUFFICES ASSUME NEW m \in Mutex, Executing,
                      \/ \E timeout \in Timeout : kMutexLock(m, timeout)
                      \/ kMutexUnlock(m)
               PROVE  BlockedPlaces'
    BY <1>7 DEF MutexCall, kMutexLock, kMutexUnlock
  <2>1. ToSet(todo) = {} /\ m \in WaitObj
    BY <1>1, ExecutingRuns
  <2>2. ASSUME NEW timeout \in Timeout, LockBlock(m, timeout) PROVE BlockedPlaces'
    <3>1. status' = [status EXCEPT ![run] = "BLOCKED"]
      BY <2>2 DEF LockBlock, WaitForMutex
    <3>2. /\ ToSet(waitQ'[m]) = ToSet(waitQ[m]) \cup {run}
          /\ \A o \in WaitObj \ {m} : waitQ'[o] = waitQ[o]
      BY <1>1, <2>2, BlockQueues DEF IInv
    <3>3. /\ \A n \in Mutex : ToSet(waitQ[n]) \subseteq ToSet(waitQ'[n])
          /\ \A u \in Task \ {run} : status'[u] = status[u]
      BY <1>1, <3>1, <3>2
    <3> QED BY <2>1, <3>2, <3>3, BlockedFrame
  <2>3. CASE kMutexUnlock(m) /\ UnlockHandOff(m)
    <3> DEFINE w == Head(waitQ[m])
    <3>1. w \in Task /\ ReadySwtchOf(w) \in ToSet(todo')
      <4>1. todo' = (IF m \in Inherit THEN <<UpdatePrioOf(run), UpdatePrioOf(w)>> ELSE <<>>)
                      \o <<ReadySwtchOf(w)>>
        BY <2>3 DEF UnlockHandOff
      <4> DEFINE first == IF m \in Inherit THEN <<UpdatePrioOf(run), UpdatePrioOf(w)>>
                                           ELSE <<>>
                 last == <<ReadySwtchOf(w)>>
      <4>2. w \in Task
        BY <1>1, <2>3, HandOffTodo
      <4>3. /\ UpdatePrioOf(run) \in KernelCall /\ UpdatePrioOf(w) \in KernelCall
            /\ ReadySwtchOf(w) \in KernelCall
        BY <1>1, <4>2 DEF UpdatePrioOf, ReadySwtchOf, KernelCall
      <4> HIDE DEF w, KernelCall
      <4>4. first \in Seq(KernelCall) /\ last \in Seq(KernelCall)
            /\ ToSet(last) = {ReadySwtchOf(w)}
        BY <4>3, SmallSequences
      <4> HIDE DEF first, last
      <4>5. ToSet(first \o last) = ToSet(first) \cup ToSet(last)
        BY <4>4, ConcatSet
      <4> QED BY <4>1, <4>2, <4>4, <4>5 DEF first, last
    <3>2. UNCHANGED status /\ \A n \in WaitObj \ {m} : waitQ'[n] = waitQ[n]
      BY <1>1, <2>3, HandOffQueues DEF kMutexUnlock, schedVars
    <3>3. ToSet(waitQ[m]) \ {w} \subseteq ToSet(waitQ'[m])
      <4>1. waitQ[m] \in Seq(Task) /\ waitQ[m] # <<>> /\ waitQ'[m] = Tail(waitQ[m])
        BY <1>1, <2>1, <2>3 DEF UnlockHandOff, TypeOK, WaitTypeOK
      <4> QED BY <4>1, TailFacts
    <3> HIDE DEF w
    <3>4. \A u \in Task \ {w} : \A n \in Mutex : u \in ToSet(waitQ[n]) => u \in ToSet(waitQ'[n])
      BY <1>1, <3>2, <3>3
    <3>5. ReadySwtchOf(w).op \in WakeOps /\ ReadySwtchOf(w).task = w
      BY DEF ReadySwtchOf, WakeOps
    <3> QED BY <2>1, <3>1, <3>2, <3>4, <3>5, BlockedFrame
  <2>4. CASE UNCHANGED <<status, waitQ>>
    BY <1>1, <2>1, <2>4 DEF PlaceInv, BlockedPlaces
  <2> QED BY <2>2, <2>3, <2>4
      DEF kMutexLock, kMutexUnlock, LockFaulted, LockFree, TakeMutex, OwnMutex, LockNoWait,
          UnlockFree, FreeMutex, schedVars, waitVars
<1>8. CASE TimeoutExpire
  BY <1>4, <1>8, ExpireUnlinks
<1>9. CASE SignalCall
  <2> PICK t \in MaySignal : kTaskSignalReady(t)
    BY <1>9 DEF SignalCall
  <2>1. t \in Task
    BY MutexConstants DEF UserTask
  <2> QED BY <1>4, <2>1, SignalUnlinks
<1> QED BY <1>2, <1>3, <1>5, <1>6, <1>7, <1>8, <1>9 DEF Next, KernelStep

\* No step misplaces a task.
LEMMA PlaceStep ==
  ASSUME ServiceInv, [Next]_kernelVars
  PROVE  PlaceInv'
BY ReadyPlaceStep, WaitPlaceStep, BlockedStep
DEF PlaceInv

(***************************************************************************)
(* The running task.                                                       *)
(***************************************************************************)
\* A request for a switch never takes back one that is pended.
LEMMA SwitchKept ==
  ASSUME NEW p, NEW pr, NEW st,
         \/ kReschedTask(p, pr) \/ kReschedRunning(p)
         \/ kPendCtxSwtch(st) \/ NoCtxSwtch
         \/ kPendCtxSwtchNow_ \/ kDeferCtxSwtch_
  PROVE  ~pendSV' => ~pendSV
BY DEF kReschedTask, kReschedRunning, kPendCtxSwtch, NoCtxSwtch,
       kPendCtxSwtchNow_, kDeferCtxSwtch_

\* Whoever stops RUNNING leaves a switch pended, if no task yields while it
\* holds the scheduler lock.
LEMMA RunStep ==
  ASSUME ServiceInv, [Next]_kernelVars, ~YieldWhenLocked
  PROVE  RunInv'
<1>1. /\ RunInv /\ SuspendInv /\ run \in Task /\ status \in [Task -> Status]
  BY DEF ServiceInv, IInv, KernelInv, TypeOK, SchedTypeOK
<1>2. CASE UNCHANGED <<run, status>> /\ (~pendSV' => ~pendSV)
  BY <1>1, <1>2 DEF RunInv
<1>3. CASE UpdatePrio
  <2>1. UNCHANGED <<run, status>> /\ (~pendSV' => ~pendSV)
    BY <1>3, SwitchKept DEF UpdatePrio, schedVars
  <2> QED BY <1>2, <2>1
<1>4. CASE ReadySwtch \/ TimeoutReady \/ SignalReady
  <2> PICK t \in Task : Woken(t)
    BY <1>4, WakeEffects
  <2>1. ~pendSV' => ~pendSV
    BY <1>4, SwitchKept DEF ReadySwtch, TimeoutReady, SignalReady
  <2>2. UNCHANGED run /\ status' = [status EXCEPT ![t] = "READY"] /\ status[t] # "RUNNING"
    BY <1>1 DEF Woken, SuspendInv
  <2> QED BY <1>1, <2>1, <2>2 DEF RunInv
<1>5. CASE TickEnd
  <2>1. UNCHANGED <<run, status>> /\ (~pendSV' => ~pendSV)
    BY <1>5, SwitchKept DEF TickEnd
  <2> QED BY <1>2, <2>1
<1>6. CASE kSwtch
  <2> PICK next \in Task : Switched(next)
    BY <1>6, SwitchEffects, ServiceParts
  <2>1. run' = next /\ status'[next] = "RUNNING"
    BY <1>1 DEF Switched
  <2> QED BY <2>1 DEF RunInv
<1>7. CASE SchedCall
  <2>1. CASE kSchUnlock
    <3>1. UNCHANGED <<run, status>> /\ (~pendSV' => ~pendSV)
      BY <2>1, SwitchKept DEF kSchUnlock
    <3> QED BY <1>2, <3>1
  <2>2. CASE (schLock > 0 => YieldWhenLocked) /\ kYield
    <3>1. schLock \in Nat
      BY DEF ServiceInv, IInv, KernelInv, TypeOK, SchedTypeOK
    <3>2. pendSV'
      BY <2>2, <3>1 DEF kYield, kPendCtxSwtchNow_
    <3> QED BY <3>2 DEF RunInv
  <2>3. CASE kTaskSelfSuspend \/ \E ticks \in Timeout : kSleepDelay(ticks)
    BY <2>3 DEF kTaskSelfSuspend, kSleepDelay, kPendCtxSwtch, kPendCtxSwtchNow_, RunInv
  <2>4. CASE kSchLock \/ \E t \in MaySuspend : kTaskResume(t)
    BY <1>2, <2>4 DEF kSchLock, kTaskResume, schedVars
  <2> QED BY <1>7, <2>1, <2>2, <2>3, <2>4 DEF SchedCall
<1>8. CASE MutexCall
  <2> PICK m \in Mutex : \/ \E timeout \in Timeout : kMutexLock(m, timeout)
                         \/ kMutexUnlock(m)
    BY <1>8 DEF MutexCall
  <2>1. ASSUME NEW timeout \in Timeout, LockBlock(m, timeout) PROVE RunInv'
    BY <2>1 DEF LockBlock, WaitForMutex, kPendCtxSwtch, kPendCtxSwtchNow_, RunInv
  <2> QED BY <1>2, <2>1
      DEF kMutexLock, kMutexUnlock, LockFaulted, LockFree, TakeMutex, LockNoWait, schedVars
<1>9. CASE TimeoutExpire \/ Tick \/ SignalCall \/ UNCHANGED kernelVars
  <2>1. UNCHANGED <<run, status, pendSV>>
    BY <1>9 DEF TimeoutExpire, Tick, SignalCall, kTaskSignalReady, kernelVars, schedVars
  <2> QED BY <1>2, <2>1
<1> QED BY <1>3, <1>4, <1>5, <1>6, <1>7, <1>8, <1>9 DEF Next, KernelStep

(***************************************************************************)
(* What a lock call reports.                                               *)
(***************************************************************************)
\* A step in which nobody completes a call, and a mutex changes hands only
\* between tasks to which no call reports about it.
LEMMA ResultFrame ==
  ASSUME ServiceInv, NEW t,
         \A u \in Task \ {t} :
           /\ ret'[u] = ret[u]
           /\ call'[u].number = "NONE" => call[u].number = "NONE"
           /\ \A m \in Mutex : call[u].number = "NONE" => (owner'[m] = u <=> owner[m] = u),
         t \in Task /\ ret'[t].number = "MUTEX_LOCK" /\ call'[t].number = "NONE" =>
           /\ ret'[t].arg \in Mutex
           /\ ret'[t].err = "SUCCESS" <=> owner'[ret'[t].arg] = t
  PROVE  ResultInv'
<1>1. ResultInv
  BY DEF ServiceInv
<1> SUFFICES ASSUME NEW u \in Task, u # t,
                    ret'[u].number = "MUTEX_LOCK", call'[u].number = "NONE"
             PROVE  /\ ret'[u].arg \in Mutex
                    /\ ret'[u].err = "SUCCESS" <=> owner'[ret'[u].arg] = u
  BY DEF ResultInv
<1>2. ret'[u] = ret[u] /\ call[u].number = "NONE"
  OBVIOUS
<1>3. ret[u].arg \in Mutex /\ (ret[u].err = "SUCCESS" <=> owner[ret[u].arg] = u)
  BY <1>1, <1>2 DEF ResultInv
<1> QED BY <1>2, <1>3

\* The running task's frame takes what Returns puts there.
LEMMA ReturnsEffect ==
  ASSUME ServiceInv, NEW number, NEW arg, NEW err, Returns(number, arg, err)
  PROVE  /\ ret'[run] = [number |-> number, arg |-> arg, err |-> err]
         /\ ret'[run].number = number
         /\ \A u \in Task \ {run} : ret'[u] = ret[u]
BY DEF Returns, ServiceInv, IInv, KernelInv, TypeOK, SchedTypeOK, CallTypeOK

\* No step makes the result of a lock call a lie.
LEMMA ResultStep ==
  ASSUME ServiceInv, [Next]_kernelVars
  PROVE  ResultInv'
<1>1. /\ IInv /\ TypeOK /\ QueueInv /\ OwnerInv /\ SuspendInv /\ WakeInv /\ run \in Task
      /\ call \in [Task -> Suspension] /\ owner \in [Mutex -> Task \cup {None}]
      /\ None \notin Task /\ todo \in Seq(KernelCall) /\ Mutex \subseteq WaitObj
  BY KernelConstants
  DEF ServiceInv, IInv, KernelInv, TypeOK, SchedTypeOK, CallTypeOK, MutexTypeOK, WaitObj
<1>2. CASE UNCHANGED <<ret, call, owner>>
  BY <1>2 DEF ServiceInv, ResultInv
<1>3. CASE ReadySwtch \/ TimeoutReady \/ SignalReady
  <2> PICK t \in Task : Woken(t)
    BY <1>3, WakeEffects
  <2>1. /\ call' = [call EXCEPT ![t] = NoCall] /\ UNCHANGED owner
        /\ \A u \in Task \ {t} : ret'[u] = ret[u]
        /\ ret'[t].number = call[t].number /\ ret'[t].arg = call[t].arg
        /\ call[t].number = "MUTEX_LOCK" =>
             (ret'[t].err = "SUCCESS" <=> Head(todo).op = "ready")
        /\ todo # <<>> /\ Head(todo).op \in WakeOps /\ Head(todo).task = t
    BY DEF Woken
  <2>2. Head(todo) \in ToSet(todo)
    BY <1>1, <2>1, TodoSets
  <2>3. call[t].number = "MUTEX_LOCK" =>
          call[t].arg \in Mutex /\ (Head(todo).op = "ready" <=> owner[call[t].arg] = t)
    BY <1>1, <2>1, <2>2 DEF WakeInv, SuspendInv
  <2>4. \A u \in Task \ {t} : call'[u] = call[u]
    BY <1>1, <2>1
  <2> QED BY <2>1, <2>3, <2>4, ResultFrame
<1>4. CASE kSwtch
  BY <1>2, <1>4 DEF kSwtch, mutexVars, callVars
<1>5. CASE SchedCall
  <2>1. UNCHANGED owner /\ \A u \in Task \ {run} : call'[u] = call[u]
    BY <1>1, <1>5 DEF SchedCall, kSchLock, kSchUnlock, kYield, kSleepDelay,
                      kTaskSelfSuspend, kTaskResume, mutexVars
  <2>2. PICK n, e : /\ n \in {"NONE", "SLEEP_DELAY", "TASK_SELF_SUSPEND"}
                    /\ Returns(n, None, e)
    BY <1>5 DEF SchedCall, kSchLock, kSchUnlock, kYield, kSleepDelay,
                kTaskSelfSuspend, kTaskResume
  <2>3. ret'[run].number = n /\ \A u \in Task \ {run} : ret'[u] = ret[u]
    BY <2>2, ReturnsEffect
  <2> QED BY <2>1, <2>2, <2>3, ResultFrame
<1>6. CASE SignalCall
  <2> PICK t \in MaySignal : kTaskSignalReady(t)
    BY <1>6 DEF SignalCall
  <2>1. UNCHANGED <<owner, call>> /\ Returns("NONE", None, "SUCCESS")
    BY DEF kTaskSignalReady, mutexVars
  <2>2. ret'[run].number = "NONE" /\ \A u \in Task \ {run} : ret'[u] = ret[u]
    BY <2>1, ReturnsEffect
  <2> QED BY <2>1, <2>2, ResultFrame
<1>7. CASE MutexCall
  <2> SUFFICES ASSUME NEW m \in Mutex, Executing,
                      \/ \E timeout \in Timeout : kMutexLock(m, timeout)
                      \/ kMutexUnlock(m)
               PROVE  ResultInv'
    BY <1>7 DEF MutexCall, kMutexLock, kMutexUnlock
  <2>1. CASE kMutexUnlock(m)
    <3>1. Returns("MUTEX_UNLOCK", m, "SUCCESS") /\ UNCHANGED call /\ owner[m] = run
      BY <2>1 DEF kMutexUnlock
    <3>2. ret'[run].number = "MUTEX_UNLOCK" /\ \A u \in Task \ {run} : ret'[u] = ret[u]
      BY <3>1, ReturnsEffect
    <3>3. CASE UnlockFree(m)
      <4>1. owner' = [owner EXCEPT ![m] = None]
        BY <3>3 DEF UnlockFree, FreeMutex
      <4>2. \A u \in Task \ {run} : \A n \in Mutex : owner'[n] = u <=> owner[n] = u
        BY <1>1, <3>1, <4>1
      <4> QED BY <3>1, <3>2, <4>2, ResultFrame
    <3>4. CASE UnlockHandOff(m)
      <4> DEFINE w == Head(waitQ[m])
      <4>1. w \in ToSet(waitQ[m]) /\ owner' = [owner EXCEPT ![m] = w]
        BY <1>1, <3>4, HandOffQueues DEF UnlockHandOff
      <4>2. call[w].number = "MUTEX_LOCK"
        BY <1>1, <4>1 DEF QueueInv
      <4> HIDE DEF w
      <4>3. \A u \in Task \ {run} : \A n \in Mutex :
              call[u].number = "NONE" => (owner'[n] = u <=> owner[n] = u)
        BY <1>1, <3>1, <4>1, <4>2
      <4> QED BY <3>1, <3>2, <4>3, ResultFrame
    <3> QED BY <2>1, <3>3, <3>4 DEF kMutexUnlock
  <2>2. CASE LockFree(m)
    <3>1. /\ owner' = [owner EXCEPT ![m] = run] /\ ~lock[m] /\ UNCHANGED call
          /\ Returns("MUTEX_LOCK", m, "SUCCESS")
      BY <2>2 DEF LockFree, TakeMutex, OwnMutex, LockReturns
    <3>2. /\ ret'[run] = [number |-> "MUTEX_LOCK", arg |-> m, err |-> "SUCCESS"]
          /\ \A u \in Task \ {run} : ret'[u] = ret[u]
      BY <3>1, ReturnsEffect
    <3>3. owner[m] = None
      BY <1>1, <3>1 DEF OwnerInv
    <3>4. /\ owner'[m] = run
          /\ \A u \in Task \ {run} : \A n \in Mutex : owner'[n] = u <=> owner[n] = u
      BY <1>1, <3>1, <3>3
    <3> QED BY <3>1, <3>2, <3>4, ResultFrame
  <2>3. ASSUME NEW timeout \in Timeout, MayLock(run, m),
               LockFaulted(m) \/ LockNoWait(m, timeout)
        PROVE  ResultInv'
    <3>1. /\ UNCHANGED <<owner, call>>
          /\ \E e \in {"OWNER_FAULTED", "NOWAIT"} : Returns("MUTEX_LOCK", m, e)
      BY <2>3 DEF LockFaulted, LockNoWait, LockReturns, mutexVars
    <3>2. PICK e \in {"OWNER_FAULTED", "NOWAIT"} : Returns("MUTEX_LOCK", m, e)
      BY <3>1
    <3>3. /\ ret'[run] = [number |-> "MUTEX_LOCK", arg |-> m, err |-> e]
          /\ \A u \in Task \ {run} : ret'[u] = ret[u]
      BY <3>2, ReturnsEffect
    <3>4. owner[m] # run
      BY <1>1, <2>3 DEF MayLock, OwnerInv
    <3> QED BY <3>1, <3>3, <3>4, ResultFrame
  <2>4. ASSUME NEW timeout \in Timeout, LockBlock(m, timeout) PROVE ResultInv'
    <3>1. /\ UNCHANGED owner /\ Returns("MUTEX_LOCK", m, "RESTART")
          /\ call' = [call EXCEPT ![run] = [number |-> "MUTEX_LOCK", arg |-> m,
                                            phase |-> "WAIT", wake |-> "SUCCESS"]]
      BY <2>4 DEF LockBlock, WaitForMutex
    <3>2. \A u \in Task \ {run} : ret'[u] = ret[u]
      BY <3>1, ReturnsEffect
    <3>3. /\ call'[run].number = "MUTEX_LOCK"
          /\ \A u \in Task \ {run} : call'[u] = call[u]
      BY <1>1, <3>1
    <3> QED BY <3>1, <3>2, <3>3, ResultFrame
  <2> QED BY <2>1, <2>2, <2>3, <2>4 DEF kMutexLock
<1> QED BY <1>2, <1>3, <1>4, <1>5, <1>6, <1>7
    DEF Next, KernelStep, UpdatePrio, TimeoutExpire, TickEnd, Tick, kernelVars, mutexVars,
        callVars

(***************************************************************************)
(* The order of the waiters.                                               *)
(***************************************************************************)
\* The walk puts a waiter whose priority changed where it belongs.
LEMMA WalkOrder ==
  ASSUME ServiceInv, UpdatePrio
  PROVE  OrderInv'
<1> DEFINE t == Head(todo).task
           new == kTaskCalcEffectivePrio_(t)
           pr == [prio EXCEPT ![t] = new]
<1>1. /\ TypeOK /\ QueueInv /\ StaleInv /\ OrderInv /\ t \in Task /\ new \in Prio
      /\ prio \in [Task -> Prio] /\ ~StaleWait(t)
      /\ \A o \in WaitObj : waitQ[o] \in Seq(Task) /\ NoDuplicates(waitQ[o])
  BY HeadTask, CalcEffectiveProperties
  DEF ServiceInv, IInv, KernelInv, UpdatePrio, TypeOK, SchedTypeOK, WaitTypeOK, QueueInv,
      StaleInv, StaleWait
<1>2. CASE new = prio[t]
  <2>1. UNCHANGED <<waitQ, prio>>
    BY <1>2 DEF UpdatePrio, schedVars
  <2> QED BY <1>1, <2>1 DEF OrderInv
<1>3. CASE new # prio[t]
  <2>1. prio' = pr /\ waitQ' = kTaskRequeueWaiterByPrio_(t, pr)
    BY <1>3 DEF UpdatePrio
  <2>2. pr \in [Task -> Nat] /\ \A u \in Task \ {t} : pr[u] = prio[u]
    BY <1>1, NominalPrioType
  <2> HIDE DEF t, new, pr
  <2>3. ASSUME NEW q \in Seq(Task), OrderedBy(q, prio), t \notin ToSet(q)
        PROVE  OrderedBy(q, pr)
    <3>1. ToSet(q) \subseteq Task
      BY LenProperties, ElementOfSeq DEF ToSet
    <3>2. \A u \in ToSet(q) : prio[u] = pr[u]
      BY <2>2, <2>3, <3>1
    <3> QED BY <2>3, <3>2, OrderedByAgree
  <2>4. CASE wqp[t] = None \/ Len(waitQ[wqp[t]]) <= 1 \/ t \notin ToSet(waitQ[wqp[t]])
    <3>1. waitQ' = waitQ
      BY <1>1, <2>1, <2>4 DEF kTaskRequeueWaiterByPrio_
    <3>2. ASSUME NEW o \in WaitObj PROVE OrderedBy(waitQ[o], pr)
      <4>1. CASE t \notin ToSet(waitQ[o])
        BY <1>1, <2>3, <4>1 DEF OrderInv
      <4>2. CASE t \in ToSet(waitQ[o])
        <5>1. wqp[t] = o /\ o # None
          BY <1>1, <4>2, KernelConstants DEF QueueInv, WaitObj
        <5>2. Len(waitQ[o]) <= 1 /\ DOMAIN waitQ[o] = 1 .. Len(waitQ[o])
              /\ Len(waitQ[o]) \in Nat
          BY <1>1, <2>4, <4>2, <5>1, LenProperties
        <5>3. \A i, j \in 1 .. Len(waitQ[o]) : ~(i < j)
          BY <5>2
        <5> QED BY <5>2, <5>3 DEF OrderedBy
      <4> QED BY <4>1, <4>2
    <3> QED BY <2>1, <3>1, <3>2 DEF OrderInv
  <2>5. CASE ~(wqp[t] = None \/ Len(waitQ[wqp[t]]) <= 1 \/ t \notin ToSet(waitQ[wqp[t]]))
    <3> DEFINE q == waitQ[wqp[t]]
               rem == kTCBQRem(q, t)
    <3>1. waitQ' = [waitQ EXCEPT ![wqp[t]] = kTCBQEnqByPrio(rem, t, pr)]
      BY <1>1, <2>1, <2>5 DEF kTaskRequeueWaiterByPrio_
    <3>2. wqp[t] \in WaitObj
      BY <1>1, <2>5 DEF TypeOK, WaitTypeOK
    <3>3. q \in Seq(Task) /\ NoDuplicates(q) /\ OrderedBy(q, prio)
      BY <1>1, <3>2 DEF OrderInv
    <3> HIDE DEF q
    <3>4. rem \in Seq(Task) /\ t \notin ToSet(rem) /\ OrderedBy(rem, prio)
      BY <3>3, RemProperties, RemKeepsOrder
    <3> HIDE DEF rem
    <3>5. OrderedBy(rem, pr)
      BY <2>3, <3>4
    <3>6. OrderedBy(kTCBQEnqByPrio(rem, t, pr), pr)
      BY <1>1, <2>2, <3>4, <3>5, EnqByPrioProperties
    <3>7. waitQ'[wqp[t]] = kTCBQEnqByPrio(rem, t, pr)
      BY <1>1, <3>1, <3>2 DEF TypeOK, WaitTypeOK
    <3>8. \A o \in WaitObj \ {wqp[t]} : waitQ'[o] = waitQ[o] /\ t \notin ToSet(waitQ[o])
      BY <1>1, <3>1 DEF TypeOK, WaitTypeOK, QueueInv
    <3>9. \A o \in WaitObj \ {wqp[t]} : OrderedBy(waitQ[o], pr)
      BY <1>1, <2>3, <3>8 DEF OrderInv
    <3> QED BY <2>1, <3>6, <3>7, <3>8, <3>9 DEF OrderInv
  <2> QED BY <2>4, <2>5
<1> QED BY <1>2, <1>3

\* No other step changes a priority, or the order of a queue.
LEMMA OrderStep ==
  ASSUME ServiceInv, [Next]_kernelVars
  PROVE  OrderInv'
<1>1. /\ IInv /\ TypeOK /\ OrderInv /\ waitQ \in [WaitObj -> Seq(Task)]
      /\ Mutex \subseteq WaitObj /\ run \in Task
      /\ prio \in [Task -> Nat]
  BY NominalPrioType DEF ServiceInv, IInv, KernelInv, TypeOK, SchedTypeOK, WaitTypeOK, WaitObj
<1>2. CASE UpdatePrio
  BY <1>2, WalkOrder
<1>3. CASE UNCHANGED <<waitQ, prio>>
  BY <1>1, <1>3 DEF OrderInv
<1>4. CASE ReadySwtch \/ TimeoutReady \/ SignalReady
  BY <1>3, <1>4, WakeEffects DEF Woken
<1>5. ASSUME NEW t \in Task, Unlinked(t) PROVE OrderInv'
  <2>1. /\ UNCHANGED prio
        /\ \A o \in WaitObj : waitQ'[o] = waitQ[o] \/ waitQ'[o] = kTCBQRem(waitQ[o], t)
    BY <1>1, <1>5 DEF Unlinked, schedVars
  <2>2. ASSUME NEW o \in WaitObj PROVE OrderedBy(kTCBQRem(waitQ[o], t), prio)
    <3>1. waitQ[o] \in Seq(Task) /\ OrderedBy(waitQ[o], prio)
      BY <1>1 DEF OrderInv
    <3> QED BY <3>1, RemKeepsOrder
  <2> QED BY <1>1, <2>1, <2>2 DEF OrderInv
<1>6. CASE MutexCall
  <2> PICK m \in Mutex : \/ \E timeout \in Timeout : kMutexLock(m, timeout)
                         \/ kMutexUnlock(m)
    BY <1>6 DEF MutexCall
  <2>1. waitQ[m] \in Seq(Task) /\ OrderedBy(waitQ[m], prio)
    BY <1>1 DEF OrderInv
  <2>2. ASSUME NEW timeout, LockBlock(m, timeout) PROVE OrderInv'
    <3>1. /\ waitQ' = [waitQ EXCEPT ![m] = kTCBQEnqByPrio(@, run, prio)] /\ UNCHANGED prio
      BY <2>2 DEF LockBlock, WaitForMutex
    <3>2. OrderedBy(kTCBQEnqByPrio(waitQ[m], run, prio), prio)
      BY <1>1, <2>1, EnqByPrioProperties
    <3> QED BY <1>1, <3>1, <3>2 DEF OrderInv
  <2>3. CASE kMutexUnlock(m) /\ UnlockHandOff(m)
    <3>1. waitQ[m] # <<>> /\ waitQ' = [waitQ EXCEPT ![m] = Tail(@)] /\ UNCHANGED prio
      BY <2>3 DEF kMutexUnlock, UnlockHandOff, schedVars
    <3>2. OrderedBy(Tail(waitQ[m]), prio)
      BY <2>1, <3>1, TailFacts
    <3> QED BY <1>1, <3>1, <3>2 DEF OrderInv
  <2> QED BY <1>3, <2>2, <2>3
      DEF kMutexLock, kMutexUnlock, LockFaulted, LockFree, TakeMutex, OwnMutex, LockNoWait,
          UnlockFree, FreeMutex, schedVars, waitVars
<1>7. CASE TimeoutExpire
  BY <1>5, <1>7, ExpireUnlinks
<1>8. CASE SignalCall
  <2> PICK t \in MaySignal : kTaskSignalReady(t)
    BY <1>8 DEF SignalCall
  <2>1. t \in Task
    BY MutexConstants DEF UserTask
  <2> QED BY <1>5, <2>1, SignalUnlinks
<1>9. CASE kSwtch
  BY <1>3, <1>9 DEF kSwtch, waitVars
<1>10. CASE SchedCall \/ Tick \/ TickEnd \/ UNCHANGED kernelVars
  <2>1. UNCHANGED <<waitQ, prio>>
    BY <1>10
    DEF SchedCall, kSchLock, kSchUnlock, kYield, kSleepDelay, kTaskSelfSuspend, kTaskResume,
        Tick, TickEnd, kernelVars, schedVars, waitVars
  <2> QED BY <1>3, <2>1
<1> QED BY <1>2, <1>4, <1>6, <1>7, <1>8, <1>9, <1>10 DEF Next, KernelStep

(***************************************************************************)
(* Who lends a priority to whom.                                           *)
(***************************************************************************)
\* The step leaves alone what u is lent through the mutexes it owns.
SameLenders(u) ==
  \A m \in Inherit :
    /\ m \in owned'[u] /\ waitQ'[m] # <<>> <=> m \in owned[u] /\ waitQ[m] # <<>>
    /\ m \in owned[u] /\ waitQ[m] # <<>> =>
         prio'[Head(waitQ'[m])] = prio[Head(waitQ[m])]

\* Nobody waits on a queue that is not a mutex's.
PeersEmpty == \A o \in OtherObj : waitQ[o] = <<>>

LEMMA NoPeers == IInv => PeersEmpty
<1> SUFFICES ASSUME IInv, NEW o \in OtherObj PROVE waitQ[o] = <<>>
  BY DEF PeersEmpty
<1>1. o \in WaitObj /\ waitQ[o] \in Seq(Task)
  BY DEF WaitObj, IInv, KernelInv, TypeOK, WaitTypeOK
<1>2. \A t \in ToSet(waitQ[o]) : t \in Task /\ wqp[t] = o
  BY <1>1, ListedTasks DEF IInv, KernelInv, QueueInv
<1>3. ToSet(waitQ[o]) = {}
  BY <1>2 DEF IInv, KernelInv, StaleInv
<1>4. waitQ[o] # <<>> => Head(waitQ[o]) \in ToSet(waitQ[o])
  BY <1>1, TailFacts
<1> QED BY <1>3, <1>4

\* A task with the same lenders has the same effective priority.
LEMMA CalcFrame ==
  ASSUME IInv, IInv', NEW t \in Task, SameLenders(t), UNCHANGED mesgPrio
  PROVE  kTaskCalcEffectivePrio_(t)' = kTaskCalcEffectivePrio_(t)
<1>1. PeerQueue[t] \subseteq OtherObj
  BY KernelConstants
<1>2. LendingPeers(t) = {} /\ LendingPeers(t)' = {}
  <2>1. PeersEmpty
    BY NoPeers
  <2>2. PeersEmpty'
    BY NoPeers, PTL
  <2> QED BY <1>1, <2>1, <2>2 DEF LendingPeers, PeersEmpty
<1>3. LendingMutexes(t)' = LendingMutexes(t)
  BY DEF SameLenders, LendingMutexes
<1>4. \A m \in LendingMutexes(t) : prio'[Head(waitQ'[m])] = prio[Head(waitQ[m])]
  BY DEF SameLenders, LendingMutexes
<1> DEFINE lending == LendingMutexes(t) \cup LendingPeers(t)
<1>5. lending' = lending
  BY <1>2, <1>3
<1>6. \A o \in lending : prio'[Head(waitQ'[o])] = prio[Head(waitQ[o])]
  BY <1>2, <1>4
<1> DEFINE c == {mesgPrio[t].base, mesgPrio[t].ceiling}
                  \cup {prio[Head(waitQ[o])] : o \in lending}
<1>7. c' = c
  <2> HIDE DEF lending
  <2>1. c' = {mesgPrio'[t].base, mesgPrio'[t].ceiling}
               \cup {prio'[Head(waitQ'[o])] : o \in lending'}
    OBVIOUS
  <2> QED BY <1>5, <1>6, <2>1
<1>8. kTaskCalcEffectivePrio_(t) = CHOOSE p \in c : \A q \in c : p <= q
  BY DEF kTaskCalcEffectivePrio_
<1>9. kTaskCalcEffectivePrio_(t)' = CHOOSE p \in c' : \A q \in c' : p <= q
  BY DEF kTaskCalcEffectivePrio_
<1> HIDE DEF c
<1> QED BY <1>7, <1>8, <1>9

\* A step that changes no priority, forgets no walk, and starts one for every
\* task that is lent something else.
LEMMA PrioFrame ==
  ASSUME ServiceInv, IInv', UNCHANGED <<prio, mesgPrio>>,
         \A c \in ToSet(todo) : c.op = "updatePrio" => c \in ToSet(todo'),
         \A u \in Task : SameLenders(u) \/ UpdatePrioOf(u) \in ToSet(todo')
  PROVE  PrioInv'
<1>1. IInv /\ PrioInv
  BY DEF ServiceInv
<1>2. ASSUME NEW u \in Task
      PROVE  \/ prio'[u] = kTaskCalcEffectivePrio_(u)'
             \/ UpdatePrioOf(u) \in ToSet(todo')
  <2>1. CASE UpdatePrioOf(u) \in ToSet(todo)
    BY <2>1 DEF UpdatePrioOf
  <2>2. CASE SameLenders(u) /\ UpdatePrioOf(u) \notin ToSet(todo)
    <3>1. kTaskCalcEffectivePrio_(u)' = kTaskCalcEffectivePrio_(u)
      BY <1>1, <2>2, CalcFrame
    <3> QED BY <1>1, <2>2, <3>1 DEF PrioInv
  <2> QED BY <2>1, <2>2
<1>3. \A u \in Task : mesgPrio'[u] = [base    |-> NominalPrio[u],
                                      ceiling |-> NominalPrio[IdleTask]]
  BY <1>1 DEF PrioInv
<1> QED BY <1>2, <1>3 DEF PrioInv

\* A walk settles the priority of its task, and goes on to the owner of the
\* mutex that task waits for.
LEMMA WalkPrio ==
  ASSUME ServiceInv, IInv', UpdatePrio, NEW t \in Task, t = Head(todo).task
  PROVE  PrioInv'
<1> DEFINE new == kTaskCalcEffectivePrio_(t)
<1>1. /\ IInv /\ TypeOK /\ QueueInv /\ OwnerInv /\ StaleInv /\ SuspendInv /\ PlaceInv /\ PrioInv
      /\ t \in Task /\ new \in Prio /\ prio \in [Task -> Prio] /\ ~StaleWait(t)
      /\ todo \in Seq(KernelCall) /\ waitQ \in [WaitObj -> Seq(Task)]
      /\ Inherit \subseteq Mutex /\ Mutex \subseteq WaitObj
      /\ owner \in [Mutex -> Task \cup {None}]
  BY CalcEffectiveProperties, KernelConstants
  DEF ServiceInv, IInv, KernelInv, UpdatePrio, TypeOK, SchedTypeOK, WaitTypeOK, MutexTypeOK,
      StaleInv, StaleWait, WaitObj
<1>2. /\ Head(todo) = UpdatePrioOf(t) /\ ToSet(todo) = {Head(todo)} \cup ToSet(Tail(todo))
      /\ ToSet(Tail(todo)) \subseteq ToSet(todo')
      /\ UNCHANGED <<mesgPrio, owned, owner>>
  <2>1. Head(todo) = UpdatePrioOf(t)
    BY <1>1, TodoTypes DEF UpdatePrio, KernelCall, UpdatePrioOf
  <2> QED BY <1>1, <2>1, UpdatePrioOps DEF UpdatePrio, mutexVars
<1>3. CASE new = prio[t]
  <2>1. UNCHANGED <<waitQ, prio>>
    BY <1>3 DEF UpdatePrio, schedVars
  <2>2. \A u \in Task : SameLenders(u)
    BY <1>2, <2>1 DEF SameLenders
  <2>3. \A u \in Task : kTaskCalcEffectivePrio_(u)' = kTaskCalcEffectivePrio_(u)
    BY <1>1, <1>2, <2>2, CalcFrame
  <2>4. \A u \in Task \ {t} : UpdatePrioOf(u) # UpdatePrioOf(t)
    BY DEF UpdatePrioOf
  <2> QED BY <1>1, <1>2, <1>3, <2>1, <2>3, <2>4 DEF PrioInv
<1>4. CASE new # prio[t]
  <2> DEFINE pr == [prio EXCEPT ![t] = new]
             m == waitingFor[t]
  <2>1. /\ prio' = pr /\ waitQ' = kTaskRequeueWaiterByPrio_(t, pr)
        /\ m # None /\ status[t] = "BLOCKED" /\ m \in Inherit /\ owner[m] # None
             => todo' = <<UpdatePrioOf(owner[m])>> \o Tail(todo)
    BY <1>4 DEF UpdatePrio
  <2>2. prio'[t] = new /\ \A u \in Task \ {t} : prio'[u] = prio[u]
    BY <1>1, <2>1
  <2>3. \A o \in WaitObj : t \notin ToSet(waitQ[o]) => waitQ'[o] = waitQ[o]
    <3> HIDE DEF pr, new
    <3>1. wqp[t] \in WaitObj \cup {None}
      BY <1>1 DEF TypeOK, WaitTypeOK
    <3>2. \/ waitQ' = waitQ
          \/ /\ wqp[t] # None /\ t \in ToSet(waitQ[wqp[t]])
             /\ waitQ' = [waitQ EXCEPT ![wqp[t]] = kTCBQEnqByPrio(kTCBQRem(@, t), t, pr)]
      BY <1>1, <2>1 DEF kTaskRequeueWaiterByPrio_
    <3> QED BY <1>1, <3>1, <3>2
  <2>4. \A o \in WaitObj : waitQ[o] # <<>> => Head(waitQ[o]) \in ToSet(waitQ[o]) /\ Head(waitQ[o]) \in Task
    <3> TAKE o \in WaitObj
    <3>1. waitQ[o] \in Seq(Task)
      BY <1>1
    <3> QED BY <1>1, <3>1, TailFacts, ListedTasks
  <2>5. ASSUME NEW o \in WaitObj, t \in ToSet(waitQ[o])
        PROVE  m = o /\ status[t] = "BLOCKED" /\ o \in Mutex /\ owner[o] # None
    <3>1. m = o /\ call[t].number = "MUTEX_LOCK" /\ waitQ[o] # <<>>
      BY <1>1, <2>5 DEF PlaceInv, WaitPlaces, QueueInv, ToSet
    <3>2. o \in Mutex
      BY <1>1, <2>5, NoPeers DEF PeersEmpty, ToSet, WaitObj
    <3> QED BY <1>1, <3>1, <3>2 DEF SuspendInv, OwnerInv
  <2> HIDE DEF new, pr
  <2>6. ASSUME NEW u \in Task,
               \A o \in Inherit \cap owned[u] : t \notin ToSet(waitQ[o])
        PROVE  SameLenders(u)
    <3> SUFFICES ASSUME NEW o \in Inherit
                 PROVE  /\ o \in owned'[u] /\ waitQ'[o] # <<>> <=> o \in owned[u] /\ waitQ[o] # <<>>
                        /\ o \in owned[u] /\ waitQ[o] # <<>> =>
                             prio'[Head(waitQ'[o])] = prio[Head(waitQ[o])]
      BY DEF SameLenders
    <3>1. CASE o \notin owned[u]
      BY <1>2, <3>1
    <3>2. CASE o \in owned[u]
      <4>1. t \notin ToSet(waitQ[o]) /\ waitQ'[o] = waitQ[o]
        BY <1>1, <2>3, <2>6, <3>2
      <4>2. waitQ[o] # <<>> => Head(waitQ[o]) # t /\ Head(waitQ[o]) \in Task
        BY <1>1, <2>4, <4>1
      <4> QED BY <1>2, <2>2, <4>1, <4>2
    <3> QED BY <3>1, <3>2
  <2>7. SameLenders(t)
    <3>1. \A o \in Mutex : o \in owned[t] => t \notin ToSet(waitQ[o])
      BY <1>1 DEF OwnerInv
    <3> QED BY <1>1, <2>6, <3>1
  <2>8. prio'[t] = kTaskCalcEffectivePrio_(t)'
    <3>1. kTaskCalcEffectivePrio_(t)' = kTaskCalcEffectivePrio_(t)
      BY <1>1, <1>2, <2>7, CalcFrame
    <3> QED BY <2>2, <3>1 DEF new
  <2>9. ASSUME NEW u \in Task \ {t}
        PROVE  \/ prio'[u] = kTaskCalcEffectivePrio_(u)'
               \/ UpdatePrioOf(u) \in ToSet(todo')
    <3>1. CASE SameLenders(u)
      <4>1. kTaskCalcEffectivePrio_(u)' = kTaskCalcEffectivePrio_(u)
        BY <1>1, <1>2, <3>1, CalcFrame
      <4>2. UpdatePrioOf(u) \in ToSet(todo) => UpdatePrioOf(u) \in ToSet(todo')
        BY <1>2 DEF UpdatePrioOf
      <4> QED BY <1>1, <2>2, <4>1, <4>2 DEF PrioInv
    <3>2. CASE ~SameLenders(u)
      <4> PICK o \in Inherit \cap owned[u] : t \in ToSet(waitQ[o])
        BY <2>6, <3>2
      <4>1. o \in Mutex /\ m = o /\ status[t] = "BLOCKED" /\ owner[o] = u /\ u # None
        BY <1>1, <2>5, KernelConstants DEF OwnerInv
      <4>2. todo' = <<UpdatePrioOf(u)>> \o Tail(todo)
        BY <2>1, <4>1, KernelConstants
      <4>3. UpdatePrioOf(u) \in ToSet(todo')
        <5> DEFINE first == <<UpdatePrioOf(u)>>
                   rest == Tail(todo)
        <5>1. first \in Seq(KernelCall) /\ rest \in Seq(KernelCall)
          BY <1>1, TodoTypes DEF UpdatePrio
        <5>2. UpdatePrioOf(u) \in ToSet(first)
          BY DEF ToSet
        <5>3. todo' = first \o rest
          BY <4>2
        <5> HIDE DEF KernelCall, first, rest
        <5>4. ToSet(first \o rest) = ToSet(first) \cup ToSet(rest)
          BY <5>1, ConcatSet
        <5> QED BY <5>2, <5>3, <5>4
      <4> QED BY <4>3
    <3> QED BY <3>1, <3>2
  <2>10. \A u \in Task : mesgPrio'[u] = [base    |-> NominalPrio[u],
                                         ceiling |-> NominalPrio[IdleTask]]
    BY <1>1, <1>2 DEF PrioInv
  <2> QED BY <2>8, <2>9, <2>10 DEF PrioInv
<1> QED BY <1>3, <1>4

\* No other step lends or takes back a priority without starting a walk.
LEMMA PrioStep ==
  ASSUME ServiceInv, [Next]_kernelVars
  PROVE  PrioInv'
<1>1. /\ IInv /\ TypeOK /\ QueueInv /\ OwnerInv /\ PlaceInv /\ run \in Task
      /\ waitQ \in [WaitObj -> Seq(Task)] /\ owned \in [Task -> SUBSET Mutex]
      /\ owner \in [Mutex -> Task \cup {None}] /\ todo \in Seq(KernelCall)
      /\ Inherit \subseteq Mutex /\ Mutex \subseteq WaitObj /\ None \notin Task
  BY KernelConstants
  DEF ServiceInv, IInv, KernelInv, TypeOK, SchedTypeOK, WaitTypeOK, MutexTypeOK, WaitObj
<1>2. IInv'
  BY <1>1, TypeStep, ReadyStep, TimeStep, QueueStep, TodoStep, OwnerStep, StaleStep DEF IInv, KernelInv
<1>3. CASE UpdatePrio
  <2>1. todo # <<>> /\ Head(todo).task \in Task
    BY <1>1, <1>3, HeadTask DEF UpdatePrio
  <2> QED BY <1>2, <1>3, <2>1, WalkPrio
<1>4. CASE /\ UNCHANGED <<prio, mesgPrio, waitQ, owned>>
           /\ \A c \in ToSet(todo) : c.op = "updatePrio" => c \in ToSet(todo')
  <2>1. \A u \in Task : SameLenders(u)
    BY <1>4 DEF SameLenders
  <2> QED BY <1>2, <1>4, <2>1, PrioFrame
<1>5. CASE ReadySwtch \/ TimeoutReady \/ SignalReady
  <2> PICK t \in Task : Woken(t)
    BY <1>5, WakeEffects
  <2>1. \A c \in ToSet(todo) : c.op = "updatePrio" => c \in ToSet(todo')
    BY <1>1, TodoSets DEF Woken, WakeOps
  <2> QED BY <1>4, <2>1 DEF Woken
<1>6. CASE TickEnd
  <2>1. todo # <<>> /\ Head(todo).op = "handleTimeouts" /\ todo' = Tail(todo)
    BY <1>6 DEF TickEnd
  <2>2. \A c \in ToSet(todo) : c.op = "updatePrio" => c \in ToSet(todo')
    BY <1>1, <2>1, TodoSets
  <2> QED BY <1>4, <1>6, <2>2 DEF TickEnd, waitVars, mutexVars
<1>7. CASE kSwtch \/ Tick \/ SchedCall \/ UNCHANGED kernelVars
  <2>1. todo = <<>> \/ UNCHANGED todo
    BY <1>7 DEF kSwtch, Tick, SchedCall, kSchLock, kSchUnlock, kYield, kSleepDelay,
                kTaskSelfSuspend, kTaskResume, Executing, kernelVars
  <2>2. \A c \in ToSet(todo) : c.op = "updatePrio" => c \in ToSet(todo')
    BY <2>1 DEF ToSet
  <2>3. UNCHANGED <<prio, mesgPrio, waitQ, owned>>
    BY <1>7 DEF kSwtch, Tick, SchedCall, kSchLock, kSchUnlock, kYield, kSleepDelay,
                kTaskSelfSuspend, kTaskResume, kernelVars, schedVars, waitVars, mutexVars
  <2> QED BY <1>4, <2>2, <2>3
<1>8. ASSUME NEW t \in Task, Unlinked(t) PROVE PrioInv'
  <2>1. /\ UNCHANGED <<prio, mesgPrio, owned, owner>>
        /\ \A c \in ToSet(todo) : c.op # "updatePrio"
        /\ \A o \in WaitObj : t \notin ToSet(waitQ[o]) => waitQ'[o] = waitQ[o]
    <3>1. UNCHANGED <<prio, mesgPrio, owned, owner>>
      BY <1>8 DEF Unlinked, schedVars, mutexVars
    <3>2. \A c \in ToSet(todo) : c.op # "updatePrio"
      BY <1>8 DEF Unlinked
    <3>3. \A o \in WaitObj : t \notin ToSet(waitQ[o]) => kTCBQRem(waitQ[o], t) = waitQ[o]
      BY DEF kTCBQRem
    <3>4. \/ waitQ' = [waitQ EXCEPT ![wqp[t]] = kTCBQRem(@, t)]
          \/ waitQ' = waitQ
      BY <1>8 DEF Unlinked
    <3>5. \A o \in WaitObj : waitQ'[o] = waitQ[o] \/ waitQ'[o] = kTCBQRem(waitQ[o], t)
      BY <1>1, <3>4
    <3> QED BY <3>1, <3>2, <3>3, <3>5
  <2>2. ASSUME NEW u \in Task, ~SameLenders(u)
        PROVE  UpdatePrioOf(u) \in ToSet(todo')
    <3> PICK o \in Inherit : o \in owned[u] /\ waitQ'[o] # waitQ[o]
      BY <2>1, <2>2 DEF SameLenders
    <3>1. o \in Mutex /\ o \in WaitObj /\ t \in ToSet(waitQ[o]) /\ owner[o] = u
      BY <1>1, <2>1 DEF OwnerInv
    <3>2. waitingFor[t] = o /\ o # None /\ u # None
      BY <1>1, <3>1, KernelConstants DEF PlaceInv, WaitPlaces
    <3>3. WaiterRemoved(t) = <<UpdatePrioOf(u)>>
      BY <3>1, <3>2 DEF WaiterRemoved
    <3>4. UpdatePrioOf(u) \in ToSet(<<UpdatePrioOf(u)>>)
      BY DEF ToSet
    <3>5. ToSet(WaiterRemoved(t)) \subseteq ToSet(todo')
      BY <1>8, <3>1 DEF Unlinked
    <3> QED BY <3>3, <3>4, <3>5
  <2> QED BY <1>2, <2>1, <2>2, PrioFrame
<1>9. CASE TimeoutExpire
  BY <1>8, <1>9, ExpireUnlinks
<1>10. CASE SignalCall
  <2> PICK t \in MaySignal : kTaskSignalReady(t)
    BY <1>10 DEF SignalCall
  <2>1. t \in Task
    BY MutexConstants DEF UserTask
  <2> QED BY <1>8, <2>1, SignalUnlinks
<1>11. CASE MutexCall
  <2> SUFFICES ASSUME NEW m \in Mutex, Executing,
                      \/ \E timeout \in Timeout : kMutexLock(m, timeout)
                      \/ kMutexUnlock(m)
               PROVE  PrioInv'
    BY <1>11 DEF MutexCall, kMutexLock, kMutexUnlock
  <2>1. ToSet(todo) = {} /\ m \in WaitObj
    BY <1>1, ExecutingRuns
  <2>2. ASSUME UNCHANGED <<prio, mesgPrio>>,
               \A u \in Task : SameLenders(u) \/ UpdatePrioOf(u) \in ToSet(todo')
        PROVE  PrioInv'
    BY <1>2, <2>1, <2>2, PrioFrame
  <2>3. \A u : UpdatePrioOf(u) \in ToSet(<<UpdatePrioOf(u)>>)
    BY DEF ToSet
  <2>4. ASSUME NEW timeout \in Timeout, LockBlock(m, timeout) PROVE PrioInv'
    <3>1. /\ UNCHANGED <<prio, mesgPrio, owned, owner>> /\ owner[m] # None
          /\ m \in Inherit => todo' = <<UpdatePrioOf(owner[m])>>
      BY <2>4 DEF LockBlock, WaitForMutex
    <3>2. \A o \in WaitObj \ {m} : waitQ'[o] = waitQ[o]
      BY <1>1, <2>4, BlockQueues DEF IInv
    <3>3. ASSUME NEW u \in Task, ~SameLenders(u)
          PROVE  UpdatePrioOf(u) \in ToSet(todo')
      <4>1. m \in Inherit /\ m \in owned[u]
        BY <1>1, <3>1, <3>2, <3>3 DEF SameLenders
      <4>2. owner[m] = u
        BY <1>1, <4>1 DEF OwnerInv
      <4> QED BY <2>3, <3>1, <4>1, <4>2
    <3> QED BY <2>2, <3>1, <3>3
  <2>5. CASE kMutexUnlock(m) /\ UnlockHandOff(m)
    <3> DEFINE w == Head(waitQ[m])
               x == UpdatePrioOf(run)
               y == UpdatePrioOf(w)
               z == ReadySwtchOf(w)
    <3>1. /\ UNCHANGED <<prio, mesgPrio>> /\ owner[m] = run
          /\ owned' = [owned EXCEPT ![run] = @ \ {m}, ![w] = @ \cup {m}]
          /\ todo' = (IF m \in Inherit THEN <<x, y>> ELSE <<>>) \o <<z>>
      BY <2>5 DEF kMutexUnlock, UnlockHandOff, schedVars
    <3>2. /\ \A o \in WaitObj \ {m} : waitQ'[o] = waitQ[o]
          /\ w \in Task
      BY <1>1, <2>5, HandOffQueues, HandOffTodo
    <3>3. m \in Inherit => x \in ToSet(todo') /\ y \in ToSet(todo')
      <4> SUFFICES ASSUME m \in Inherit PROVE x \in ToSet(todo') /\ y \in ToSet(todo')
        OBVIOUS
      <4>1. x \in KernelCall /\ y \in KernelCall /\ z \in KernelCall
        BY <1>1, <3>2 DEF KernelCall, UpdatePrioOf, ReadySwtchOf
      <4> HIDE DEF x, y, z, KernelCall
      <4> DEFINE first == <<x, y>>
                 last == <<z>>
      <4>2. first \in Seq(KernelCall) /\ last \in Seq(KernelCall) /\ ToSet(first) = {x, y}
        BY <4>1, SmallSequences
      <4>3. todo' = first \o last
        BY <3>1
      <4> HIDE DEF first, last
      <4>4. ToSet(first \o last) = ToSet(first) \cup ToSet(last)
        BY <4>2, ConcatSet
      <4> QED BY <4>2, <4>3, <4>4
    <3> HIDE DEF w
    <3>4. ASSUME NEW u \in Task \ {run, w} PROVE SameLenders(u)
      <4>1. owned'[u] = owned[u] /\ m \notin owned[u]
        BY <1>1, <3>1, <3>2 DEF OwnerInv
      <4> QED BY <1>1, <3>1, <3>2, <4>1 DEF SameLenders
    <3>5. ASSUME NEW u \in Task, m \notin Inherit PROVE SameLenders(u)
      <4>1. \A o \in Inherit : o \in owned'[u] <=> o \in owned[u]
        BY <1>1, <3>1, <3>2, <3>5
      <4>2. \A o \in Inherit : waitQ'[o] = waitQ[o]
        BY <1>1, <3>2, <3>5
      <4> QED BY <3>1, <4>1, <4>2 DEF SameLenders
    <3> QED BY <2>2, <3>1, <3>3, <3>4, <3>5
  <2>6. CASE kMutexUnlock(m) /\ UnlockFree(m)
    <3>1. /\ UNCHANGED <<prio, mesgPrio, waitQ>> /\ waitQ[m] = <<>>
          /\ owned' = [owned EXCEPT ![run] = @ \ {m}]
      BY <2>6 DEF kMutexUnlock, UnlockFree, FreeMutex, schedVars, waitVars
    <3>2. \A u \in Task : SameLenders(u)
      BY <1>1, <3>1 DEF SameLenders
    <3> QED BY <2>2, <3>1, <3>2
  <2>7. CASE LockFree(m)
    <3>1. /\ UNCHANGED <<prio, mesgPrio, waitQ>> /\ ~lock[m]
          /\ owned' = [owned EXCEPT ![run] = @ \cup {m}]
      BY <2>7 DEF LockFree, TakeMutex, OwnMutex, schedVars, waitVars
    <3>2. waitQ[m] = <<>>
      BY <1>1, <3>1 DEF OwnerInv
    <3>3. \A u \in Task : SameLenders(u)
      BY <1>1, <3>1, <3>2 DEF SameLenders
    <3> QED BY <2>2, <3>1, <3>3
  <2>8. CASE LockFaulted(m) \/ \E timeout \in Timeout : LockNoWait(m, timeout)
    <3>1. UNCHANGED <<prio, mesgPrio, waitQ, owned>>
      BY <2>8 DEF LockFaulted, LockNoWait, schedVars, waitVars, mutexVars
    <3> QED BY <1>4, <2>1, <3>1
  <2> QED BY <2>4, <2>5, <2>6, <2>7, <2>8 DEF kMutexLock, kMutexUnlock
<1> QED BY <1>3, <1>5, <1>6, <1>7, <1>9, <1>10, <1>11 DEF Next, KernelStep

(***************************************************************************)
(* Preemption.                                                             *)
(***************************************************************************)
\* A more urgent task is READY than the one that goes on running.
Outrun ==
  /\ status[run] = "RUNNING" /\ run \notin NoPreempt
  /\ \E t \in Task : status[t] = "READY" /\ prio[t] < prio[run]

\* A step after which that is so only if it was so before, and that takes no
\* recorded switch back.
LEMMA PreemptFrame ==
  ASSUME ServiceInv, Outrun' => Outrun,
         UNCHANGED <<pendingSw, pendSV>>, schLock > 0 => schLock' > 0,
         HandleTimeoutsOf(TRUE) \in ToSet(todo) => HandleTimeoutsOf(TRUE) \in ToSet(todo')
  PROVE  PreemptInv'
BY DEF ServiceInv, PreemptInv, Outrun

\* A step that leaves t READY at priority p and all else as it is, and asks for
\* the switch that t is due.
LEMMA PreemptResched ==
  ASSUME ServiceInv, NEW t \in Task, NEW pr, prio' = pr, kReschedTask(prio'[t], pr),
         UNCHANGED <<run, schLock>>, t # run,
         \A u \in Task \ {t} : status'[u] = status[u] /\ prio'[u] = prio[u],
         HandleTimeoutsOf(TRUE) \in ToSet(todo) => HandleTimeoutsOf(TRUE) \in ToSet(todo')
  PROVE  PreemptInv'
<1>1. /\ run \in Task /\ schLock \in Nat /\ PreemptInv
      /\ status'[run] = status[run] /\ prio'[run] = prio[run]
  BY DEF ServiceInv, IInv, KernelInv, TypeOK, SchedTypeOK
<1>2. CASE prio'[run] > prio'[t] /\ run \notin NoPreempt
  BY <1>1, <1>2 DEF kReschedTask, kPendCtxSwtchNow_, kDeferCtxSwtch_, PreemptInv
<1>3. CASE ~(prio'[run] > prio'[t] /\ run \notin NoPreempt)
  <2>1. UNCHANGED <<pendSV, pendingSw>>
    BY <1>3 DEF kReschedTask, NoCtxSwtch
  <2>2. Outrun' => Outrun
    BY <1>1, <1>3 DEF Outrun
  <2> QED BY <2>1, <2>2, PreemptFrame
<1> QED BY <1>2, <1>3

\* A walk asks for the switch that a changed priority makes due.
LEMMA WalkPreempt ==
  ASSUME ServiceInv, UpdatePrio
  PROVE  PreemptInv'
<1> DEFINE t == Head(todo).task
           new == kTaskCalcEffectivePrio_(t)
           pr == [prio EXCEPT ![t] = new]
<1>1. /\ TypeOK /\ ReadyInv /\ PreemptInv /\ t \in Task /\ new \in Prio /\ run \in Task
      /\ prio \in [Task -> Prio] /\ schLock \in Nat /\ Prio \subseteq Nat
      /\ readyQ \in [Prio -> Seq(Task)]
  BY HeadTask, CalcEffectiveProperties, NominalPrioType
  DEF ServiceInv, IInv, KernelInv, UpdatePrio, TypeOK, SchedTypeOK
<1>2. HandleTimeoutsOf(TRUE) \in ToSet(todo) => HandleTimeoutsOf(TRUE) \in ToSet(todo')
  BY <1>1, UpdatePrioOps DEF HandleTimeoutsOf
<1>3. CASE new = prio[t]
  <2>1. UNCHANGED schedVars
    BY <1>3 DEF UpdatePrio
  <2> QED BY <1>2, <2>1, PreemptFrame DEF Outrun, schedVars
<1>4. CASE new # prio[t]
  <2>1. /\ prio' = pr /\ UNCHANGED <<run, status, schLock>>
        /\ status[t] = "READY" => kReschedTask(new, pr)
        /\ status[t] = "RUNNING" => kReschedRunning(new)
        /\ status[t] \notin {"READY", "RUNNING"} => NoCtxSwtch
    BY <1>4 DEF UpdatePrio
  <2> HIDE DEF t, new
  <2>2. prio'[t] = new /\ \A u \in Task \ {t} : prio'[u] = prio[u]
    BY <1>1, <2>1
  <2> HIDE DEF pr
  <2>3. CASE status[run] # "RUNNING"
    BY <2>1, <2>3 DEF PreemptInv
  <2>4. CASE status[t] = "READY" /\ status[run] = "RUNNING"
    <3>1. t # run /\ \A u \in Task \ {t} : status'[u] = status[u] /\ prio'[u] = prio[u]
      BY <1>1, <2>1, <2>2, <2>4
    <3>2. prio' = pr /\ kReschedTask(prio'[t], pr)
      BY <2>1, <2>2, <2>4
    <3> QED BY <1>1, <1>2, <2>1, <3>1, <3>2, PreemptResched
  <2>5. CASE status[t] = "RUNNING" /\ status[run] = "RUNNING"
    <3>1. t = run
      BY <1>1, <2>5 DEF ReadyInv
    <3>2. CASE run \notin NoPreempt /\ kCalcNextTaskPrio_(readyQ) < new
      BY <1>1, <2>1, <2>5, <3>2
      DEF kReschedRunning, kPendCtxSwtch, kPendCtxSwtchNow_, kDeferCtxSwtch_, PreemptInv
    <3>3. CASE ~(run \notin NoPreempt /\ kCalcNextTaskPrio_(readyQ) < new)
      <4>1. UNCHANGED <<pendSV, pendingSw>>
        BY <2>1, <2>5, <3>3 DEF kReschedRunning, NoCtxSwtch
      <4>2. ASSUME NEW u \in Task, status[u] = "READY"
            PROVE  kCalcNextTaskPrio_(readyQ) <= prio[u]
        <5>1. prio[u] \in Prio /\ u \in ToSet(readyQ[prio[u]])
          BY <1>1, <4>2 DEF ReadyInv
        <5>2. readyQ[prio[u]] # <<>>
          BY <5>1 DEF ToSet
        <5> QED BY <1>1, <5>1, <5>2, NextPrioProperties
      <4>3. kCalcNextTaskPrio_(readyQ) \in Nat
        BY <1>1, NextPrioProperties
      <4>4. ~Outrun'
        <5>1. SUFFICES ASSUME run \notin NoPreempt, NEW u \in Task, status[u] = "READY",
                              prio'[u] < prio'[run]
                       PROVE  FALSE
          BY <2>1 DEF Outrun
        <5>2. u # t /\ prio'[u] = prio[u] /\ prio'[run] = new /\ prio[u] \in Nat
          BY <1>1, <2>2, <2>5, <3>1, <5>1
        <5>3. ~(kCalcNextTaskPrio_(readyQ) < new) /\ kCalcNextTaskPrio_(readyQ) <= prio[u]
              /\ prio[u] < new
          BY <3>3, <4>2, <5>1, <5>2
        <5> QED BY <1>1, <4>3, <5>2, <5>3
      <4> QED BY <1>2, <2>1, <4>1, <4>4, PreemptFrame
    <3> QED BY <3>2, <3>3
  <2>6. CASE status[t] \notin {"READY", "RUNNING"} /\ status[run] = "RUNNING"
    <3>1. UNCHANGED <<pendSV, pendingSw>>
      BY <2>1, <2>6 DEF NoCtxSwtch
    <3>2. Outrun' => Outrun
      BY <1>1, <2>1, <2>2, <2>6 DEF Outrun
    <3> QED BY <1>2, <2>1, <3>1, <3>2, PreemptFrame
  <2> QED BY <2>3, <2>4, <2>5, <2>6
<1> QED BY <1>3, <1>4

\* No step loses a preemption.
LEMMA PreemptStep ==
  ASSUME ServiceInv, [Next]_kernelVars
  PROVE  PreemptInv'
<1>1. /\ IInv /\ TypeOK /\ WakeInv /\ PreemptInv /\ run \in Task /\ todo \in Seq(KernelCall)
      /\ status \in [Task -> Status] /\ prio \in [Task -> Nat] /\ schLock \in Nat
  BY NominalPrioType DEF ServiceInv, IInv, KernelInv, TypeOK, SchedTypeOK
<1>2. CASE ~Outrun'
  BY <1>2 DEF Outrun, PreemptInv
<1>3. CASE UNCHANGED schedVars /\ ToSet(todo) = {}
  BY <1>3, PreemptFrame DEF schedVars, Outrun
<1>4. CASE UpdatePrio
  BY <1>4, WalkPreempt
<1>5. CASE ReadySwtch \/ TimeoutReady \/ SignalReady
  <2> PICK t \in Task : Woken(t)
    BY <1>5, WakeEffects
  <2>1. /\ t = Head(todo).task /\ status' = [status EXCEPT ![t] = "READY"]
        /\ todo # <<>> /\ todo' = Tail(todo) /\ UNCHANGED <<run, prio, schLock>>
        /\ Head(todo).op \in WakeOps
    BY DEF Woken
  <2>2. HandleTimeoutsOf(TRUE) \in ToSet(todo) => HandleTimeoutsOf(TRUE) \in ToSet(todo')
    BY <1>1, <2>1, TodoSets DEF HandleTimeoutsOf, WakeOps
  <2>3. status'[t] = "READY" /\ \A u \in Task \ {t} : status'[u] = status[u]
    BY <1>1, <2>1
  <2>4. CASE t = run
    BY <1>2, <2>1, <2>3, <2>4 DEF Outrun
  <2>5. CASE t # run /\ (ReadySwtch \/ SignalReady)
    <3>1. kReschedTask(prio'[t], prio)
      BY <2>1, <2>5 DEF ReadySwtch, SignalReady
    <3>2. prio' = prio /\ \A u \in Task \ {t} : prio'[u] = prio[u]
      BY <2>1
    <3> QED BY <2>1, <2>2, <2>3, <2>5, <3>1, <3>2, PreemptResched
  <2>6. CASE TimeoutReady
    <3>1. Head(todo) \in ToSet(todo) /\ Head(todo).op = "timeoutReady"
      BY <1>1, <2>1, <2>6, TodoSets DEF TimeoutReady
    <3>2. HandleTimeoutsOf(TRUE) \in ToSet(todo')
      BY <1>1, <2>2, <3>1 DEF WakeInv
    <3> QED BY <3>2 DEF PreemptInv
  <2> QED BY <1>5, <2>4, <2>5, <2>6
<1>6. CASE TimeoutExpire
  BY <1>1, <1>6, ExpireTodo DEF PreemptInv
<1>7. CASE TickEnd
  <2>1. /\ todo # <<>> /\ Head(todo).op = "handleTimeouts" /\ todo' = Tail(todo)
        /\ UNCHANGED <<run, status, prio, schLock>>
    BY <1>7 DEF TickEnd
  <2>2. ToSet(todo) = {Head(todo)}
    <3>1. \A c \in ToSet(Tail(todo)) : FALSE
      BY <1>1, <2>1, OneWakeTail DEF WakeInv
    <3> QED BY <1>1, <2>1, <3>1, TodoSets
  <2> SUFFICES ASSUME Outrun' PROVE PreemptInv'
    BY <1>2
  <2>3. Outrun
    BY <2>1 DEF Outrun
  <2>4. CASE ~Head(todo).expired
    <3>1. HandleTimeoutsOf(TRUE) \notin ToSet(todo)
      BY <2>2, <2>4 DEF HandleTimeoutsOf
    <3>2. UNCHANGED <<pendingSw, pendSV>>
      BY <1>7, <2>3, <2>4 DEF TickEnd, NoCtxSwtch, Outrun
    <3> QED BY <2>1, <2>3, <3>1, <3>2, PreemptFrame
  <2>5. CASE Head(todo).expired
    BY <1>1, <1>7, <2>1, <2>3, <2>5
    DEF TickEnd, Outrun, kDeferCtxSwtch_, kPendCtxSwtchNow_, PreemptInv
  <2> QED BY <2>4, <2>5
<1>8. CASE kSwtch
  <2> PICK next \in Task : Switched(next)
    BY <1>8, SwitchEffects, ServiceParts
  <2>1. /\ run' = next /\ UNCHANGED prio /\ \A u \in Task : CanRun(u) => prio[next] <= prio[u]
        /\ status' = [status EXCEPT ![run] = IF status[run] = "RUNNING" THEN "READY" ELSE @,
                                    ![next] = "RUNNING"]
    BY DEF Switched
  <2>2. ASSUME NEW u \in Task, status'[u] = "READY" PROVE CanRun(u)
    BY <1>1, <2>1, <2>2 DEF CanRun
  <2>3. \A u \in Task : status'[u] = "READY" => ~(prio[u] < prio[next])
    BY <1>1, <2>1, <2>2
  <2> QED BY <1>2, <2>1, <2>3 DEF Outrun
<1>9. CASE SchedCall
  <2> SUFFICES ASSUME Executing PROVE PreemptInv'
    BY <1>9 DEF SchedCall, kSchLock, kSchUnlock, kYield, kSleepDelay,
                kTaskSelfSuspend, kTaskResume
  <2>1. ToSet(todo) = {} /\ ~pendSV /\ todo = <<>>
    BY ExecutingRuns
  <2>2. CASE kSchLock
    BY <1>1, <2>1, <2>2, PreemptFrame DEF kSchLock, Outrun
  <2>3. CASE kSchUnlock
    <3>1. /\ UNCHANGED <<run, status, prio, todo>> /\ schLock' = schLock - 1 /\ schLock > 0
          /\ IF schLock = 1 /\ pendingSw THEN kPendCtxSwtchNow_ ELSE NoCtxSwtch
      BY <2>3 DEF kSchUnlock
    <3>2. Outrun => schLock > 0 /\ pendingSw
      BY <1>1, <2>1 DEF Outrun, PreemptInv
    <3>3. Outrun' <=> Outrun
      BY <3>1 DEF Outrun
    <3>4. CASE schLock = 1 /\ pendingSw
      BY <3>1, <3>4 DEF kPendCtxSwtchNow_, PreemptInv
    <3>5. CASE Outrun /\ schLock # 1
      BY <1>1, <3>1, <3>2, <3>5 DEF NoCtxSwtch, PreemptInv
    <3> QED BY <1>2, <3>2, <3>3, <3>4, <3>5
  <2>4. CASE kYield \/ kTaskSelfSuspend \/ \E ticks \in Timeout : kSleepDelay(ticks)
    <3>1. status'[run'] # "RUNNING"
      BY <1>1, <2>4 DEF kYield, kTaskSelfSuspend, kSleepDelay
    <3> QED BY <1>2, <3>1 DEF Outrun
  <2>5. CASE \E t \in MaySuspend : kTaskResume(t)
    BY <1>3, <2>1, <2>5 DEF kTaskResume
  <2> QED BY <1>9, <2>2, <2>3, <2>4, <2>5 DEF SchedCall
<1>10. CASE MutexCall
  <2> SUFFICES ASSUME NEW m \in Mutex, Executing,
                      \/ \E timeout \in Timeout : kMutexLock(m, timeout)
                      \/ kMutexUnlock(m)
               PROVE  PreemptInv'
    BY <1>10 DEF MutexCall, kMutexLock, kMutexUnlock
  <2>1. ToSet(todo) = {}
    BY ExecutingRuns
  <2>2. ASSUME NEW timeout \in Timeout, LockBlock(m, timeout) PROVE PreemptInv'
    <3>1. status'[run'] # "RUNNING"
      BY <1>1, <2>2 DEF LockBlock, WaitForMutex
    <3> QED BY <1>2, <3>1 DEF Outrun
  <2> QED BY <1>3, <2>1, <2>2
      DEF kMutexLock, kMutexUnlock, LockFaulted, LockFree, TakeMutex, LockNoWait
<1>11. CASE SignalCall
  <2>1. UNCHANGED schedVars /\ Executing
    BY <1>11 DEF SignalCall, kTaskSignalReady
  <2> QED BY <1>3, <2>1, ExecutingRuns
<1>12. CASE Tick
  BY <1>3, <1>12 DEF Tick, ToSet
<1>13. CASE UNCHANGED kernelVars
  BY <1>13, PreemptFrame DEF kernelVars, schedVars, Outrun
<1> QED BY <1>4, <1>5, <1>6, <1>7, <1>8, <1>9, <1>10, <1>11, <1>12, <1>13 DEF Next, KernelStep

(***************************************************************************)
(* The theorems.                                                           *)
(***************************************************************************)
\* The head of an ordered queue is a most urgent waiter.
LEMMA HeadLeast ==
  ASSUME NEW q \in Seq(Task), NEW pr \in [Task -> Nat], OrderedBy(q, pr), NEW t \in ToSet(q)
  PROVE  pr[Head(q)] <= pr[t]
<1>1. DOMAIN q = 1 .. Len(q) /\ Len(q) \in Nat
  BY LenProperties
<1>2. PICK i \in DOMAIN q : q[i] = t
  BY DEF ToSet
<1>3. 1 \in DOMAIN q /\ (i = 1 \/ 1 < i) /\ Head(q) = q[1]
  BY <1>1, <1>2
<1>4. pr[q[1]] \in Nat
  BY <1>1, <1>3, ElementOfSeq
<1>5. CASE i = 1
  BY <1>2, <1>3, <1>4, <1>5
<1>6. CASE 1 < i
  BY <1>2, <1>3, <1>6 DEF OrderedBy
<1> QED BY <1>3, <1>5, <1>6

\* The state kInit leaves satisfies the invariant.
LEMMA InitServiceInv ==
  ASSUME Init
  PROVE  ServiceInv
<1>1. /\ IInv /\ TypeOK /\ FirstRun \in Task \ {IdleTask, PostProc}
      /\ \A u \in UserTask : NominalPrio[FirstRun] <= NominalPrio[u]
  BY InitIInv, FirstRunType DEF IInv, KernelInv, UserTask
<1>2. /\ run = FirstRun /\ prio = NominalPrio /\ todo = <<>> /\ pendSV = FALSE
      /\ \A t \in Task : status[t] = CASE t = FirstRun -> "RUNNING"
                                       [] t = PostProc -> "SLEEPING_EV_FLAG"
                                       [] OTHER -> "READY"
      /\ \A t \in Task : call[t].number = "NONE" /\ ret[t].number = "NONE"
      /\ \A o \in WaitObj : waitQ[o] = <<>>
      /\ mesgPrio = [t \in Task |-> [base    |-> NominalPrio[t],
                                     ceiling |-> NominalPrio[IdleTask]]]
  BY DEF Init, KernelInit, NoCall, NoRet
<1>3. ToSet(<<>>) = {} /\ NoDuplicates(<<>>) /\ \A f : OrderedBy(<<>>, f)
  BY DEF ToSet, NoDuplicates, OrderedBy
<1>4. \A t \in Task : status[t] \notin {"BLOCKED", "SLEEPING_DELAY", "SELF_SUSPENDED"}
                        /\ (t # PostProc => status[t] \in {"READY", "RUNNING"})
  BY <1>1, <1>2
<1>5. SuspendInv
  BY <1>2, <1>4 DEF SuspendInv
<1>6. WakeInv /\ ResultInv
  BY <1>2, <1>3, OneWakeShort DEF WakeInv, ResultInv
<1>7. PlaceInv
  <2>1. ASSUME NEW p \in Prio
        PROVE  /\ NoDuplicates(readyQ[p])
               /\ \A t \in ToSet(readyQ[p]) : status[t] = "READY" /\ prio[t] = p
    <3> DEFINE S == {t \in Task \ {FirstRun, PostProc} : NominalPrio[t] = p}
    <3>1. IsFiniteSet(S)
      BY KernelConstants, FS_Subset
    <3>2. readyQ[p] = SetToSeq(S)
      BY DEF Init, KernelInit, InitReady
    <3> HIDE DEF S
    <3>3. NoDuplicates(readyQ[p]) /\ ToSet(readyQ[p]) = S
      BY <3>1, <3>2, SetToSeqProperties
    <3> QED BY <1>2, <3>3 DEF S
  <2> QED BY <1>2, <1>3, <1>4, <2>1 DEF PlaceInv, ReadyPlaces, WaitPlaces, BlockedPlaces
<1>8. RunInv
  BY <1>1, <1>2 DEF RunInv
<1>9. OrderInv
  BY <1>2, <1>3 DEF OrderInv
<1>10. PrioInv
  <2>1. ASSUME NEW t \in Task PROVE prio[t] = kTaskCalcEffectivePrio_(t)
    <3> DEFINE n == NominalPrio[t]
               i == NominalPrio[IdleTask]
    <3>1. LendingMutexes(t) = {} /\ LendingPeers(t) = {}
      BY <1>2, KernelConstants DEF LendingMutexes, LendingPeers, WaitObj
    <3>2. n \in Nat /\ i \in Nat /\ n <= i
      BY KernelConstants
    <3>3. mesgPrio[t].base = n /\ mesgPrio[t].ceiling = i /\ prio[t] = n
      BY <1>2
    <3> HIDE DEF n, i
    <3>4. kTaskCalcEffectivePrio_(t) = CHOOSE p \in {n, i} : \A q \in {n, i} : p <= q
      <4>1. {prio[Head(waitQ[o])] : o \in LendingMutexes(t) \cup LendingPeers(t)} = {}
        BY <3>1
      <4>2. {n, i} \cup {} = {n, i}
        OBVIOUS
      <4> QED BY <3>3, <4>1, <4>2 DEF kTaskCalcEffectivePrio_
    <3>5. \A p \in {n, i} : (\A q \in {n, i} : p <= q) <=> p = n
      BY <3>2
    <3>6. (CHOOSE p \in {n, i} : \A q \in {n, i} : p <= q) = n
      BY <3>2, <3>5
    <3> QED BY <3>3, <3>4, <3>6
  <2>2. \A t \in Task : mesgPrio[t] = [base    |-> NominalPrio[t],
                                       ceiling |-> NominalPrio[IdleTask]]
    BY <1>2
  <2> QED BY <2>1, <2>2 DEF PrioInv
<1>11. PreemptInv
  <2>1. ASSUME NEW t \in Task, status[t] = "READY" PROVE ~(prio[t] < prio[run])
    <3>1. t \in UserTask \/ t = IdleTask
      BY <1>2, <2>1 DEF UserTask
    <3>2. NominalPrio[FirstRun] \in Nat /\ NominalPrio[t] \in Nat
          /\ NominalPrio[FirstRun] < NominalPrio[IdleTask]
      BY <1>1, KernelConstants
    <3> QED BY <1>1, <1>2, <3>1, <3>2
  <2> QED BY <2>1 DEF PreemptInv
<1> QED BY <1>1, <1>5, <1>6, <1>7, <1>8, <1>9, <1>10, <1>11 DEF ServiceInv

\* The invariant holds in every state of an application in which no task yields
\* while it holds the scheduler lock.
THEOREM ServiceInvariance ==
  ASSUME ~YieldWhenLocked
  PROVE  Spec => []ServiceInv
<1>1. Init => ServiceInv
  BY InitServiceInv
<1>2. ServiceInv /\ [Next]_kernelVars => ServiceInv'
  <2> SUFFICES ASSUME ServiceInv, [Next]_kernelVars PROVE ServiceInv'
    OBVIOUS
  <2>1. IInv'
    BY TypeStep, ReadyStep, TimeStep, QueueStep, TodoStep, OwnerStep, StaleStep
    DEF ServiceInv, IInv, KernelInv
  <2> QED BY <2>1, SuspendStep, WakeStep, PlaceStep, RunStep, ResultStep, OrderStep,
             PrioStep, PreemptStep DEF ServiceInv
<1> QED BY <1>1, <1>2, PTL DEF Spec

\* A READY task is on the ready queue of its effective priority and on nothing
\* else, a BLOCKED one on the queue of its mutex, the RUNNING one on none.
THEOREM ListsMatchStatus ==
  ASSUME ~YieldWhenLocked
  PROVE  Spec => []StatusMatchesLists
<1>1. ASSUME ServiceInv, Quiet, NEW t \in Task
      PROVE  /\ status[t] = "READY" => LinkedOn(t) = {prio[t]}
             /\ status[t] = "RUNNING" => t = run /\ LinkedOn(t) = {}
             /\ status[t] = "BLOCKED" => LinkedOn(t) = {waitingFor[t]} /\ wqp[t] = waitingFor[t]
  <2>1. /\ ReadyInv /\ SuspendInv /\ PlaceInv /\ QueueInv /\ prio[t] \in Prio
        /\ ToSet(todo) = {}
    BY <1>1 DEF ServiceInv, IInv, KernelInv, TypeOK, SchedTypeOK, Quiet, ToSet
  <2>2. \A p \in Prio : t \in ToSet(readyQ[p]) => status[t] = "READY" /\ prio[t] = p
    BY <2>1 DEF PlaceInv, ReadyPlaces
  <2>3. \A o \in WaitObj : t \in ToSet(waitQ[o]) =>
          status[t] = "BLOCKED" /\ waitingFor[t] = o /\ wqp[t] = o
    BY <2>1 DEF PlaceInv, WaitPlaces, QueueInv, SuspendInv
  <2>4. status[t] = "READY" => t \in ToSet(readyQ[prio[t]])
    BY <2>1 DEF ReadyInv
  <2>5. status[t] = "BLOCKED" => \E m \in WaitObj : t \in ToSet(waitQ[m])
    BY <2>1 DEF PlaceInv, BlockedPlaces, WaitObj
  <2>6. status[t] = "RUNNING" => t = run
    BY <2>1 DEF ReadyInv
  <2> QED BY <2>1, <2>2, <2>3, <2>4, <2>5, <2>6 DEF LinkedOn
<1>2. ServiceInv => StatusMatchesLists
  BY <1>1 DEF StatusMatchesLists
<1> QED BY <1>2, ServiceInvariance, PTL

\* In every state, within critical regions too, no node is linked twice.
THEOREM NodesLinkedOnce ==
  ASSUME ~YieldWhenLocked
  PROVE  Spec => []OneListPerNode
<1>1. ASSUME ServiceInv, NEW t \in Task
      PROVE  Cardinality(LinkedOn(t)) <= 1
  <2>1. SuspendInv /\ PlaceInv /\ QueueInv
    BY <1>1 DEF ServiceInv, IInv, KernelInv
  <2>2. \A p \in Prio : t \in ToSet(readyQ[p]) => status[t] = "READY" /\ prio[t] = p
    BY <2>1 DEF PlaceInv, ReadyPlaces
  <2>3. \A o \in WaitObj : t \in ToSet(waitQ[o]) => status[t] = "BLOCKED" /\ waitingFor[t] = o
    BY <2>1 DEF PlaceInv, WaitPlaces, QueueInv, SuspendInv
  <2>4. \/ LinkedOn(t) = {}
        \/ LinkedOn(t) = {prio[t]}
        \/ LinkedOn(t) = {waitingFor[t]}
    BY <2>2, <2>3 DEF LinkedOn
  <2>5. Cardinality({}) <= 1 /\ Cardinality({prio[t]}) <= 1 /\ Cardinality({waitingFor[t]}) <= 1
    <3>1. Cardinality({}) = 0
      BY FS_EmptySet
    <3>2. Cardinality({prio[t]}) = 1 /\ Cardinality({waitingFor[t]}) = 1
      BY FS_Singleton
    <3> QED BY <3>1, <3>2
  <2> QED BY <2>4, <2>5
<1>2. ServiceInv => OneListPerNode
  BY <1>1 DEF OneListPerNode, ServiceInv, IInv, KernelInv, PlaceInv, ReadyPlaces, QueueInv
<1> QED BY <1>2, ServiceInvariance, PTL

\* A lock call that reports success made its caller the owner, and any other
\* result leaves it neither owner nor waiter, whatever raced with the hand-over.
THEOREM LockCallsTellTheTruth ==
  ASSUME ~YieldWhenLocked
  PROVE  Spec => []LockResultTrue
<1>1. ASSUME ServiceInv, NEW t \in Task, ret[t].number = "MUTEX_LOCK",
             status[t] \in {"READY", "RUNNING"}
      PROVE  /\ ret[t].err = "SUCCESS" <=> owner[ret[t].arg] = t
             /\ t \notin ToSet(waitQ[ret[t].arg])
  <2>1. call[t].number = "NONE"
    BY <1>1 DEF ServiceInv, SuspendInv
  <2>2. ret[t].arg \in Mutex /\ (ret[t].err = "SUCCESS" <=> owner[ret[t].arg] = t)
    BY <1>1, <2>1 DEF ServiceInv, ResultInv
  <2>3. \A o \in WaitObj : t \notin ToSet(waitQ[o])
    BY <1>1, <2>1 DEF ServiceInv, IInv, KernelInv, QueueInv
  <2> QED BY <2>2, <2>3 DEF WaitObj
<1>2. ServiceInv => LockResultTrue
  BY <1>1 DEF LockResultTrue
<1> QED BY <1>2, ServiceInvariance, PTL

\* However their priorities change while they wait, waiters stay in order.
THEOREM WaitersStayOrdered ==
  ASSUME ~YieldWhenLocked
  PROVE  Spec => []WaitersOrdered
<1>1. ServiceInv => WaitersOrdered
  BY DEF ServiceInv, OrderInv, WaitersOrdered, WaitObj
<1> QED BY <1>1, ServiceInvariance, PTL

\* Outside critical regions nobody is owed a walk.
LEMMA QuietPrio ==
  ASSUME ServiceInv, Quiet, NEW t \in Task
  PROVE  prio[t] = kTaskCalcEffectivePrio_(t)
BY DEF ServiceInv, PrioInv, Quiet, ToSet

\* No waiter is more urgent than the owner it waits for, along chains of any
\* length and for any number of mutexes.
THEOREM NoOwnerOutranked ==
  ASSUME ~YieldWhenLocked
  PROVE  Spec => []OwnerNotOutranked
<1>1. ASSUME ServiceInv, Quiet, NEW m \in Inherit, NEW t \in ToSet(waitQ[m])
      PROVE  owner[m] # None /\ prio[owner[m]] <= prio[t]
  <2> DEFINE q == waitQ[m]
             o == owner[m]
  <2>1. /\ TypeOK /\ OwnerInv /\ OrderInv /\ m \in Mutex /\ m \in WaitObj /\ q \in Seq(Task)
        /\ prio \in [Task -> Nat]
    BY <1>1, KernelConstants, NominalPrioType
    DEF ServiceInv, IInv, KernelInv, TypeOK, SchedTypeOK, WaitTypeOK, WaitObj
  <2>2. q # <<>>
    BY DEF ToSet
  <2>3. o # None /\ o \in Task /\ m \in owned[o]
    BY <2>1, <2>2 DEF OwnerInv, TypeOK, MutexTypeOK
  <2>4. prio[o] <= prio[Head(q)]
    <3>1. prio[o] = kTaskCalcEffectivePrio_(o)
      BY <1>1, <2>3, QuietPrio
    <3>2. m \in LendingMutexes(o)
      BY <2>2, <2>3 DEF LendingMutexes
    <3> QED BY <2>1, <2>3, <3>1, <3>2, CalcEffectiveProperties
  <2>6. prio[Head(q)] <= prio[t]
    BY <2>1, HeadLeast DEF OrderInv
  <2>7. t \in Task /\ Head(q) \in Task
    BY <2>1, <2>2, ListedTasks, TailFacts
  <2> HIDE DEF q, o
  <2>8. prio[o] \in Nat /\ prio[Head(q)] \in Nat /\ prio[t] \in Nat
    BY <2>1, <2>3, <2>7
  <2> QED BY <2>3, <2>4, <2>6, <2>8 DEF o
<1>2. ServiceInv => OwnerNotOutranked
  BY <1>1 DEF OwnerNotOutranked
<1> QED BY <1>2, ServiceInvariance, PTL

\* A boost ends with what caused it: outside critical regions a task is at its
\* nominal priority or at that of a waiter of a mutex it owns.
THEOREM BoostsEnd ==
  ASSUME ~YieldWhenLocked
  PROVE  Spec => []NoLeftoverBoost
<1>1. ASSUME ServiceInv, Quiet, NEW t \in Task
      PROVE  \/ prio[t] = NominalPrio[t]
             \/ \E m \in owned[t] \cap Inherit :
                  \E u \in ToSet(waitQ[m]) : prio[u] = prio[t]
  <2>1. /\ TypeOK /\ mesgPrio[t].base = NominalPrio[t]
        /\ mesgPrio[t].ceiling = NominalPrio[IdleTask]
        /\ NominalPrio[t] \in Nat /\ NominalPrio[IdleTask] \in Nat
        /\ NominalPrio[t] <= NominalPrio[IdleTask] /\ LendingPeers(t) = {}
    <3>1. TypeOK /\ PrioInv /\ PeersEmpty
      BY <1>1, NoPeers DEF ServiceInv, IInv, KernelInv
    <3>2. LendingPeers(t) = {}
      BY <3>1, KernelConstants DEF LendingPeers, PeersEmpty
    <3>3. mesgPrio[t] = [base |-> NominalPrio[t], ceiling |-> NominalPrio[IdleTask]]
      BY <3>1 DEF PrioInv
    <3>4. /\ NominalPrio[t] \in Nat /\ NominalPrio[IdleTask] \in Nat
          /\ NominalPrio[t] <= NominalPrio[IdleTask]
      BY KernelConstants
    <3> QED BY <3>1, <3>2, <3>3, <3>4
  <2>2. prio[t] = kTaskCalcEffectivePrio_(t)
    BY <1>1, QuietPrio
  <2>3. CASE prio[t] \in {NominalPrio[t], NominalPrio[IdleTask]}
    <3>1. prio[t] <= NominalPrio[t]
      BY <2>1, <2>2, CalcEffectiveProperties
    <3> QED BY <2>1, <2>3, <3>1
  <2>4. CASE \E o \in LendingMutexes(t) : prio[t] = prio[Head(waitQ[o])]
    <3> PICK m \in LendingMutexes(t) : prio[t] = prio[Head(waitQ[m])]
      BY <2>4
    <3>1. m \in owned[t] \cap Inherit /\ waitQ[m] # <<>> /\ waitQ[m] \in Seq(Task)
      BY <2>1, KernelConstants DEF LendingMutexes, TypeOK, WaitTypeOK, WaitObj
    <3>2. Head(waitQ[m]) \in ToSet(waitQ[m])
      BY <3>1, TailFacts
    <3> QED BY <3>1, <3>2
  <2> QED BY <2>1, <2>2, <2>3, <2>4, CalcEffectiveProperties
<1>2. ServiceInv => NoLeftoverBoost
  BY <1>1 DEF NoLeftoverBoost
<1> QED BY <1>2, ServiceInvariance, PTL

\* A preemptible task goes on running beside a more urgent READY one only while
\* it holds the scheduler lock, with the switch it owes recorded.
THEOREM PreemptionsKept ==
  ASSUME ~YieldWhenLocked
  PROVE  Spec => []NoLostPreemption
<1>1. ServiceInv => NoLostPreemption
  BY DEF ServiceInv, PreemptInv, NoLostPreemption, Quiet, ToSet
<1> QED BY <1>1, ServiceInvariance, PTL

\* A held mutex goes straight from its owner to one of its most urgent waiters,
\* and is set free only when it has none.
THEOREM HandOffsGoToMostUrgent ==
  ASSUME ~YieldWhenLocked
  PROVE  Spec => HandOffToMostUrgent
<1> DEFINE Handed(m) ==
             owner[m] # None /\ owner'[m] # owner[m] =>
               IF owner'[m] = None
               THEN waitQ[m] = <<>> \/ faulted'[m]
               ELSE /\ owner'[m] \in ToSet(waitQ[m])
                    /\ \A u \in ToSet(waitQ[m]) : prio[owner'[m]] <= prio[u]
<1>1. ASSUME ServiceInv, [Next]_kernelVars, NEW m \in Mutex, owner'[m] # owner[m]
      PROVE  Handed(m)
  <2>1. /\ TypeOK /\ OwnerInv /\ OrderInv /\ waitQ[m] \in Seq(Task) /\ m \in WaitObj
        /\ owner \in [Mutex -> Task \cup {None}] /\ prio \in [Task -> Nat] /\ run \in Task
        /\ None \notin Task
    BY <1>1, NominalPrioType, KernelConstants
    DEF ServiceInv, IInv, KernelInv, TypeOK, SchedTypeOK, WaitTypeOK, MutexTypeOK, WaitObj
  <2>2. PICK n \in Mutex : \/ \E timeout \in Timeout : kMutexLock(n, timeout)
                           \/ kMutexUnlock(n)
    <3>1. CASE MutexCall
      BY <3>1 DEF MutexCall
    <3>2. CASE ~MutexCall
      <4>1. UNCHANGED owner
        BY <1>1, <3>2
        DEF Next, KernelStep, UpdatePrio, ReadySwtch, TimeoutExpire, TimeoutReady, TickEnd,
            SignalReady, kSwtch, Tick, SchedCall, kSchLock, kSchUnlock, kYield, kSleepDelay,
            kTaskSelfSuspend, kTaskResume, SignalCall, kTaskSignalReady, kernelVars, mutexVars
      <4> QED BY <1>1, <4>1
    <3> QED BY <3>1, <3>2
  <2>3. CASE LockFree(n)
    <3>1. owner' = [owner EXCEPT ![n] = run] /\ ~lock[n]
      BY <2>3 DEF LockFree, TakeMutex, OwnMutex
    <3>2. owner[n] = None /\ n = m
      BY <1>1, <2>1, <3>1 DEF OwnerInv
    <3> QED BY <3>2
  <2>4. CASE UnlockFree(n)
    <3>1. owner' = [owner EXCEPT ![n] = None] /\ waitQ[n] = <<>>
      BY <2>4 DEF UnlockFree, FreeMutex
    <3>2. n = m /\ owner'[m] = None
      BY <1>1, <2>1, <3>1
    <3> QED BY <3>1, <3>2
  <2>5. CASE UnlockHandOff(n)
    <3>1. owner' = [owner EXCEPT ![n] = Head(waitQ[n])] /\ waitQ[n] # <<>>
      BY <2>5 DEF UnlockHandOff
    <3>2. n = m
      BY <1>1, <2>1, <3>1
    <3>3. owner'[m] = Head(waitQ[m]) /\ Head(waitQ[m]) \in ToSet(waitQ[m])
      BY <2>1, <3>1, <3>2, TailFacts
    <3>4. ASSUME NEW u \in ToSet(waitQ[m]) PROVE prio[Head(waitQ[m])] <= prio[u]
      BY <2>1, <3>4, HeadLeast DEF OrderInv
    <3>5. Head(waitQ[m]) # None
      BY <2>1, <3>3, ListedTasks
    <3> QED BY <3>3, <3>4, <3>5
  <2>6. CASE UNCHANGED owner
    BY <1>1, <2>6
  <2> QED BY <2>2, <2>3, <2>4, <2>5, <2>6
      DEF kMutexLock, kMutexUnlock, LockFaulted, LockNoWait, LockBlock, WaitForMutex, mutexVars
<1>2. ServiceInv /\ [Next]_kernelVars => [\A m \in Mutex : Handed(m)]_kernelVars
  <2>1. ASSUME ServiceInv, [Next]_kernelVars, NEW m \in Mutex PROVE Handed(m)
    BY <1>1, <2>1
  <2> HIDE DEF Handed
  <2> QED BY <2>1
<1> HIDE DEF Handed
<1>3. Spec => [][\A m \in Mutex : Handed(m)]_kernelVars
  BY <1>2, ServiceInvariance, PTL DEF Spec
<1> QED BY <1>3 DEF HandOffToMostUrgent, Handed

(***************************************************************************)
(* Refinement: the service implements MutexAbs, and uses the timeout list  *)
(* as TimeoutAbs promises it.  These proofs rest on IInv alone.            *)
(***************************************************************************)
\* A step that changes neither an owner nor who waits is a stutter.
LEMMA StutterStep ==
  ASSUME UNCHANGED <<owner, faulted>>,
         \A m \in Mutex : ToSet(waitQ'[m]) = ToSet(waitQ[m])
  PROVE  UNCHANGED Abs!absVars
BY DEF Abs!absVars

\* A step that unlinks t from the queue its timeout node names, or t that is
\* on no queue, is a Leave or a stutter.
LEMMA UnlinkStep ==
  ASSUME TypeOK, QueueInv, UNCHANGED <<owner, faulted>>, NEW t \in Task,
         \/ waitQ' = [waitQ EXCEPT ![wqp[t]] = kTCBQRem(@, t)]
         \/ waitQ' = waitQ
  PROVE  [Abs!Next]_(Abs!absVars)
<1>1. CASE \A m \in Mutex : ToSet(waitQ'[m]) = ToSet(waitQ[m])
  BY <1>1, StutterStep
<1>2. CASE \E m \in Mutex : ToSet(waitQ'[m]) # ToSet(waitQ[m])
  <2> PICK m \in Mutex : ToSet(waitQ'[m]) # ToSet(waitQ[m])
    BY <1>2
  <2>1. waitQ' = [waitQ EXCEPT ![wqp[t]] = kTCBQRem(@, t)] /\ m \in WaitObj
    BY DEF WaitObj
  <2>2. wqp[t] = m
    BY <2>1 DEF TypeOK, WaitTypeOK
  <2>3. /\ waitQ[m] \in Seq(Task) /\ waitQ'[m] = kTCBQRem(waitQ[m], t)
        /\ NoDuplicates(waitQ[m])
    BY <2>1, <2>2 DEF TypeOK, WaitTypeOK, QueueInv
  <2>4. ToSet(waitQ'[m]) = ToSet(waitQ[m]) \ {t}
    BY <2>3, RemProperties
  <2>5. t \in ToSet(waitQ[m])
    BY <2>4
  <2>6. \A n \in Mutex \ {m} : waitQ'[n] = waitQ[n]
    BY <2>1, <2>2 DEF TypeOK, WaitTypeOK, WaitObj
  <2>7. Abs!Leave(t, m)
    BY <2>4, <2>5, <2>6 DEF Abs!Leave
  <2> QED BY <2>7 DEF Abs!Next
<1> QED BY <1>1, <1>2

\* A task that executes waits for nothing.
LEMMA ExecutingWaitsNowhere ==
  ASSUME IInv, Executing
  PROVE  Abs!WaitsNowhere(run)
BY ExecutingFacts DEF IInv, Abs!WaitsNowhere, WaitObj

\* Taking a mutex, waiting for it, setting it free and passing it on are the
\* steps of MutexAbs of those names.
LEMMA MutexCallStep ==
  ASSUME IInv, MutexCall
  PROVE  [Abs!Next]_(Abs!absVars)
<1> SUFFICES ASSUME NEW m \in Mutex, Executing,
                    \/ \E timeout \in Timeout : kMutexLock(m, timeout)
                    \/ kMutexUnlock(m)
             PROVE  [Abs!Next]_(Abs!absVars)
  BY DEF MutexCall, kMutexLock, kMutexUnlock
<1>1. /\ TypeOK /\ QueueInv /\ OwnerInv /\ run \in Task /\ None \notin Task
      /\ owner \in [Mutex -> Task \cup {None}] /\ m \in WaitObj
      /\ waitQ \in [WaitObj -> Seq(Task)] /\ Mutex \subseteq WaitObj
  BY ExecutingFacts, KernelConstants DEF IInv, KernelInv, TypeOK, MutexTypeOK, WaitTypeOK, WaitObj
<1>2. Abs!WaitsNowhere(run)
  BY ExecutingWaitsNowhere
<1>3. ASSUME NEW timeout \in Timeout, LockFaulted(m) \/ LockNoWait(m, timeout)
      PROVE  [Abs!Next]_(Abs!absVars)
  BY <1>3, StutterStep DEF LockFaulted, LockNoWait, mutexVars, waitVars
<1>4. CASE LockFree(m)
  <2>1. /\ ~lock[m] /\ ~faulted[m] /\ owner' = [owner EXCEPT ![m] = run]
        /\ UNCHANGED <<waitQ, faulted>>
    BY <1>4 DEF LockFree, TakeMutex, OwnMutex, waitVars
  <2>2. owner[m] = None
    BY <1>1, <2>1 DEF OwnerInv
  <2>3. Abs!Acquire(run, m)
    BY <1>2, <2>1, <2>2 DEF Abs!Acquire
  <2> QED BY <1>1, <2>3 DEF Abs!Next
<1>5. ASSUME NEW timeout \in Timeout, LockBlock(m, timeout)
      PROVE  [Abs!Next]_(Abs!absVars)
  <2>1. owner[m] \notin {None, run} /\ ~faulted[m] /\ UNCHANGED <<owner, faulted>>
    BY <1>5 DEF LockBlock, WaitForMutex, LockReturns
  <2>2. /\ ToSet(waitQ'[m]) = ToSet(waitQ[m]) \cup {run}
        /\ \A n \in Mutex \ {m} : waitQ'[n] = waitQ[n]
    BY <1>1, <1>5, BlockQueues DEF IInv
  <2>3. Abs!Wait(run, m)
    BY <1>2, <2>1, <2>2 DEF Abs!Wait
  <2> QED BY <1>1, <2>3 DEF Abs!Next
<1>6. CASE kMutexUnlock(m) /\ UnlockFree(m)
  <2>1. /\ waitQ[m] = <<>> /\ owner[m] = run
        /\ owner' = [owner EXCEPT ![m] = None]
        /\ UNCHANGED <<waitQ, faulted>>
    BY <1>6 DEF kMutexUnlock, UnlockFree, FreeMutex, waitVars
  <2>2. ToSet(waitQ[m]) = {}
    BY <1>1, <2>1, EmptySet
  <2>3. Abs!Release(m)
    BY <1>1, <2>1, <2>2 DEF Abs!Release
  <2> QED BY <2>3 DEF Abs!Next
<1>7. CASE kMutexUnlock(m) /\ UnlockHandOff(m)
  <2> DEFINE w == Head(waitQ[m])
  <2>1. /\ waitQ[m] # <<>> /\ owner[m] = run
        /\ owner' = [owner EXCEPT ![m] = w]
        /\ waitQ' = [waitQ EXCEPT ![m] = Tail(@)]
        /\ UNCHANGED faulted
    BY <1>7 DEF kMutexUnlock, UnlockHandOff
  <2>2. /\ w \in Task /\ w \in ToSet(waitQ[m])
        /\ ToSet(waitQ'[m]) \subseteq ToSet(waitQ[m]) \ {w}
        /\ \A n \in Mutex \ {m} : waitQ'[n] = waitQ[n]
    BY <1>1, <1>7, HandOffTodo, HandOffQueues
  <2>3. ToSet(waitQ[m]) \ {w} \subseteq ToSet(waitQ'[m])
    BY <1>1, <2>1, TailFacts
  <2> HIDE DEF w
  <2>4. Abs!HandOff(w, m)
    BY <1>1, <2>1, <2>2, <2>3 DEF Abs!HandOff
  <2> QED BY <2>2, <2>4 DEF Abs!Next
<1> QED BY <1>3, <1>4, <1>5, <1>6, <1>7 DEF kMutexLock, kMutexUnlock

\* Every step of the service is a step of MutexAbs or a stutter.
LEMMA RefinementStep ==
  ASSUME IInv, [Next]_kernelVars
  PROVE  [Abs!Next]_(Abs!absVars)
<1>1. TypeOK /\ QueueInv /\ StaleInv /\ Mutex \subseteq WaitObj
  BY DEF IInv, KernelInv, WaitObj
<1>2. CASE UpdatePrio
  <2>1. UNCHANGED <<owner, faulted>>
    BY <1>2 DEF UpdatePrio, mutexVars
  <2> QED BY <1>1, <1>2, <2>1, WalkQueues, StutterStep
<1>3. CASE ReadySwtch \/ TimeoutReady \/ TickEnd \/ SignalReady \/ kSwtch \/ Tick
           \/ SchedCall \/ UNCHANGED kernelVars
  <2>1. UNCHANGED <<owner, faulted, waitQ>>
    BY <1>3
    DEF ReadySwtch, TimeoutReady, TickEnd, SignalReady, kSwtch, Tick, SchedCall,
        kSchLock, kSchUnlock, kYield, kSleepDelay, kTaskSelfSuspend, kTaskResume,
        kernelVars, waitVars, mutexVars
  <2> QED BY <2>1, StutterStep
<1>4. CASE TimeoutExpire
  <2>1. Head(tmo) \in Task
    BY <1>1, <1>4, ExpireTodo
  <2>2. /\ UNCHANGED <<owner, faulted>>
        /\ \/ waitQ' = [waitQ EXCEPT ![wqp[Head(tmo)]] = kTCBQRem(@, Head(tmo))]
           \/ waitQ' = waitQ
    BY <1>4 DEF TimeoutExpire, mutexVars
  <2> QED BY <1>1, <2>1, <2>2, UnlinkStep
<1>5. CASE SignalCall
  <2> PICK t \in MaySignal : kTaskSignalReady(t)
    BY <1>5 DEF SignalCall
  <2>1. /\ t \in Task /\ UNCHANGED <<owner, faulted>>
        /\ \/ waitQ' = [waitQ EXCEPT ![wqp[t]] = kTCBQRem(@, t)]
           \/ waitQ' = waitQ
    BY MutexConstants DEF kTaskSignalReady, UserTask, mutexVars
  <2> QED BY <1>1, <2>1, UnlinkStep
<1>6. CASE MutexCall
  BY <1>6, MutexCallStep
<1> QED BY <1>2, <1>3, <1>4, <1>5, <1>6 DEF Next, KernelStep

\* The mutex service does what MutexAbs promises, for every set of tasks,
\* priorities, mutexes and timeouts: ownership passes only from an owner to a
\* waiter, through a free mutex that nobody waits for, or to nobody at all.
THEOREM Implementation == Spec => ImplementsMutexAbs
<1>1. Init => Abs!Init
  <2>1. ToSet(<<>>) = {}
    BY DEF ToSet
  <2>2. Mutex \subseteq WaitObj
    BY DEF WaitObj
  <2> QED BY <2>1, <2>2 DEF Init, KernelInit, Abs!Init
<1>2. IInv /\ [Next]_kernelVars => [Abs!Next]_(Abs!absVars)
  BY RefinementStep
<1> QED BY <1>1, <1>2, Invariance, PTL DEF Spec, ImplementsMutexAbs, Abs!Spec

(***************************************************************************)
(* The timeout list.                                                       *)
(***************************************************************************)
\* The calls that are the last of their critical region.
Final == {"signalReady", "handleTimeouts"}

FinalIsLast(calls) == \A i \in DOMAIN calls : calls[i].op \in Final => i = Len(calls)

\* A node that is not armed has no ticks left, and the tick handler is never
\* followed by another call.
ExpiryInv ==
  /\ \A t \in Task \ ToSet(tmo) : left[t] = 0
  /\ FinalIsLast(todo)

Expiring(calls) == \E c \in ToSet(calls) : c.op = "handleTimeouts"

LEMMA ExpiringIsTick ==
  \A q : (\E i \in DOMAIN q : q[i].op = "handleTimeouts") <=> Expiring(q)
BY DEF Expiring, ToSet

\* When its head has been made the rest of a list is as it was, and empty if
\* the head was one of the last.
LEMMA FinalTail ==
  ASSUME NEW q \in Seq(KernelCall), q # <<>>, FinalIsLast(q)
  PROVE  /\ FinalIsLast(Tail(q))
         /\ Head(q).op \in Final => Tail(q) = <<>>
         /\ Head(q).op # "handleTimeouts" => (Expiring(Tail(q)) <=> Expiring(q))
<1> HIDE DEF KernelCall
<1>1. /\ Len(q) \in Nat /\ DOMAIN q = 1 .. Len(q) /\ Len(q) > 0
      /\ Tail(q) \in Seq(KernelCall) /\ Len(Tail(q)) = Len(q) - 1
      /\ DOMAIN Tail(q) = 1 .. Len(q) - 1
      /\ \A i \in 1 .. Len(q) - 1 : Tail(q)[i] = q[i + 1]
      /\ Head(q) = q[1]
  BY LenProperties, EmptySeq, HeadTailProperties
<1>2. FinalIsLast(Tail(q))
  <2> SUFFICES ASSUME NEW i \in 1 .. Len(q) - 1, Tail(q)[i].op \in Final
               PROVE  i = Len(q) - 1
    BY <1>1 DEF FinalIsLast
  <2>1. i + 1 \in DOMAIN q /\ q[i + 1].op \in Final
    BY <1>1
  <2>2. i + 1 = Len(q)
    BY <2>1 DEF FinalIsLast
  <2>3. Len(q) \in Nat
    BY <1>1
  <2> QED BY <2>2, <2>3
<1>3. ASSUME Head(q).op \in Final PROVE Tail(q) = <<>>
  <2>1. 1 = Len(q)
    BY <1>1, <1>3 DEF FinalIsLast
  <2>2. Len(Tail(q)) = Len(q) - 1
    BY <1>1
  <2>3. Len(Tail(q)) = 0
    BY <2>1, <2>2
  <2> QED BY <1>1, <2>3, EmptySeq
<1>4. ToSet(q) = {Head(q)} \cup ToSet(Tail(q))
  BY TailFacts
<1> QED BY <1>2, <1>3, <1>4 DEF Expiring

\* Walks before the rest change nothing.
LEMMA FinalConcat ==
  ASSUME NEW a \in Seq(KernelCall), \A c \in ToSet(a) : c.op = "updatePrio",
         NEW b \in Seq(KernelCall), FinalIsLast(b)
  PROVE  /\ FinalIsLast(a \o b)
         /\ Expiring(a \o b) <=> Expiring(b)
<1> HIDE DEF KernelCall
<1>1. /\ Len(a) \in Nat /\ DOMAIN a = 1 .. Len(a)
      /\ Len(b) \in Nat /\ DOMAIN b = 1 .. Len(b)
  BY LenProperties
<1>2. /\ DOMAIN (a \o b) = 1 .. Len(a) + Len(b)
      /\ Len(a \o b) = Len(a) + Len(b)
      /\ \A i \in 1 .. Len(a) + Len(b) :
           (a \o b)[i] = IF i <= Len(a) THEN a[i] ELSE b[i - Len(a)]
  BY ConcatProperties, LenProperties
<1>3. \A i \in 1 .. Len(a) : a[i].op = "updatePrio"
  BY <1>1 DEF ToSet
<1>4. ToSet(a \o b) = ToSet(a) \cup ToSet(b)
  BY ConcatSet
<1> DEFINE c == a \o b
<1> HIDE DEF c
<1>5. ASSUME NEW i \in 1 .. Len(a) + Len(b), c[i].op \in Final
      PROVE  i = Len(a) + Len(b)
  <2>1. ~(i <= Len(a))
    BY <1>1, <1>2, <1>3, <1>5 DEF c, Final
  <2>2. c[i] = b[i - Len(a)] /\ i - Len(a) \in DOMAIN b
    BY <1>1, <1>2, <2>1 DEF c
  <2>3. i - Len(a) = Len(b)
    BY <1>5, <2>2 DEF FinalIsLast
  <2> QED BY <1>1, <2>3
<1>6. FinalIsLast(a \o b)
  BY <1>2, <1>5 DEF FinalIsLast, c
<1> QED BY <1>4, <1>6 DEF Expiring

LEMMA FinalShort ==
  /\ FinalIsLast(<<>>) /\ ~Expiring(<<>>)
  /\ \A c : FinalIsLast(<<c>>) /\ (Expiring(<<c>>) <=> c.op = "handleTimeouts")
  /\ \A t, b : /\ FinalIsLast(<<[op |-> "timeoutReady", task |-> t], HandleTimeoutsOf(b)>>)
               /\ Expiring(<<[op |-> "timeoutReady", task |-> t], HandleTimeoutsOf(b)>>)
<1>1. FinalIsLast(<<>>) /\ ~Expiring(<<>>)
  BY DEF FinalIsLast, Expiring, ToSet
<1>2. \A c : FinalIsLast(<<c>>) /\ (Expiring(<<c>>) <=> c.op = "handleTimeouts")
  BY DEF FinalIsLast, Expiring, ToSet
<1>3. ASSUME NEW t, NEW b
      PROVE  /\ FinalIsLast(<<[op |-> "timeoutReady", task |-> t], HandleTimeoutsOf(b)>>)
             /\ Expiring(<<[op |-> "timeoutReady", task |-> t], HandleTimeoutsOf(b)>>)
  <2> DEFINE q == <<[op |-> "timeoutReady", task |-> t], HandleTimeoutsOf(b)>>
  <2>1. /\ DOMAIN q = 1 .. 2 /\ Len(q) = 2 /\ q[1].op = "timeoutReady"
        /\ q[2].op = "handleTimeouts"
    BY DEF HandleTimeoutsOf
  <2> HIDE DEF q
  <2>2. FinalIsLast(q) /\ Expiring(q)
    BY <2>1 DEF FinalIsLast, Final, Expiring, ToSet
  <2> QED BY <2>2 DEF q
<1> QED BY <1>1, <1>2, <1>3

\* TimeoutAbs takes its operators on sequences from the same module.
LEMMA SameOperators ==
  /\ \A q : Timeouts!ToSet(q) = ToSet(q)
  /\ \A q, i : Timeouts!RemoveAt(q, i) = RemoveAt(q, i)
  /\ \A q, i, e : Timeouts!InsertAt(q, i, e) = InsertAt(q, i, e)
  /\ \A S : Timeouts!Cardinality(S) = Cardinality(S)
BY DEF Timeouts!ToSet, ToSet, Timeouts!RemoveAt, RemoveAt, Timeouts!InsertAt, InsertAt,
       Timeouts!Cardinality, Cardinality

\* A step that touches no node and neither begins nor ends a tick is a stutter.
LEMMA ExpiryFrame ==
  ASSUME ExpiryInv, UNCHANGED <<tmo, left>>, FinalIsLast(todo'),
         Expiring(todo') <=> Expiring(todo)
  PROVE  ExpiryInv' /\ [Timeouts!Next]_(Timeouts!absVars)
<1>1. ExpiryInv'
  BY DEF ExpiryInv
<1>2. UNCHANGED Timeouts!absVars
  BY ExpiringIsTick DEF Timeouts!absVars
<1> QED BY <1>1, <1>2

\* Between two ticks, so is one that leaves no final call but a signal.
LEMMA QuietFrame ==
  ASSUME IInv, ExpiryInv, Executing, UNCHANGED <<tmo, left>>, FinalIsLast(todo'),
         ~Expiring(todo')
  PROVE  ExpiryInv' /\ [Timeouts!Next]_(Timeouts!absVars)
<1>1. ~Expiring(todo)
  BY ExecutingFacts, FinalShort DEF IInv
<1> QED BY <1>1, ExpiryFrame

\* Arming puts the node before the first that does not expire earlier, which
\* is after as many as expire earlier.
LEMMA ArmImplements ==
  ASSUME IInv, ExpiryInv, Executing, NEW ticks \in Timeout \ {NoWait},
         NEW type \in {"BLOCKING", "TIME_EVENT"}, ArmTimeout(run, type, ticks),
         FinalIsLast(todo'), ~Expiring(todo')
  PROVE  ExpiryInv' /\ [Timeouts!Next]_(Timeouts!absVars)
<1>1. /\ TypeOK /\ TimeInv /\ run \in Task /\ run \notin ToSet(tmo) /\ ~Expiring(todo)
  BY ExecutingFacts, FinalShort DEF IInv, KernelInv
<1>2. CASE ticks = Forever
  <2>1. UNCHANGED <<tmo, left>>
    BY <1>2 DEF ArmTimeout, timeVars
  <2> QED BY <2>1, QuietFrame
<1>3. CASE ticks # Forever
  <2>1. ticks \in 1 .. MaxTimeout /\ ticks \in Nat
    BY <1>3, KernelConstants DEF Timeout, NoWait
  <2> DEFINE notEarlier == {i \in DOMAIN tmo : left[tmo[i]] >= ticks}
             earlier == {i \in DOMAIN tmo : left[tmo[i]] < ticks}
             pos == IF notEarlier = {} THEN Len(tmo) + 1
                    ELSE CHOOSE i \in notEarlier : \A j \in notEarlier : i <= j
  <2>2. /\ Len(tmo) \in Nat /\ DOMAIN tmo = 1 .. Len(tmo) /\ tmo \in Seq(Task)
        /\ \A i \in 1 .. Len(tmo) : tmo[i] \in Task /\ left[tmo[i]] \in Nat
        /\ \A i, j \in 1 .. Len(tmo) : i < j => left[tmo[i]] <= left[tmo[j]]
    BY <1>1, LenProperties, ElementOfSeq DEF TypeOK, TimeTypeOK, TimeInv, OrderedBy
  <2>3. pos \in 1 .. Len(tmo) + 1 /\ earlier = 1 .. pos - 1
    <3>1. CASE notEarlier = {}
      <4>1. \A i \in 1 .. Len(tmo) : left[tmo[i]] < ticks
        BY <2>1, <2>2, <3>1
      <4> QED BY <2>2, <3>1, <4>1
    <3>2. CASE notEarlier # {}
      <4>1. notEarlier \in SUBSET Nat /\ notEarlier \subseteq 1 .. Len(tmo)
        BY <2>2
      <4>2. \E i \in notEarlier : \A j \in notEarlier : i <= j
        <5> HIDE DEF notEarlier
        <5> QED BY <3>2, <4>1, LeastExists
      <4>3. pos \in notEarlier /\ \A j \in notEarlier : pos <= j
        <5> HIDE DEF notEarlier
        <5> QED BY <3>2, <4>2
      <4> HIDE DEF pos
      <4>4. pos \in 1 .. Len(tmo) /\ left[tmo[pos]] >= ticks
        BY <2>2, <4>3
      <4>5. ASSUME NEW i \in 1 .. Len(tmo) PROVE left[tmo[i]] < ticks <=> i < pos
        <5>1. CASE i < pos
          BY <2>1, <2>2, <4>3, <4>4, <5>1
        <5>2. CASE i = pos
          BY <2>1, <2>2, <4>4, <5>2
        <5>3. CASE pos < i
          BY <2>1, <2>2, <4>4, <5>3
        <5> QED BY <2>2, <4>4, <5>1, <5>2, <5>3
      <4> QED BY <2>2, <4>4, <4>5
    <3> QED BY <3>1, <3>2
  <2>4. Cardinality(earlier) + 1 = pos
    <3>1. pos \in Nat /\ pos >= 1
      BY <2>2, <2>3
    <3> HIDE DEF pos, earlier
    <3>2. Cardinality(1 .. pos - 1) = pos - 1
      BY <3>1, FS_Interval
    <3> QED BY <2>3, <3>1, <3>2
  <2>5. tmo' = InsertAt(tmo, pos, run) /\ left' = [left EXCEPT ![run] = ticks]
    BY <1>3 DEF ArmTimeout, TimeoutInsert
  <2>6. Timeouts!Arm(run, ticks)
    <3>1. tmo' = InsertAt(tmo, Cardinality(earlier) + 1, run)
      <4> HIDE DEF pos, earlier
      <4> QED BY <2>4, <2>5
    <3>2. /\ ~(\E i \in DOMAIN todo : todo[i].op = "handleTimeouts")
          /\ ~(\E i \in DOMAIN todo' : todo'[i].op = "handleTimeouts")
      BY <1>1, ExpiringIsTick
    <3> HIDE DEF pos
    <3> QED BY <1>1, <2>5, <3>1, <3>2, SameOperators DEF Timeouts!Arm, Timeouts!Armed
  <2> HIDE DEF pos, notEarlier, earlier
  <2>7. ToSet(tmo') = ToSet(tmo) \cup {run}
    BY <1>1, <2>2, <2>3, <2>5, InsertAtSet
  <2>8. ExpiryInv'
    BY <1>1, <2>5, <2>7 DEF ExpiryInv, TypeOK, TimeTypeOK
  <2> QED BY <1>1, <2>1, <2>6, <2>8 DEF Timeouts!Next
<1> QED BY <1>2, <1>3

\* Disarming a node that is armed is a Disarm, of another a stutter.
LEMMA DisarmImplements ==
  ASSUME IInv, ExpiryInv, NEW t \in Task, DisarmTimeout(t), FinalIsLast(todo'),
         ~Expiring(todo), ~Expiring(todo')
  PROVE  ExpiryInv' /\ [Timeouts!Next]_(Timeouts!absVars)
<1>1. /\ tmo' = kTCBQRem(tmo, t) /\ left' = [left EXCEPT ![t] = 0]
      /\ tmo \in Seq(Task) /\ left \in [Task -> Nat] /\ NoDuplicates(tmo)
  BY DEF DisarmTimeout, IInv, KernelInv, TypeOK, TimeTypeOK, TimeInv
<1>2. CASE t \notin ToSet(tmo)
  <2>1. tmo' = tmo
    BY <1>1, <1>2 DEF kTCBQRem
  <2>2. left[t] = 0
    BY <1>2 DEF ExpiryInv
  <2>3. left' = left
    BY <1>1, <2>2
  <2> QED BY <2>1, <2>3, ExpiryFrame
<1>3. CASE t \in ToSet(tmo)
  <2> DEFINE n == CHOOSE i \in DOMAIN tmo : tmo[i] = t
  <2>1. n \in DOMAIN tmo /\ tmo[n] = t
    BY <1>3 DEF ToSet
  <2>2. tmo' = RemoveAt(tmo, n)
    BY <1>1, <1>3 DEF kTCBQRem
  <2> HIDE DEF n
  <2>3. Timeouts!Disarm(t)
    <3>1. /\ ~(\E i \in DOMAIN todo : todo[i].op = "handleTimeouts")
          /\ ~(\E i \in DOMAIN todo' : todo'[i].op = "handleTimeouts")
      BY ExpiringIsTick
    <3> QED BY <1>1, <1>3, <2>1, <2>2, <3>1, SameOperators DEF Timeouts!Disarm, Timeouts!Armed
  <2>4. ToSet(tmo) \ {t} \subseteq ToSet(tmo')
    BY <1>1, RemProperties
  <2>5. ExpiryInv'
    BY <1>1, <2>4 DEF ExpiryInv
  <2> QED BY <2>3, <2>5 DEF Timeouts!Next
<1> QED BY <1>2, <1>3

\* A round of the walk puts at most another before the rest of the calls.
LEMMA WalkFinal ==
  ASSUME TypeOK, FinalIsLast(todo), UpdatePrio
  PROVE  FinalIsLast(todo') /\ (Expiring(todo') <=> Expiring(todo))
<1>1. /\ todo # <<>> /\ Head(todo).op = "updatePrio" /\ todo \in Seq(KernelCall)
      /\ Head(todo).task \in Task /\ Tail(todo) \in Seq(KernelCall)
  BY HeadTask, TodoTypes DEF UpdatePrio, TypeOK
<1>2. FinalIsLast(Tail(todo)) /\ (Expiring(Tail(todo)) <=> Expiring(todo))
  BY <1>1, FinalTail
<1>3. ASSUME NEW first \in Seq(KernelCall), \A c \in ToSet(first) : c.op = "updatePrio",
             todo' = first \o Tail(todo)
      PROVE  FinalIsLast(todo') /\ (Expiring(todo') <=> Expiring(todo))
  <2> HIDE DEF KernelCall
  <2> QED BY <1>1, <1>2, <1>3, FinalConcat
<1>4. /\ <<>> \in Seq(KernelCall) /\ \A c \in ToSet(<<>>) : c.op = "updatePrio"
      /\ \A u \in Task : /\ <<UpdatePrioOf(u)>> \in Seq(KernelCall)
                         /\ \A c \in ToSet(<<UpdatePrioOf(u)>>) : c.op = "updatePrio"
  BY TodoTypes DEF ToSet, UpdatePrioOf
<1> DEFINE next == waitingFor[Head(todo).task]
<1>5. next # None /\ owner[next] # None => owner[next] \in Task
  BY <1>1 DEF TypeOK, MutexTypeOK
<1>6. \/ todo' = Tail(todo)
      \/ todo' = <<>> \o Tail(todo)
      \/ \E u \in Task : todo' = <<UpdatePrioOf(u)>> \o Tail(todo)
  BY <1>5 DEF UpdatePrio
<1> QED BY <1>2, <1>3, <1>4, <1>6

\* The tick handler: a tick, one expiry, the end of the tick.
LEMMA TickImplements ==
  ASSUME IInv, ExpiryInv, Tick \/ TimeoutExpire \/ TickEnd
  PROVE  ExpiryInv' /\ [Timeouts!Next]_(Timeouts!absVars)
<1>1. /\ TypeOK /\ TimeInv /\ tmo \in Seq(Task) /\ left \in [Task -> Nat]
      /\ ToSet(tmo) \subseteq Task /\ todo \in Seq(KernelCall)
  BY ListedTasks DEF IInv, KernelInv, TypeOK, TimeTypeOK
<1>2. CASE Tick
  <2>1. /\ todo = <<>> /\ tmo # <<>> /\ UNCHANGED tmo
        /\ left' = [t \in Task |-> IF t \in ToSet(tmo) THEN left[t] - 1 ELSE left[t]]
        /\ todo' = <<HandleTimeoutsOf(FALSE)>>
    BY <1>2 DEF Tick
  <2>2. ~Expiring(todo) /\ Expiring(todo') /\ FinalIsLast(todo')
    BY <2>1, FinalShort DEF HandleTimeoutsOf
  <2>3. Timeouts!Tick
    <3>1. /\ ~(\E i \in DOMAIN todo : todo[i].op = "handleTimeouts")
          /\ (\E i \in DOMAIN todo' : todo'[i].op = "handleTimeouts")
      BY <2>2, ExpiringIsTick
    <3> QED BY <2>1, <3>1, SameOperators DEF Timeouts!Tick, Timeouts!Armed
  <2>4. ExpiryInv'
    BY <2>1, <2>2 DEF ExpiryInv
  <2> QED BY <2>3, <2>4 DEF Timeouts!Next
<1>3. CASE TimeoutExpire
  <2> DEFINE t == Head(tmo)
             first == IF ttype[t] = "BLOCKING" THEN WaiterRemoved(t) ELSE <<>>
             last == <<[op |-> "timeoutReady", task |-> t], HandleTimeoutsOf(TRUE)>>
  <2>1. /\ tmo # <<>> /\ left[t] = 0 /\ tmo' = Tail(tmo) /\ UNCHANGED left
        /\ todo' = first \o last /\ todo # <<>> /\ Head(todo).op = "handleTimeouts"
    BY <1>3 DEF TimeoutExpire, timeVars
  <2>2. t \in Task
    BY <1>1, <1>3, ExpireTodo
  <2>3. first \in Seq(KernelCall) /\ \A c \in ToSet(first) : c.op = "updatePrio"
    <3>1. \A c \in ToSet(<<>>) : c.op = "updatePrio"
      BY DEF ToSet
    <3> QED BY <1>1, <2>2, <3>1, TodoTypes, WaiterRemovedOps
  <2>4. last \in Seq(KernelCall) /\ FinalIsLast(last) /\ Expiring(last)
    <3>1. last \in Seq(KernelCall)
      BY <2>2 DEF KernelCall, HandleTimeoutsOf
    <3> QED BY <3>1, FinalShort
  <2>5. FinalIsLast(todo') /\ Expiring(todo')
    <3> HIDE DEF first, last, KernelCall
    <3> QED BY <2>1, <2>3, <2>4, FinalConcat
  <2>6. Expiring(todo)
    <3> HIDE DEF KernelCall
    <3> QED BY <1>1, <2>1, TailFacts DEF Expiring
  <2>7. Timeouts!Expire
    <3>1. /\ (\E i \in DOMAIN todo : todo[i].op = "handleTimeouts")
          /\ (\E i \in DOMAIN todo' : todo'[i].op = "handleTimeouts")
      BY <2>5, <2>6, ExpiringIsTick
    <3> QED BY <2>1, <3>1 DEF Timeouts!Expire
  <2>8. ToSet(tmo) = {t} \cup ToSet(tmo')
    BY <1>1, <2>1, TailFacts
  <2>9. ExpiryInv'
    BY <2>1, <2>5, <2>8 DEF ExpiryInv
  <2> QED BY <2>7, <2>9 DEF Timeouts!Next
<1>4. CASE TickEnd
  <2>1. /\ tmo # <<>> => left[Head(tmo)] # 0
        /\ todo # <<>> /\ Head(todo).op = "handleTimeouts" /\ todo' = Tail(todo)
        /\ UNCHANGED <<tmo, left>>
    BY <1>4 DEF TickEnd, timeVars
  <2>2. todo' = <<>>
    BY <1>1, <2>1, FinalTail DEF ExpiryInv, Final
  <2>3. FinalIsLast(todo') /\ ~Expiring(todo')
    BY <2>2, FinalShort
  <2>4. Expiring(todo)
    <3> HIDE DEF KernelCall
    <3> QED BY <1>1, <2>1, TailFacts DEF Expiring
  <2>5. Timeouts!TickEnd
    <3>1. /\ (\E i \in DOMAIN todo : todo[i].op = "handleTimeouts")
          /\ ~(\E i \in DOMAIN todo' : todo'[i].op = "handleTimeouts")
      BY <2>3, <2>4, ExpiringIsTick
    <3> QED BY <2>1, <3>1 DEF Timeouts!TickEnd
  <2>6. ExpiryInv'
    BY <2>1, <2>3 DEF ExpiryInv
  <2> QED BY <2>5, <2>6 DEF Timeouts!Next
<1> QED BY <1>2, <1>3, <1>4

\* Every step of the service uses the timeout list as TimeoutAbs has it.
LEMMA TimeoutStep ==
  ASSUME IInv, ExpiryInv, [Next]_kernelVars
  PROVE  ExpiryInv' /\ [Timeouts!Next]_(Timeouts!absVars)
<1>1. TypeOK /\ todo \in Seq(KernelCall) /\ FinalIsLast(todo)
  BY DEF IInv, KernelInv, TypeOK, ExpiryInv
<1>2. CASE UpdatePrio
  <2>1. UNCHANGED <<tmo, left>>
    BY <1>2 DEF UpdatePrio, timeVars
  <2> QED BY <1>1, <1>2, <2>1, WalkFinal, ExpiryFrame
<1>3. CASE ReadySwtch \/ TimeoutReady
  <2>1. /\ UNCHANGED <<tmo, left>> /\ todo # <<>> /\ todo' = Tail(todo)
        /\ Head(todo).op \in {"ready", "timeoutReady"}
    BY <1>3 DEF ReadySwtch, TimeoutReady, timeVars
  <2> QED BY <1>1, <2>1, FinalTail, ExpiryFrame
<1>4. CASE Tick \/ TimeoutExpire \/ TickEnd
  BY <1>4, TickImplements
<1>5. CASE SignalReady
  <2>1. /\ todo # <<>> /\ todo' = Tail(todo) /\ Head(todo).op = "signalReady"
        /\ DisarmTimeout(Head(todo).task) /\ Head(todo).task \in Task
    BY <1>1, <1>5, HeadTask DEF SignalReady
  <2>2. Tail(todo) = <<>> /\ (Expiring(Tail(todo)) <=> Expiring(todo))
    BY <1>1, <2>1, FinalTail DEF Final
  <2> QED BY <2>1, <2>2, FinalShort, DisarmImplements
<1>6. CASE kSwtch \/ UNCHANGED kernelVars
  <2>1. UNCHANGED <<tmo, left, todo>>
    BY <1>6 DEF kSwtch, timeVars, kernelVars
  <2> QED BY <1>1, <2>1, ExpiryFrame
<1>7. CASE SchedCall
  <2>1. Executing /\ todo = <<>>
    BY <1>7 DEF SchedCall, kSchLock, kSchUnlock, kYield, kSleepDelay, kTaskSelfSuspend,
                kTaskResume, Executing
  <2>2. CASE kSchLock \/ kSchUnlock \/ kYield \/ kTaskSelfSuspend
    <3>1. UNCHANGED <<tmo, left, todo>>
      BY <2>2 DEF kSchLock, kSchUnlock, kYield, kTaskSelfSuspend, timeVars
    <3> QED BY <1>1, <3>1, ExpiryFrame
  <2>3. CASE \E ticks \in Timeout : kSleepDelay(ticks)
    <3> PICK ticks \in Timeout : kSleepDelay(ticks)
      BY <2>3
    <3>1. ticks \in Timeout \ {NoWait} /\ ArmTimeout(run, "TIME_EVENT", ticks) /\ todo' = todo
      BY DEF kSleepDelay, NoWait
    <3> QED BY <2>1, <3>1, FinalShort, ArmImplements
  <2>4. CASE \E t \in MaySuspend : kTaskResume(t)
    <3> PICK t \in MaySuspend : kTaskResume(t)
      BY <2>4
    <3>1. UNCHANGED <<tmo, left>> /\ todo' = <<ReadySwtchOf(t)>>
      BY DEF kTaskResume, timeVars
    <3>2. FinalIsLast(todo') /\ ~Expiring(todo')
      BY <3>1, FinalShort DEF ReadySwtchOf
    <3> QED BY <2>1, <3>1, <3>2, QuietFrame
  <2> QED BY <1>7, <2>2, <2>3, <2>4 DEF SchedCall
<1>8. CASE MutexCall
  <2> SUFFICES ASSUME NEW m \in Mutex, Executing,
                      \/ \E timeout \in Timeout : kMutexLock(m, timeout)
                      \/ kMutexUnlock(m)
               PROVE  ExpiryInv' /\ [Timeouts!Next]_(Timeouts!absVars)
    BY <1>8 DEF MutexCall, kMutexLock, kMutexUnlock
  <2>1. todo = <<>> /\ ~Expiring(todo)
    BY FinalShort DEF Executing
  <2>2. ASSUME NEW timeout \in Timeout,
               LockFaulted(m) \/ LockFree(m) \/ LockNoWait(m, timeout)
        PROVE  ExpiryInv' /\ [Timeouts!Next]_(Timeouts!absVars)
    <3>1. UNCHANGED <<tmo, left, todo>>
      BY <2>2 DEF LockFaulted, LockFree, TakeMutex, OwnMutex, LockNoWait, timeVars
    <3> QED BY <1>1, <3>1, ExpiryFrame
  <2>3. ASSUME NEW timeout \in Timeout, LockBlock(m, timeout)
        PROVE  ExpiryInv' /\ [Timeouts!Next]_(Timeouts!absVars)
    <3>1. /\ timeout \in Timeout \ {NoWait} /\ ArmTimeout(run, "BLOCKING", timeout)
          /\ todo' = IF m \in Inherit THEN <<UpdatePrioOf(owner[m])>> ELSE <<>>
      BY <2>3 DEF LockBlock, WaitForMutex
    <3>2. FinalIsLast(todo') /\ ~Expiring(todo')
      BY <3>1, FinalShort DEF UpdatePrioOf
    <3> QED BY <3>1, <3>2, ArmImplements
  <2>4. CASE kMutexUnlock(m) /\ UnlockFree(m)
    <3>1. /\ UNCHANGED <<tmo, left>>
          /\ todo' = IF m \in Inherit THEN <<UpdatePrioOf(run)>> ELSE <<>>
      BY <2>4 DEF UnlockFree, FreeMutex, timeVars
    <3>2. FinalIsLast(todo') /\ ~Expiring(todo')
      BY <3>1, FinalShort DEF UpdatePrioOf
    <3> QED BY <3>1, <3>2, QuietFrame
  <2>5. CASE kMutexUnlock(m) /\ UnlockHandOff(m)
    <3> DEFINE w == Head(waitQ[m])
               first == IF m \in Inherit THEN <<UpdatePrioOf(run), UpdatePrioOf(w)>>
                        ELSE <<>>
               last == <<ReadySwtchOf(w)>>
    <3>1. w \in Task /\ todo' = first \o last /\ run \in Task
      BY <1>1, <2>5, HandOffTodo, ExecutingFacts DEF IInv, UnlockHandOff
    <3>2. /\ first \in Seq(KernelCall) /\ \A c \in ToSet(first) : c.op = "updatePrio"
          /\ last \in Seq(KernelCall)
      <4>1. UpdatePrioOf(run) \in KernelCall /\ UpdatePrioOf(w) \in KernelCall
        BY <3>1 DEF KernelCall, UpdatePrioOf
      <4>2. \A c \in ToSet(first) : c.op = "updatePrio"
        BY DEF ToSet, UpdatePrioOf
      <4>3. last \in Seq(KernelCall)
        BY <1>1, <3>1, TodoTypes
      <4> QED BY <4>1, <4>2, <4>3
    <3>3. FinalIsLast(last) /\ ~Expiring(last)
      BY FinalShort DEF ReadySwtchOf
    <3>4. FinalIsLast(todo') /\ ~Expiring(todo')
      <4> HIDE DEF first, last, KernelCall
      <4> QED BY <3>1, <3>2, <3>3, FinalConcat
    <3>5. DisarmTimeout(w) \/ UNCHANGED <<tmo, left>>
      BY <2>5 DEF UnlockHandOff, timeVars
    <3> HIDE DEF w
    <3> QED BY <2>1, <3>1, <3>4, <3>5, DisarmImplements, QuietFrame
  <2> QED BY <2>2, <2>3, <2>4, <2>5 DEF kMutexLock, kMutexUnlock
<1>9. CASE SignalCall
  <2> PICK t \in MaySignal : kTaskSignalReady(t)
    BY <1>9 DEF SignalCall
  <2> DEFINE first == IF wqp[t] # None THEN WaiterRemoved(t) ELSE <<>>
             last == <<[op |-> "signalReady", task |-> t]>>
  <2>1. /\ Executing /\ UNCHANGED <<tmo, left>> /\ todo' = first \o last /\ t \in Task
    BY MutexConstants DEF kTaskSignalReady, UserTask, timeVars
  <2>2. first \in Seq(KernelCall) /\ \A c \in ToSet(first) : c.op = "updatePrio"
    <3>1. \A c \in ToSet(<<>>) : c.op = "updatePrio"
      BY DEF ToSet
    <3> QED BY <1>1, <2>1, <3>1, TodoTypes, WaiterRemovedOps
  <2>3. last \in Seq(KernelCall) /\ FinalIsLast(last) /\ ~Expiring(last)
    <3>1. last \in Seq(KernelCall)
      BY <2>1 DEF KernelCall
    <3> QED BY <3>1, FinalShort
  <2>4. FinalIsLast(todo') /\ ~Expiring(todo')
    <3> HIDE DEF first, last, KernelCall
    <3> QED BY <2>1, <2>2, <2>3, FinalConcat
  <2> QED BY <2>1, <2>4, QuietFrame
<1> QED BY <1>2, <1>3, <1>4, <1>5, <1>6, <1>7, <1>8, <1>9 DEF Next, KernelStep

\* Hand-overs, signals, waits and ticks, in any order, use the timeout list as
\* TimeoutAbs promises it: a wait ends after exactly its ticks or before.
THEOREM TimeoutImplementation == Spec => TimeoutsRespected
<1>1. Init => ExpiryInv /\ Timeouts!Init
  <2> SUFFICES ASSUME Init PROVE ExpiryInv /\ Timeouts!Init
    OBVIOUS
  <2>1. tmo = <<>> /\ left = [t \in Task |-> 0] /\ todo = <<>>
    BY DEF Init, KernelInit
  <2>2. ExpiryInv /\ ~Expiring(todo)
    BY <2>1, FinalShort DEF ExpiryInv
  <2>3. ~(\E i \in DOMAIN todo : todo[i].op = "handleTimeouts")
    BY <2>2, ExpiringIsTick
  <2> QED BY <2>1, <2>2, <2>3 DEF Timeouts!Init
<1>2. IInv /\ ExpiryInv /\ [Next]_kernelVars
        => ExpiryInv' /\ [Timeouts!Next]_(Timeouts!absVars)
  BY TimeoutStep
<1> QED BY <1>1, <1>2, Invariance, PTL DEF Spec, TimeoutsRespected, Timeouts!Spec
=============================================================================
