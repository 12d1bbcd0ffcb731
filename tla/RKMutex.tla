------------------------------ MODULE RKMutex -------------------------------
(***************************************************************************)
(* The mutex service (kmutex.c) on the kernel of RKKernel: user tasks lock *)
(* and unlock mutexes with and without priority inheritance, waiting for   *)
(* ever or for a number of ticks, while they also lock the scheduler,      *)
(* yield, and interrupt each other's waits with signals.  There is no      *)
(* recursive lock: locking a mutex one owns, or unlocking one that is not  *)
(* one's own, stops the system in K_ERR_HANDLER, and no task does it here. *)
(***************************************************************************)
EXTENDS RKKernel

CONSTANTS
  Rank,            \* the order in which the application takes its mutexes
  Ordered,         \* whether its tasks keep to that order, and hold no
                   \* mutex while they are suspended
  MaySignal,       \* the tasks another task may send a signal to
  MaySleep,        \* the tasks that may sleep for some ticks
  MaySchLock,      \* the tasks that may lock the scheduler
  MaySuspend,      \* the tasks that may suspend themselves
  YieldWhenLocked  \* whether a task yields while it holds the scheduler lock

ASSUME MutexConstants ==
  /\ MaySignal \subseteq UserTask /\ MaySleep \subseteq UserTask
  /\ MaySchLock \subseteq UserTask /\ MaySuspend \subseteq UserTask

\* A task asks for a mutex it does not own and, where the application orders
\* its mutexes, for none below one it holds.
MayLock(t, m) ==
  /\ m \notin owned[t]
  /\ Ordered => \A n \in owned[t] : Rank[n] < Rank[m]

LockReturns(m, err) == Returns("MUTEX_LOCK", m, err)

(***************************************************************************)
(* kMutexLockSyscallContinue, called by the running task.                  *)
(***************************************************************************)
LockFaulted(m) ==
  /\ faulted[m]
  /\ LockReturns(m, "OWNER_FAULTED")
  /\ UNCHANGED <<schedVars, waitVars, mutexVars, timeVars, call, todo>>

\* The running task becomes the owner.
OwnMutex(m) ==
  /\ lock' = [lock EXCEPT ![m] = TRUE]
  /\ owner' = [owner EXCEPT ![m] = run]
  /\ owned' = [owned EXCEPT ![run] = @ \cup {m}]
  /\ UNCHANGED <<waitVars, faulted, waitingFor, mesgPrio, timeVars, todo>>

TakeMutex(m) ==
  /\ OwnMutex(m) /\ LockReturns(m, "SUCCESS")
  /\ UNCHANGED <<schedVars, call>>

\* Mutants: the mutex is taken although another task owns it, or although its
\* owner has faulted.
LockTaken(m)    == ~faulted[m] /\ TakeMutex(m)
LockPoisoned(m) == ~lock[m] /\ TakeMutex(m)

LockFree(m) == ~faulted[m] /\ ~lock[m] /\ TakeMutex(m)

LockNoWait(m, timeout) ==
  /\ ~faulted[m] /\ lock[m] /\ owner[m] \notin {run, None}
  /\ timeout = NoWait
  /\ LockReturns(m, "NOWAIT")
  /\ UNCHANGED <<schedVars, waitVars, mutexVars, timeVars, call, todo>>

\* The running task waits for m, to be continued in the call c.
WaitForMutex(m, timeout, c) ==
  /\ ~faulted[m] /\ lock[m] /\ owner[m] \notin {run, None}
  /\ ArmTimeout(run, "BLOCKING", timeout)
  /\ wqp' = [wqp EXCEPT ![run] = m]
  /\ waitQ' = [waitQ EXCEPT ![m] = kTCBQEnqByPrio(@, run, prio)]
  /\ status' = [status EXCEPT ![run] = "BLOCKED"]
  /\ waitingFor' = [waitingFor EXCEPT ![run] = m]
  /\ todo' = IF m \in Inherit THEN <<UpdatePrioOf(owner[m])>> ELSE <<>>
  /\ call' = [call EXCEPT ![run] = c]
  /\ Returns(c.number, c.arg, "RESTART")
  /\ kPendCtxSwtch("BLOCKED")
  /\ UNCHANGED <<run, prio, readyQ, schLock, savedLock, lock, owner, faulted,
                 owned, mesgPrio>>

LockBlock(m, timeout) ==
  /\ timeout # NoWait
  /\ WaitForMutex(m, timeout, [number |-> "MUTEX_LOCK", arg |-> m,
                               phase |-> "WAIT", wake |-> "SUCCESS"])

kMutexLock(m, timeout) ==
  /\ Executing /\ MayLock(run, m)
  /\ \/ LockFaulted(m)
     \/ LockFree(m)
     \/ LockNoWait(m, timeout)
     \/ LockBlock(m, timeout)

(***************************************************************************)
(* kMutexUnlock by the owner.                                              *)
(***************************************************************************)
\* The mutex is nobody's.
FreeMutex(m) ==
  /\ lock' = [lock EXCEPT ![m] = FALSE]
  /\ owner' = [owner EXCEPT ![m] = None]
  /\ owned' = [owned EXCEPT ![run] = @ \ {m}]
  /\ todo' = IF m \in Inherit THEN <<UpdatePrioOf(run)>> ELSE <<>>
  /\ UNCHANGED <<waitVars, waitingFor, timeVars>>

\* Mutant: it is set free past its waiters.
FreePastWaiters(m) == FreeMutex(m)

UnlockFree(m) == waitQ[m] = <<>> /\ FreeMutex(m)

\* Ownership passes to the head of the queue, which stops waiting.
UnlockHandOff(m) ==
  /\ waitQ[m] # <<>>
  /\ LET w == Head(waitQ[m])
     IN  /\ waitQ' = [waitQ EXCEPT ![m] = Tail(@)]
         /\ IF ttype[w] = "BLOCKING"
            THEN DisarmTimeout(w)
            ELSE UNCHANGED timeVars
         /\ wqp' = [wqp EXCEPT ![w] = None]
         /\ owner' = [owner EXCEPT ![m] = w]
         /\ owned' = [owned EXCEPT ![run] = @ \ {m}, ![w] = @ \cup {m}]
         /\ lock' = [lock EXCEPT ![m] = TRUE]
         /\ waitingFor' = [waitingFor EXCEPT ![w] = None]
         /\ todo' = (IF m \in Inherit
                     THEN <<UpdatePrioOf(run), UpdatePrioOf(w)>> ELSE <<>>)
                      \o <<ReadySwtchOf(w)>>

kMutexUnlock(m) ==
  /\ Executing /\ ~faulted[m] /\ lock[m] /\ owner[m] = run
  /\ UnlockFree(m) \/ UnlockHandOff(m)
  /\ Returns("MUTEX_UNLOCK", m, "SUCCESS")
  /\ UNCHANGED <<schedVars, faulted, mesgPrio, call>>

(***************************************************************************)
(* The system.                                                             *)
(***************************************************************************)
Init == KernelInit

SchedCall ==
  \/ run \in MaySchLock /\ kSchLock
  \/ kSchUnlock
  \/ /\ schLock > 0 => YieldWhenLocked
     /\ kYield
  \/ run \in MaySleep /\ \E ticks \in Timeout : kSleepDelay(ticks)
  \/ /\ run \in MaySuspend
     /\ Ordered => owned[run] = {}
     /\ kTaskSelfSuspend
  \/ \E t \in MaySuspend : kTaskResume(t)

MutexCall == \E m \in Mutex :
  \/ \E timeout \in Timeout : kMutexLock(m, timeout)
  \/ kMutexUnlock(m)

SignalCall == \E t \in MaySignal : kTaskSignalReady(t)

Next == KernelStep \/ Tick \/ SchedCall \/ MutexCall \/ SignalCall

Spec == Init /\ [][Next]_kernelVars

(***************************************************************************)
(* Fairness.  A critical region ends and a pended switch is taken.  SysTick*)
(* stays pending while interrupts are masked, so it comes again and again  *)
(* between the critical regions.  Of the application only this is asked:   *)
(* a task below the most urgent one that is given the processor over and   *)
(* over does not hold a mutex, or the scheduler lock, for ever.            *)
(***************************************************************************)
UnlockBy(t, m) == run = t /\ kMutexUnlock(m)
SchUnlockBy(t) == run = t /\ kSchUnlock

Fairness ==
  /\ WF_kernelVars(KernelStep)
  /\ SF_kernelVars(Tick)
  /\ \A t \in UserTask \ {FirstRun} :
       /\ SF_kernelVars(SchUnlockBy(t))
       /\ \A m \in Mutex : SF_kernelVars(UnlockBy(t, m))

FairSpec == Spec /\ Fairness

(***************************************************************************)
(* Types.                                                                  *)
(***************************************************************************)
KernelCall ==
  [op : {"updatePrio", "ready", "timeoutReady", "signalReady", "faultRelease",
         "faultDone"}, task : Task]
  \cup [op : {"faultWake"}, mutex : Mutex]
  \cup [op : {"handleTimeouts"}, expired : BOOLEAN]

Suspension == [number : CallNumber, arg : WaitObj \cup {None},
               phase : CallPhase, wake : Err]
FrameResult == [number : ResultNumber, arg : WaitObj \cup {None}, err : Err]

SchedTypeOK ==
  /\ run \in Task
  /\ status \in [Task -> Status]
  /\ prio \in [Task -> Prio]
  /\ readyQ \in [Prio -> Seq(Task)]
  /\ schLock \in Nat /\ savedLock \in [Task -> Nat]
  /\ pendingSw \in BOOLEAN /\ pendSV \in BOOLEAN

WaitTypeOK ==
  /\ waitQ \in [WaitObj -> Seq(Task)]
  /\ wqp \in [Task -> WaitObj \cup {None}]

MutexTypeOK ==
  /\ lock \in [Mutex -> BOOLEAN]
  /\ owner \in [Mutex -> Task \cup {None}]
  /\ faulted \in [Mutex -> BOOLEAN]
  /\ owned \in [Task -> SUBSET Mutex]
  /\ waitingFor \in [Task -> Mutex \cup {None}]
  /\ mesgPrio \in [Task -> [base : Prio, ceiling : Prio]]

TimeTypeOK ==
  /\ tmo \in Seq(Task)
  /\ left \in [Task -> Nat]
  /\ ttype \in [Task -> TimeoutType]

CallTypeOK == call \in [Task -> Suspension] /\ ret \in [Task -> FrameResult]

\* Every variable of the kernel has the type of the field it stands for; in
\* particular the ticks left to a node never go below zero, and kSwtch always
\* finds a task to run.
TypeOK == SchedTypeOK /\ WaitTypeOK /\ MutexTypeOK /\ TimeTypeOK /\ CallTypeOK
          /\ todo \in Seq(KernelCall)

(***************************************************************************)
(* Safety.                                                                 *)
(***************************************************************************)
\* Interrupts are enabled: no critical region is under way.
Quiet == todo = <<>>

\* The lists a task's node is linked on.
LinkedOn(t) == {p \in Prio : t \in ToSet(readyQ[p])}
                 \cup {o \in WaitObj : t \in ToSet(waitQ[o])}

\* A node is linked on at most one list, once (klist.c:24-29): no path of
\* timeout, signal, hand-over or yield links a task that is still linked.
OneListPerNode ==
  /\ \A p \in Prio : NoDuplicates(readyQ[p])
  /\ \A o \in WaitObj : NoDuplicates(waitQ[o])
  /\ \A t \in Task : Cardinality(LinkedOn(t)) <= 1

\* A READY task is in the ready queue of its current effective priority, a
\* BLOCKED one in the queue of the mutex it waits for, the RUNNING one in none:
\* inheritance never leaves a task behind in the queue of its old priority.
StatusMatchesLists ==
  Quiet => \A t \in Task :
    /\ status[t] = "READY" => LinkedOn(t) = {prio[t]}
    /\ status[t] = "RUNNING" => t = run /\ LinkedOn(t) = {}
    /\ status[t] = "BLOCKED" => /\ LinkedOn(t) = {waitingFor[t]}
                                /\ wqp[t] = waitingFor[t]

\* No preemption is lost: a preemptible task that goes on running while a more
\* urgent one is READY holds the scheduler lock, and the switch it owes is
\* recorded for kSchUnlock.
NoLostPreemption ==
  /\ Quiet /\ ~pendSV /\ status[run] = "RUNNING" /\ run \notin NoPreempt
  /\ \E t \in Task : status[t] = "READY" /\ prio[t] < prio[run]
  => schLock > 0 /\ pendingSw

\* The waiters of every mutex are in the order of their effective priorities,
\* however these change while they wait.
WaitersOrdered == Quiet => \A m \in Mutex : OrderedBy(waitQ[m], prio)

\* The owner of a mutex with inheritance is at least as urgent as each of its
\* waiters, along whole chains of blocked owners.
OwnerNotOutranked ==
  Quiet => \A m \in Inherit : \A t \in ToSet(waitQ[m]) :
             owner[m] # None /\ prio[owner[m]] <= prio[t]

\* A task is no more urgent than its nominal priority, or than a task that
\* waits for a mutex it owns: a boost ends with what caused it.
NoLeftoverBoost ==
  Quiet => \A t \in Task :
    \/ prio[t] = NominalPrio[t]
    \/ \E m \in owned[t] \cap Inherit :
         \E u \in ToSet(waitQ[m]) : prio[u] = prio[t]

\* The three records of who holds a mutex agree (lock flag, ownerPtr, the
\* owned list of the task), an unlocked mutex has no waiters, and the owner
\* is not among them.
OwnershipAgrees ==
  \A m \in Mutex :
    /\ lock[m] <=> owner[m] # None
    /\ \A t \in Task : m \in owned[t] <=> owner[m] = t
    /\ owner[m] = None /\ Quiet => waitQ[m] = <<>>
    /\ owner[m] \notin ToSet(waitQ[m])

\* What a lock call reports is true when the task resumes: it owns the mutex
\* exactly when the call returned success, and after a timeout or a signal
\* that raced with the hand-over it neither owns it nor waits for it.
LockResultTrue ==
  Quiet => \A t \in Task :
    /\ ret[t].number = "MUTEX_LOCK"
    /\ status[t] \in {"READY", "RUNNING"}
    /\ ret[t].err # "RESTART"
    => /\ ret[t].err = "SUCCESS" <=> owner[ret[t].arg] = t
       /\ t \notin ToSet(waitQ[ret[t].arg])

(***************************************************************************)
(* Action properties.                                                      *)
(***************************************************************************)
\* A mutex goes from its owner straight to a waiter, a most urgent one, and is
\* set free only when nobody waits: no third task takes it in between.
HandOffToMostUrgent ==
  [][\A m \in Mutex :
       owner[m] # None /\ owner'[m] # owner[m] =>
         IF owner'[m] = None
         THEN waitQ[m] = <<>> \/ faulted'[m]
         ELSE /\ owner'[m] \in ToSet(waitQ[m])
              /\ \A u \in ToSet(waitQ[m]) : prio[owner'[m]] <= prio[u]
    ]_kernelVars

(***************************************************************************)
(* What the service promises.                                              *)
(***************************************************************************)
Abs == INSTANCE MutexAbs
         WITH holder  <- owner,
              waiters <- [m \in Mutex |-> ToSet(waitQ[m])],
              dead    <- faulted

\* With its queues, timeouts, signals, boosts and system calls the service does
\* what MutexAbs promises: no step takes a held mutex from its owner but to
\* give it to a waiter, frees it past a waiter, or queues a task twice.
ImplementsMutexAbs == Abs!Spec

Timeouts == INSTANCE TimeoutAbs
              WITH Node <- Task, MaxTicks <- MaxTimeout, order <- tmo,
                   expiring <- \E i \in DOMAIN todo : todo[i].op = "handleTimeouts"

\* Hand-overs, signals and faults that disarm a node, and waits that begin
\* between any two ticks, use the timeout list as TimeoutAbs promises it: a
\* wait expires after exactly its ticks, nodes of one tick in their fixed order.
TimeoutsRespected == Timeouts!Spec

(***************************************************************************)
(* Liveness.                                                               *)
(***************************************************************************)
\* No unbounded priority inversion: the most urgent task that waits for a
\* mutex with inheritance stops waiting for it, however long tasks of the
\* priorities in between could go on running.
MostUrgentNotStarved ==
  \A m \in Inherit :
    FirstRun \in ToSet(waitQ[m]) ~> FirstRun \notin ToSet(waitQ[m])

\* A wait with a timeout ends, by expiry or before it, whatever other nodes
\* are armed and disarmed meanwhile.
TimedWaitEnds ==
  \A t \in Task : t \in ToSet(tmo) ~> t \notin ToSet(tmo)
=============================================================================
