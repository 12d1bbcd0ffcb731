------------------------------- MODULE RKSema -------------------------------
(***************************************************************************)
(* Semaphores (ksema.c) on the kernel and mutexes of RKMutex: tasks pend   *)
(* by system call, for ever or for a number of ticks, and tasks and        *)
(* interrupts post, while owners of mutexes are boosted, timeouts expire   *)
(* and signals interrupt waits.  OtherObj are the semaphores.              *)
(***************************************************************************)
EXTENDS RKMutex

CONSTANTS
  MaxValue,     \* maxValue of each semaphore; 1 makes it binary
  InitValue,    \* the initValue it is created with
  PendTimeout   \* the timeouts tasks pend with

Sema == OtherObj

ASSUME SemaConstants ==
  /\ MaxValue \in [Sema -> Nat \ {0}] /\ InitValue \in [Sema -> Nat]
  /\ \A s \in Sema : InitValue[s] <= MaxValue[s]
  /\ PendTimeout \subseteq Timeout

VARIABLE value   \* semaphore.value

semaVars == <<kernelVars, value>>

(***************************************************************************)
(* kSemaphorePendSyscall.                                                  *)
(***************************************************************************)
\* A token is there.
PendTake(s) ==
  /\ value[s] > 0
  /\ value' = [value EXCEPT ![s] = @ - 1]
  /\ Returns("SEMAPHORE_PEND", s, "SUCCESS")
  /\ UNCHANGED <<schedVars, waitVars, mutexVars, timeVars, call, todo>>

PendNoWait(s, timeout) ==
  /\ value[s] = 0 /\ timeout = NoWait
  /\ Returns("SEMAPHORE_PEND", s, "SEMA_BLOCKED")
  /\ UNCHANGED <<schedVars, waitVars, mutexVars, timeVars, call, todo, value>>

PendBlock(s, timeout) ==
  /\ value[s] = 0 /\ timeout # NoWait
  /\ ArmTimeout(run, "BLOCKING", timeout)
  /\ wqp' = [wqp EXCEPT ![run] = s]
  /\ status' = [status EXCEPT ![run] = "BLOCKED"]
  /\ waitQ' = [waitQ EXCEPT ![s] = kTCBQEnqByPrio(@, run, prio)]
  /\ call' = [call EXCEPT ![run] = [number |-> "SEMAPHORE_PEND", arg |-> s,
                                    phase |-> "WAIT", wake |-> "SUCCESS"]]
  /\ Returns("SEMAPHORE_PEND", s, "RESTART")
  /\ kPendCtxSwtch("BLOCKED")
  /\ UNCHANGED <<run, prio, readyQ, schLock, savedLock, mutexVars, todo, value>>

kSemaphorePend(s, timeout) ==
  /\ Executing
  /\ PendTake(s) \/ PendNoWait(s, timeout) \/ PendBlock(s, timeout)

(***************************************************************************)
(* kSemaphorePost.                                                         *)
(***************************************************************************)
\* Mutants: the timeout of the woken task stays armed; the token that woke it
\* is counted too.
PostLeavesArmed(s) ==
  /\ waitQ[s] # <<>>
  /\ waitQ' = [waitQ EXCEPT ![s] = Tail(@)]
  /\ todo' = <<ReadySwtchOf(Head(waitQ[s]))>>
  /\ UNCHANGED <<timeVars, wqp, value>>
PostCountsTwice(s) ==
  /\ waitQ[s] # <<>> /\ WakeHead(s)
  /\ value' = [value EXCEPT ![s] = @ + 1]

PostWake(s) == waitQ[s] # <<>> /\ WakeHead(s) /\ UNCHANGED value

AddToken(s) ==
  /\ waitQ[s] = <<>>
  /\ value' = [value EXCEPT ![s] = @ + 1]
  /\ UNCHANGED <<waitVars, timeVars, todo>>

\* Mutant: beyond maxValue.
CountPastMax(s) == AddToken(s)

PostCount(s) == value[s] < MaxValue[s] /\ AddToken(s)

PostFull(s) ==
  /\ waitQ[s] = <<>> /\ value[s] = MaxValue[s]
  /\ UNCHANGED <<waitVars, timeVars, todo, value>>

\* By the running task.
kSemaphorePost(s) ==
  /\ Executing
  /\ \/ (PostWake(s) \/ PostCount(s)) /\ Returns("SEMAPHORE_POST", s, "SUCCESS")
     \/ PostFull(s) /\ Returns("SEMAPHORE_POST", s, "SEMA_FULL")
  /\ UNCHANGED <<schedVars, mutexVars, call>>

\* By an interrupt, even one that comes between PendSV's request and PendSV.
IsrPost(s) ==
  /\ todo = <<>>
  /\ PostWake(s) \/ PostCount(s)
  /\ UNCHANGED <<schedVars, mutexVars, callVars>>

(***************************************************************************)
(* The system.                                                             *)
(***************************************************************************)
SemaInit == Init /\ value = InitValue

SemaCall == \E s \in Sema :
  \/ \E timeout \in PendTimeout : kSemaphorePend(s, timeout)
  \/ kSemaphorePost(s)
  \/ IsrPost(s)

SemaNext == (Next /\ UNCHANGED value) \/ SemaCall

SemaSpec == SemaInit /\ [][SemaNext]_semaVars

(***************************************************************************)
(* Properties.                                                             *)
(***************************************************************************)
\* The variables have the types of the fields they stand for, and a semaphore
\* never holds more than maxValue (ksema.c:16).
SemaTypeOK ==
  /\ TypeOK
  /\ value \in [Sema -> Nat] /\ \A s \in Sema : value[s] <= MaxValue[s]

\* No task waits for a token that is there: whatever timeouts, signals and
\* posts by interrupts come between, value and waiters exclude each other.
NoIdleToken == \A s \in Sema : value[s] > 0 => waitQ[s] = <<>>

\* A waiter boosted while it pends moves up: posts serve the most urgent first.
PendersOrdered == Quiet => \A s \in Sema : OrderedBy(waitQ[s], prio)

\* The queue of a semaphore contains only tasks blocked on it (ksema.c:17).
QueueHoldsOnlyBlocked ==
  Quiet => \A s \in Sema : \A t \in ToSet(waitQ[s]) :
             status[t] = "BLOCKED" /\ call[t].number = "SEMAPHORE_PEND" /\ call[t].arg = s

\* A READY task is in the ready queue of its priority and nowhere else, so it
\* is dispatched some time, and a BLOCKED one where whoever ends its wait will
\* look for it.
EveryTaskReachable ==
  Quiet => \A t \in Task :
    /\ status[t] = "READY" => LinkedOn(t) = {prio[t]}
    /\ status[t] = "BLOCKED" => LinkedOn(t) = {call[t].arg} /\ wqp[t] = call[t].arg

\* What the last pend of t came to, as far as it is decided.
PendOutcome(t) ==
  LET waits == t \in ToSet(waitQ[ret[t].arg])
      woken == ReadySwtchOf(t) \in ToSet(todo)
  IN IF ret[t].number # "SEMAPHORE_PEND" THEN "NONE"
     ELSE CASE ret[t].err = "RESTART" /\ waits -> "WAITING"
            [] \/ ret[t].err = "SUCCESS"
               \/ ret[t].err = "RESTART" /\ ~waits /\ woken -> "GRANTED"
            [] OTHER -> "FAILED"

Tokens == INSTANCE SemaAbs
            WITH tokens  <- value,
                 waiters <- [s \in Sema |-> ToSet(waitQ[s])],
                 outcome <- [t \in Task |-> PendOutcome(t)]

\* Tokens are conserved: each pend that reports success consumed a token, one
\* that timed out or was interrupted, however late, consumed none, and no post
\* with room is lost.
ConservesTokens == Tokens!Spec
=============================================================================
