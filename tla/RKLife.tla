------------------------------- MODULE RKLife --------------------------------
(***************************************************************************)
(* The beginning and the end of tasks (ksch.c): a task is spawned into a   *)
(* free slot of the task table with a stack from a partition, named by     *)
(* handles that carry the generation of the slot, and ends by the hand of  *)
(* another task, by its own (through a job of PostProc), or by a fault     *)
(* (RKFault).  A slot is used again, and old handles and jobs still name   *)
(* it.  With RK_CONF_FAULT a handle that names no task stops the system;   *)
(* here, as without it, the call returns an error.                         *)
(***************************************************************************)
EXTENDS RKFault

CONSTANTS
  Dynamic,         \* the tasks kTaskSpawn created before the kernel started
  StackBlocks,     \* the blocks of the partition of their stacks
  MaxLives         \* bound: how often a slot is used

ASSUME LifeConstants ==
  /\ Dynamic \subseteq UserTask
  /\ StackBlocks \in Nat /\ Cardinality(Dynamic) <= StackBlocks
  /\ MaxLives \in Nat \ {0}

VARIABLES
  spawned,         \* the slots with an entry in RK_gTaskDynStackPartByPid
  generation,      \* RK_gTaskHandleGenerationByPid
  quarantine,      \* RK_gTaskQuarantineByPid
  freeStacks,      \* the free blocks of the partition of stacks
  handles,         \* the generation in the handle of each life of a slot
  misled           \* history: a handle or a job ended another life of its slot

lifeVars == <<spawned, generation, quarantine, freeStacks, handles, misled>>
systemVars == <<allVars, lifeVars>>

Lives(t) == Len(handles[t])

(***************************************************************************)
(* kTaskSpawn.  The scheduler is locked, or the caller not preempted, from *)
(* the allocation of the TCB to the entry of the stack partition, so no    *)
(* other task sees a part of it.                                           *)
(***************************************************************************)
FreeSlots == {t \in UserTask : status[t] = "TERMINATED"} \ quarantine

SpawnRefused ==
  /\ Executing /\ (freeStacks = 0 \/ FreeSlots = {})
  /\ Returns("TASK_SPAWN", None, "TASK_POOL_EMPTY")
  /\ UNCHANGED <<schedVars, waitVars, mutexVars, timeVars, call, todo,
                 faultVars, lifeVars>>

\* The TCB is cleared, entered under a handle of its own and made ready.
kTaskCreateFromPool_(t) ==
  /\ prio' = [prio EXCEPT ![t] = NominalPrio[t]]
  /\ savedLock' = [savedLock EXCEPT ![t] = 0]
  /\ ret' = [ret EXCEPT ![t] = NoRet,
               ![run] = [number |-> "TASK_SPAWN", arg |-> None, err |-> "SUCCESS"]]
  /\ handles' = [handles EXCEPT ![t] = Append(@, generation[t])]
  /\ todo' = <<ReadySwtchOf(t)>>
  /\ UNCHANGED <<run, status, readyQ, schLock, pendingSw, pendSV, waitVars,
                 mutexVars, timeVars, call>>

\* (The code takes the first free slot, and the priority from the caller; here
\* a slot has its priority, and any may be taken.)
kTaskSpawn(t) ==
  /\ Executing /\ freeStacks > 0 /\ t \in FreeSlots /\ Lives(t) < MaxLives
  /\ freeStacks' = freeStacks - 1
  /\ kTaskCreateFromPool_(t)
  /\ spawned' = spawned \cup {t}
  /\ UNCHANGED <<faultVars, generation, quarantine, misled>>

(***************************************************************************)
(* kTaskTerminateResolved_.                                                *)
(***************************************************************************)
\* The slot and the stack of t are given back, and its handles made stale.
ReleaseSlot(t) ==
  /\ spawned' = spawned \ {t}
  /\ freeStacks' = freeStacks + 1
  /\ generation' = [generation EXCEPT ![t] = @ + 1]
  /\ UNCHANGED <<quarantine, handles>>

\* Who owns a mutex or waits for one is spared, and who waits for another
\* object.
Spared(t) ==
  \/ owned[t] # {} \/ waitingFor[t] # None
  \/ status[t] \notin {"READY", "SLEEPING_DELAY", "SLEEPING_EV_FLAG",
                       "SELF_SUSPENDED", "PENDING"}

\* Mutant: a sleeping task leaves its timeout armed.
EndStaysArmed(t) ==
  /\ readyQ' = IF status[t] = "READY"
               THEN [readyQ EXCEPT ![prio[t]] = kTCBQRem(@, t)] ELSE readyQ
  /\ status' = [status EXCEPT ![t] = "TERMINATED"]
  /\ call' = [call EXCEPT ![t] = NoCall]
  /\ ReleaseSlot(t)
  /\ UNCHANGED <<run, prio, schLock, savedLock, pendingSw, pendSV, waitVars,
                 mutexVars, timeVars, todo, cleanupPending, cleaning>>

\* A task that is not RUNNING is taken out.
EndTask(t) ==
  /\ readyQ' = IF status[t] = "READY"
               THEN [readyQ EXCEPT ![prio[t]] = kTCBQRem(@, t)] ELSE readyQ
  /\ IF t \in ToSet(tmo) THEN DisarmTimeout(t) ELSE UNCHANGED timeVars
  /\ status' = [status EXCEPT ![t] = "TERMINATED"]
  /\ call' = [call EXCEPT ![t] = NoCall]
  /\ ReleaseSlot(t)
  /\ UNCHANGED <<run, prio, schLock, savedLock, pendingSw, pendSV, waitVars,
                 mutexVars, todo, cleanupPending, cleaning>>

(***************************************************************************)
(* kTaskTerminate by the handle of the k-th life of t.                     *)
(***************************************************************************)
Resolves(t, k) == status[t] # "TERMINATED" /\ generation[t] = handles[t][k]

TerminateReturns(err) ==
  /\ Returns("TASK_TERMINATE", None, err)
  /\ UNCHANGED <<schedVars, waitVars, mutexVars, timeVars, call, todo,
                 faultVars, lifeVars>>

\* The handle is stale, or the task was not spawned.
TerminateInvalid(t, k) ==
  /\ Executing /\ ~(Resolves(t, k) /\ t \in spawned)
  /\ TerminateReturns("INVALID_OBJ")

TerminateSpared(t, k) ==
  /\ Executing /\ Resolves(t, k) /\ t \in spawned
  /\ IF status[t] = "RUNNING" THEN owned[t] # {} ELSE Spared(t)
  /\ TerminateReturns("INVALID_ST")

\* (A task that has yielded under the scheduler lock runs on while it is READY.)
TerminateOther(t, k) ==
  /\ Executing /\ Resolves(t, k) /\ t \in spawned /\ ~Spared(t)
  /\ EndTask(t)
  /\ Returns("TASK_TERMINATE", None, "SUCCESS")
  /\ misled' = (misled \/ k # Lives(t))
  /\ UNCHANGED postVars

TerminateJob(t) == [op |-> "terminate", task |-> t, life |-> Lives(t)]

\* A task cannot free the stack it runs on: PostProc does it.  (A full queue
\* stops the system in K_PANIC.)
TerminateRunning(t, k) ==
  /\ Executing /\ Resolves(t, k) /\ t \in spawned
  /\ status[t] = "RUNNING" /\ owned[t] = {} /\ JobRoom
  /\ jobs' = Append(jobs, TerminateJob(t))
  /\ LeftToPostProc("PENDING")
  /\ misled' = (misled \/ k # Lives(t))
  /\ UNCHANGED <<cleanupPending, cleaning, spawned, generation, quarantine,
                 freeStacks, handles>>

\* kTaskTerminateTcb, as PostProc calls it for a job: the job holds the address
\* of the TCB, and what the call returns is ignored.
PostProcTerminate(job) ==
  /\ JobDeq(job) /\ job.op = "terminate"
  /\ LET t == job.task
     IN  IF t \in spawned /\ ~Spared(t)
         THEN /\ EndTask(t)
              /\ misled' = (misled \/ job.life # Lives(t))
         ELSE /\ UNCHANGED <<schedVars, waitVars, mutexVars, timeVars, call,
                             todo, cleanupPending, cleaning, lifeVars>>
  /\ UNCHANGED <<ret, postSig, postStep>>

(***************************************************************************)
(* The end of kTaskFaultCleanup: a spawned task gives its slot and stack   *)
(* back; the slot of another one is never used again.                      *)
(***************************************************************************)
FaultEnd ==
  /\ FaultDone
  /\ LET t == Head(todo).task
     IN  IF t \in spawned
         THEN ReleaseSlot(t)
         ELSE /\ quarantine' = quarantine \cup {t}
              /\ generation' = [generation EXCEPT ![t] = @ + 1]
              /\ UNCHANGED <<spawned, freeStacks, handles>>
  /\ UNCHANGED misled

(***************************************************************************)
(* The system.                                                             *)
(***************************************************************************)
LifeInit ==
  /\ FaultInit
  /\ spawned = Dynamic
  /\ generation = [t \in UserTask |-> 0]
  /\ quarantine = {}
  /\ freeStacks = StackBlocks - Cardinality(Dynamic)
  /\ handles = [t \in UserTask |-> <<0>>]
  /\ misled = FALSE

LifeCall ==
  \/ SpawnRefused
  \/ \E t \in UserTask : kTaskSpawn(t)
  \/ \E t \in UserTask : \E k \in DOMAIN handles[t] :
       \/ TerminateInvalid(t, k) \/ TerminateSpared(t, k)
       \/ TerminateOther(t, k) \/ TerminateRunning(t, k)

\* What the kernel and PostProc do on their own account.
KernelAndPostProc ==
  \/ KernelStep /\ UNCHANGED <<faultVars, lifeVars>>
  \/ PostProcStep /\ UNCHANGED lifeVars
  \/ \E i \in DOMAIN jobs : PostProcTerminate(jobs[i])
  \/ (\E t \in Task : FaultRelease(t)) /\ UNCHANGED lifeVars
  \/ FaultWake /\ UNCHANGED lifeVars
  \/ FaultEnd

LifeTick == Tick /\ UNCHANGED <<faultVars, lifeVars>>

LifeNext ==
  \/ KernelAndPostProc
  \/ LifeTick
  \/ (SchedCall \/ MutexCall) /\ UNCHANGED <<faultVars, lifeVars>>
  \/ kTaskFaultTerminate /\ UNCHANGED lifeVars
  \/ LifeCall

LifeSpec == LifeInit /\ [][LifeNext]_systemVars

\* What the kernel and PostProc do on their own account happens, and the tick
\* comes again and again.
LifeFairSpec ==
  /\ LifeSpec
  /\ WF_systemVars(KernelAndPostProc)
  /\ SF_systemVars(LifeTick)

(***************************************************************************)
(* Properties.                                                             *)
(***************************************************************************)
\* What a task had when it ended is back, once, whichever way it ended
\* (ksch.c:1821, 3019): nothing of it is left in the kernel, and every stack is
\* a task's or free.  Only a task that was not spawned keeps its slot for ever.
GoneIsReleased ==
  Quiet =>
    /\ DeadIsDetached
    /\ \A t \in spawned : status[t] # "TERMINATED"
    /\ Cardinality(spawned) + freeStacks = StackBlocks
    /\ \A t \in quarantine : status[t] = "TERMINATED" /\ t \notin spawned

\* A termination ends the task its handle or its job was made for, never the
\* one that has taken the slot since (ksch.c:214-218): a job goes by the address
\* of the TCB, so nobody may come between a task that ends itself and PostProc.
NoWrongTermination == ~misled

\* A task that faulted or ended itself is eventually taken out of the system
\* (ksystasks.c:50-54).
EndsAreReached == \A t \in UserTask :
  status[t] \in {"PENDING", "FAULT_PENDING"} ~> status[t] = "TERMINATED"
=============================================================================
