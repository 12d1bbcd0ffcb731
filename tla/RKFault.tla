------------------------------- MODULE RKFault -------------------------------
(***************************************************************************)
(* Containment of a fault (ksch.c, ksystasks.c) on the mutex service.  A   *)
(* user task that faults is only marked in the fault handler; the PostProc *)
(* system task later, with interrupts enabled between its steps, takes the *)
(* task out of the system, poisons the mutexes it owned and releases their *)
(* waiters with an error.  The other tasks go on meanwhile.                *)
(***************************************************************************)
EXTENDS RKPostProc

CONSTANTS
  MayFault         \* the tasks that may fault

ASSUME FaultConstants == MayFault \subseteq UserTask

VARIABLES
  cleanupPending,  \* RK_gFaultCleanupPending
  cleaning         \* the task PostProc has taken from cleanupPending

faultVars == <<cleanupPending, cleaning, postVars>>
allVars == <<kernelVars, faultVars>>

(***************************************************************************)
(* kTaskFaultTerminate, from the MemManage handler: the task is marked and *)
(* PostProc woken by kPostProcFaultCleanupPend / kEventSet.                *)
(***************************************************************************)
kTaskFaultTerminate ==
  /\ Executing /\ run \in MayFault /\ status[run] = "RUNNING"
  /\ cleanupPending' = cleanupPending \cup {run}
  /\ LeftToPostProc("FAULT_PENDING")
  /\ UNCHANGED <<jobs, cleaning>>

(***************************************************************************)
(* The loop of PostProcSysTask.                                            *)
(***************************************************************************)
\* kRunFaultCleanupJobs_ finds the mark of a task and clears it.  (The code
\* scans the identifiers in ascending order; here any order.)
PostProcTake(t) ==
  /\ PostProcAt("scan") /\ t \in cleanupPending
  /\ cleanupPending' = cleanupPending \ {t}
  /\ cleaning' = t /\ postStep' = "clean"
  /\ UNCHANGED <<kernelVars, postSig, jobs, budget>>

\* No mark is left; jobs come next.
FaultsScanned == cleanupPending = {} /\ PostProcScanned

(***************************************************************************)
(* kTaskFaultCleanup, one critical region.                                 *)
(***************************************************************************)
FaultReleaseOf(t) == [op |-> "faultRelease", task |-> t]
FaultWakeOf(m)    == [op |-> "faultWake", mutex |-> m]
FaultDoneOf(t)    == [op |-> "faultDone", task |-> t]

\* kTaskFaultUnlink_, and the walk for a mutex the task still waited for.
kTaskFaultCleanup ==
  /\ PostProcAt("clean")
  /\ LET t == cleaning
         linkedIn == IF status[t] = "READY" THEN None ELSE wqp[t]
         m == waitingFor[t]
     IN  /\ readyQ' = IF status[t] = "READY"
                      THEN [readyQ EXCEPT ![prio[t]] = kTCBQRem(@, t)]
                      ELSE readyQ
         /\ waitQ' = IF linkedIn # None
                     THEN [waitQ EXCEPT ![linkedIn] = kTCBQRem(@, t)]
                     ELSE waitQ
         /\ DisarmTimeout(t)
         /\ wqp' = [wqp EXCEPT ![t] = None]
         /\ waitingFor' = [waitingFor EXCEPT ![t] = None]
         /\ todo' = (IF m # None /\ owner[m] # None
                     THEN <<UpdatePrioOf(owner[m])>> ELSE <<>>)
                      \o <<FaultReleaseOf(t), FaultDoneOf(t)>>
  /\ postStep' = "scan" /\ cleaning' = None
  /\ UNCHANGED <<run, status, prio, schLock, savedLock, pendingSw, pendSV,
                 lock, owner, faulted, owned, mesgPrio, callVars, cleanupPending,
                 postSig, jobs, budget>>

\* kTaskFaultReleaseOwnedMutexes_: m, owned by t, loses its owner; `rest` is
\* what the critical region does next.
ReleaseMutex(t, m, rest) ==
  /\ owned' = [owned EXCEPT ![t] = @ \ {m}]
  /\ faulted' = [faulted EXCEPT ![m] = TRUE]
  /\ owner' = [owner EXCEPT ![m] = None]
  /\ lock' = [lock EXCEPT ![m] = FALSE]
  /\ todo' = rest
  /\ UNCHANGED <<schedVars, waitVars, waitingFor, mesgPrio, timeVars, callVars,
                 faultVars>>

ReleaseEnd(t) ==
  /\ owned[t] = {} /\ todo' = Tail(todo)
  /\ UNCHANGED <<schedVars, waitVars, mutexVars, timeVars, callVars, faultVars>>

Releasing(t) == todo # <<>> /\ Head(todo) = FaultReleaseOf(t)

\* Mutant: its waiters are left.
FaultReleaseOnly(t) ==
  /\ Releasing(t)
  /\ ReleaseEnd(t) \/ \E m \in owned[t] : ReleaseMutex(t, m, todo)

\* Every mutex of the task is poisoned, and its waiters released after it.
FaultRelease(t) ==
  /\ Releasing(t)
  /\ ReleaseEnd(t) \/ \E m \in owned[t] :
       ReleaseMutex(t, m, <<FaultWakeOf(m)>> \o todo)

\* The waiters are released one after the other, with an error.
FaultWake ==
  /\ todo # <<>> /\ Head(todo).op = "faultWake"
  /\ LET m == Head(todo).mutex
     IN  IF waitQ[m] = <<>>
         THEN /\ todo' = Tail(todo)
              /\ UNCHANGED <<waitVars, waitingFor, timeVars, call>>
         ELSE LET w == Head(waitQ[m])
              IN  /\ waitQ' = [waitQ EXCEPT ![m] = Tail(@)]
                  /\ DisarmTimeout(w)
                  /\ wqp' = [wqp EXCEPT ![w] = None]
                  /\ waitingFor' = [waitingFor EXCEPT ![w] = None]
                  /\ call' = [call EXCEPT ![w].wake = "OWNER_FAULTED"]
                  /\ todo' = <<ReadySwtchOf(w)>> \o todo
  /\ UNCHANGED <<schedVars, lock, owner, faulted, owned, mesgPrio, ret, faultVars>>

\* The end of kTaskFaultCleanup.
FaultDone ==
  /\ todo # <<>> /\ Head(todo).op = "faultDone"
  /\ LET t == Head(todo).task
     IN  /\ call' = [call EXCEPT ![t] = NoCall]
         /\ status' = [status EXCEPT ![t] = "TERMINATED"]
  /\ todo' = Tail(todo)
  /\ UNCHANGED <<run, prio, readyQ, schLock, savedLock, pendingSw, pendSV,
                 waitVars, mutexVars, timeVars, ret, faultVars>>

PostProcStep ==
  \/ (PostProcResume \/ FaultsScanned \/ PostProcWait)
       /\ UNCHANGED <<cleanupPending, cleaning>>
  \/ \E t \in cleanupPending : PostProcTake(t)
  \/ kTaskFaultCleanup

FaultInit ==
  /\ Init
  /\ PostProcInit
  /\ cleanupPending = {} /\ cleaning = None

(***************************************************************************)
(* Properties.                                                             *)
(***************************************************************************)
\* Nothing of a TERMINATED task is left in the kernel: it is on no queue,
\* owns nothing, waits for nothing, has no armed timeout, and never runs.
DeadIsDetached == \A t \in Task :
  status[t] = "TERMINATED" =>
    /\ LinkedOn(t) = {} /\ t \notin ToSet(tmo)
    /\ owned[t] = {} /\ \A m \in Mutex : owner[m] # t
    /\ waitingFor[t] = None /\ wqp[t] = None
    /\ t \notin cleanupPending /\ t # run

\* Who is told that the owner of a mutex faulted is told the truth, and nobody
\* is left waiting for a mutex whose owner is gone.
FaultReported ==
  Quiet =>
    /\ \A t \in Task : ret[t].err = "OWNER_FAULTED" => faulted[ret[t].arg]
    /\ \A m \in Mutex : faulted[m] => waitQ[m] = <<>> /\ ~lock[m]
=============================================================================
