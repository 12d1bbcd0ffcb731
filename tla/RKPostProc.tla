----------------------------- MODULE RKPostProc -----------------------------
(***************************************************************************)
(* PostProc, the system task that does deferred work (ksystasks.c): it     *)
(* waits for its event, cleans up after faults, and runs at most one queue *)
(* full of jobs before it waits again.  Interrupts and tasks queue jobs,   *)
(* also while it runs.  It is never preempted by a task, but every         *)
(* interrupt may come between its critical regions.  Its timers are the    *)
(* matter of RKCallout.  What a job does is defined where it belongs.      *)
(***************************************************************************)
EXTENDS RKMutex

CONSTANT
  QLen             \* RK_POSTPROC_Q_LEN

ASSUME PostProcConstants ==
  /\ PostProc \in Task \ {IdleTask}
  /\ PostProc \in NoPreempt /\ NominalPrio[PostProc] = 0
  /\ QLen \in Nat \ {0}

VARIABLES
  postSig,         \* RK_POSTPROC_SIG in the event flags of PostProc
  postStep,        \* where PostProc is in its loop
  jobs,            \* RK_gPostProcQ
  budget           \* how many jobs PostProc still takes in this round

postVars == <<postSig, postStep, jobs, budget>>

PostProcAt(step) ==
  /\ todo = <<>> /\ ~pendSV /\ run = PostProc /\ postStep = step

(***************************************************************************)
(* kPostProcJobEnq: the job is queued and PostProc signalled by kEventSet, *)
(* or, when the queue is full, refused.                                    *)
(***************************************************************************)
JobRoom == Len(jobs) < QLen

\* Mutant: PostProc is signalled only when it already sleeps.
JobEnqIfAsleep(job) ==
  /\ jobs' = Append(jobs, job)
  /\ IF status[PostProc] = "SLEEPING_EV_FLAG"
     THEN postSig' = TRUE /\ todo' = <<ReadySwtchOf(PostProc)>>
     ELSE UNCHANGED <<postSig, todo>>

JobEnq(job) ==
  /\ jobs' = Append(jobs, job)
  /\ postSig' = TRUE
  /\ todo' = IF status[PostProc] = "SLEEPING_EV_FLAG"
             THEN <<ReadySwtchOf(PostProc)>> ELSE <<>>

\* A running task leaves itself to PostProc: kEventSet wakes it, the task gets
\* the status st and gives way.
LeftToPostProc(st) ==
  /\ postSig' = TRUE
  /\ LET wake == status[PostProc] = "SLEEPING_EV_FLAG"
     IN  /\ readyQ' = IF wake THEN ReadyEnq(readyQ, PostProc) ELSE readyQ
         /\ status' = [status EXCEPT ![run] = st,
                                     ![PostProc] = IF wake THEN "READY" ELSE @]
  /\ kPendCtxSwtchNow_
  /\ UNCHANGED <<run, prio, schLock, savedLock, waitVars, mutexVars, timeVars,
                 callVars, todo, postStep, budget>>

(***************************************************************************)
(* The loop of PostProcSysTask.                                            *)
(***************************************************************************)
\* kEventGet returns: the flags it waited for are cleared.
PostProcResume ==
  /\ PostProcAt("wait")
  /\ postSig' = FALSE /\ postStep' = "scan"
  /\ UNCHANGED <<kernelVars, jobs, budget>>

\* The marks of faulted tasks have been scanned.
PostProcScanned ==
  /\ PostProcAt("scan")
  /\ postStep' = "jobs" /\ budget' = QLen
  /\ UNCHANGED <<kernelVars, postSig, jobs>>

\* kPostProcJobDeq_.
JobDeq(job) ==
  /\ PostProcAt("jobs") /\ budget > 0 /\ jobs # <<>> /\ job = Head(jobs)
  /\ jobs' = Tail(jobs) /\ budget' = budget - 1

\* kEventGet by PostProc: it goes on at once when the flag is raised.
PostProcEventGet ==
  /\ IF postSig
     THEN /\ postSig' = FALSE /\ postStep' = "scan"
          /\ UNCHANGED <<status, pendSV, pendingSw>>
     ELSE /\ status' = [status EXCEPT ![run] = "SLEEPING_EV_FLAG"]
          /\ kPendCtxSwtch("SLEEPING_EV_FLAG")
          /\ postStep' = "wait"
          /\ UNCHANGED postSig
  /\ budget' = 0
  /\ UNCHANGED <<run, prio, readyQ, schLock, savedLock, waitVars, mutexVars,
                 timeVars, callVars, todo, jobs>>

\* Mutant: PostProc waits again although jobs are left.
WaitWithJobsLeft == PostProcAt("jobs") /\ PostProcEventGet

\* kRunPostProcJobs_ has emptied the queue or used up its budget.
PostProcWait ==
  /\ PostProcAt("jobs") /\ (jobs = <<>> \/ budget = 0)
  /\ PostProcEventGet

PostProcInit == postSig = FALSE /\ postStep = "wait" /\ jobs = <<>> /\ budget = 0

(***************************************************************************)
(* Properties.                                                             *)
(***************************************************************************)
\* No deferred job is lost: while jobs are queued PostProc is awake, or its
\* event is raised, so that it looks again (ksystasks.c:97, 165).
NoLostJob ==
  Quiet /\ jobs # <<>> => status[PostProc] # "SLEEPING_EV_FLAG"
=============================================================================
