------------------------------- MODULE RKWait -------------------------------
(***************************************************************************)
(* Sleep queues and condition variables (ksleepq.c) and task events        *)
(* (ktaskevents.c) on the kernel, the mutexes and PostProc: tasks sleep,   *)
(* wait for conditions and for event flags by system call; tasks and       *)
(* interrupts signal, wake several, pick one, and set flags, while owners  *)
(* are boosted, timeouts expire and signals interrupt waits.               *)
(*                                                                         *)
(* kSleepQueueWake and the wait on a condition variable enter the critical *)
(* region several times in one call.  No tick and no switch comes within a *)
(* system call, but other interrupts do, between its regions: `doing` is   *)
(* the call under way.  PostProc makes its calls as a thread, and is       *)
(* interrupted by the tick as well.                                        *)
(***************************************************************************)
EXTENDS RKPostProc

CONSTANTS
  Monitor,         \* the mutex of each condition variable; None for a sleep queue
  SleepTimeout,    \* the timeouts tasks sleep and wait for events with
  Flag,            \* event flags
  App,             \* applications: the sleep queues each task sleeps on of
                   \* itself, the tasks that others may put to sleep on one,
                   \* that wait for events, that lock mutexes, that others
                   \* may send a signal to
  EventRequest,    \* what they ask for: flags req, any of them or all
  MaxIsr           \* bound: how many interrupts come within one call

SleepQ  == OtherObj
CondVar == {q \in SleepQ : Monitor[q] # None}

ASSUME WaitConstants ==
  /\ Monitor \in [SleepQ -> Mutex \cup {None}]
  /\ EventRequest \subseteq [req : SUBSET Flag \ {{}}, all : BOOLEAN]
  /\ SleepTimeout \subseteq Timeout
  /\ App \subseteq [wait : [UserTask -> SUBSET SleepQ],
                   unready : SUBSET UserTask, event : SUBSET UserTask,
                   lock : SUBSET UserTask, signal : SUBSET UserTask]
  /\ MaxIsr \in Nat
  /\ None \notin [step : {"release", "sleep", "relocked"}, obj : SleepQ]

VARIABLES
  doing,   \* the call in the middle of which interrupts are enabled
  isrs,    \* how many interrupts have come in it
  app,     \* the application at hand
  event    \* flagsCurr, flagsReq and flagsOpt of each task

waitSvcVars == <<doing, isrs, app, event>>
allVars == <<kernelVars, postVars, waitSvcVars>>

NoCallUnderWay == doing = None
At(step) == /\ todo = <<>> /\ doing # None /\ doing.step = step
            /\ run = PostProc => ~pendSV
Calling == Executing /\ NoCallUnderWay

\* An interrupt that uses these services: between critical regions, of calls
\* too.
Isr == /\ todo = <<>>
       /\ \/ NoCallUnderWay /\ UNCHANGED isrs
          \/ doing # None /\ isrs < MaxIsr /\ isrs' = isrs + 1

\* A task that was woken enters its system call again.
Restarted(number) ==
  /\ todo = <<>> /\ ~pendSV /\ NoCallUnderWay
  /\ status[run] = "RUNNING" /\ call[run].number = number

\* kSchLock and kSchUnlock, as parts of another call.
LockSched ==
  IF run \in NoPreempt THEN UNCHANGED <<schLock, savedLock>>
  ELSE /\ schLock' = schLock + 1
       /\ savedLock' = [savedLock EXCEPT ![run] = schLock + 1]
UnlockSched ==
  IF schLock = 0 THEN NoCtxSwtch /\ UNCHANGED <<schLock, savedLock>>
  ELSE /\ schLock' = schLock - 1
       /\ savedLock' = [savedLock EXCEPT ![run] = schLock - 1]
       /\ IF schLock = 1 /\ pendingSw THEN kPendCtxSwtchNow_ ELSE NoCtxSwtch

Refuse(number, q, err) ==
  /\ Returns(number, q, err)
  /\ UNCHANGED <<schedVars, waitVars, mutexVars, timeVars, call, todo>>

(***************************************************************************)
(* kSleepQueueSleepSyscall.                                                *)
(***************************************************************************)
\* The running task goes to sleep on q.  Only a timed sleep lets
\* waitingQueuePtr name the queue.
SleepOn(q, timeout, number) ==
  /\ ArmTimeout(run, "BLOCKING", timeout)
  /\ wqp' = IF timeout = Forever THEN wqp ELSE [wqp EXCEPT ![run] = q]
  /\ status' = [status EXCEPT ![run] = "SLEEPING"]
  /\ waitQ' = [waitQ EXCEPT ![q] = kTCBQEnqByPrio(@, run, prio)]
  /\ call' = [call EXCEPT ![run] = [number |-> number, arg |-> q,
                                    phase |-> "WAIT", wake |-> "SUCCESS"]]
  /\ Returns(number, q, "RESTART")
  /\ kPendCtxSwtch("SLEEPING")
  /\ UNCHANGED <<run, prio, readyQ, schLock, savedLock, mutexVars, todo>>

kSleepQueueSleep(q, timeout) ==
  /\ Calling /\ Monitor[q] = None
  /\ \/ timeout = NoWait /\ Refuse("SLEEP_QUEUE_SLEEP", q, "NOWAIT")
     \/ timeout # NoWait /\ SleepOn(q, timeout, "SLEEP_QUEUE_SLEEP")
  /\ UNCHANGED <<postVars, waitSvcVars>>

(***************************************************************************)
(* kSleepQueueSignal, which is also kCondVarSignal, by a task or an        *)
(* interrupt, and kSleepQueueReady, which picks the task.                  *)
(***************************************************************************)
SignalOne(q) ==
  /\ waitQ[q] # <<>>
  /\ WakeHead(q)
  /\ UNCHANGED <<schedVars, mutexVars, call>>

kSleepQueueSignal(q) ==
  /\ Calling
  /\ \/ SignalOne(q) /\ Returns("NONE", None, "SUCCESS")
     \/ waitQ[q] = <<>> /\ Refuse("NONE", None, "EMPTY_WAITING_QUEUE")
  /\ UNCHANGED <<postVars, waitSvcVars>>

IsrSignal(q) ==
  /\ Isr /\ SignalOne(q)
  /\ UNCHANGED <<ret, postVars, doing, app, event>>

\* It does not ask whether t sleeps on q; here it does.
kSleepQueueReady(q, t) ==
  /\ Calling /\ t \in ToSet(waitQ[q])
  /\ waitQ' = [waitQ EXCEPT ![q] = kTCBQRem(@, t)]
  /\ IF ttype[t] = "BLOCKING"
     THEN DisarmTimeout(t) /\ wqp' = [wqp EXCEPT ![t] = None]
     ELSE UNCHANGED <<timeVars, wqp>>
  /\ todo' = <<ReadySwtchOf(t)>>
  /\ Returns("NONE", None, "SUCCESS")
  /\ UNCHANGED <<schedVars, mutexVars, call, postVars, waitSvcVars>>

\* kSleepQueueUnready: a READY task is put to sleep where it stands.
kSleepQueueUnready(q, t) ==
  /\ Calling /\ status[t] = "READY" /\ t # run
  /\ readyQ' = [readyQ EXCEPT ![prio[t]] = kTCBQRem(@, t)]
  /\ waitQ' = [waitQ EXCEPT ![q] = kTCBQEnqByPrio(@, t, prio)]
  /\ status' = [status EXCEPT ![t] = "SLEEPQ_BLOCKED"]
  /\ Returns("NONE", None, "SUCCESS")
  /\ UNCHANGED <<run, prio, schLock, savedLock, pendingSw, pendSV, wqp,
                 mutexVars, timeVars, call, todo, postVars, waitSvcVars>>

(***************************************************************************)
(* kSleepQueueWake, which is also kCondVarBroadcast (n = 0: all).          *)
(***************************************************************************)
Smaller(a, b) == IF a <= b THEN a ELSE b
WakeOf(q, n) ==
  [step |-> "lock", obj |-> q, chosen |-> None,
   count |-> IF n = 0 THEN Len(waitQ[q]) ELSE Smaller(n, Len(waitQ[q]))]

\* By a task.
kSleepQueueWake(q, n) ==
  /\ Calling
  /\ \/ waitQ[q] = <<>> /\ Refuse("NONE", None, "EMPTY_WAITING_QUEUE")
                       /\ UNCHANGED <<doing, isrs, app>>
     \/ /\ waitQ[q] # <<>> /\ schLock < MaxSchLock
        /\ doing' = WakeOf(q, n) /\ isrs' = 0
        /\ UNCHANGED kernelVars
  /\ UNCHANGED <<postVars, app, event>>

\* By an interrupt: it becomes a job of PostProc, or is refused.
IsrWake(q, n) ==
  /\ Isr /\ waitQ[q] # <<>> /\ JobRoom
  /\ JobEnq([job |-> "SLEEPQ_WAKE", obj |-> q, n |-> WakeOf(q, n).count])
  /\ UNCHANGED <<schedVars, waitVars, mutexVars, timeVars, callVars, postStep,
                 budget, doing, app, event>>

\* PostProc takes the job and calls kSleepQueueWake.
PostProcWake(job) ==
  /\ NoCallUnderWay /\ JobDeq(job) /\ job.job = "SLEEPQ_WAKE"
  /\ doing' = [step |-> "test", obj |-> job.obj, chosen |-> None, count |-> job.n]
  /\ isrs' = 0
  /\ UNCHANGED <<kernelVars, postSig, postStep, app, event>>

WakeTest ==
  /\ At("test")
  /\ doing' = IF waitQ[doing.obj] = <<>> THEN None ELSE WakeOf(doing.obj, doing.count)
  /\ UNCHANGED <<kernelVars, postVars, isrs, app, event>>

WakeLock ==
  /\ At("lock") /\ LockSched
  /\ doing' = [doing EXCEPT !.step = "loop"]
  /\ UNCHANGED <<run, status, prio, readyQ, pendingSw, pendSV, waitVars,
                 mutexVars, timeVars, callVars, todo, postVars, isrs, app, event>>

\* Mutant: the head is made ready but not taken off the queue.
WakeOneLeaves ==
  /\ At("loop") /\ doing.count > 0 /\ waitQ[doing.obj] # <<>>
  /\ LET w == Head(waitQ[doing.obj])
     IN  /\ readyQ' = ReadyEnq(readyQ, w)
         /\ kSyscallTaskWake(w)
         /\ status' = [status EXCEPT ![w] = "READY"]
         /\ doing' = [doing EXCEPT !.count = @ - 1, !.chosen = w]
  /\ UNCHANGED <<run, prio, schLock, savedLock, pendingSw, pendSV, mutexVars,
                 waitVars, timeVars, todo, postVars, isrs, app, event>>

\* One round of the loop: the head is made ready, without a switch.
WakeOne ==
  /\ At("loop") /\ doing.count > 0 /\ waitQ[doing.obj] # <<>>
  /\ LET q == doing.obj
         w == Head(waitQ[q])
         moreUrgent == doing.chosen = None \/ prio[w] < prio[doing.chosen]
     IN  /\ waitQ' = [waitQ EXCEPT ![q] = Tail(@)]
         /\ IF ttype[w] = "BLOCKING"
            THEN DisarmTimeout(w) /\ wqp' = [wqp EXCEPT ![w] = None]
            ELSE UNCHANGED <<timeVars, wqp>>
         /\ readyQ' = ReadyEnq(readyQ, w)
         /\ kSyscallTaskWake(w)
         /\ status' = [status EXCEPT ![w] = "READY"]
         /\ doing' = [doing EXCEPT !.count = @ - 1,
                                   !.chosen = IF moreUrgent THEN w ELSE @]
  /\ UNCHANGED <<run, prio, schLock, savedLock, pendingSw, pendSV, mutexVars,
                 todo, postVars, isrs, app, event>>

\* The loop is over: the most urgent of the woken may preempt.
WakeResched ==
  /\ At("loop") /\ (doing.count = 0 \/ waitQ[doing.obj] = <<>>)
  /\ IF doing.chosen = None THEN NoCtxSwtch
                            ELSE kReschedTask(prio[doing.chosen], prio)
  /\ doing' = [doing EXCEPT !.step = "unlock"]
  /\ UNCHANGED <<run, status, prio, readyQ, schLock, savedLock, waitVars,
                 mutexVars, timeVars, callVars, todo, postVars, isrs, app, event>>

WakeEnd ==
  /\ At("unlock") /\ UnlockSched
  /\ IF run = PostProc THEN UNCHANGED ret ELSE Returns("NONE", None, "SUCCESS")
  /\ doing' = None /\ isrs' = 0
  /\ UNCHANGED <<run, status, prio, readyQ, waitVars, mutexVars, timeVars, call,
                 todo, postVars, app, event>>

(***************************************************************************)
(* kCondVarWaitSyscall, for ever.  (A wait that times out ends, when its   *)
(* task has the mutex again, in K_PANIC.)                                  *)
(***************************************************************************)
kCondVarWait(c) ==
  /\ Calling /\ Monitor[c] # None /\ owner[Monitor[c]] = run
  /\ schLock < MaxSchLock
  /\ LockSched
  /\ doing' = [step |-> "release", obj |-> c] /\ isrs' = 0
  /\ UNCHANGED <<run, status, prio, readyQ, pendingSw, pendSV, waitVars,
                 mutexVars, timeVars, callVars, todo, postVars, app, event>>

\* kMutexUnlock.
CondRelease ==
  /\ At("release")
  /\ UnlockFree(Monitor[doing.obj]) \/ UnlockHandOff(Monitor[doing.obj])
  /\ doing' = [doing EXCEPT !.step = "sleep"]
  /\ UNCHANGED <<schedVars, faulted, mesgPrio, callVars, postVars, isrs, app, event>>

CondSleep ==
  /\ At("sleep") /\ SleepOn(doing.obj, Forever, "CONDVAR_WAIT")
  /\ doing' = None /\ isrs' = 0
  /\ UNCHANGED <<postVars, app, event>>

\* Mutant: woken by the broadcast, it returns without locking the mutex.
CondRelockSkipped ==
  /\ Restarted("CONDVAR_WAIT") /\ call[run].phase = "RELOCK"
  /\ doing' = [step |-> "relocked", obj |-> call[run].arg] /\ isrs' = 0
  /\ UNCHANGED <<kernelVars, postVars, app, event>>

\* Woken, the task locks the mutex again, at once or as its waiter.
CondRelock ==
  /\ Restarted("CONDVAR_WAIT") /\ call[run].phase = "RELOCK"
  /\ LET c == call[run].arg
         m == Monitor[c]
     IN  \/ /\ ~lock[m] /\ OwnMutex(m)
            /\ doing' = [step |-> "relocked", obj |-> c] /\ isrs' = 0
            /\ UNCHANGED <<schedVars, callVars>>
         \/ /\ WaitForMutex(m, Forever, [call[run] EXCEPT !.wake = "SUCCESS"])
            /\ UNCHANGED <<doing, isrs, app>>
  /\ UNCHANGED <<postVars, app, event>>

CondReturn ==
  /\ At("relocked") /\ UnlockSched
  /\ kSyscallTaskComplete_(run, call[run].wake)
  /\ doing' = None /\ isrs' = 0
  /\ UNCHANGED <<run, status, prio, readyQ, waitVars, mutexVars, timeVars, todo,
                 postVars, app, event>>

(***************************************************************************)
(* kEventGetSyscall, kEventSet, kEventClear.                               *)
(***************************************************************************)
Met(e) == IF e.all THEN e.req \subseteq e.curr ELSE e.req \cap e.curr # {}
NoRequest(curr) == [curr |-> curr, req |-> {}, all |-> FALSE]

\* What kEventGet does with the request req, all: by a call or its restart.
EventTest(req, all, timeout) ==
  LET e == [curr |-> event[run].curr, req |-> req, all |-> all]
  IN  \/ /\ Met(e)
         /\ event' = [event EXCEPT ![run] = NoRequest(e.curr \ req)]
         /\ call' = [call EXCEPT ![run] = NoCall]
         /\ Returns("EVENT_GET", None, "SUCCESS")
         /\ NoCtxSwtch
         /\ UNCHANGED <<status, timeVars>>
      \/ /\ ~Met(e) /\ timeout = NoWait
         /\ event' = [event EXCEPT ![run] = e]
         /\ Returns("EVENT_GET", None, "FLAGS_NOT_MET")
         /\ NoCtxSwtch
         /\ UNCHANGED <<status, timeVars, call>>
      \/ /\ ~Met(e) /\ timeout # NoWait
         /\ event' = [event EXCEPT ![run] = e]
         /\ ArmTimeout(run, "EVENTFLAGS", timeout)
         /\ status' = [status EXCEPT ![run] = "SLEEPING_EV_FLAG"]
         /\ call' = [call EXCEPT ![run].number = "EVENT_GET", ![run].phase = "WAIT"]
         /\ Returns("EVENT_GET", None, "RESTART")
         /\ kPendCtxSwtch("SLEEPING_EV_FLAG")

EventFrame == UNCHANGED <<run, prio, readyQ, schLock, savedLock, waitVars,
                          mutexVars, todo, postVars, doing, isrs, app>>

kEventGet(req, all, timeout) ==
  Calling /\ EventTest(req, all, timeout) /\ EventFrame

\* Run again after kEventSet woke it: the flags may be gone by then, and the
\* wait begins anew.  (Here with any timeout; the code keeps the first one.)
EventRestart(timeout) ==
  /\ Restarted("EVENT_GET") /\ timeout # NoWait
  /\ EventTest(event[run].req, event[run].all, timeout)
  /\ EventFrame

\* Mutant: the sleeper is woken only by the flags set just now.
SetForgetsEarlier(t, flags) ==
  /\ event' = [event EXCEPT ![t].curr = @ \cup flags]
  /\ IF status[t] = "SLEEPING_EV_FLAG" /\ Met([event[t] EXCEPT !.curr = flags])
     THEN /\ IF ttype[t] = "EVENTFLAGS"
             THEN DisarmTimeout(t) /\ wqp' = [wqp EXCEPT ![t] = None]
             ELSE UNCHANGED <<timeVars, wqp>>
          /\ todo' = <<ReadySwtchOf(t)>>
     ELSE UNCHANGED <<timeVars, wqp, todo>>

SetFlags(t, flags) ==
  /\ event' = [event EXCEPT ![t].curr = @ \cup flags]
  /\ IF status[t] = "SLEEPING_EV_FLAG" /\ Met(event'[t])
     THEN /\ IF ttype[t] = "EVENTFLAGS"
             THEN DisarmTimeout(t) /\ wqp' = [wqp EXCEPT ![t] = None]
             ELSE UNCHANGED <<timeVars, wqp>>
          /\ todo' = <<ReadySwtchOf(t)>>
     ELSE UNCHANGED <<timeVars, wqp, todo>>

kEventSet(t, flags) ==
  /\ \/ Calling /\ Returns("NONE", None, "SUCCESS") /\ UNCHANGED isrs
     \/ Isr /\ UNCHANGED ret
  /\ SetFlags(t, flags)
  /\ UNCHANGED <<schedVars, waitQ, mutexVars, call, postVars, doing, app>>

kEventClear(t, flags) ==
  /\ Calling
  /\ event' = [event EXCEPT ![t].curr = @ \ flags]
  /\ Returns("NONE", None, "SUCCESS")
  /\ UNCHANGED <<schedVars, waitVars, mutexVars, timeVars, call, todo, postVars,
                 doing, isrs, app>>

(***************************************************************************)
(* The system.  What runs on its own account, and the calls of tasks.      *)
(***************************************************************************)
WaitInit ==
  /\ Init /\ PostProcInit
  /\ doing = None /\ isrs = 0 /\ app \in App
  /\ event = [t \in Task |-> NoRequest({})]

\* Within a system call neither the tick nor a switch comes.
KernelBetween ==
  /\ NoCallUnderWay \/ run = PostProc \/ todo # <<>>
  /\ \/ KernelStep \/ Tick \/ SchedCall
     \/ run \in app.lock /\ MutexCall
     \/ \E t \in app.signal : kTaskSignalReady(t)
  /\ UNCHANGED <<postVars, waitSvcVars>>

PostProcStep ==
  \/ /\ NoCallUnderWay
     /\ PostProcResume \/ PostProcScanned \/ PostProcWait
     /\ UNCHANGED waitSvcVars
  \/ \E job \in ToSet(jobs) : PostProcWake(job)

CallStep ==
  \/ WakeTest \/ WakeLock \/ WakeOne \/ WakeResched \/ WakeEnd
  \/ CondRelease \/ CondSleep \/ CondRelock \/ CondReturn

SleepCall == \E q \in SleepQ :
  \/ /\ run \in UserTask /\ q \in app.wait[run]
     /\ \/ \E timeout \in SleepTimeout : kSleepQueueSleep(q, timeout)
        \/ kCondVarWait(q)
  \/ kSleepQueueSignal(q) \/ IsrSignal(q)
  \/ \E n \in 0 .. 1 : kSleepQueueWake(q, n) \/ IsrWake(q, n)
  \/ \E t \in UserTask : kSleepQueueReady(q, t)
  \/ \E t \in app.unready : call[t] = NoCall /\ kSleepQueueUnready(q, t)

EventCall ==
  \/ \E e \in EventRequest, timeout \in SleepTimeout :
       run \in app.event /\ kEventGet(e.req, e.all, timeout)
  \/ \E t \in app.event, f \in Flag : kEventSet(t, {f}) \/ kEventClear(t, {f})

WaitNext ==
  \/ KernelBetween \/ PostProcStep \/ CallStep \/ SleepCall \/ EventCall
  \/ \E timeout \in SleepTimeout : EventRestart(timeout)

WaitSpec == WaitInit /\ [][WaitNext]_allVars

(***************************************************************************)
(* Properties.                                                             *)
(***************************************************************************)
\* A sleeper is on the queue its call names, where signal, wake and broadcast
\* look for it, and nowhere else; woken it is where the scheduler looks.  A
\* wake-up that came between two regions of another call is no exception.
SleepersReachable ==
  Quiet => \A t \in Task :
    /\ status[t] = "SLEEPING" => LinkedOn(t) = {call[t].arg}
    /\ status[t] = "SLEEPQ_BLOCKED" => LinkedOn(t) \in {{q} : q \in SleepQ}
    /\ status[t] = "READY" => LinkedOn(t) = {prio[t]}

\* No event is missed: a task does not sleep for flags that are set, whatever
\* set, clear, expiry and restart come between its test and its sleep.
NoMissedEvent ==
  Quiet => \A t \in Task \ {PostProc} : status[t] = "SLEEPING_EV_FLAG" => ~Met(event[t])

\* Who returns with success from the wait on a condition variable has its
\* mutex again, whether it got it at once or from its owner.
CondWaitReturnsOwner ==
  Quiet /\ NoCallUnderWay => \A t \in Task :
    /\ ret[t].number = "CONDVAR_WAIT" /\ ret[t].err = "SUCCESS"
    /\ status[t] \in {"READY", "RUNNING"}
    => owner[Monitor[ret[t].arg]] = t

\* A wait on a condition variable locks the scheduler until the task sleeps
\* (ksleepq.c:773), and again to return: the task does not keep that lock.
CondWaitUnlocksScheduler ==
  Quiet /\ NoCallUnderWay => \A t \in Task :
    /\ ret[t].number = "CONDVAR_WAIT" /\ ret[t].err = "SUCCESS"
    /\ status[t] \in {"READY", "RUNNING"}
    => savedLock[t] = 0
=============================================================================
