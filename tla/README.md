# RK01 in TLA+

This directory holds a TLA+ development of the RK01 real-time kernel: modules
that model its services as they are written in `core/src`, TLC configurations
that check them on small instances, and proofs, checked by TLAPS, that hold for
every instance. `PROJECT.json` maps every definition to the source lines it
stands for.

## 1. The system

RK01 is a preemptive, fixed-priority kernel for one Cortex-M core. Tasks call
it directly (privileged) or through SVC; interrupts are masked inside its
critical regions (`RK_CR_ENTER` .. `RK_CR_EXIT`); PendSV switches tasks; SysTick
counts time; the system task PostProc does deferred work.

| Component | State | Operations | What makes it correct |
|---|---|---|---|
| Scheduler, ready queues, scheduler lock (`ksch.c`) | `RK_gReadyQueue`, bitmap, `RK_gRunPtr`, `tcb.status/priority/schLock`, `RK_gPendingCtxtSwtch` | ready, yield, `kSwtch`, `kSchLock/Unlock` | every task on at most one list, a READY one in the queue of its priority; no preemption lost |
| Effective priority (`ksch.c`) | `tcb.priority`, owned-mutex list, `waitingForMutexPtr` | recompute and walk the chain of owners | an owner is never less urgent than its waiters, a boost ends with its cause, queues stay ordered |
| Mutexes (`kmutex.c`) | `lock`, `ownerPtr`, `ownerFaulted`, wait queue | lock, timed lock, unlock, hand-over | exclusive ownership, results that are true, hand-over to a most urgent waiter |
| Task timeouts, tick, sleeps (`ktimer.c`, `ksch.c`) | delta list, `globalTick` | arm, disarm, tick, expire, delay, periodic sleeps | every node expires after exactly its ticks |
| Callout timers (`ktimer.c`, `ksystasks.c`) | second delta list, `nextTime`, `reload` | create, cancel, PostProc's loop | never early, phase kept, no expiry lost |
| System call continuation (`ksyscall.c`) | `tcb.syscall*`, saved frame | complete, restart, wake, timeout, signal | a call returns once, with the true result |
| Self-suspension (`ktasksuspend.c`) | status | suspend, resume | no wake-up lost |
| Fault containment, PostProc (`ksch.c`, `ksystasks.c`, MPU fault handlers) | `RK_gFaultCleanupPending`, job queue, event flags | mark, scan, clean up | every faulted task is taken out; nothing of it stays; its mutexes are poisoned for good |
| Task events (`ktaskevents.c`) | flags per task | get, set, clear | no event lost between test and sleep |
| Semaphores (`ksema.c`) | value, wait queue | pend, post, query | value and waiters exclude each other; a pend that reports success consumed a token, and no other |
| Sleep queues, condition variables (`ksleepq.c`) | wait queue, phases of the call | sleep, signal, ready, wake, wait | atomic release-and-sleep, mutex owned on return |
| Signals (`ksignal.c`) | pending set, handler frame | send, deliver | a wait is interrupted once |
| Message queues (`kmesgq.c`, `kringbuf.c`), asynchronous messages (`kmesg.c`), synchronous messages (`ksynchmesg.c`), most-recent messages (`kmrm.c`) | buffers, use counts, peers | send, receive, call, reply, publish | order, no loss or duplication, counts that return to zero |
| Memory partitions (`kmem.c`), dynamic objects (`kdynobjs.c`), shared memory (`ksharedmem.c`) | free list, generations, attach counts | alloc, free, create, destroy, resolve | a stale handle never resolves |
| Task creation, spawn, termination (`ksch.c`) | task table | create, spawn, terminate | slots reused only when detached |
| Monitor, logger, trace, error handler | own records | | diagnostics |
| Architecture layer (`arch/*`) | registers, MPU | exceptions, context save | assumed: masked regions, PendSV after them, pending SysTick |

The components meet in four places: the TCB (its single list node, its single
timeout node and its single suspended call are shared by every service), the
ready queues, the effective priority, and the tick. What is hard is therefore
the *races between ways out of a wait*: hand-over, timeout, signal, fault and
priority change all unlink and re-link the same node, in whatever order the
interrupts arrive.

## 2. How the code is turned into actions

*Critical regions.* A system call or an interrupt runs with interrupts masked.
Its own stores are one action. What it then calls that is a loop over tasks, or
decides by priorities such a loop leaves behind (a round of the inheritance
walk, making a task ready, one expiry, one release of a waiter) is queued in the
variable `todo` in program order and carried out one entry at a time. No task or
interrupt action is enabled until `todo` is empty, so the region is indivisible
for everybody else, yet every action is small. `Quiet` is `todo = <<>>`; safety
properties of states between critical regions are stated under it.

*A task executes* (`Executing`) when no region and no switch is pending and it is
not inside a suspended call. A blocking call stores its continuation in `call`
and returns `RESTART`; whoever ends the wait writes the final result to `ret`.

*Three exceptions* are made where the code leaves the region in the middle. PostProc
handles callout timers with interrupts enabled, so in `RKCallout` each access to
the list is an action of its own and a tick may come in between. The wake of n
sleepers (`kSleepQueueWake`) and PostProc's jobs take the region anew for each
task: in `RKWait` the test, the lock, each wake, and the unlock are actions
(`WakeTest` .. `WakeEnd`). Direct calls of privileged code resolve a handle to a
pointer before they enter the region: in `RKObjects`, `DirectBegin` and
`DirectCall`. A direct create allocates, initialises and publishes in regions of their
own (`kMRMCreateAlloc`, `kMRMInit`, `kDynObjPublishHandle`), where the same by SVC is one
(`kMRMCreateSyscall`).

*Restarts.* A call that blocked is either completed by its waker or entered again
with its saved arguments; the modules follow `kSyscallTaskWake` and
`kSyscallDispatchActive_` in which calls do which (`WakeResultCall`,
`RunsAgainCall`, `Restarted`, `Reentered`).

*Left out of the data*: the ready bitmap (the set of non-empty queues, which
`kTCBQEnq`/`kTCBQRem` keep equal to it), names, trace and log records, error
paths that stop the system in `K_ERR_HANDLER` or `K_PANIC` (API misuse such as a
recursive lock), and MPU state.

## 3. Modules

| Module | Models | State and actions |
|---|---|---|
| `RKQueues` | list and task-queue operations (`klist.c`, `ksch.c`) | operators on sequences: `kTCBQEnq`, `kTCBQJam`, `kTCBQEnqByPrio`, `kTCBQRem` |
| `RKKernel` | scheduler, lock, priorities, timeouts, continuations, self-suspension, signals' interruption of a wait | variables named after the fields they stand for; `kSwtch`, `Tick`, `TimeoutExpire`, `UpdatePrio`, `ReadySwtch`, `SignalReady`, `kSchLock`, `kYield`, ... |
| `RKMutex` | mutex service on the kernel, a system's `Next`, fairness and properties | `kMutexLock` (faulted, free, no wait, block), `kMutexUnlock` (free, hand-over) |
| `RKPostProc` | PostProc: its events, its job queue, its place in its loop | `JobEnq`, `JobDeq`, `PostProcEventGet`, `PostProcWait`, `PostProcScanned` |
| `RKFault` | fault containment on `RKMutex` and `RKPostProc`; `RKLife`, `RKSynch` and `RKAsynch` add what their objects need | `kTaskFaultTerminate`, the scan, `kTaskFaultCleanup`, release of owned mutexes |
| `RKLife` | spawn and termination of tasks on `RKFault` | `spawned`, `generation`, `quarantine`, `freeStacks`, the handles given out; `kTaskSpawn`, `kTaskTerminate` of another task or of oneself, `PostProcTerminate`, `FaultEnd` |
| `RKSema` | semaphores on `RKMutex` (`ksema.c`) | `value`; `kSemaphorePend` (take, no wait, block), `kSemaphorePost` (wake, count, full), `IsrPost` |
| `RKWait` | sleep queues, condition variables (`ksleepq.c`) and events (`ktaskevents.c`) on `RKMutex` and `RKPostProc` | `kSleepQueueSleep/Signal/Ready/Unready/Wake`, `kCondVarWait` in its phases, `kEventGet/Set/Clear`, and the same from interrupts |
| `RKMesgQ` | message queues and mailboxes (`kmesgq.c`) | ring, mode, count of broadcast readers; send, jam, receive, post-over, broadcast, reset, and PostProc's deferred wake-ups |
| `RKSynch` | rendezvous by copy, and call / accept / reply (`ksynchmesg.c`) | pending sender, active caller, call state, partners; what timeouts and signals undo (`AbortSend`, `AbortCall`) and what the cleanup of a faulted task releases (`ReleaseSender`, `ReleaseCaller`, `ReleaseActive`) |
| `RKAsynch` | message blocks, pools, ceilings and copies (`kmesg.c`) | owner and state of each block, inboxes, filters; allocate, send, wait, free, copy, and the cleanup of a faulted task |
| `RKObjects` | most-recent messages (`kmrm.c`), their partitions (`kmem.c`), slots, generations and handles (`kdynobjs.c`) | create, publish the handle, destroy, reserve, publish, get, unget, clean up a terminated task; stand-alone |
| `RKTimeout` | the delta list of `ktimer.c`, in words of `Width` bits | `kTimeoutNodeAdd`, `kTimeoutNodeDisarm`, `Tick`, `Expire` |
| `RKCallout` | callout timers and PostProc's timer loop, interleaved with the tick | `kTimerInit`, `kTimerCancel`, `TakeHead`, `RemoveLoad/Store`, `Call`, `NextTime`, `InsertPass/Consume/Subtract/Link` |
| `MutexAbs`, `SemaAbs` | abstract: what a mutex and a semaphore promise | holder, waiters, dead; tokens, waiters, outcomes |
| `MesgQAbs` | abstract: what a message queue promises | the messages in order and how each receiver may take one |
| `MRMAbs` | abstract: what a most-recent message promises | the published value, and the value each reader was given |
| `TimeoutAbs` | abstract: what a timeout list promises | a counter per node and the order of expiry |
| `RKMutex_proofs`, `RKMutexSafety_proofs`, `RKLife_proofs`, `RKSema_proofs`, `RKWait_proofs`, `RKMesgQ_proofs`, `RKObjects_proofs`, `RKCallout_proofs` | proofs (section 6) | |
| `MC*` | instances for TLC | constants only |

`RKKernel` is the part all services on it share: each service module extends
it (through `RKMutex`), adds its own variables, and gives a `Next` of its own in
which kernel steps go on as they are. The services meet in the kernel's
variables: the wait queues of every object, the one timeout node and the one
suspended call of each task, and the effective priority, to which mutexes, queued
peers (`LendingPeers`) and ceilings (`CeilingOf`) contribute. Each service runs
beside a mutex where the code lets the two interact.

`RKKernel` sees the timeouts as `TimeoutAbs` does (`tmo`, `left`); `RKTimeout`
shows that the delta list implements that view, and the run `mutex` checks that
the kernel's use of it does too. `RKCallout` instantiates the same delta list.

## 4. Runs

| Run | Question | Instance and bounds |
|---|---|---|
| `mutex` | do lists, statuses, ownership and results stay consistent, is inheritance exact along chains, does the service implement `MutexAbs`, can it deadlock? | 4 user tasks (two of equal urgency), 2 inheritance mutexes, timeouts of 0, 1 tick or for ever, signals, sleeps, yields, one task that suspends itself, one that locks the scheduler |
| `inversion` | is the most urgent waiter served, do timed waits end? | 3 user tasks, 2 mutexes, fairness |
| `life` | is a task that faults, ends itself or is ended taken out whole, in any interleaving, and never a successor of it? | 3 user tasks (two as urgent as PostProc, one spawned, two may fault), one stack, each slot used twice, PostProc with a job queue of one, one mutex with and one without inheritance, fairness |
| `sema` | are tokens conserved, is no waiter beside a token, is every task where whoever runs or wakes it looks, is no preemption lost? | 3 user tasks, a counting semaphore (1 of 2 tokens at first), a mutex with inheritance, pends of 0, 1 tick or for ever, posts by tasks and interrupts, signals, scheduler lock |
| `wait` | is every sleeper where its waker looks, is no event or job missed, does a wait on a condition own its mutex on return? | 3 user tasks and PostProc, a sleep queue, a condition variable with its mutex, two event flags, a job queue of one, interrupts |
| `mesgq` | does the queue implement `MesgQAbs`, is a broadcast read once by each, does nobody wait to receive beside a message? | 3 user tasks, PostProc, a queue of 1 (mailbox) or 2, two messages, sends and jams by tasks and interrupts, a job queue of one, timeouts, signals |
| `synch` | do both sides of every link agree, are results true, does nobody wait beside a partner or for one that is gone, is a receiver exactly as urgent as its peers make it? | 3 user tasks, PostProc, a mutex, eight applications: two clients and a server, a client and a server with a mutex, a chain, a cycle, a less urgent client, and three where clients and servers fault |
| `asynch` | has each block one owner and place, are priorities what is owed, does nobody wait beside what it waits for? | 3 user tasks and PostProc, 2 blocks in a pool with a ceiling or 2 kernel copies, sizes 1 and 2, four applications: with a fault of the receiver, with faults along a line of tasks, with a mutex, with copies and filters |
| `objects` | are buffers accounted for, do readers keep what they were given, does no handle resolve to a successor? | 2 privileged tasks and one that is not, one slot, 2 objects one after the other, 3 buffers, 2 payloads, 2 leases per reader, generations of 2 bits |
| `timeout` | does the delta list do what a counter per node would? | 4 nodes, 4-bit words, every period up to `RK_MAX_PERIOD` |
| `callout` | are callouts never early and never forgotten, with ticks between PostProc's steps? | 3 timers (two reload), 12 ticks, cancellations |
| `callout_remaining` | a violation, section 7 | |

*Why these bounds are enough.* Three tasks are the least with an owner, a waiter
and a third party; four give a queue whose order can change while a task is
boosted past another. Two mutexes give chains (a waiter that owns) and a task
that owns two. A finite timeout of one tick suffices for every order of expiry
against another event, because ticks come at any time and waits begin at any
time; longer counts are `RKTimeout`'s matter. A maximum of 2 tokens tells a
counter from a flag, and starting with 1 both the empty and the full semaphore
are one call away. A job queue of one makes the full queue common. Two messages
in a queue of one or two give full and empty queues, an older message that must
not be overtaken, and a direct hand-over beside a ring that is not empty. Three
buffers for a current message, a lease and a reservation leave none to spare,
so allocation also fails; generations of 2 bits wrap past the values never used.
Two lives of a slot are enough for a successor and a
handle that is stale. `MaxSchLock` 1 separates locked from unlocked; nesting only counts. In `callout` the
periods 2 and 3 and the phase 1 make expiries coincide, and 12 ticks cover two
common multiples.

*Applications.* Where every task making every call has too many states, `App`
holds a few roles of the tasks; `Init` picks one, and the run covers them all. A
role says who may wait on what, who locks the mutex, who faults; when they do so is
free.

*Symmetry* is used for messages (`mesgq`, `asynch`) and for buffers and equal tasks
(`objects`), in runs without liveness.

*Ordered locking.* With `Ordered` a task takes mutexes in the order of `Rank` and
suspends itself holding none. Then no deadlock is the application's own, and the
deadlock check of `mutex`, `inversion`, `life` and `sema` shows that no wake-up
is lost. The runs with messages and sleep queues do not check deadlock: their tasks
may all wait for ever for partners that wait too, as applications can. There the
invariants say what may not wait beside what (`NoReceiverBesideMessage`,
`NoStuckRendezvous`, `NoStuckMesgWait`, `SleepersReachable`, `NoMissedEvent`). The
runs `callout*` bound the ticks and `objects` bounds the objects.

*Fairness* (`FairSpec`, `LifeFairSpec`). Critical regions end and pended
switches are taken: weak fairness of `KernelStep` (and PostProc's steps, which no
task can preempt). SysTick stays pending while masked, so it recurs between
regions: strong fairness of `Tick`. Of the application only this is asked: a
task below the most urgent one that gets the processor again and again does not
keep a mutex or the scheduler lock for ever.

## 5. Properties

They are stated, with the code they are about, at the end of each module. Each
one that a run checks fails for at least one mutant of a mapped definition
(`PROJECT.json`, "mutants"; the mutated forms stand next to the definitions).
Three kinds carry most of the weight. *Agreement*: two records of the same fact
(status and list, owner and owned list, sender and receiver of a rendezvous, a
buffer's use count and its leases) agree between any two regions. *True results*:
a history variable remembers what really happened to a wait, and the result the
task reads must say so. *Nobody waits beside what it waits for*: in a quiet state
no task is queued on an object that could serve it. The order of service is the
matter of the refinements to `MutexAbs`, `MesgQAbs`, `MRMAbs` and `TimeoutAbs`.

## 6. Proofs

All theorems hold for every set of tasks, mutexes, semaphores, queues and messages,
slots and buffers, every assignment of priorities, every capacity and every bound; they assume the constants'
ASSUMEs (`KernelConstants`, `MutexConstants`, `SemaConstants`, `PostProcConstants`,
`WaitConstants`, `MesgQConstants`, `ObjectConstants`, `CalloutConstants`) and the hypotheses named here.

| Module | Theorems | Hypothesis |
|---|---|---|
| `RKMutex_proofs` | `Invariance` (`[]IInv`), `TypeCorrect`, `OwnershipCorrect` | |
| `RKMutexSafety_proofs` | `ServiceInvariance` (`[]ServiceInv`), `ListsMatchStatus`, `NodesLinkedOnce`, `LockCallsTellTheTruth`, `WaitersStayOrdered`, `NoOwnerOutranked`, `BoostsEnd`, `PreemptionsKept`, `HandOffsGoToMostUrgent` | `~YieldWhenLocked` |
| | `Implementation` (of `MutexAbs`), `TimeoutImplementation` (of `TimeoutAbs`) | |
| `RKLife_proofs` | `LifeInvariance` (`[]LifeInv`), `TheGoneIsReleased`, `NobodyEndedInstead`, `FaultsAreReported` | `~YieldWhenLocked` |
| `RKSema_proofs` | `TokenInvariance`, `NoTokenIdles` | |
| | `PlacesKept` (`[]PendersInv`), `TasksAreReachable`, `TokensConserved` (of `SemaAbs`) | `~YieldWhenLocked`, `[]~WalksStale` |
| | `NoStaleWalks`, `TimedTasksAreReachable`, `TimedTokensConserved` | `~YieldWhenLocked`, `Forever \notin PendTimeout` |
| `RKWait_proofs` | `WaitInvariance` (`[]WaitInv`), `NoEventMissed`, `NoJobLost` | |
| | `SleepInvariance` (`[]SleepInv`), `SleepersAreReachable`, `CondWaitReturnsWithMutex` | `SignalledTimed` |
| `RKMesgQ_proofs` | `MesgQInvariance` (`[]MesgQInv`), `BroadcastsAccounted`, `NobodyBesideMessage`, `MesgQImplementation` (of `MesgQAbs`) | `~YieldWhenLocked`, `~ResetMailbox` |
| `RKCallout_proofs` | `CalloutTypeCorrect`, `NoExpiryIsLost` | |
| | `TimersNeverEarly` | `NoRollover` |
| `RKObjects_proofs` | `ObjectsInvariance` (`[]ObjectsInv`), `HandlesNameTheirObject`, `BuffersNeverLost`, `ObjectsImplementation` (of `MRMAbs`) | `NoWrap` |

The first part of `RKMutex_proofs`, up to `IInv`, holds what the other proofs about the
kernel share: the lemmas about queues, and what each step of the kernel and of the mutexes does to the wait of a task (`KernelFacts`, and
`Undisturbed` for a task that a step does not concern), whatever the task waits on.

*Types and ownership (`IInv`).* `TypeOK` is not inductive. That a timeout never
drops below zero needs the list of armed nodes to be duplicate-free and ordered,
with nothing due unless the tick is being handled (`TimeInv`); that `kSwtch` finds
a task needs the idle task to be always READY in its queue or running
(`ReadyInv`); that the expiry of a node finds the queue it names needs every
queued task to name its queue and to be in a lock call (`QueueInv`); that a task
made ready is not still queued needs the entries of `todo` to be about tasks
already unlinked (`TodoInv`); ownership needs owner pointers and owned lists to
agree (`OwnerInv`); and that the walk of inheritance puts no READY task into a
wait queue needs every queue pointer to name a mutex (`StaleInv`), which is true
of the kernel with mutexes alone. `IInv` is their conjunction, and one lemma per
conjunct (`TypeStep`, `TimeStep`, `QueueStep`, `TodoStep`, `OwnerStep`,
`ReadyStep`, `StaleStep`) shows that every action keeps it, action by action. The
refinement maps each action to one abstract step or a stutter: unlinking is
`Leave` (or a stutter when the task was not queued), blocking is `Wait`, hand-over
`HandOff`; `IInv` supplies that the running task waits nowhere. The refinement of
`TimeoutAbs` needs two facts more (`ExpiryInv`): a node that is not armed has no
ticks left, and a tick that is being handled, like a signal, is the last entry of
`todo`, so that no step of a call comes between the expiries of one tick. That the
node is inserted after as many as expire before it is the order of the list (`TimeInv`).

*Lists, results, inheritance, preemption (`ServiceInv`).* The properties of `mutex`
speak of states between critical regions. What carries them through a region is
that each deviation is about to be repaired by an entry of `todo`, and `ServiceInv`
says by which:

* `SuspendInv`: a task's status is that of the call it is suspended in, and a task
  in no call is READY or RUNNING;
* `WakeInv`: at most one wake-up is pending, after the walks; the task is suspended,
  and in a lock call it owns the mutex by then exactly when it was handed it. This
  is what makes a result true when hand-over, timeout and signal race;
* `PlaceInv`: each ready queue holds READY tasks of its priority, each once; a
  BLOCKED task is in the queue of its mutex or about to be made ready;
* `RunInv`: the task in `RK_gRunPtr` is RUNNING or a switch is pended;
* `ResultInv`: a result left by a lock call says SUCCESS exactly for the owner;
* `OrderInv`: wait queues are in order even in the middle of a walk, because a round
  requeues the task whose priority it changes in the same step;
* `PrioInv`: the priority of a task is what its nominal priority and its waiters make
  it, or a walk for that task is in `todo`. With `OrderInv`, since only the head of a
  queue lends, this gives both directions of inheritance: `NoOwnerOutranked` and
  `BoostsEnd`, for chains of any length;
* `PreemptInv`: a preemption that is due is pended, deferred by the scheduler lock,
  or about to be found at the end of the tick.

The hypothesis `~YieldWhenLocked` says that no task yields while it holds the
scheduler lock. `MCYieldLocked.cfg` (section 7) shows that `PlaceInv` fails without
it; the theorems about `IInv` do not need it. `PreemptionsKept` is the property the
run `sema` checks with semaphores, proved of the mutex service.

*Ends and faults (`LifeInv`).* A task that ends is gone only after several regions: it
marks itself or queues a job, PostProc is switched to, scans, cleans up and releases
waiters one by one, and ticks come in between. `LifeInv` keeps of `IInv` what holds
whoever owns the mutexes (`KernelInv`; `OwnerInv` does not hold, a poisoned mutex is
free and may have waiters until the region ends) and of `ServiceInv` the places and
`RunInv`, and says of the rest:

* `RegionInv`: in which order calls stand in `todo`: a task is made ready behind walks
  only, a cleanup ends last, and a task in a slot just spawned is made ready in the
  same region;
* `PoisonInv`, `ReportInv`: a poisoned mutex is nobody's, and its waiters are gone or
  `faultWake` is still to come; whoever is to report a faulted owner waited for such a
  mutex;
* `CleanupInv`: what is being cleaned up is still FAULT_PENDING, and PostProc runs;
* `LeftInv`, `PostInv`: PostProc is as urgent as any task and is put at the head of its
  queue, so it runs next after a task that left itself to it (`Comes`). Hence at most one
  job or mark waits, the job is that of the life that queued it, and nobody takes the
  slot before the job is done. This carries `NobodyEndedInstead`: the job names only
  the address of the control block;
* `SlotInv`, `LivesInv`: stacks are counted by the spawned slots, and the generations
  in the handles of a slot grow, so that only the last one can match.

`~YieldWhenLocked` is needed for `LeftInv`: `MCLifeYield.cfg` (section 7) ends a running
task at once without it.

*Semaphores.* `NoIdleToken` needs little of that, and its proof does not use `IInv`:
with the fact that the values are numbers up to `maxValue` (`TokenInv`) it is
inductive, because no step of the kernel and the mutexes puts a task into an empty
queue of a semaphore (`KernelKeepsEmpty`). Even the misplaced task of `MCSemaStale`
enters only a queue that has waiters.

`EveryTaskReachable` and `ConservesTokens` need more, and are not true of every
instance: `MCSemaStale.cfg` (section 7) misplaces a task. What misplaces it is one step,
the walk of inheritance for a READY task whose node still names the queue of a semaphore
on which others wait. `WalksStale` says that it comes next, so `[]~WalksStale` excludes
this step and no other. Under it, `PendersInv` is inductive:
every task is at work, waiting, resting or leaving, in the sense of `SleepInv` below,
and its frame says what its suspended call does (`Answered`). Who leaves a
semaphore without a token has a call in `todo` that is not the one of a post, so what a
pend came to (`PendOutcome`) is decided from the frame, the queues and that call
(`OutcomeIs`) before the task is made ready. Each step is then one of `SemaAbs` or a stutter: an
expiry or a signal is `Leave` if its task was on a semaphore's queue and a stutter else, a post is `Give` or `Keep`, and the steps in which a region goes on
stutter. A node can be stale only after a wait without a timeout, for a post that
ends a timed wait resets it: `NamedInv` says so, and where `Forever` is not among the timeouts
tasks pend with, both theorems hold without the temporal hypothesis (`NoStaleWalks`). In
the run `sema` tasks also pend for ever, but no walk is stale there: while two of the three
user tasks wait on the semaphore, nobody is left to boost the third.

*Events and deferred jobs (`WaitInv`).* Both properties say that nobody sleeps for its
event beside what it sleeps for, and neither is inductive: between the step that sets
a flag or queues a job and the one that makes the sleeper READY, the region may still
walk a chain of inheritance, handle a tick or give in to another expiry. `WaitInv`
says that the wake-up stays in `todo` until it is done. An expiry drops what the
region still had to do, so this needs that no wake-up is pending while a tick is
handled (`WaitTodoInv`). That the flags of a request are tested and the task put to sleep
in one region makes `EventInv` inductive. For jobs, PostProc is never suspended in a
call that a condition wait or a restart would continue (`CallInv`), and between its
look at the queue and its next sleep it takes at least the jobs it has not been
signalled for since (`JobInv`), which is why a signal consumed early loses nothing.
None of this needs `IInv`.

*Sleepers and condition waits (`SleepInv`).* A sleeper may be woken by a signal, a wake, a
broadcast, its timeout or a signal to the task, a condition wait then locks its mutex
again, and a wake picks its tasks in one region and readies them in later ones.
`SleepInv` says what each step in between may rely on:

* `PlaceInv`: every task is in one of four places, by the records the kernel has of it. At
  work (`AtWork`), it is on no wait queue and unarmed; waiting (`Waits`), on exactly one
  queue, the one its call and, when set, its node name, with nothing about to wake it;
  resting (`Rests`), for an event, its ticks or to be resumed, on none; leaving
  (`Leaves`), off its queue with exactly one call in `todo` that will make it ready, and,
  if it is to have its mutex again, owner of it by then;
* `ArgInv`: a wait on a condition names a condition variable, a deferred wake a sleep queue;
* `DoingInv`: between the regions of a condition wait the same task runs, and it has the
  mutex except after it has released it and before it sleeps;
* `ResultInv`: who has SUCCESS from a condition wait has the mutex, unless it is on the way
  into its next one.

`SleepersReachable` and `CondWaitReturnsOwner` follow from the second and fourth place and
from `ResultInv`. The hypothesis `SignalledTimed` says that no task yields under the
scheduler lock, and that a task which may be sent signals is not put to sleep by others and
sleeps with timeouts only, on no condition: a sleep for ever leaves the queue unnamed in
its node, so that the signal readies the task and leaves it linked. `MCSignalLinked.cfg`
(section 7) shows the property fail without it; the applications of the run `wait` satisfy it.

*Message queues (`MesgQInv`).* One region serves a queue on both sides: a receive may
hand its place to a sender, a broadcast empties the queue of receivers one by one. The
properties of `mesgq` speak of the states between, and `MesgQInv` says what the calls
still in `todo` owe:

* `NoBoost`, `RunInv`: without mutexes every task has its nominal priority, and the
  ready queues hold the READY tasks, each once;
* `WaiterInv`, `NodeInv`: a task on a queue of a message queue is suspended in a call
  on it, its armed node names that queue, and only suspended tasks are armed;
* `CallInv`: a reader prepared for a broadcast has no timeout any more, and a suspended
  sender still has its message at hand;
* `RegionInv`: tasks still to be made ready are on no list, each once, and no expiry or
  signal concerns a broadcast reader. Hence no reader leaves the count without reading;
* `DeferredInv`: a job of PostProc resets only what an interrupt may have reset;
* `ContentInv`: the count of broadcast readers is the number of those still to read, and
  what they are to read is the one message of a mailbox;
* `ServedInv`: nobody waits to receive beside a message that is not reserved.

Every call takes tasks off a queue, clears their nodes and readies them or leaves them
to `todo`; `Serves(Q, N, R)` is that effect, and one lemma shows that it keeps the parts
about waiters and nodes, so that each call only has to be put in this form. The refinement sets
each step against one step of `MesgQAbs` or a stutter: the direct hand-over of a message
to a waiting receiver is `Pass`, which is allowed only past an empty queue. `~ResetMailbox`
excludes the reset of section 7, which drops a broadcast that is being read.

*Dynamic objects (`ObjectsInv`).* That no handle resolves to a successor needs every
generation in a handle to be left behind by its slot unless the slot still holds
the handle's object (`GenerationInv`, `HandleInv`), and a creation in three regions to
have its slot to itself (`MakerInv`). The accounting of
buffers needs the use count to be the number of references, and a buffer to be
outside the free list exactly when it is current or held (`BufInv`). Nothing is assumed
of who creates, destroys and calls: a direct call whose object has gone finds an object
that is not initialised, and is refused, or a successor, perhaps one that has no handle yet,
and does to it what any user may do. What such a call cannot be promised is that it acts on its own object:
`MCObjectsStale.cfg` (section 7) shows `NoStaleUse` fail. `NoWrap`, that fewer objects are
made than a slot has generations, is what a counter of bounded width needs.

*Callout timers (`EarlyInv`).* The run `callout_remaining` shows that a tick between two
accesses of PostProc can make a difference wrap, so what the deltas of the list add up
to is not what is left for a timer. `NeverEarly` holds all the same, and `LateInv` says
why: modulo the width of a word the deltas are the differences of some numbers, one for
each timer (`Chain`), and each number, less than a word, brings its timer to its time or
beyond (`InTime`). A head at zero then has a number of zero or less, so its timer
is due. The numbers exist at every step of PostProc:

* a tick lowers them all by one, except that of the timer being armed while it is still
  before the head;
* a node unlinked from the middle gives its delta to its successor, which leaves the numbers of
  the others alone. When the head is taken off, a tick after the load is
  overwritten by the store: its effect is lost, and the numbers stay while time goes on;
* when the insertion uses a delta it has read before a tick (`Missed` is the difference),
  a comparison that passes the node lowers the number of the timer being armed by the
  ticks missed since it got it, and a subtraction raises the numbers of the nodes behind
  it: those timers fire later, never earlier.

`StepInv` says what PostProc holds meanwhile: its timer is off the list, and what it has
read is no less than what the node holds now. That sums of deltas follow the numbers
(`TicksToChain`) is proved from the least node for which they would not, and so
without induction. `NoRollover` says that the tick counter does not roll over in the
run, as it does once in 2^w - 1 ticks; section 7 shows what happens then. That a
timer cannot be armed for half a word or more (`CalloutConstants`) is what
`kTimerInit` checks (`ktimer.c:334-336`).

*Only model-checked.* Liveness is outside the prover's reach. That the delta list of
`RKTimeout` implements a counter for each node is checked by TLC only. The
rendezvous and the asynchronous messages are checked by TLC only; section 8 says
which of their properties come next.

## 7. Where the code and its documentation disagree

The first is a run of section 4. The others are shown by a configuration beside
the runs: `tlc -config <cfg> <module>` finds the trace.

* `callout_remaining`. PostProc arms a reloaded timer with interrupts enabled. A
  tick between the comparison and the subtraction of `kTimeoutListInsertDelta_`
  makes the successor's `dtick` wrap below zero, so that it no longer expires,
  against the invariant stated at `ktimer.c:787-791`. With a compiler that
  reuses the value it compared, the tick is lost instead.
* `MCYieldLocked.cfg` (`MCMutex`, `OneListPerNode`). `kYieldRunningTask_` links
  the running task on its ready queue and marks it READY even when the scheduler
  lock only defers the switch. The task goes on running while linked, and a second
  `kYield` links its node again, against the contract of `klist.c:24-29`.
* `MCLifeYield.cfg` (`MCLife`, `GoneIsReleased`). The same step leaves the running
  task READY, so that when it then ends itself by its handle the termination is not
  deferred, as "if task is running, defer termination" (`ksch.c:3093`) means it:
  its control block and the stack it runs on are free at once.
* `MCSignalLinked.cfg` (`MCWait`, `OneListPerNode`). `kTaskSignalReady` finds the
  queue of a sleeper by `timeoutNode.waitingQueuePtr`, which only timed waits on a
  sleep queue set. A signal for a task that sleeps for ever makes it READY while it
  is still linked on the sleep queue.
* `MCSemaStale.cfg` (`MCSema`, `QueueHoldsOnlyBlocked`). A post resets the
  waiter's `waitingQueuePtr` only if the wait was timed. A task woken from a pend
  for ever and not yet dispatched still names the semaphore's queue; if it is
  boosted while two others wait there, `kTaskRequeueWaiterByPrio_` takes it off its
  ready queue and links it in the semaphore's, which by `ksema.c:17` "contains only
  tasks blocked on this semaphore". The counts of both queues, wrong from then on,
  are not modelled.
* `MCCalloutCancel.cfg` (`MCCallout`, `CancelledStaysInactive`). A function that
  cancels the reload timer it is called for is told success, and PostProc arms the
  timer again (`kapi.h`, `kTimerCancel`).
* `MCCondLock.cfg` (`MCWait`, `CondWaitUnlocksScheduler`). The wait on a condition
  locks the scheduler to lock the mutex again. When that relock blocks, the hand-over
  completes the call, and the part of the call that unlocks the scheduler never
  runs: the task returns with the scheduler locked.
* `MCMesgQStuck.cfg` (`MCMesgQ`, `NoStuckPair`). Two tasks wait to send to a full
  mailbox. A receive empties it and wakes one of them; before that one runs the
  receiver waits again, so its message is handed over directly and the ring stays
  empty, but nobody wakes the second sender for the free place. The receiver's next
  call then waits beside that sender, although "waitingSenders stores only RK_SENDING
  tasks blocked by a full queue" (`kmesgq.c:20`).
* `MCSynchFault.cfg` (`MCSynch`, `PendingIsHead`; this and the next two with
  `tlc -continue`). A more urgent sender that arrives
  later becomes the head of the queue: the cached sender is then not "at the head of
  the sender queue" (`ksynchmesg.c:20-21`).
* `MCSynchFault.cfg` (`MCSynch`, `LinksAgree`). A client that gave up a call its
  server has accepted leaves it ABANDONED until the server replies. When that client
  faults, `kSynchMesgTaskCleanup` clears its half only: the server still names it as
  the active caller, its reply is refused because the handle is stale, and every
  accept from then on returns `CALL_BUSY`, against "cleanup paths must clear both
  sides of every TCB link" (`ksynchmesg.c:25`).
* `MCSynchFault.cfg` (`MCSynch`, `OneListPerNode`). When the server of an ABANDONED
  call faults, its cleanup makes the caller ready although that one is no longer
  waiting: it is READY already, and linked twice, or waits for something else, in
  whose queue it stays. A call may also time out between the fault and the cleanup.
* `MCObjectsStale.cfg` (`MCObjects`, `NoStaleUse`). A direct call resolves its handle
  before it enters the critical region (`kmrm.c:768-776`). In between another task can
  destroy the object and create a successor in its slot, which the call then uses,
  although the module "rejects stale handles before object memory is reused"
  (`kdynobjs.c:11-12`). One privileged task is enough: the others destroy and
  create by SVC. The run `objects` has such calls too, and checks what holds of them.

Seen while modelling, without a configuration, in parts the instances leave out:

* `globalTick` counts modulo 2^w - 1, `K_TICK_DELTA` subtracts modulo 2^w: the reload
  that spans the rollover is a tick too short. With `MaxTime = 20`, past the rollover
  of its 4-bit words, `MCCallout` violates `NeverEarly`.
* A task that waits for ever on a sleep queue is not moved when its priority
  changes; the queue is found by the same field (`ksch.c:856`).
* A signal during a condition wait ends the call without the mutex, and a timed
  condition wait either ends in `K_PANIC` or relocks with no bound, where
  `kCondVarWait` of `kapi.h` promises the mutex and one bound for both.
* A reset while a broadcast is being read drops what its readers were promised
  (`kmesgq.c:21-22`): with `ResetMailbox = TRUE`, `MCMesgQ` violates
  `BroadcastAccounted`.
* A slot's first object has generation zero: only the bump skips it
  (`kdynobjs.c:358-361`).
* A receiver of copies that asks for one sender by reference is not cancelled when
  that sender faults; a caller whose call was abandoned cannot send until its server
  replies; the boost of an outer rendezvous can outlive it when an inner one ends
  first (`ClientsAreNotServers` in `RKSynch` names the case left out).
* A READY task may be ended by another one although it was just woken with a place
  in a queue, or counted as the reader of a broadcast: the next sender is not woken
  in its stead, and `broadcastReceivers` never returns to zero. PostProc drops the
  result of a deferred termination (`ksystasks.c:98-145`).

## 8. Not modelled, and what is left

Every component with state that tasks share at run time has a module. Left out of
those modules, and why:

* Calls of privileged tasks that block and are switched out in the middle of the C
  function: the kernel's stack then holds the continuation, and each service has
  the same call in the modelled form (by SVC). The direct calls that do not block
  are the same functions and are modelled.
* API misuse, which stops the system in `K_ERR_HANDLER`.
* The creation of tasks before the kernel starts, their memory domains, and the
  termination of tasks that hold messages or serve callers: `RKLife` ends tasks on
  the mutex service. A full job queue when a task ends itself stops the system
  (`K_PANIC`), and with `RK_CONF_FAULT` so does a stale handle; here the call with a
  stale handle returns the error of the build without it.
* Calls given up where tasks fault: section 7 has what happens then. Everything else
  that a fault does to a rendezvous is in the run `synch`.
* The creation and destruction of objects other than most-recent messages. It would
  be next, with the termination of tasks that others depend on
  (`kTaskHasDependents_`), by composing `RKLife` with `RKSynch` and `RKAsynch`.
* Timed condition waits and signals in a condition wait, which section 7 describes.
* Periodic and absolute sleeps (`ktimer.c`), whose arithmetic is that of `RKCallout`.
* Queries and peeks, which change no state, and the send callback of a queue.
* Shared memory: attach and detach are refused once the memory layout is final, which
  it is before the scheduler starts (`ksharedmem.c:252`), so nothing changes at run
  time.
* The architecture layer, the MPU, the monitor, logger and trace, the applications
  and the vendored middleware: register-level code, diagnostics, users of the kernel,
  and code of others (most of the lines not covered by the map).

Proofs left, in this order: the accounting of `RKAsynch` (`MesgAccounted`) and the
links of `RKSynch` (`LinksAgree`), for which `RKMutex_proofs` has the kernel's part.
