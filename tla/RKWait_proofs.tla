---------------------------- MODULE RKWait_proofs ----------------------------
(***************************************************************************)
(* No event is missed and no deferred job is lost, sleepers stay where a   *)
(* signal finds them, and a wait on a condition ends with its mutex, for   *)
(* every set of tasks, mutexes, queues, flags and applications, and every  *)
(* length of PostProc's queue. All rest on one fact about the kernel: a    *)
(* task whose wait is over stays on the list of what the critical region   *)
(* still does, until it is awake. The first two need no more (WaitInv);    *)
(* the others need where every task that waits is linked (SleepInv).       *)
(***************************************************************************)
EXTENDS RKWait, RKMutex_proofs

\* A task that waits for an event, and one that is about to be made ready.
Sleeps(t) == status[t] = "SLEEPING_EV_FLAG"
Woken(t)  == ReadySwtchOf(t) \in ToSet(todo)

(***************************************************************************)
(* The inductive invariant.                                                *)
(***************************************************************************)
\* PostProc makes its calls as a thread and is never suspended in one; what a
\* task does as its own condition wait PostProc is not in the middle of.
CallInv ==
  /\ status = [t \in Task |-> status[t]]
  /\ call = [t \in Task |-> call[t]]
  /\ call[PostProc].number = "NONE"
  /\ doing # None =>
       /\ "step" \in DOMAIN doing
       /\ doing.step \in {"release", "sleep", "relocked"} => run # PostProc

\* No wake-up is pending while the tick is handled, for an expiry drops what
\* the region still had to do.
Separate(q) == \A c, d \in ToSet(q) : c.op = "ready" => d.op # "handleTimeouts"

\* The region's list is in order.
WaitTodoInv == todo \in Seq(ToSet(todo)) /\ Separate(todo)

\* A task's flags and the request it sleeps for.
EventRecord == [curr : SUBSET Flag, req : SUBSET Flag, all : BOOLEAN]

\* A task that sleeps for flags that are set is about to be woken.
EventInv ==
  /\ event \in [Task -> EventRecord]
  /\ \A t \in Task \ {PostProc} : Sleeps(t) /\ Met(event[t]) => Woken(t)

\* PostProc does not sleep past a job, and takes all the jobs it was not
\* signalled for since it looked.
JobInv ==
  /\ jobs \in Seq(ToSet(jobs)) /\ Len(jobs) <= QLen /\ budget \in Nat
  /\ jobs # <<>> /\ Sleeps(PostProc) => Woken(PostProc)
  /\ postStep = "jobs" /\ ~postSig => Len(jobs) <= budget

\* The conjunction is inductive.
WaitInv == CallInv /\ WaitTodoInv /\ EventInv /\ JobInv

(***************************************************************************)
(* What the critical region still does.                                    *)
(***************************************************************************)
\* A list of rounds of inheritance only.
Walks(q) == q \in Seq(ToSet(q)) /\ \A c \in ToSet(q) : c.op = "updatePrio"

\* A list is one of its own elements.
LEMMA ElementsSuffice ==
  ASSUME NEW S, NEW q \in Seq(S)
  PROVE  q \in Seq(ToSet(q))
BY SeqOfRange DEF ToSet, Range

\* The calls that walk chains of inheritance make lists of walks.
LEMMA WalkLists ==
  /\ Walks(<<>>)
  /\ \A x : Walks(<<UpdatePrioOf(x)>>)
  /\ \A x, y : Walks(<<UpdatePrioOf(x), UpdatePrioOf(y)>>)
  /\ \A t : Walks(WaiterRemoved(t))
<1>1. Walks(<<>>)
  BY SmallSequences DEF Walks
<1>2. ASSUME NEW x PROVE Walks(<<UpdatePrioOf(x)>>)
  <2> DEFINE c == UpdatePrioOf(x)
  <2>1. c.op = "updatePrio"
    BY DEF UpdatePrioOf
  <2>2. Walks(<<c>>)
    <3> HIDE DEF c
    <3>1. <<c>> \in Seq({c}) /\ ToSet(<<c>>) = {c}
      BY SmallSequences
    <3> QED BY <2>1, <3>1 DEF Walks
  <2> QED BY <2>2
<1>3. ASSUME NEW x, NEW y PROVE Walks(<<UpdatePrioOf(x), UpdatePrioOf(y)>>)
  <2> DEFINE c == UpdatePrioOf(x)
             d == UpdatePrioOf(y)
  <2>1. c.op = "updatePrio" /\ d.op = "updatePrio"
    BY DEF UpdatePrioOf
  <2>2. Walks(<<c, d>>)
    <3> HIDE DEF c, d
    <3>1. <<c, d>> \in Seq({c, d}) /\ ToSet(<<c, d>>) = {c, d}
      BY SmallSequences
    <3> QED BY <2>1, <3>1 DEF Walks
  <2> QED BY <2>2
<1> QED BY <1>1, <1>2, <1>3 DEF WaiterRemoved

\* Walks before a list of other things change nothing of what matters here.
LEMMA WalksBefore ==
  ASSUME NEW a, Walks(a), NEW b, b \in Seq(ToSet(b)), Separate(b)
  PROVE  /\ a \o b \in Seq(ToSet(a \o b)) /\ Separate(a \o b)
         /\ ToSet(b) \subseteq ToSet(a \o b)
<1> DEFINE S == ToSet(a) \cup ToSet(b)
<1>1. a \in Seq(S) /\ b \in Seq(S)
  BY SeqMonotonic DEF Walks
<1>2. a \o b \in Seq(S) /\ ToSet(a \o b) = S
  <2> HIDE DEF S
  <2>1. a \o b \in Seq(S)
    BY <1>1, ConcatProperties
  <2>2. ToSet(a \o b) = ToSet(a) \cup ToSet(b)
    BY <1>1, ConcatSet
  <2> QED BY <2>1, <2>2 DEF S
<1> QED BY <1>2 DEF Separate, Walks

\* A list of one call.
LEMMA SingleList ==
  ASSUME NEW c
  PROVE  <<c>> \in Seq(ToSet(<<c>>)) /\ ToSet(<<c>>) = {c} /\ Separate(<<c>>)
<1>1. <<c>> \in Seq({c}) /\ ToSet(<<c>>) = {c}
  BY SmallSequences
<1> QED BY <1>1 DEF Separate

\* A region with nothing to do.
LEMMA EmptyList == <<>> \in Seq(ToSet(<<>>)) /\ ToSet(<<>>) = {} /\ Separate(<<>>)
BY SmallSequences DEF Separate

\* What is left when the head has been done.
LEMMA RestOfTodo ==
  ASSUME WaitTodoInv, todo # <<>>
  PROVE  /\ Tail(todo) \in Seq(ToSet(Tail(todo))) /\ Separate(Tail(todo))
         /\ ToSet(todo) = {Head(todo)} \cup ToSet(Tail(todo))
<1>1. ToSet(todo) = {Head(todo)} \cup ToSet(Tail(todo)) /\ Tail(todo) \in Seq(ToSet(todo))
  BY TailFacts DEF WaitTodoInv
<1>2. Tail(todo) \in Seq(ToSet(Tail(todo)))
  BY <1>1, ElementsSuffice
<1> QED BY <1>1, <1>2 DEF Separate, WaitTodoInv

(***************************************************************************)
(* The steps of the kernel and of the mutexes.                             *)
(***************************************************************************)
\* Nobody falls asleep for an event, and who is to be woken stays so.
NoneFallsAsleep == \A t \in Task : Sleeps(t)' => Sleeps(t)
KeepsWakes == \A t \in Task : Sleeps(t)' => Sleeps(t) /\ (Woken(t) => Woken(t)')

CallKept == call' = [t \in Task |-> call'[t]] /\ call'[PostProc].number = "NONE"
StatusKept == status' = [t \in Task |-> status'[t]]

\* Outside a region nobody is about to be made ready.
LEMMA NoneWokenYet ==
  ASSUME todo = <<>>
  PROVE  \A t : ~Woken(t)
BY EmptyList DEF Woken

\* Where nothing was pending there is nothing to keep.
LEMMA QuietKeeps ==
  ASSUME todo = <<>>, NoneFallsAsleep
  PROVE  KeepsWakes
BY NoneWokenYet DEF KeepsWakes, NoneFallsAsleep

\* The completion or restart of a call never suspends its task in another.
LEMMA CompletionKeeps ==
  ASSUME CallInv, NEW t,
         \/ UNCHANGED call \/ kSyscallTaskWake(t) \/ kSyscallTaskTimeout(t)
         \/ kSyscallTaskSignal(t) \/ \E err : kSyscallTaskComplete_(t, err)
  PROVE  CallKept
<1>1. call = [u \in Task |-> call[u]] /\ call[PostProc].number = "NONE"
  BY DEF CallInv
<1>2. CASE UNCHANGED call
  BY <1>1, <1>2 DEF CallKept
<1>3. CASE \E err : kSyscallTaskComplete_(t, err)
  <2>1. call' = [call EXCEPT ![t] = NoCall]
    BY <1>3 DEF kSyscallTaskComplete_
  <2> QED BY <1>1, <2>1 DEF CallKept, NoCall
<1>4. CASE /\ call[t].number # "NONE" /\ \E phase, wake : RestartWith(t, phase, wake)
  <2>1. PICK phase, wake : call' = [call EXCEPT ![t].phase = phase, ![t].wake = wake]
    BY <1>4 DEF RestartWith
  <2>2. t # PostProc
    BY <1>1, <1>4
  <2>3. PICK c : call' = [call EXCEPT ![t] = c]
    BY <2>1
  <2> QED BY <1>1, <2>2, <2>3 DEF CallKept
<1>5. CASE kSyscallTaskWake(t)
  <2>1. \/ UNCHANGED call \/ \E err : kSyscallTaskComplete_(t, err)
        \/ call[t].number # "NONE" /\ \E phase, wake : RestartWith(t, phase, wake)
    BY <1>5 DEF kSyscallTaskWake, callVars, WakeResultCall, RunsAgainCall
  <2> QED BY <1>2, <1>3, <1>4, <2>1
<1>6. CASE kSyscallTaskTimeout(t)
  <2>1. \/ UNCHANGED call \/ \E err : kSyscallTaskComplete_(t, err)
        \/ call[t].number # "NONE" /\ \E phase, wake : RestartWith(t, phase, wake)
    BY <1>6 DEF kSyscallTaskTimeout, callVars
  <2> QED BY <1>2, <1>3, <1>4, <2>1
<1>7. CASE kSyscallTaskSignal(t)
  <2>1. UNCHANGED call \/ \E err : kSyscallTaskComplete_(t, err)
    BY <1>7 DEF kSyscallTaskSignal, callVars
  <2> QED BY <1>2, <1>3, <2>1
<1> QED BY <1>2, <1>3, <1>5, <1>6, <1>7

\* Nor does a task that suspends itself suspend PostProc.
LEMMA SuspensionKeeps ==
  ASSUME CallInv, NEW r, r # PostProc, NEW c, call' = [call EXCEPT ![r] = c]
  PROVE  CallKept
BY DEF CallInv, CallKept

LEMMA StatusSet ==
  ASSUME CallInv, NEW t, NEW st, st # "SLEEPING_EV_FLAG",
         status' = [status EXCEPT ![t] = st]
  PROVE  StatusKept /\ NoneFallsAsleep
BY DEF CallInv, StatusKept, NoneFallsAsleep, Sleeps

LEMMA StatusSame ==
  ASSUME CallInv, UNCHANGED status
  PROVE  StatusKept /\ NoneFallsAsleep
BY DEF CallInv, StatusKept, NoneFallsAsleep, Sleeps

\* The head of the list is done: everybody else who was to be woken still is.
LEMMA HeadDone ==
  ASSUME WaitTodoInv, todo # <<>>, todo' = Tail(todo)
  PROVE  /\ WaitTodoInv'
         /\ \A t : Woken(t) /\ ReadySwtchOf(t) # Head(todo) => Woken(t)'
BY RestOfTodo DEF WaitTodoInv, Separate, Woken

\* One pending item of a region: a round of inheritance, a wake-up, an expiry.
LEMMA KernelStepKeeps ==
  ASSUME CallInv, WaitTodoInv, KernelStep
  PROVE  KeepsWakes /\ WaitTodoInv' /\ CallKept /\ StatusKept
<1>1. \A t : ReadySwtchOf(t).op = "ready" /\ ReadySwtchOf(t).task = t
  BY DEF ReadySwtchOf
<1>2. CASE UpdatePrio
  <2>1. PICK a : Walks(a) /\ todo' = a \o Tail(todo)
    <3>1. \/ todo' = Tail(todo)
          \/ \E x : todo' = <<UpdatePrioOf(x)>> \o Tail(todo)
          \/ todo' = <<>> \o Tail(todo)
      BY <1>2 DEF UpdatePrio
    <3>2. <<>> \o Tail(todo) = Tail(todo)
      BY <1>2, RestOfTodo, ConcatEmptySeq DEF UpdatePrio
    <3> QED BY <3>1, <3>2, WalkLists
  <2>2. todo # <<>> /\ Head(todo).op = "updatePrio" /\ UNCHANGED <<status, call>>
    BY <1>2 DEF UpdatePrio, schedVars, callVars
  <2>3. /\ todo' \in Seq(ToSet(todo')) /\ Separate(todo')
        /\ ToSet(Tail(todo)) \subseteq ToSet(todo')
    BY <2>1, <2>2, RestOfTodo, WalksBefore
  <2>4. \A t : Woken(t) => Woken(t)'
    BY <1>1, <2>2, <2>3, RestOfTodo DEF Woken
  <2>5. CallKept /\ StatusKept /\ NoneFallsAsleep
    BY <2>2, StatusSame, CompletionKeeps
  <2> QED BY <2>3, <2>4, <2>5 DEF WaitTodoInv, Separate, KeepsWakes, NoneFallsAsleep
<1>3. CASE ReadySwtch
  <2> DEFINE t == Head(todo).task
  <2>1. /\ todo # <<>> /\ todo' = Tail(todo) /\ kSyscallTaskWake(t)
        /\ status' = [status EXCEPT ![t] = "READY"]
    BY <1>3 DEF ReadySwtch
  <2>2. \A u : ReadySwtchOf(u) = Head(todo) => u = t
    BY <1>1
  <2>3. CallKept /\ StatusKept /\ NoneFallsAsleep
    BY <2>1, CompletionKeeps, StatusSet
  <2>4. \A u \in Task : Sleeps(u)' => u # t
    BY <2>1 DEF CallInv, Sleeps
  <2> HIDE DEF t
  <2> QED BY <2>1, <2>2, <2>3, <2>4, HeadDone DEF KeepsWakes, NoneFallsAsleep
<1>4. CASE TimeoutExpire
  <2> DEFINE t == Head(tmo)
             w == IF ttype[t] = "BLOCKING" THEN WaiterRemoved(t) ELSE <<>>
             c == [op |-> "timeoutReady", task |-> t]
             d == HandleTimeoutsOf(TRUE)
  <2>1. /\ todo # <<>> /\ Head(todo).op = "handleTimeouts" /\ UNCHANGED <<status, call>>
        /\ todo' = w \o <<c, d>>
    BY <1>4 DEF TimeoutExpire, schedVars, callVars
  <2>2. \A u : ~Woken(u)
    BY <1>1, <2>1, RestOfTodo DEF Woken, WaitTodoInv, Separate
  <2>3. c.op = "timeoutReady" /\ d.op = "handleTimeouts" /\ Walks(w)
    BY WalkLists DEF HandleTimeoutsOf
  <2>4. WaitTodoInv'
    <3> HIDE DEF w, c, d
    <3>1. <<c, d>> \in Seq({c, d}) /\ ToSet(<<c, d>>) = {c, d}
      BY SmallSequences
    <3>2. Separate(<<c, d>>) /\ <<c, d>> \in Seq(ToSet(<<c, d>>))
      BY <2>3, <3>1 DEF Separate
    <3>3. todo' \in Seq(ToSet(todo')) /\ Separate(todo')
      BY <2>1, <2>3, <3>2, WalksBefore
    <3> QED BY <3>3 DEF WaitTodoInv, Separate
  <2>5. CallKept /\ StatusKept /\ NoneFallsAsleep
    BY <2>1, StatusSame, CompletionKeeps
  <2> QED BY <2>2, <2>4, <2>5 DEF KeepsWakes, NoneFallsAsleep
<1>5. CASE TimeoutReady
  <2> DEFINE t == Head(todo).task
  <2>1. /\ todo # <<>> /\ todo' = Tail(todo) /\ kSyscallTaskTimeout(t)
        /\ status' = [status EXCEPT ![t] = "READY"] /\ Head(todo).op = "timeoutReady"
    BY <1>5 DEF TimeoutReady
  <2>2. CallKept /\ StatusKept /\ NoneFallsAsleep
    BY <2>1, CompletionKeeps, StatusSet
  <2> QED BY <1>1, <2>1, <2>2, HeadDone DEF KeepsWakes, NoneFallsAsleep
<1>6. CASE TickEnd
  <2>1. /\ todo # <<>> /\ todo' = Tail(todo) /\ UNCHANGED <<status, call>>
        /\ Head(todo).op = "handleTimeouts"
    BY <1>6 DEF TickEnd, callVars
  <2>2. CallKept /\ StatusKept /\ NoneFallsAsleep
    BY <2>1, StatusSame, CompletionKeeps
  <2> QED BY <1>1, <2>1, <2>2, HeadDone DEF KeepsWakes, NoneFallsAsleep
<1>7. CASE SignalReady
  <2> DEFINE t == Head(todo).task
  <2>1. /\ todo # <<>> /\ todo' = Tail(todo) /\ kSyscallTaskSignal(t)
        /\ status' = [status EXCEPT ![t] = "READY"] /\ Head(todo).op = "signalReady"
    BY <1>7 DEF SignalReady
  <2>2. CallKept /\ StatusKept /\ NoneFallsAsleep
    BY <2>1, CompletionKeeps, StatusSet
  <2> QED BY <1>1, <2>1, <2>2, HeadDone DEF KeepsWakes, NoneFallsAsleep
<1>8. CASE kSwtch
  <2>1. /\ todo = <<>> /\ UNCHANGED <<todo, call>>
        /\ \E next : status' = [status EXCEPT ![run] = IF status[run] = "RUNNING"
                                                     THEN "READY" ELSE @,
                                           ![next] = "RUNNING"]
    BY <1>8 DEF kSwtch, callVars
  <2>2. StatusKept /\ NoneFallsAsleep
    BY <2>1 DEF CallInv, StatusKept, NoneFallsAsleep, Sleeps
  <2> QED BY <2>1, <2>2, QuietKeeps, CompletionKeeps DEF WaitTodoInv, Separate
<1> QED BY <1>2, <1>3, <1>4, <1>5, <1>6, <1>7, <1>8 DEF KernelStep

\* A call of a task, or an interrupt, that leaves one wake-up, rounds of
\* inheritance, or nothing.
LEMMA FreshTodo ==
  ASSUME NEW a, Walks(a),
         \/ todo' = a \/ todo' = <<>> \/ \E c : todo' = <<c>>
         \/ \E c : todo' = a \o <<c>>
  PROVE  WaitTodoInv'
<1>1. Separate(a) /\ a \in Seq(ToSet(a))
  <2>1. \A c \in ToSet(a) : c.op = "updatePrio"
    BY DEF Walks
  <2> QED BY <2>1 DEF Walks, Separate
<1>2. CASE \E c : todo' = <<c>>
  BY <1>2, SingleList DEF WaitTodoInv, Separate
<1>3. CASE \E c : todo' = a \o <<c>>
  BY <1>3, SingleList, WalksBefore DEF WaitTodoInv, Separate
<1> QED BY <1>1, <1>2, <1>3, EmptyList DEF WaitTodoInv, Separate

LEMMA WaitExecuting ==
  ASSUME Executing
  PROVE  todo = <<>> /\ run # PostProc /\ run \in Task
BY DEF Executing, UserTask

\* The mutex is handed over or set free.
LEMMA UnlockKeeps ==
  ASSUME NEW m, UnlockFree(m) \/ UnlockHandOff(m)
  PROVE  WaitTodoInv'
<1>1. CASE UnlockFree(m)
  <2>1. \E a : Walks(a) /\ todo' = a
    BY <1>1, WalkLists DEF UnlockFree, FreeMutex
  <2> QED BY <2>1, FreshTodo
<1>2. CASE UnlockHandOff(m)
  <2>1. \E a, c : Walks(a) /\ todo' = a \o <<c>>
    BY <1>2, WalkLists DEF UnlockHandOff
  <2> QED BY <2>1, FreshTodo
<1> QED BY <1>1, <1>2

\* What a call of a task leaves: it goes on, or is suspended but not for events.
LEMMA GoesOn ==
  ASSUME CallInv, todo = <<>>, UNCHANGED <<status, call>>
  PROVE  KeepsWakes /\ CallKept /\ StatusKept
BY StatusSame, QuietKeeps, CompletionKeeps

LEMMA Suspended ==
  ASSUME CallInv, todo = <<>>, run # PostProc, NEW st, st # "SLEEPING_EV_FLAG",
         status' = [status EXCEPT ![run] = st],
         UNCHANGED call \/ \E c : call' = [call EXCEPT ![run] = c]
  PROVE  KeepsWakes /\ CallKept /\ StatusKept
<1>1. StatusKept /\ NoneFallsAsleep
  BY StatusSet
<1>2. CallKept
  BY CompletionKeeps, SuspensionKeeps
<1> QED BY <1>1, <1>2, QuietKeeps

\* A task other than PostProc begins to wait for a mutex.
LEMMA WaitForMutexKeeps ==
  ASSUME CallInv, todo = <<>>, run # PostProc, NEW m, NEW timeout, NEW c,
         WaitForMutex(m, timeout, c)
  PROVE  KeepsWakes /\ WaitTodoInv' /\ CallKept /\ StatusKept
<1>1. /\ status' = [status EXCEPT ![run] = "BLOCKED"]
      /\ call' = [call EXCEPT ![run] = c]
      /\ \E a : Walks(a) /\ todo' = a
  BY WalkLists DEF WaitForMutex
<1>2. WaitTodoInv'
  BY <1>1, FreshTodo
<1> QED BY <1>1, <1>2, Suspended

\* What a running task or the tick begins.
LEMMA CallsKeep ==
  ASSUME CallInv, WaitTodoInv,
         Tick \/ SchedCall \/ MutexCall \/ \E t : kTaskSignalReady(t)
  PROVE  KeepsWakes /\ WaitTodoInv' /\ CallKept /\ StatusKept
<1>1. ASSUME UNCHANGED todo PROVE WaitTodoInv'
  BY <1>1 DEF WaitTodoInv, Separate
<1>2. ASSUME \E c : todo' = <<c>> PROVE WaitTodoInv'
  BY <1>2, WalkLists, FreshTodo
<1>3. CASE Tick
  <2>1. /\ todo = <<>> /\ UNCHANGED <<status, call>> /\ \E c : todo' = <<c>>
    BY <1>3 DEF Tick, schedVars, callVars
  <2> QED BY <1>2, <2>1, GoesOn
<1>4. CASE SchedCall
  <2>1. CASE kSchLock \/ kSchUnlock
    <3>1. todo = <<>> /\ UNCHANGED <<status, call, todo>>
      BY <2>1, WaitExecuting DEF kSchLock, kSchUnlock
    <3> QED BY <1>1, <3>1, GoesOn
  <2>2. CASE kYield
    <3>1. /\ todo = <<>> /\ run # PostProc /\ UNCHANGED <<call, todo>>
          /\ status' = [status EXCEPT ![run] = "READY"]
      BY <2>2, WaitExecuting DEF kYield
    <3> QED BY <1>1, <3>1, Suspended
  <2>3. ASSUME NEW ticks, kSleepDelay(ticks)
        PROVE  KeepsWakes /\ WaitTodoInv' /\ CallKept /\ StatusKept
    <3>1. /\ todo = <<>> /\ run # PostProc /\ UNCHANGED todo
          /\ status' = [status EXCEPT ![run] = "SLEEPING_DELAY"]
          /\ \E c : call' = [call EXCEPT ![run] = c]
      BY <2>3, WaitExecuting DEF kSleepDelay
    <3> QED BY <1>1, <3>1, Suspended
  <2>4. CASE kTaskSelfSuspend
    <3>1. /\ todo = <<>> /\ run # PostProc /\ UNCHANGED todo
          /\ status' = [status EXCEPT ![run] = "SELF_SUSPENDED"]
          /\ \E c : call' = [call EXCEPT ![run] = c]
      BY <2>4, WaitExecuting DEF kTaskSelfSuspend
    <3> QED BY <1>1, <3>1, Suspended
  <2>5. ASSUME NEW t, kTaskResume(t)
        PROVE  KeepsWakes /\ WaitTodoInv' /\ CallKept /\ StatusKept
    <3>1. todo = <<>> /\ UNCHANGED <<status, call>> /\ \E c : todo' = <<c>>
      BY <2>5, WaitExecuting DEF kTaskResume, schedVars
    <3> QED BY <1>2, <3>1, GoesOn
  <2> QED BY <1>4, <2>1, <2>2, <2>3, <2>4, <2>5 DEF SchedCall
<1>5. CASE MutexCall
  <2>1. ASSUME NEW m, NEW timeout, kMutexLock(m, timeout)
        PROVE  KeepsWakes /\ WaitTodoInv' /\ CallKept /\ StatusKept
    <3>1. todo = <<>> /\ run # PostProc
      BY <2>1, WaitExecuting DEF kMutexLock
    <3>2. CASE LockFaulted(m) \/ LockFree(m) \/ LockNoWait(m, timeout)
      <4>1. UNCHANGED <<status, call, todo>>
        BY <3>2 DEF LockFaulted, LockFree, TakeMutex, OwnMutex, LockNoWait, schedVars
      <4> QED BY <1>1, <3>1, <4>1, GoesOn
    <3>3. CASE LockBlock(m, timeout)
      BY <3>1, <3>3, WaitForMutexKeeps DEF LockBlock
    <3> QED BY <2>1, <3>2, <3>3 DEF kMutexLock
  <2>2. ASSUME NEW m, kMutexUnlock(m)
        PROVE  KeepsWakes /\ WaitTodoInv' /\ CallKept /\ StatusKept
    <3>1. todo = <<>> /\ UNCHANGED <<status, call>>
      BY <2>2, WaitExecuting DEF kMutexUnlock, schedVars
    <3>2. WaitTodoInv'
      BY <2>2, UnlockKeeps DEF kMutexUnlock
    <3> QED BY <3>1, <3>2, GoesOn
  <2> QED BY <1>5, <2>1, <2>2 DEF MutexCall
<1>6. ASSUME NEW t, kTaskSignalReady(t)
      PROVE  KeepsWakes /\ WaitTodoInv' /\ CallKept /\ StatusKept
  <2>1. /\ todo = <<>> /\ UNCHANGED <<status, call>>
        /\ \E a, c : Walks(a) /\ todo' = a \o <<c>>
    BY <1>6, WaitExecuting, WalkLists DEF kTaskSignalReady, schedVars
  <2>2. WaitTodoInv'
    BY <2>1, FreshTodo
  <2> QED BY <2>1, <2>2, GoesOn
<1> QED BY <1>3, <1>4, <1>5, <1>6

(***************************************************************************)
(* The steps of sleep queues and condition variables.                      *)
(***************************************************************************)
\* A step that is about neither events nor jobs.
Ordinary == KeepsWakes /\ WaitTodoInv' /\ CallInv' /\ UNCHANGED <<postVars, event>>

LEMMA JobFrame ==
  ASSUME JobInv, UNCHANGED postVars,
         Sleeps(PostProc)' => Sleeps(PostProc) /\ (Woken(PostProc) => Woken(PostProc)')
  PROVE  JobInv'
BY DEF JobInv, postVars

LEMMA OrdinaryStep ==
  ASSUME WaitInv, Ordinary
  PROVE  WaitInv'
<1>1. UNCHANGED event /\ UNCHANGED postVars /\ PostProc \in Task
  BY PostProcConstants DEF Ordinary
<1>2. EventInv'
  BY <1>1 DEF WaitInv, EventInv, Ordinary, KeepsWakes
<1>3. JobInv'
  BY <1>1, JobFrame DEF WaitInv, Ordinary, KeepsWakes
<1> QED BY <1>2, <1>3 DEF WaitInv, Ordinary

DoingKept ==
  doing' # None =>
    /\ "step" \in DOMAIN doing'
    /\ doing'.step \in {"release", "sleep", "relocked"} => run' # PostProc

LEMMA OrdinaryFrom ==
  ASSUME KeepsWakes, CallKept, StatusKept, WaitTodoInv', DoingKept,
         UNCHANGED <<postVars, event>>
  PROVE  Ordinary
BY DEF Ordinary, CallKept, StatusKept, DoingKept, CallInv

\* A system call under way ends before anybody else runs.
LEMMA KernelBetweenOrdinary ==
  ASSUME CallInv, WaitTodoInv, KernelBetween
  PROVE  Ordinary
<1>1. KeepsWakes /\ WaitTodoInv' /\ CallKept /\ StatusKept
  BY KernelStepKeeps, CallsKeep DEF KernelBetween
<1>2. UNCHANGED <<postVars, event, doing>>
  BY DEF KernelBetween, waitSvcVars
<1>3. run' = run \/ doing = None \/ run = PostProc
  <2>1. CASE kSwtch
    BY <2>1 DEF KernelBetween, NoCallUnderWay, kSwtch
  <2>2. ASSUME KernelStep, ~kSwtch PROVE run' = run
    BY <2>2 DEF KernelStep, UpdatePrio, ReadySwtch, TimeoutExpire, TimeoutReady,
                TickEnd, SignalReady, schedVars
  <2>3. ASSUME Tick \/ SchedCall \/ \E t : kTaskSignalReady(t) PROVE run' = run
    BY <2>3 DEF Tick, SchedCall, kSchLock, kSchUnlock, kYield, kSleepDelay,
                kTaskSelfSuspend, kTaskResume, kTaskSignalReady, schedVars
  <2>4. ASSUME MutexCall PROVE run' = run
    BY <2>4 DEF MutexCall, kMutexLock, LockFaulted, LockFree, TakeMutex, LockNoWait,
                LockBlock, WaitForMutex, kMutexUnlock, schedVars
  <2> QED BY <2>1, <2>2, <2>3, <2>4 DEF KernelBetween
<1>4. DoingKept
  BY <1>2, <1>3 DEF DoingKept, CallInv
<1> QED BY <1>1, <1>2, <1>4, OrdinaryFrom

\* The rounds of kSleepQueueWake.
LEMMA WakeOrdinary ==
  ASSUME WaitInv, WakeTest \/ WakeLock \/ WakeOne \/ WakeResched \/ WakeEnd
  PROVE  Ordinary
<1> USE DEF WaitInv
<1>1. todo = <<>> /\ doing # None
  BY DEF WakeTest, WakeLock, WakeOne, WakeResched, WakeEnd, At
<1>2. UNCHANGED <<postVars, event, todo, run>> /\ WaitTodoInv'
  <2>1. UNCHANGED <<postVars, event, todo, run>>
    BY DEF WakeTest, WakeLock, WakeOne, WakeResched, WakeEnd, kernelVars, schedVars
  <2> QED BY <2>1 DEF WaitTodoInv, Separate
<1>3. DoingKept
  <2>1. CASE WakeTest
    BY <2>1 DEF WakeTest, WakeOf, DoingKept
  <2>2. CASE WakeLock
    BY <2>2 DEF WakeLock, At, DoingKept, CallInv
  <2>3. CASE WakeOne
    <3>1. /\ "step" \in DOMAIN doing /\ doing.step = "loop"
          /\ \E n, w : doing' = [doing EXCEPT !.count = n, !.chosen = w]
      BY <2>3 DEF WakeOne, At, CallInv
    <3> QED BY <3>1 DEF DoingKept
  <2>4. CASE WakeResched
    BY <2>4 DEF WakeResched, At, DoingKept, CallInv
  <2>5. CASE WakeEnd
    BY <2>5 DEF WakeEnd, DoingKept
  <2> QED BY <2>1, <2>2, <2>3, <2>4, <2>5
<1>4. KeepsWakes /\ CallKept /\ StatusKept
  <2>1. CASE WakeOne
    <3>1. PICK w : status' = [status EXCEPT ![w] = "READY"] /\ kSyscallTaskWake(w)
      BY <2>1 DEF WakeOne
    <3>2. StatusKept /\ NoneFallsAsleep
      BY <3>1, StatusSet
    <3> QED BY <1>1, <3>1, <3>2, CompletionKeeps, QuietKeeps
  <2>2. CASE ~WakeOne
    <3>1. UNCHANGED <<status, call>>
      BY <2>2 DEF WakeTest, WakeLock, WakeResched, WakeEnd, kernelVars, schedVars, callVars
    <3> QED BY <1>1, <3>1, GoesOn
  <2> QED BY <2>1, <2>2
<1> QED BY <1>2, <1>3, <1>4, OrdinaryFrom

\* The wait on a condition variable: it is made by a task, not by PostProc.
LEMMA CondOrdinary ==
  ASSUME WaitInv, CondRelease \/ CondSleep \/ CondRelock \/ CondReturn
  PROVE  Ordinary
<1> USE DEF WaitInv
<1>1. todo = <<>> /\ UNCHANGED <<postVars, event>>
  BY DEF CondRelease, CondSleep, CondRelock, CondReturn, At, Restarted
<1>2. CASE CondRelease
  <2>1. /\ UNCHANGED <<status, call, run>> /\ run # PostProc /\ "step" \in DOMAIN doing
        /\ doing' = [doing EXCEPT !.step = "sleep"]
    BY <1>2 DEF CondRelease, At, CallInv, schedVars, callVars
  <2>2. WaitTodoInv'
    BY <1>2, UnlockKeeps DEF CondRelease
  <2>3. DoingKept
    BY <2>1 DEF DoingKept
  <2> QED BY <1>1, <2>1, <2>2, <2>3, GoesOn, OrdinaryFrom
<1>3. CASE CondSleep
  <2>1. /\ UNCHANGED <<todo, run>> /\ run # PostProc /\ doing' = None
        /\ status' = [status EXCEPT ![run] = "SLEEPING"]
        /\ \E c : call' = [call EXCEPT ![run] = c]
    BY <1>3 DEF CondSleep, SleepOn, At, CallInv
  <2>2. WaitTodoInv' /\ DoingKept
    BY <2>1 DEF WaitTodoInv, Separate, DoingKept
  <2>3. KeepsWakes /\ CallKept /\ StatusKept
    BY <1>1, <2>1, Suspended
  <2> QED BY <1>1, <2>2, <2>3, OrdinaryFrom
<1>4. CASE CondRelock
  <2> DEFINE c == call[run].arg
             m == Monitor[c]
  <2>1. run # PostProc
    BY <1>4 DEF CondRelock, Restarted, CallInv
  <2>2. CASE OwnMutex(m) /\ doing' = [step |-> "relocked", obj |-> c]
              /\ UNCHANGED <<schedVars, callVars>>
    <3>1. UNCHANGED <<status, call, run, todo>>
      BY <2>2 DEF OwnMutex, schedVars, callVars
    <3>2. WaitTodoInv' /\ DoingKept
      BY <2>1, <2>2, <3>1 DEF WaitTodoInv, Separate, DoingKept
    <3> QED BY <1>1, <3>1, <3>2, GoesOn, OrdinaryFrom
  <2>3. ASSUME NEW cont, WaitForMutex(m, Forever, cont), UNCHANGED doing PROVE Ordinary
    <3>1. UNCHANGED run
      BY <2>3 DEF WaitForMutex
    <3>2. KeepsWakes /\ WaitTodoInv' /\ CallKept /\ StatusKept
      <4> HIDE DEF m
      <4> QED BY <1>1, <2>1, <2>3, WaitForMutexKeeps
    <3>3. DoingKept
      BY <2>3, <3>1 DEF DoingKept, CallInv
    <3> QED BY <1>1, <3>2, <3>3, OrdinaryFrom
  <2> QED BY <1>4, <2>2, <2>3 DEF CondRelock
<1>5. CASE CondReturn
  <2>1. /\ UNCHANGED <<status, todo, run>> /\ doing' = None
        /\ kSyscallTaskComplete_(run, call[run].wake)
    BY <1>5 DEF CondReturn
  <2>2. WaitTodoInv' /\ DoingKept
    BY <2>1 DEF WaitTodoInv, Separate, DoingKept
  <2>3. CallKept
    BY <2>1, CompletionKeeps
  <2> QED BY <1>1, <2>1, <2>2, <2>3, StatusSame, QuietKeeps, OrdinaryFrom
<1> QED BY <1>2, <1>3, <1>4, <1>5

\* The calls of tasks, and the signal of an interrupt, on a sleep queue.
LEMMA SleepCallOrdinary ==
  ASSUME WaitInv, NEW q, NEW timeout, NEW n, NEW t,
         \/ kSleepQueueSleep(q, timeout) \/ kCondVarWait(q) \/ kSleepQueueSignal(q)
         \/ IsrSignal(q) \/ kSleepQueueWake(q, n) \/ kSleepQueueReady(q, t)
         \/ kSleepQueueUnready(q, t)
  PROVE  Ordinary
<1> USE DEF WaitInv
<1>1. ASSUME UNCHANGED <<status, call, run, doing, postVars, event>>, todo = <<>>,
             UNCHANGED todo \/ \E c : todo' = <<c>>
      PROVE  Ordinary
  <2>1. WaitTodoInv'
    BY <1>1, WalkLists, FreshTodo
  <2>2. DoingKept
    BY <1>1 DEF DoingKept, CallInv
  <2> QED BY <1>1, <2>1, <2>2, GoesOn, OrdinaryFrom
<1>2. ASSUME NEW number, NEW o, NEW err, Refuse(number, o, err), UNCHANGED <<doing, postVars, event>>,
             todo = <<>>
      PROVE  Ordinary
  BY <1>1, <1>2 DEF Refuse, schedVars
<1>3. CASE kSleepQueueSleep(q, timeout)
  <2>1. todo = <<>> /\ run # PostProc /\ UNCHANGED <<doing, postVars, event>>
    BY <1>3, WaitExecuting DEF kSleepQueueSleep, Calling, waitSvcVars
  <2>2. CASE SleepOn(q, timeout, "SLEEP_QUEUE_SLEEP")
    <3>1. /\ UNCHANGED <<todo, run>> /\ status' = [status EXCEPT ![run] = "SLEEPING"]
          /\ \E c : call' = [call EXCEPT ![run] = c]
      BY <2>2 DEF SleepOn
    <3>2. WaitTodoInv' /\ DoingKept
      BY <2>1, <3>1 DEF WaitTodoInv, Separate, DoingKept, CallInv
    <3>3. KeepsWakes /\ CallKept /\ StatusKept
      BY <2>1, <3>1, Suspended
    <3> QED BY <2>1, <3>2, <3>3, OrdinaryFrom
  <2> QED BY <1>2, <1>3, <2>1, <2>2 DEF kSleepQueueSleep
<1>4. CASE kCondVarWait(q)
  <2>1. /\ todo = <<>> /\ run # PostProc /\ UNCHANGED <<status, call, todo, run, postVars, event>>
        /\ doing' = [step |-> "release", obj |-> q]
    BY <1>4, WaitExecuting DEF kCondVarWait, Calling, callVars
  <2>2. WaitTodoInv' /\ DoingKept
    BY <2>1 DEF WaitTodoInv, Separate, DoingKept
  <2> QED BY <2>1, <2>2, GoesOn, OrdinaryFrom
<1>5. ASSUME SignalOne(q), UNCHANGED <<doing, postVars, event>>, todo = <<>>
      PROVE  Ordinary
  BY <1>1, <1>5 DEF SignalOne, WakeHead, schedVars
<1>6. CASE kSleepQueueSignal(q)
  BY <1>2, <1>5, <1>6, WaitExecuting DEF kSleepQueueSignal, Calling, waitSvcVars
<1>7. CASE IsrSignal(q)
  BY <1>5, <1>7 DEF IsrSignal, Isr
<1>8. CASE kSleepQueueWake(q, n)
  <2>1. todo = <<>> /\ UNCHANGED <<postVars, event>>
    BY <1>8, WaitExecuting DEF kSleepQueueWake, Calling
  <2>2. CASE UNCHANGED kernelVars /\ doing' = WakeOf(q, n)
    <3>1. UNCHANGED <<status, call, todo>>
      BY <2>2 DEF kernelVars, schedVars, callVars
    <3>2. WaitTodoInv' /\ DoingKept
      BY <2>2, <3>1 DEF WaitTodoInv, Separate, DoingKept, WakeOf
    <3> QED BY <2>1, <3>1, <3>2, GoesOn, OrdinaryFrom
  <2> QED BY <1>2, <1>8, <2>1, <2>2 DEF kSleepQueueWake
<1>9. CASE kSleepQueueReady(q, t)
  BY <1>1, <1>9, WaitExecuting DEF kSleepQueueReady, Calling, schedVars, waitSvcVars
<1>10. CASE kSleepQueueUnready(q, t)
  <2>1. /\ todo = <<>> /\ UNCHANGED <<call, todo, run, doing, postVars, event>>
        /\ status' = [status EXCEPT ![t] = "SLEEPQ_BLOCKED"]
    BY <1>10, WaitExecuting DEF kSleepQueueUnready, Calling, waitSvcVars
  <2>2. WaitTodoInv' /\ DoingKept
    BY <2>1 DEF WaitTodoInv, Separate, DoingKept, CallInv
  <2>3. StatusKept /\ NoneFallsAsleep
    BY <2>1, StatusSet
  <2> QED BY <2>1, <2>2, <2>3, QuietKeeps, CompletionKeeps, OrdinaryFrom
<1> QED BY <1>3, <1>4, <1>6, <1>7, <1>8, <1>9, <1>10

(***************************************************************************)
(* The jobs of PostProc.                                                   *)
(***************************************************************************)
\* A step that is about jobs only.
JobStep == KeepsWakes /\ WaitTodoInv' /\ CallInv' /\ UNCHANGED event

LEMMA JobStepKeeps ==
  ASSUME WaitInv, JobStep, JobInv'
  PROVE  WaitInv'
BY DEF WaitInv, JobStep, EventInv, KeepsWakes

\* A job is queued: PostProc is signalled, and woken if it sleeps.
LEMMA IsrWakeStep ==
  ASSUME WaitInv, NEW q, NEW n, IsrWake(q, n)
  PROVE  WaitInv'
<1> DEFINE job == [job |-> "SLEEPQ_WAKE", obj |-> q, n |-> WakeOf(q, n).count]
<1>1. /\ todo = <<>> /\ UNCHANGED <<status, call, run, doing, event, postStep, budget>>
      /\ Len(jobs) < QLen /\ jobs' = Append(jobs, job) /\ postSig' = TRUE
      /\ todo' = IF Sleeps(PostProc) THEN <<ReadySwtchOf(PostProc)>> ELSE <<>>
  BY DEF IsrWake, Isr, JobRoom, JobEnq, schedVars, callVars, Sleeps
<1> HIDE DEF job
<1>2. WaitTodoInv'
  BY <1>1, WalkLists, FreshTodo
<1>3. CallInv'
  BY <1>1 DEF WaitInv, CallInv
<1>4. KeepsWakes
  BY <1>1, QuietKeeps DEF NoneFallsAsleep, Sleeps
<1>5. Sleeps(PostProc)' => Woken(PostProc)'
  BY <1>1, SingleList DEF Sleeps, Woken
<1>6. jobs' \in Seq(ToSet(jobs')) /\ Len(jobs') = Len(jobs) + 1
  <2>1. jobs \in Seq(ToSet(jobs) \cup {job})
    BY SeqMonotonic DEF WaitInv, JobInv
  <2>2. jobs' \in Seq(ToSet(jobs) \cup {job}) /\ Len(jobs') = Len(jobs) + 1
    BY <1>1, <2>1, AppendProperties
  <2> QED BY <2>2, ElementsSuffice
<1>7. Len(jobs) \in Nat /\ QLen \in Nat
  BY LenProperties, PostProcConstants DEF WaitInv, JobInv
<1>8. JobInv'
  BY <1>1, <1>5, <1>6, <1>7 DEF WaitInv, JobInv
<1> QED BY <1>1, <1>2, <1>3, <1>4, <1>8, JobStepKeeps DEF JobStep

\* PostProc takes a job: one job and one of its budget less.
LEMMA PostProcWakeStep ==
  ASSUME WaitInv, NEW job, PostProcWake(job)
  PROVE  WaitInv'
<1>1. /\ todo = <<>> /\ UNCHANGED <<status, call, todo, event, postStep, postSig>>
      /\ jobs # <<>> /\ jobs' = Tail(jobs) /\ budget > 0 /\ budget' = budget - 1
      /\ \E o, c, n : doing' = [step |-> "test", obj |-> o, chosen |-> c, count |-> n]
  BY DEF PostProcWake, JobDeq, PostProcAt, kernelVars, schedVars, callVars
<1>2. WaitTodoInv' /\ KeepsWakes
  BY <1>1, QuietKeeps DEF WaitInv, WaitTodoInv, Separate, NoneFallsAsleep, Sleeps
<1>3. CallInv'
  BY <1>1 DEF WaitInv, CallInv
<1>4. jobs' \in Seq(ToSet(jobs')) /\ Len(jobs') = Len(jobs) - 1 /\ Len(jobs) \in Nat
  <2>1. jobs' \in Seq(ToSet(jobs)) /\ Len(jobs') = Len(jobs) - 1 /\ Len(jobs) \in Nat
    BY <1>1, HeadTailProperties, LenProperties DEF WaitInv, JobInv
  <2> QED BY <2>1, ElementsSuffice
<1>5. ~Sleeps(PostProc)' \/ Woken(PostProc)'
  BY <1>1 DEF WaitInv, JobInv, Sleeps, Woken
<1>6. JobInv'
  BY <1>1, <1>4, <1>5, PostProcConstants DEF WaitInv, JobInv
<1> QED BY <1>1, <1>2, <1>3, <1>6, JobStepKeeps DEF JobStep

\* PostProc wakes, looks for faults, and waits again when no job is left, or
\* none that it was not signalled for.
LEMMA PostProcLoopStep ==
  ASSUME WaitInv, PostProcResume \/ PostProcScanned \/ PostProcWait,
         UNCHANGED waitSvcVars
  PROVE  WaitInv'
<1>1. /\ todo = <<>> /\ UNCHANGED <<call, todo, event, doing, jobs, run>>
      /\ run = PostProc
  BY DEF PostProcResume, PostProcScanned, PostProcWait, PostProcEventGet, PostProcAt,
         kernelVars, schedVars, callVars, waitSvcVars
<1>2. WaitTodoInv'
  BY <1>1 DEF WaitInv, WaitTodoInv, Separate
<1>3. Len(jobs) \in Nat /\ QLen \in Nat /\ PostProc \in Task
  BY LenProperties, PostProcConstants DEF WaitInv, JobInv
<1>4. CASE PostProcResume \/ PostProcScanned
  <2>1. UNCHANGED status
    BY <1>4 DEF PostProcResume, PostProcScanned, kernelVars, schedVars
  <2>2. KeepsWakes /\ CallInv'
    BY <1>1, <2>1, QuietKeeps DEF WaitInv, CallInv, NoneFallsAsleep, Sleeps
  <2>3. \/ postStep' = "scan" /\ UNCHANGED budget
        \/ postStep' = "jobs" /\ budget' = QLen
    BY <1>4 DEF PostProcResume, PostProcScanned
  <2>4. JobInv'
    BY <1>1, <1>3, <2>1, <2>3 DEF WaitInv, JobInv, Sleeps, Woken
  <2> QED BY <1>1, <1>2, <2>2, <2>4, JobStepKeeps DEF JobStep
<1>5. CASE PostProcWait /\ postSig
  <2>1. UNCHANGED status /\ postStep' = "scan" /\ budget' = 0
    BY <1>5 DEF PostProcWait, PostProcEventGet
  <2>2. KeepsWakes /\ CallInv'
    BY <1>1, <2>1, QuietKeeps DEF WaitInv, CallInv, NoneFallsAsleep, Sleeps
  <2>3. JobInv'
    BY <1>1, <1>3, <2>1 DEF WaitInv, JobInv, Sleeps, Woken
  <2> QED BY <1>1, <1>2, <2>2, <2>3, JobStepKeeps DEF JobStep
<1>6. CASE PostProcWait /\ ~postSig
  <2>1. /\ postStep = "jobs" /\ postStep' = "wait" /\ budget' = 0
        /\ status' = [status EXCEPT ![PostProc] = "SLEEPING_EV_FLAG"]
        /\ jobs = <<>> \/ budget = 0
    BY <1>1, <1>6 DEF PostProcWait, PostProcEventGet, PostProcAt
  <2>2. jobs = <<>>
    <3>1. Len(jobs) <= budget
      BY <1>6, <2>1 DEF WaitInv, JobInv
    <3> QED BY <1>3, <2>1, <3>1, EmptySeq DEF WaitInv, JobInv
  <2>3. JobInv'
    BY <1>1, <2>1, <2>2 DEF WaitInv, JobInv
  <2>4. CallInv'
    BY <1>1, <2>1 DEF WaitInv, CallInv
  <2>5. EventInv'
    <3>1. \A t \in Task \ {PostProc} : Sleeps(t)' <=> Sleeps(t)
      BY <2>1 DEF WaitInv, CallInv, Sleeps
    <3> QED BY <1>1, <3>1 DEF WaitInv, EventInv, Woken
  <2> QED BY <1>2, <2>3, <2>4, <2>5 DEF WaitInv
<1> QED BY <1>4, <1>5, <1>6

(***************************************************************************)
(* Event flags.                                                            *)
(***************************************************************************)
\* Clearing flags meets no request, and nothing meets the empty one.
LEMMA MetMonotone ==
  ASSUME NEW a \in EventRecord, NEW b \in EventRecord, a.curr \subseteq b.curr,
         a.req = b.req, a.all = b.all, Met(a)
  PROVE  Met(b)
BY DEF Met, EventRecord

LEMMA NoRequestFacts ==
  ASSUME NEW curr \in SUBSET Flag
  PROVE  NoRequest(curr) \in EventRecord /\ ~Met(NoRequest(curr))
BY DEF NoRequest, EventRecord, Met

\* What kEventGet leaves: the task goes on, or sleeps for flags not yet set.
LEMMA EventTestStep ==
  ASSUME WaitInv, NEW req, NEW all, NEW timeout,
         run \in Task => req \in SUBSET Flag /\ all \in BOOLEAN,
         todo = <<>>, run # PostProc, EventTest(req, all, timeout), EventFrame
  PROVE  WaitInv'
<1> DEFINE e == [curr |-> event[run].curr, req |-> req, all |-> all]
<1>1. UNCHANGED <<todo, postVars, doing, run>>
  BY DEF EventFrame
<1>2. WaitTodoInv'
  BY <1>1 DEF WaitInv, WaitTodoInv, Separate
<1>3. \/ UNCHANGED status
      \/ status' = [status EXCEPT ![run] = "SLEEPING_EV_FLAG"]
  BY DEF EventTest
<1>4. \A t \in Task \ {run} : Sleeps(t)' => Sleeps(t)
  BY <1>3 DEF WaitInv, CallInv, Sleeps
<1>5. UNCHANGED call \/ \E c : call' = [call EXCEPT ![run] = c]
  BY DEF EventTest
<1>6. CallInv'
  <2>1. CallKept
    BY <1>5, CompletionKeeps, SuspensionKeeps DEF WaitInv
  <2>2. StatusKept
    BY <1>3 DEF WaitInv, CallInv, StatusKept
  <2> QED BY <1>1, <2>1, <2>2 DEF WaitInv, CallInv, CallKept, StatusKept
<1>7. JobInv'
  <2>1. Sleeps(PostProc)' => Sleeps(PostProc)
    BY <1>4, PostProcConstants
  <2> QED BY <1>1, <2>1, JobFrame DEF WaitInv, Woken
<1>8. \E r : /\ event' = [event EXCEPT ![run] = r]
             /\ run \in Task => r \in EventRecord /\ ~Met(r)
  <2>1. run \in Task => e \in EventRecord
    BY DEF WaitInv, EventInv, EventRecord
  <2>2. run \in Task => e.curr \ req \in SUBSET Flag
    BY <2>1 DEF EventRecord
  <2>3. \/ event' = [event EXCEPT ![run] = NoRequest(e.curr \ req)]
        \/ ~Met(e) /\ event' = [event EXCEPT ![run] = e]
    BY DEF EventTest
  <2> HIDE DEF e
  <2> QED BY <2>1, <2>2, <2>3, NoRequestFacts
<1>9. EventInv'
  <2>1. PICK r : /\ event' = [event EXCEPT ![run] = r]
                 /\ run \in Task => r \in EventRecord /\ ~Met(r)
    BY <1>8
  <2>2. event' \in [Task -> EventRecord]
    BY <2>1 DEF WaitInv, EventInv
  <2>3. ASSUME NEW t \in Task \ {PostProc}, Sleeps(t)', Met(event'[t])
        PROVE  Woken(t)'
    <3>1. t # run
      BY <2>1, <2>3 DEF WaitInv, EventInv
    <3>2. event'[t] = event[t] /\ Sleeps(t)
      BY <1>4, <2>1, <2>3, <3>1 DEF WaitInv, EventInv
    <3> QED BY <1>1, <2>3, <3>2 DEF WaitInv, EventInv, Woken
  <2> QED BY <2>2, <2>3 DEF EventInv
<1> QED BY <1>2, <1>6, <1>7, <1>9 DEF WaitInv

\* Setting flags wakes the sleeper they are enough for.
LEMMA EventSetStep ==
  ASSUME WaitInv, NEW t, NEW f \in Flag, kEventSet(t, {f})
  PROVE  WaitInv'
<1>1. /\ todo = <<>> /\ UNCHANGED <<status, call, run, doing, postVars>>
      /\ event' = [event EXCEPT ![t].curr = @ \cup {f}]
      /\ todo' = IF Sleeps(t) /\ Met(event'[t]) THEN <<ReadySwtchOf(t)>> ELSE todo
  BY WaitExecuting DEF kEventSet, SetFlags, Calling, Isr, schedVars, Sleeps
<1>2. WaitTodoInv'
  BY <1>1, WalkLists, FreshTodo
<1>3. CallInv' /\ KeepsWakes
  BY <1>1, QuietKeeps DEF WaitInv, CallInv, NoneFallsAsleep, Sleeps
<1>4. JobInv'
  BY <1>1, <1>3, JobFrame, PostProcConstants DEF WaitInv, KeepsWakes
<1>5. event' \in [Task -> EventRecord]
  BY <1>1 DEF WaitInv, EventInv, EventRecord
<1>6. ASSUME NEW u \in Task \ {PostProc}, Sleeps(u)', Met(event'[u])
      PROVE  Woken(u)'
  <2>1. Sleeps(u)
    BY <1>1, <1>6 DEF Sleeps
  <2>2. CASE u = t
    BY <1>1, <1>6, <2>1, <2>2, SingleList DEF Woken
  <2>3. CASE u # t
    <3>1. event'[u] = event[u]
      BY <1>1, <2>3 DEF WaitInv, EventInv
    <3>2. Woken(u)
      BY <1>6, <2>1, <3>1 DEF WaitInv, EventInv
    <3> QED BY <1>1, <3>2, NoneWokenYet
  <2> QED BY <2>2, <2>3
<1>7. EventInv'
  BY <1>5, <1>6 DEF EventInv
<1> QED BY <1>2, <1>3, <1>4, <1>7 DEF WaitInv

\* Clearing flags gives nobody a reason to wake.
LEMMA EventClearStep ==
  ASSUME WaitInv, NEW t, NEW f \in Flag, kEventClear(t, {f})
  PROVE  WaitInv'
<1>1. /\ todo = <<>> /\ UNCHANGED <<status, call, run, doing, todo, postVars>>
      /\ event' = [event EXCEPT ![t].curr = @ \ {f}]
  BY WaitExecuting DEF kEventClear, Calling, schedVars
<1>2. CallInv' /\ WaitTodoInv' /\ KeepsWakes
  BY <1>1, QuietKeeps DEF WaitInv, CallInv, WaitTodoInv, Separate, NoneFallsAsleep, Sleeps
<1>3. JobInv'
  BY <1>1, <1>2, JobFrame, PostProcConstants DEF WaitInv, KeepsWakes
<1>4. event' \in [Task -> EventRecord] /\ event \in [Task -> EventRecord]
  BY <1>1 DEF WaitInv, EventInv, EventRecord
<1>5. ASSUME NEW u \in Task \ {PostProc}, Sleeps(u)', Met(event'[u])
      PROVE  Woken(u)'
  <2>1. /\ event'[u].curr \subseteq event[u].curr /\ event'[u].req = event[u].req
        /\ event'[u].all = event[u].all
    BY <1>1, <1>4 DEF EventRecord
  <2>2. event[u] \in EventRecord /\ event'[u] \in EventRecord
    BY <1>4
  <2>3. Met(event[u])
    BY <1>5, <2>1, <2>2, MetMonotone
  <2> QED BY <1>1, <1>5, <2>3 DEF WaitInv, EventInv, Sleeps, Woken
<1>6. EventInv'
  BY <1>4, <1>5 DEF EventInv
<1> QED BY <1>2, <1>3, <1>6 DEF WaitInv

(***************************************************************************)
(* The theorems.                                                           *)
(***************************************************************************)
LEMMA WaitStep ==
  ASSUME WaitInv, [WaitNext]_allVars
  PROVE  WaitInv'
<1>1. CASE UNCHANGED allVars
  BY <1>1 DEF allVars, kernelVars, schedVars, callVars, postVars, waitSvcVars, WaitInv,
              CallInv, WaitTodoInv, Separate, EventInv, JobInv, Sleeps, Woken
<1>2. CASE KernelBetween
  BY <1>2, KernelBetweenOrdinary, OrdinaryStep DEF WaitInv
<1>3. CASE PostProcStep
  BY <1>3, PostProcLoopStep, PostProcWakeStep DEF PostProcStep
<1>4. CASE CallStep
  BY <1>4, WakeOrdinary, CondOrdinary, OrdinaryStep DEF CallStep
<1>5. CASE SleepCall
  BY <1>5, SleepCallOrdinary, OrdinaryStep, IsrWakeStep DEF SleepCall
<1>6. CASE EventCall
  <2>1. ASSUME NEW e \in EventRequest, NEW timeout, kEventGet(e.req, e.all, timeout)
        PROVE  WaitInv'
    <3>1. e.req \in SUBSET Flag /\ e.all \in BOOLEAN
      BY WaitConstants
    <3> QED BY <2>1, <3>1, EventTestStep, WaitExecuting DEF kEventGet, Calling
  <2> QED BY <1>6, <2>1, EventSetStep, EventClearStep DEF EventCall
<1>7. ASSUME NEW timeout, EventRestart(timeout) PROVE WaitInv'
  <2>1. todo = <<>> /\ run # PostProc
    BY <1>7 DEF EventRestart, Restarted, WaitInv, CallInv
  <2>2. run \in Task => event[run].req \in SUBSET Flag /\ event[run].all \in BOOLEAN
    BY DEF WaitInv, EventInv, EventRecord
  <2> QED BY <1>7, <2>1, <2>2, EventTestStep DEF EventRestart
<1> QED BY <1>1, <1>2, <1>3, <1>4, <1>5, <1>6, <1>7 DEF WaitNext

\* Sleepers for events that are due are on their way to be woken, and PostProc
\* keeps account of its jobs, in every interleaving of calls and interrupts.
THEOREM WaitInvariance == WaitSpec => []WaitInv
<1>1. WaitInit => WaitInv
  <2> SUFFICES ASSUME WaitInit PROVE WaitInv
    OBVIOUS
  <2>1. CallInv
    BY PostProcConstants DEF WaitInit, Init, KernelInit, CallInv, NoCall
  <2>2. WaitTodoInv
    BY EmptyList DEF WaitInit, Init, KernelInit, WaitTodoInv
  <2>3. EventInv
    <3>1. event \in [Task -> EventRecord] /\ \A t \in Task : ~Met(event[t])
      BY NoRequestFacts DEF WaitInit
    <3> QED BY <3>1 DEF EventInv
  <2>4. JobInv
    BY EmptyList, PostProcConstants DEF WaitInit, PostProcInit, JobInv
  <2> QED BY <2>1, <2>2, <2>3, <2>4 DEF WaitInv
<1>2. WaitInv /\ [WaitNext]_allVars => WaitInv'
  BY WaitStep
<1> QED BY <1>1, <1>2, PTL DEF WaitSpec

\* No task sleeps for flags that are set, whatever set, clear, expiry, signal
\* and restart come between its test and its sleep.
THEOREM NoEventMissed == WaitSpec => []NoMissedEvent
<1>1. WaitInv => NoMissedEvent
  BY NoneWokenYet DEF WaitInv, EventInv, NoMissedEvent, Quiet, Sleeps
<1> QED BY <1>1, WaitInvariance, PTL

\* PostProc does not sleep while a job is queued, whenever interrupts queue it.
THEOREM NoJobLost == WaitSpec => []NoLostJob
<1>1. WaitInv => NoLostJob
  BY NoneWokenYet DEF WaitInv, JobInv, NoLostJob, Quiet, Sleeps
<1> QED BY <1>1, WaitInvariance, PTL

(***************************************************************************)
(* Sleepers and the mutex of a condition: the inductive invariant.         *)
(***************************************************************************)
\* The task was woken from a wait on a condition and locks the mutex again.
Relocks(t) == call[t].number = "CONDVAR_WAIT" /\ call[t].phase = "RELOCK"

\* What the records of a task that waits on o say: a sleeper by kSleepQueueUnready
\* is in no call and has no timeout; one by its own call sleeps where the call
\* names, and only a timed sleep sets its node; one in the queue of a mutex has
\* its node set, and is there to lock it, or to lock it again.
WaitsOn(t, o) ==
  \/ /\ status[t] = "SLEEPQ_BLOCKED" /\ o \in SleepQ
     /\ call[t].number = "NONE" /\ wqp[t] = None /\ ~Armed(t)
  \/ /\ status[t] = "SLEEPING" /\ o \in SleepQ /\ call[t].arg = o /\ ~Relocks(t)
     /\ \/ wqp[t] = None /\ ~Armed(t)
        \/ wqp[t] = o /\ ttype[t] = "BLOCKING"
  \/ /\ status[t] = "BLOCKED" /\ o \in Mutex /\ wqp[t] = o
     /\ Armed(t) => ttype[t] = "BLOCKING"
     /\ Relocks(t) => Monitor[call[t].arg] = o

\* A task that waits is on one queue, and nothing is about to wake it; a task
\* that may be sent signals waits where its node names the queue.
Waits(t) ==
  /\ t \in UserTask /\ WakesOf(t) = {}
  /\ \E o \in WaitObj : OnQueues(t) = {o} /\ WaitsOn(t, o)
  /\ t \in app.signal => wqp[t] # None

\* A task that waits for events, for its ticks or to be resumed is on no queue.
Rests(t) ==
  /\ OnQueues(t) = {} /\ WakesOf(t) = {} /\ wqp[t] = None /\ ~Relocks(t)
  /\ \/ /\ status[t] = "SLEEPING_EV_FLAG"
        /\ Armed(t) => t # PostProc /\ ttype[t] = "EVENTFLAGS"
     \/ status[t] = "SLEEPING_DELAY" /\ (Armed(t) => ttype[t] = "TIME_EVENT")
     \/ status[t] = "SELF_SUSPENDED" /\ ~Armed(t)

\* A task whose wait is over is on no queue, and one call of the region is
\* about to make it ready; one that locks its mutex again has got it.
Leaves(t) ==
  /\ OnQueues(t) = {} /\ status[t] \notin Awake
  /\ \E op \in WakeOps :
       /\ WakesOf(t) = {[op |-> op, task |-> t]}
       /\ op = "ready" => /\ ~Armed(t) /\ wqp[t] = None
                          /\ Relocks(t) => owner[Monitor[call[t].arg]] = t
       /\ op = "timeoutReady" => ~Armed(t)

\* A task at work names no queue.
AtWork(t) == AtLarge(t) /\ wqp[t] = None

\* Every task is in one of these four cases.
Placed(t) == AtWork(t) \/ Waits(t) \/ Rests(t) \/ Leaves(t)
PlaceInv  == \A t \in Task : Placed(t)

\* Waits on conditions are about condition variables, and deferred wakes about
\* sleep queues.
WakeJob == [job : {"SLEEPQ_WAKE"}, obj : SleepQ, n : Int]
AboutCond(c) == c.number = "CONDVAR_WAIT" => c.arg \in CondVar
ArgInv ==
  /\ \A t \in Task : AboutCond(call[t]) /\ AboutCond(ret[t])
  /\ jobs \in Seq(WakeJob)

\* The call under way is a wake, or the wait on a condition of the task that
\* runs: it has the mutex of its condition but between release and sleep.
WakeRecord == [step : {"test", "lock", "loop", "unlock"}, obj : SleepQ,
               chosen : Task \cup {None}, count : Int]
CondRecord == [step : {"release", "sleep", "relocked"}, obj : CondVar]
CondUnderWay ==
  /\ doing \in CondRecord /\ run \in UserTask /\ status[run] = "RUNNING"
  /\ doing.step # "sleep" => owner[Monitor[doing.obj]] = run
  /\ doing.step # "relocked" => call[run].number = "NONE" /\ run \notin app.signal
  /\ doing.step = "relocked" =>
       call[run].number = "CONDVAR_WAIT" /\ call[run].arg = doing.obj
DoingInv == doing = None \/ doing \in WakeRecord \/ CondUnderWay

\* Who has returned with success from a wait on a condition has its mutex, or
\* is on the way into another such wait.
Succeeded(t) == ret[t].number = "CONDVAR_WAIT" /\ ret[t].err = "SUCCESS"
ResultInv ==
  \A t \in Task : Succeeded(t) =>
    \/ owner[Monitor[ret[t].arg]] = t
    \/ t = run /\ doing \in CondRecord /\ doing.step = "sleep"

\* The conjunction is inductive under SignalledTimed, below.
SleepInv ==
  KernelFacts /\ PlaceInv /\ ArgInv /\ DoingInv /\ ResultInv /\ app \in App

\* A task that may be sent signals is not put to sleep by others, and its own
\* sleeps are timed: a sleep for ever leaves its node unset, and kTaskSignalReady
\* would not find the queue.  No task yields while it locks the scheduler.
SignalledTimed ==
  /\ ~YieldWhenLocked
  /\ \A a \in App : \A t \in a.signal :
       /\ t \notin a.unready
       /\ a.wait[t] # {} => /\ Forever \notin SleepTimeout
                            /\ \A q \in a.wait[t] : Monitor[q] = None

(***************************************************************************)
(* Frames.                                                                 *)
(***************************************************************************)
\* A task nothing happens to stays where it is.
LEMMA PlaceKept ==
  ASSUME NEW t \in Task, Placed(t), Undisturbed(t), UNCHANGED app,
         UNCHANGED owner \/ WakesOf(t) = {}
  PROVE  Placed(t)'
<1>1. /\ call'[t] = call[t] /\ wqp'[t] = wqp[t] /\ ttype'[t] = ttype[t]
      /\ OnQueues(t)' = OnQueues(t) /\ (Armed(t)' <=> Armed(t)) /\ WakesOf(t)' = WakesOf(t)
      /\ status'[t] = status[t] \/ (status[t] \in Awake /\ status'[t] \in Awake)
  BY DEF Undisturbed
<1>2. Relocks(t)' <=> Relocks(t)
  BY <1>1 DEF Relocks
<1>3. CASE AtWork(t)
  BY <1>1, <1>3 DEF AtWork, AtLarge, Placed
<1>4. CASE Waits(t)
  <2>1. PICK o \in WaitObj : OnQueues(t) = {o} /\ WaitsOn(t, o)
    BY <1>4 DEF Waits
  <2>2. status'[t] = status[t]
    BY <1>1, <2>1 DEF WaitsOn, Awake
  <2>3. WaitsOn(t, o)'
    BY <1>1, <1>2, <2>1, <2>2 DEF WaitsOn
  <2>4. Waits(t)'
    BY <1>1, <1>4, <2>1, <2>3 DEF Waits
  <2> QED BY <2>4 DEF Placed
<1>5. CASE Rests(t)
  <2>1. status'[t] = status[t]
    BY <1>1, <1>5 DEF Rests, Awake
  <2> QED BY <1>1, <1>2, <1>5, <2>1 DEF Rests, Placed
<1>6. CASE Leaves(t)
  <2>1. status'[t] = status[t] /\ UNCHANGED owner
    BY <1>1, <1>6 DEF Leaves
  <2> QED BY <1>1, <1>2, <1>6, <2>1 DEF Leaves, Placed
<1> QED BY <1>3, <1>4, <1>5, <1>6 DEF Placed

\* All the tasks but one stay where they are.
LEMMA OthersKept ==
  ASSUME PlaceInv, UNCHANGED app, UNCHANGED owner \/ todo = <<>>,
         NEW x \in Task, \A u \in Task \ {x} : Undisturbed(u), Placed(x)'
  PROVE  PlaceInv'
<1>1. ASSUME NEW u \in Task \ {x} PROVE Placed(u)'
  BY PlaceKept, NobodyWoken DEF PlaceInv
<1> QED BY <1>1 DEF PlaceInv

\* All the tasks stay where they are.
LEMMA AllKept ==
  ASSUME PlaceInv, UNCHANGED app, UNCHANGED owner \/ todo = <<>>,
         \A u \in Task : Undisturbed(u)
  PROVE  PlaceInv'
BY PlaceKept, NobodyWoken DEF PlaceInv

\* The running task is at work, and no task is READY with its node set.
LEMMA AtWorkFacts ==
  ASSUME KernelFacts, PlaceInv
  PROVE  /\ run \in Task
         /\ \A t \in Task : status[t] \in Awake => AtWork(t)
         /\ status[run] = "RUNNING" => AtWork(run)
         /\ \A t \in Task : ~StaleWait(t)
<1>1. run \in Task
  BY DEF KernelFacts, DispatchInv
<1>2. ASSUME NEW t \in Task, status[t] \in Awake PROVE AtWork(t)
  BY <1>2 DEF PlaceInv, Placed, Waits, WaitsOn, Rests, Leaves, Awake
<1>3. ASSUME NEW t \in Task PROVE ~StaleWait(t)
  BY <1>2, KernelConstants DEF StaleWait, Awake, AtWork, AtLarge
<1> QED BY <1>1, <1>2, <1>3 DEF Awake

\* The calls and their results are about what they were, or are new ones.
LEMMA ArgKept ==
  ASSUME ArgInv, jobs' \in Seq(WakeJob),
         \A u \in Task : call'[u] = call[u] \/ AboutCond(call'[u]),
         \A u \in Task : ret'[u] = ret[u] \/ AboutCond(ret'[u])
  PROVE  ArgInv'
<1>1. ASSUME NEW u \in Task PROVE AboutCond(call[u])' /\ AboutCond(ret[u])'
  BY DEF ArgInv, AboutCond
<1> QED BY <1>1 DEF ArgInv

\* The mutex of a condition variable is a mutex.
LEMMA MonitorType ==
  ASSUME NEW c \in CondVar
  PROVE  c \in SleepQ /\ Monitor[c] \in Mutex /\ Monitor[c] # None
BY WaitConstants DEF CondVar

\* No wait on a condition is under way when no call is, or when PostProc runs.
LEMMA NoCondUnderWay ==
  ASSUME DoingInv, NoCallUnderWay \/ run = PostProc
  PROVE  /\ doing = None \/ doing \in WakeRecord
         /\ ~(doing \in CondRecord /\ doing.step = "sleep") /\ ~CondUnderWay
<1>1. CASE doing = None
  <2>1. None \notin CondRecord
    BY WaitConstants DEF CondRecord, CondVar
  <2> QED BY <1>1, <2>1 DEF CondUnderWay
<1>2. CASE doing \in WakeRecord
  BY <1>2 DEF WakeRecord, CondRecord, CondUnderWay
<1>3. CASE CondUnderWay /\ doing # None
  BY <1>3 DEF CondUnderWay, UserTask, NoCallUnderWay
<1> QED BY <1>1, <1>2, <1>3 DEF DoingInv

\* The call under way is not disturbed by what happens to other tasks.
LEMMA UnderWayKept ==
  ASSUME DoingInv, UNCHANGED <<doing, run, app>>,
         CondUnderWay => /\ status'[run] = status[run] /\ call'[run] = call[run]
                         /\ UNCHANGED owner
  PROVE  DoingInv'
BY DEF DoingInv, CondUnderWay

\* Results stay true while the mutexes of others are left alone.
LEMMA ResultKept ==
  ASSUME ResultInv, ArgInv, UNCHANGED <<run, doing>>, OwnersKept,
         \A u \in Task : \/ ret'[u] = ret[u] /\ (u # run \/ UNCHANGED owner)
                         \/ ~Succeeded(u)'
                         \/ owner'[Monitor[ret'[u].arg]] = u
  PROVE  ResultInv'
<1>1. ASSUME NEW u \in Task, Succeeded(u)', ret'[u] = ret[u], u # run \/ UNCHANGED owner
      PROVE  \/ owner'[Monitor[ret'[u].arg]] = u
             \/ u = run /\ doing \in CondRecord /\ doing.step = "sleep"
  <2>1. Succeeded(u) /\ ret[u].arg \in CondVar
    BY <1>1 DEF Succeeded, ArgInv, AboutCond
  <2>2. CASE owner[Monitor[ret[u].arg]] = u
    <3>1. Monitor[ret[u].arg] \in Mutex /\ u # None
      BY <2>1, MonitorType, KernelConstants
    <3> QED BY <1>1, <2>2, <3>1 DEF OwnersKept
  <2> QED BY <2>1, <2>2 DEF ResultInv
<1> QED BY <1>1 DEF ResultInv

\* A call of the running task, when none is under way.
LEMMA UserStep ==
  ASSUME SleepInv, NoCallUnderWay, KernelFacts', PlaceInv', UNCHANGED <<jobs, doing, app, run>>,
         OwnersKept, \A u \in Task \ {run} : ret'[u] = ret[u],
         \/ ret'[run].number # "CONDVAR_WAIT"
         \/ ret'[run] = ret[run] /\ UNCHANGED owner
         \/ ret'[run].arg \in CondVar /\ ret'[run].err # "SUCCESS",
         \A u \in Task : call'[u] = call[u] \/ AboutCond(call'[u])
  PROVE  SleepInv'
<1>1. ArgInv'
  <2>1. \A u \in Task : ret'[u] = ret[u] \/ AboutCond(ret'[u])
    BY DEF AboutCond
  <2>2. jobs' \in Seq(WakeJob) /\ \A u \in Task : call'[u] = call[u] \/ AboutCond(call'[u])
    BY DEF SleepInv, ArgInv
  <2> QED BY <2>1, <2>2, ArgKept DEF SleepInv
<1>2. DoingInv'
  BY NoCondUnderWay, UnderWayKept DEF SleepInv
<1>3. ResultInv'
  <2>1. \A u \in Task : \/ ret'[u] = ret[u] /\ (u # run \/ UNCHANGED owner)
                        \/ ~Succeeded(u)'
    BY DEF Succeeded
  <2> QED BY <2>1, ResultKept DEF SleepInv
<1> QED BY <1>1, <1>2, <1>3 DEF SleepInv

\* A step beside the call under way: of an interrupt, or of the region.
LEMMA OutsideStep ==
  ASSUME SleepInv, KernelFacts', PlaceInv', UNCHANGED <<doing, app, run, owner, ret>>,
         \A u \in Task : call'[u] = call[u],
         status'[run] = status[run], jobs' \in Seq(WakeJob)
  PROVE  SleepInv'
<1>1. run \in Task
  BY DEF SleepInv, KernelFacts, DispatchInv
<1>2. ArgInv'
  BY ArgKept DEF SleepInv
<1>3. DoingInv'
  BY <1>1, UnderWayKept DEF SleepInv
<1>4. ResultInv'
  BY ResultKept DEF SleepInv, OwnersKept
<1> QED BY <1>2, <1>3, <1>4 DEF SleepInv

(***************************************************************************)
(* The steps of the kernel.                                                *)
(***************************************************************************)
\* A task at the head of the region is made ready.
LEMMA AwakenKeeps ==
  ASSUME SleepInv, ReadySwtch \/ TimeoutReady \/ SignalReady, UNCHANGED <<postVars, waitSvcVars>>
  PROVE  SleepInv'
<1>1. /\ KernelFacts /\ PlaceInv /\ todo # <<>> /\ Head(todo).op \in WakeOps
      /\ UNCHANGED <<doing, app, jobs>>
  BY DEF SleepInv, ReadySwtch, TimeoutReady, SignalReady, WakeOps, waitSvcVars, postVars
<1>2. PICK t \in Task : t = Head(todo).task
  BY <1>1, HeadGone DEF KernelFacts, KernelCall, WakeOps
<1>3. Head(todo) \in WakesOf(t)
  BY <1>1, <1>2, HeadGone DEF KernelFacts, WakesOf
<1>4. Leaves(t) /\ status[t] \notin Awake
  BY <1>1, <1>3 DEF PlaceInv, Placed, AtWork, AtLarge, Waits, Rests, Leaves
<1>5. /\ KernelFacts' /\ WakesOf(t)' = {} /\ status'[t] = "READY" /\ OnQueues(t)' = OnQueues(t)
      /\ WakesOf(t) = {[op |-> Head(todo).op, task |-> t]}
      /\ Head(todo).op = "ready" => (Armed(t)' <=> Armed(t)) /\ wqp'[t] = wqp[t]
      /\ Head(todo).op = "timeoutReady" => (Armed(t)' <=> Armed(t)) /\ wqp'[t] = None
      /\ Head(todo).op = "signalReady" => ~Armed(t)' /\ wqp'[t] = None
      /\ CallGoesOn(t, Head(todo).op = "ready")
      /\ \A u \in Task \ {t} : Undisturbed(u) /\ ret'[u] = ret[u] /\ status'[u] = status[u]
      /\ UNCHANGED <<run, owner>>
  BY <1>1, <1>2, <1>4, AwakenStep
<1>6. PICK op \in WakeOps :
        /\ op = Head(todo).op
        /\ op = "ready" => /\ ~Armed(t) /\ wqp[t] = None
                           /\ Relocks(t) => owner[Monitor[call[t].arg]] = t
        /\ op = "timeoutReady" => ~Armed(t)
  <2>1. PICK op \in WakeOps :
          /\ WakesOf(t) = {[op |-> op, task |-> t]}
          /\ op = "ready" => /\ ~Armed(t) /\ wqp[t] = None
                             /\ Relocks(t) => owner[Monitor[call[t].arg]] = t
          /\ op = "timeoutReady" => ~Armed(t)
    BY <1>4 DEF Leaves
  <2>2. [op |-> op, task |-> t].op = Head(todo).op
    BY <1>3, <2>1
  <2> QED BY <2>1, <2>2
<1>7. Placed(t)'
  <2>1. AtWork(t)'
    BY <1>4, <1>5, <1>6 DEF AtWork, AtLarge, Awake, Leaves, WakeOps
  <2> QED BY <2>1 DEF Placed
<1>8. PlaceInv'
  BY <1>1, <1>5, <1>7, OthersKept
<1>9. ArgInv'
  <2>1. AboutCond(call[t])
    BY DEF SleepInv, ArgInv
  <2>2. AboutCond(call'[t]) /\ (ret'[t] = ret[t] \/ AboutCond(ret'[t]))
    BY <1>5, <2>1 DEF CallGoesOn, AboutCond
  <2>3. \A u \in Task : ret'[u] = ret[u] \/ AboutCond(ret'[u])
    BY <1>5, <2>2
  <2>4. \A u \in Task : call'[u] = call[u] \/ AboutCond(call'[u])
    BY <1>5, <2>2 DEF Undisturbed
  <2>5. jobs' \in Seq(WakeJob)
    BY <1>1 DEF SleepInv, ArgInv
  <2> QED BY <2>3, <2>4, <2>5, ArgKept DEF SleepInv
<1>10. DoingInv'
  <2>1. CondUnderWay => run # t /\ run \in Task
    BY <1>4 DEF CondUnderWay, UserTask, Awake
  <2>2. CondUnderWay => status'[run] = status[run] /\ call'[run] = call[run]
    BY <1>5, <2>1 DEF Undisturbed
  <2> QED BY <1>1, <1>5, <2>2, UnderWayKept DEF SleepInv
<1>11. ResultInv'
  <2>1. ret'[t] = ret[t] \/ ~Succeeded(t)' \/ owner'[Monitor[ret'[t].arg]] = t
    <3>1. SUFFICES ASSUME ret'[t] # ret[t], Succeeded(t)' PROVE owner'[Monitor[ret'[t].arg]] = t
      OBVIOUS
    <3>2. /\ ret'[t].number = "CONDVAR_WAIT" /\ ret'[t].err = "SUCCESS"
          /\ ret'[t].number = call[t].number /\ ret'[t].arg = call[t].arg
          /\ call[t].phase = "RELOCK" /\ Head(todo).op = "ready"
      BY <1>5, <3>1 DEF CallGoesOn, Succeeded
    <3> QED BY <1>5, <1>6, <3>2 DEF Relocks
  <2>2. OwnersKept
    BY <1>5 DEF OwnersKept
  <2> QED BY <1>1, <1>5, <2>1, <2>2, ResultKept DEF SleepInv
<1> QED BY <1>1, <1>5, <1>8, <1>9, <1>10, <1>11 DEF SleepInv

\* A node expires.
LEMMA ExpiryKeeps ==
  ASSUME SleepInv, TimeoutExpire, UNCHANGED <<postVars, waitSvcVars>>
  PROVE  SleepInv'
<1>1. KernelFacts /\ PlaceInv /\ tmo # <<>> /\ UNCHANGED <<doing, app, jobs>>
  BY DEF SleepInv, TimeoutExpire, waitSvcVars, postVars
<1>2. PICK t \in Task : t = Head(tmo)
  BY <1>1, TailFacts DEF KernelFacts, ListInv
<1>3. /\ KernelFacts' /\ Armed(t) /\ ~Armed(t)' /\ \A u \in Task : WakesOf(u) = {}
      /\ \A u \in Task \ {t} : Undisturbed(u)
      /\ WakesOf(t)' = {[op |-> "timeoutReady", task |-> t]}
      /\ OnQueues(t)' = IF ttype[t] = "BLOCKING" THEN OnQueues(t) \ {wqp[t]} ELSE OnQueues(t)
      /\ UNCHANGED <<run, status, owner, call, ret, wqp, ttype>>
  BY <1>1, <1>2, ExpiryStep
<1>4. OnQueues(t)' = {} /\ status[t] \notin Awake
  <2>1. CASE Waits(t)
    <3>1. PICK o \in WaitObj : OnQueues(t) = {o} /\ WaitsOn(t, o)
      BY <2>1 DEF Waits
    <3>2. wqp[t] = o /\ ttype[t] = "BLOCKING" /\ status[t] \notin Awake
      BY <1>3, <3>1 DEF WaitsOn, Awake
    <3> QED BY <1>3, <3>1, <3>2
  <2>2. CASE Rests(t)
    BY <1>3, <2>2 DEF Rests, Awake
  <2>3. ~AtWork(t) /\ ~Leaves(t)
    BY <1>3 DEF AtWork, AtLarge, Leaves
  <2> QED BY <1>1, <2>1, <2>2, <2>3 DEF PlaceInv, Placed
<1>5. Placed(t)'
  <2>1. Leaves(t)'
    BY <1>3, <1>4 DEF Leaves, WakeOps
  <2> QED BY <2>1 DEF Placed
<1>6. PlaceInv'
  BY <1>1, <1>3, <1>5, OthersKept
<1>7. jobs' \in Seq(WakeJob) /\ status'[run] = status[run]
  BY <1>1, <1>3 DEF SleepInv, ArgInv
<1> QED BY <1>1, <1>3, <1>6, <1>7, OutsideStep

\* What the kernel does on its own account, and the tick.
LEMMA KernelKeeps ==
  ASSUME SleepInv, KernelStep \/ Tick, NoCallUnderWay \/ run = PostProc \/ todo # <<>>,
         UNCHANGED <<postVars, waitSvcVars>>
  PROVE  SleepInv'
<1>1. KernelFacts /\ PlaceInv /\ UNCHANGED <<doing, app, jobs>> /\ jobs' \in Seq(WakeJob)
  BY DEF SleepInv, ArgInv, waitSvcVars, postVars
<1>2. CASE UpdatePrio
  <2>0. Head(todo).task \in Task
    BY <1>1, <1>2, HeadGone DEF KernelFacts, KernelCall, UpdatePrio
  <2>1. /\ KernelFacts' /\ \A t \in Task : Undisturbed(t)
        /\ UNCHANGED <<run, status, owner, ret>>
    BY <1>1, <1>2, <2>0, AtWorkFacts, WalkStep
  <2>2. PlaceInv' /\ \A u \in Task : call'[u] = call[u]
    BY <1>1, <2>1, AllKept DEF Undisturbed
  <2> QED BY <1>1, <2>1, <2>2, OutsideStep
<1>3. CASE ReadySwtch \/ TimeoutReady \/ SignalReady
  BY <1>3, AwakenKeeps
<1>4. CASE TimeoutExpire
  BY <1>4, ExpiryKeeps
<1>5. CASE Tick \/ TickEnd \/ kSwtch
  <2>1. /\ KernelFacts' /\ \A t \in Task : Undisturbed(t)
        /\ UNCHANGED <<owner, ret>> /\ (kSwtch \/ UNCHANGED <<run, status>>)
    BY <1>1, <1>5, QuietStep
  <2>2. PlaceInv' /\ \A u \in Task : call'[u] = call[u]
    BY <1>1, <2>1, AllKept DEF Undisturbed
  <2>3. CASE UNCHANGED <<run, status>>
    BY <1>1, <2>1, <2>2, <2>3, OutsideStep
  <2>4. CASE kSwtch
    <3>1. /\ doing = None \/ doing \in WakeRecord
          /\ ~(doing \in CondRecord /\ doing.step = "sleep")
      BY <2>4, NoCondUnderWay DEF SleepInv, kSwtch
    <3>2. DoingInv'
      BY <1>1, <3>1 DEF DoingInv
    <3>3. ResultInv'
      BY <2>1, <3>1 DEF SleepInv, ResultInv, Succeeded
    <3>4. ArgInv'
      BY <1>1, <2>1, <2>2, ArgKept DEF SleepInv
    <3> QED BY <1>1, <2>1, <2>2, <3>2, <3>3, <3>4 DEF SleepInv
  <2> QED BY <2>1, <2>3, <2>4
<1> QED BY <1>2, <1>3, <1>4, <1>5 DEF KernelStep

(***************************************************************************)
(* The calls of tasks on the scheduler, the mutexes and the signals.       *)
(***************************************************************************)
\* Who makes a call is at work, and no other call is under way.
LEMMA CallerFacts ==
  ASSUME SleepInv, Executing
  PROVE  /\ KernelFacts /\ PlaceInv /\ run \in UserTask /\ run \in Task
         /\ status[run] = "RUNNING" /\ AtWork(run) /\ todo = <<>> /\ call[run] = NoCall
         /\ NoCallUnderWay \/ run = PostProc \/ todo # <<>> => NoCallUnderWay
<1>1. KernelFacts /\ PlaceInv
  BY DEF SleepInv
<1>2. run \in UserTask /\ run # PostProc
  BY <1>1, ExecutingTask DEF UserTask
<1> QED BY <1>1, <1>2, ExecutingTask, AtWorkFacts

\* The call of a task that moves one task.
LEMMA TaskCallKeeps ==
  ASSUME SleepInv, Executing, NoCallUnderWay, KernelFacts', NEW x \in Task,
         \A u \in Task \ {x} : Undisturbed(u), Placed(x)',
         call'[x] = call[x] \/ call'[x].number # "CONDVAR_WAIT",
         OwnersKept, ret'[run].number # "CONDVAR_WAIT",
         \A u \in Task \ {run} : ret'[u] = ret[u],
         UNCHANGED <<jobs, doing, app, run>>
  PROVE  SleepInv'
<1>1. PlaceInv /\ todo = <<>> /\ UNCHANGED <<jobs, doing, app, run>>
  BY CallerFacts
<1>2. PlaceInv'
  BY <1>1, OthersKept
<1>3. \A u \in Task : call'[u] = call[u] \/ AboutCond(call'[u])
  BY DEF Undisturbed, AboutCond
<1> QED BY <1>1, <1>2, <1>3, UserStep

\* The call of a task that moves none.
LEMMA QuietCallKeeps ==
  ASSUME SleepInv, Executing, NoCallUnderWay, KernelFacts',
         \A u \in Task : Undisturbed(u),
         OwnersKept, ret'[run].number # "CONDVAR_WAIT",
         \A u \in Task \ {run} : ret'[u] = ret[u],
         UNCHANGED <<jobs, doing, app, run>>
  PROVE  SleepInv'
<1>1. run \in Task /\ Placed(run) /\ WakesOf(run) = {} /\ UNCHANGED app
  BY CallerFacts, NobodyWoken DEF Placed
<1>2. Placed(run)' /\ call'[run] = call[run]
  BY <1>1, PlaceKept DEF Undisturbed
<1> QED BY <1>1, <1>2, TaskCallKeeps

\* Who is taken off its queue to be made ready leaves its wait.
LEMMA ReleasedLeaves ==
  ASSUME PlaceInv, NEW w \in Task, NEW o \in WaitObj, Released(w, o),
         o \in Mutex => wqp'[w] = None /\ owner'[o] = w
  PROVE  Leaves(w)' /\ Placed(w)'
<1>1. Waits(w)
  BY DEF PlaceInv, Placed, Released, AtWork, AtLarge, Rests, Leaves
<1>2. OnQueues(w) = {o} /\ WaitsOn(w, o)
  BY <1>1 DEF Waits, Released
<1>3. OnQueues(w)' = {} /\ status'[w] \notin Awake
  BY <1>2 DEF Released, WaitsOn, Awake
<1>4. ~Armed(w)' /\ wqp'[w] = None
  BY <1>2 DEF WaitsOn, Released
<1>5. Relocks(w)' => owner'[Monitor[call'[w].arg]] = w
  BY <1>2 DEF WaitsOn, Released, Relocks
<1>6. Leaves(w)'
  BY <1>3, <1>4, <1>5 DEF Leaves, Released, WakeOps
<1> QED BY <1>6 DEF Placed

\* Locks of the scheduler, yields, delays and suspensions.
LEMMA SchedCallKeeps ==
  ASSUME SleepInv, ~YieldWhenLocked, SchedCall, NoCallUnderWay \/ run = PostProc \/ todo # <<>>,
         UNCHANGED <<jobs, doing, app>>
  PROVE  SleepInv'
<1>1. Executing
  BY DEF SchedCall, kSchLock, kSchUnlock, kYield, kSleepDelay, kTaskSelfSuspend, kTaskResume
<1>2. /\ KernelFacts /\ PlaceInv /\ run \in Task /\ AtWork(run) /\ NoCallUnderWay
      /\ todo = <<>> /\ call[run] = NoCall
  BY <1>1, CallerFacts
<1>3. CASE kSchLock \/ kSchUnlock \/ (kYield /\ schLock = 0)
  <2>1. /\ KernelFacts' /\ \A t \in Task : Undisturbed(t)
        /\ ret'[run].number = "NONE" /\ \A u \in Task \ {run} : ret'[u] = ret[u]
        /\ UNCHANGED <<run, owner, call>>
    BY <1>2, <1>3, LockCountStep
  <2>2. OwnersKept
    BY <2>1 DEF OwnersKept
  <2> QED BY <1>1, <1>2, <2>1, <2>2, QuietCallKeeps
<1>4. ASSUME NEW ticks, kSleepDelay(ticks) \/ kTaskSelfSuspend PROVE SleepInv'
  <2>1. /\ KernelFacts' /\ \A u \in Task \ {run} : Undisturbed(u) /\ ret'[u] = ret[u]
        /\ OnQueues(run)' = {} /\ WakesOf(run)' = {} /\ wqp'[run] = None
        /\ \/ status'[run] = "SLEEPING_DELAY" /\ (Armed(run)' => ttype'[run] = "TIME_EVENT")
           \/ status'[run] = "SELF_SUSPENDED" /\ ~Armed(run)'
        /\ call'[run].number \in {"SLEEP_DELAY", "TASK_SELF_SUSPEND"}
        /\ ret'[run].number \in {"SLEEP_DELAY", "TASK_SELF_SUSPEND"}
        /\ UNCHANGED <<run, owner>>
    BY <1>2, <1>4, RestStep DEF AtWork
  <2>2. Rests(run)'
    BY <2>1 DEF Rests, Relocks
  <2>3. Placed(run)' /\ OwnersKept
    BY <2>1, <2>2 DEF Placed, OwnersKept
  <2> QED BY <1>1, <1>2, <2>1, <2>3, TaskCallKeeps
<1>5. ASSUME NEW t \in MaySuspend, kTaskResume(t) PROVE SleepInv'
  <2>0. t \in Task
    BY <1>5, MutexConstants DEF UserTask
  <2>1. /\ KernelFacts' /\ \A u \in Task \ {t} : Undisturbed(u)
        /\ WakesOf(t) = {} /\ WakesOf(t)' = {[op |-> "ready", task |-> t]}
        /\ status[t] = "SELF_SUSPENDED" /\ t # run
        /\ OnQueues(t)' = OnQueues(t) /\ (Armed(t)' <=> Armed(t))
        /\ ret'[run].number = "NONE" /\ \A u \in Task \ {run} : ret'[u] = ret[u]
        /\ UNCHANGED <<run, status, owner, call, wqp, ttype>>
    BY <1>2, <1>5, <2>0, ResumeStep
  <2>2. Rests(t)
    BY <2>0, <2>1, <1>2 DEF PlaceInv, Placed, AtWork, AtLarge, Waits, WaitsOn, Leaves, Awake
  <2>3. Leaves(t)'
    BY <2>1, <2>2 DEF Rests, Leaves, Relocks, WakeOps, Awake
  <2>4. Placed(t)' /\ OwnersKept
    BY <2>1, <2>3 DEF Placed, OwnersKept
  <2> QED BY <1>1, <1>2, <2>0, <2>1, <2>4, TaskCallKeeps
<1> QED BY <1>2, <1>3, <1>4, <1>5 DEF SchedCall, KernelFacts, LockInv

\* Locks and unlocks of mutexes.
LEMMA MutexCallKeeps ==
  ASSUME SleepInv, MutexCall, NoCallUnderWay \/ run = PostProc \/ todo # <<>>,
         UNCHANGED <<jobs, doing, app>>
  PROVE  SleepInv'
<1>1. PICK m \in Mutex : (\E timeout \in Timeout : kMutexLock(m, timeout)) \/ kMutexUnlock(m)
  BY DEF MutexCall
<1>2. Executing
  BY <1>1 DEF kMutexLock, kMutexUnlock
<1>3. /\ KernelFacts /\ PlaceInv /\ run \in UserTask /\ run \in Task /\ AtWork(run)
      /\ NoCallUnderWay /\ todo = <<>> /\ call[run] = NoCall /\ UNCHANGED app
  BY <1>2, CallerFacts
<1>4. ASSUME NEW timeout, kMutexLock(m, timeout) PROVE SleepInv'
  <2>1. /\ KernelFacts' /\ \A u \in Task \ {run} : Undisturbed(u) /\ ret'[u] = ret[u]
        /\ ret'[run].number = "MUTEX_LOCK" /\ OwnersKept /\ run' = run
        /\ \/ Undisturbed(run)
           \/ /\ status'[run] = "BLOCKED" /\ OnQueues(run)' = {m} /\ WakesOf(run)' = {}
              /\ wqp'[run] = m /\ call'[run].number = "MUTEX_LOCK"
              /\ Armed(run)' => ttype'[run] = "BLOCKING"
    BY <1>3, <1>4, MutexLockStep DEF AtWork
  <2>2. CASE Undisturbed(run)
    <3>1. \A u \in Task : Undisturbed(u)
      BY <2>1, <2>2
    <3> QED BY <1>2, <1>3, <2>1, <3>1, QuietCallKeeps
  <2>3. CASE /\ status'[run] = "BLOCKED" /\ OnQueues(run)' = {m} /\ WakesOf(run)' = {}
             /\ wqp'[run] = m /\ call'[run].number = "MUTEX_LOCK"
             /\ Armed(run)' => ttype'[run] = "BLOCKING"
    <3>1. WaitsOn(run, m)'
      BY <2>1, <2>3 DEF WaitsOn, Relocks
    <3>2. m \in WaitObj /\ m # None
      BY KernelConstants DEF WaitObj
    <3>3. Waits(run)'
      BY <1>3, <2>1, <2>3, <3>1, <3>2 DEF Waits
    <3>4. Placed(run)'
      BY <3>3 DEF Placed
    <3> QED BY <1>2, <1>3, <2>1, <2>3, <3>4, TaskCallKeeps
  <2> QED BY <2>1, <2>2, <2>3
<1>5. CASE kMutexUnlock(m)
  <2>1. /\ ret' \in [Task -> FrameResult] /\ ret'[run].number = "MUTEX_UNLOCK"
        /\ \A u \in Task \ {run} : ret'[u] = ret[u]
    <3>1. Returns("MUTEX_UNLOCK", m, "SUCCESS") /\ ContinuationInv
      BY <1>3, <1>5 DEF kMutexUnlock, KernelFacts
    <3>2. "MUTEX_UNLOCK" \in ResultNumber /\ "SUCCESS" \in Err /\ m \in WaitObj \cup {None}
      BY DEF ResultNumber, Err, WaitObj
    <3> QED BY <1>3, <3>1, <3>2, CallAnswered
  <2>2. /\ KernelFacts' /\ OwnersKept
        /\ \/ \A u \in Task : Undisturbed(u)
           \/ \E w \in Task : Released(w, m) /\ wqp'[w] = None /\ owner'[m] = w
    <3>1. /\ owner[m] = run
          /\ UnlockFree(m) \/ UnlockHandOff(m)
          /\ UNCHANGED <<schedVars, mesgPrio, call>>
      BY <1>5 DEF kMutexUnlock
    <3> QED BY <1>3, <2>1, <3>1, UnlockStep
  <2>3. run' = run
    BY <1>5 DEF kMutexUnlock, schedVars
  <2>4. CASE \A u \in Task : Undisturbed(u)
    BY <1>2, <1>3, <2>1, <2>2, <2>3, <2>4, QuietCallKeeps
  <2>5. ASSUME NEW w \in Task, Released(w, m), wqp'[w] = None, owner'[m] = w PROVE SleepInv'
    <3>1. Placed(w)'
      BY <1>3, <2>5, ReleasedLeaves DEF WaitObj
    <3>2. call'[w] = call[w] /\ \A u \in Task \ {w} : Undisturbed(u)
      BY <2>5 DEF Released
    <3> QED BY <1>2, <1>3, <2>1, <2>2, <2>3, <3>1, <3>2, TaskCallKeeps
  <2> QED BY <2>2, <2>4, <2>5
<1> QED BY <1>1, <1>4, <1>5

\* A signal that ends a wait.
LEMMA SignalCallKeeps ==
  ASSUME SleepInv, NEW t \in app.signal, kTaskSignalReady(t),
         NoCallUnderWay \/ run = PostProc \/ todo # <<>>,
         UNCHANGED <<jobs, doing, app>>
  PROVE  SleepInv'
<1>1. Executing /\ t \in Task
  BY WaitConstants DEF kTaskSignalReady, SleepInv, UserTask
<1>2. /\ KernelFacts /\ PlaceInv /\ run \in Task /\ NoCallUnderWay
      /\ todo = <<>> /\ call[run] = NoCall
  BY <1>1, CallerFacts
<1>3. /\ KernelFacts' /\ \A u \in Task \ {t} : Undisturbed(u)
      /\ WakesOf(t) = {} /\ WakesOf(t)' = {[op |-> "signalReady", task |-> t]}
      /\ status[t] \in Interruptible /\ t # run
      /\ OnQueues(t)' = OnQueues(t) \ {wqp[t]}
      /\ ret'[run].number = "NONE" /\ \A u \in Task \ {run} : ret'[u] = ret[u]
      /\ UNCHANGED <<run, status, owner, call, wqp, ttype>>
  BY <1>1, <1>2, SignalledStep
<1>4. status[t] \notin Awake /\ (Waits(t) \/ Rests(t))
  BY <1>1, <1>2, <1>3
  DEF PlaceInv, Placed, AtWork, AtLarge, Leaves, Interruptible, Awake, WakeOps
<1>5. OnQueues(t)' = {}
  <2>1. CASE Waits(t)
    BY <1>3, <2>1 DEF Waits, WaitsOn
  <2>2. CASE Rests(t)
    BY <1>3, <2>2 DEF Rests
  <2> QED BY <1>4, <2>1, <2>2
<1>6. Leaves(t)'
  BY <1>3, <1>4, <1>5 DEF Leaves, WakeOps
<1>7. Placed(t)' /\ OwnersKept
  BY <1>3, <1>6 DEF Placed, OwnersKept
<1> QED BY <1>1, <1>2, <1>3, <1>7, TaskCallKeeps

\* What the kernel and the tasks do between the regions of these services.
LEMMA KernelBetweenKeeps ==
  ASSUME SignalledTimed, SleepInv, KernelBetween
  PROVE  SleepInv'
<1>1. /\ ~YieldWhenLocked
      /\ NoCallUnderWay \/ run = PostProc \/ todo # <<>>
      /\ UNCHANGED <<postVars, waitSvcVars>> /\ UNCHANGED <<jobs, doing, app>>
  BY DEF SignalledTimed, KernelBetween, postVars, waitSvcVars
<1>2. CASE KernelStep \/ Tick
  BY <1>1, <1>2, KernelKeeps
<1>3. CASE SchedCall
  BY <1>1, <1>3, SchedCallKeeps
<1>4. CASE MutexCall
  BY <1>1, <1>4, MutexCallKeeps
<1>5. ASSUME NEW t \in app.signal, kTaskSignalReady(t) PROVE SleepInv'
  BY <1>1, <1>5, SignalCallKeeps
<1> QED BY <1>2, <1>3, <1>4, <1>5 DEF KernelBetween

(***************************************************************************)
(* Sleep queues: one region.                                               *)
(***************************************************************************)
\* A call that is refused or answered at once.
LEMMA AnsweredStep ==
  ASSUME KernelFacts, run \in Task, todo = <<>>, NEW number \in ResultNumber,
         NEW q \in WaitObj \cup {None}, NEW err \in Err, Returns(number, q, err)
  PROVE  /\ ret' \in [Task -> FrameResult] /\ ret'[run].number = number
         /\ ret'[run].arg = q /\ ret'[run].err = err
         /\ \A u \in Task \ {run} : ret'[u] = ret[u]
BY CallAnswered DEF KernelFacts

\* The running task goes to sleep on a queue: it waits there.
LEMMA SleepOnStep ==
  ASSUME KernelFacts, run \in UserTask, status[run] = "RUNNING", todo = <<>>, AtWork(run),
         NEW q \in SleepQ, NEW timeout, NEW number \in {"SLEEP_QUEUE_SLEEP", "CONDVAR_WAIT"},
         SleepOn(q, timeout, number), run \in app.signal => timeout # Forever, UNCHANGED app
  PROVE  /\ KernelFacts' /\ \A u \in Task \ {run} : Undisturbed(u) /\ ret'[u] = ret[u]
         /\ Placed(run)' /\ call'[run].number = number /\ call'[run].arg = q
         /\ ret'[run].number = number /\ ret'[run].arg = q /\ ret'[run].err = "RESTART"
         /\ UNCHANGED <<run, owner>>
<1> DEFINE c == [number |-> number, arg |-> q, phase |-> "WAIT", wake |-> "SUCCESS"]
           st == "SLEEPING"
           type == "BLOCKING"
           o == q
<1>1. /\ status' = [status EXCEPT ![run] = st] /\ kPendCtxSwtch(st)
      /\ call' = [call EXCEPT ![run] = c] /\ ArmTimeout(run, type, timeout)
      /\ waitQ' = [waitQ EXCEPT ![o] = kTCBQEnqByPrio(@, run, prio)]
      /\ wqp' = wqp \/ wqp' = [wqp EXCEPT ![run] = o]
      /\ timeout = Forever => wqp' = wqp
      /\ timeout # Forever => wqp' = [wqp EXCEPT ![run] = o]
      /\ Returns(number, o, "RESTART")
      /\ UNCHANGED <<run, prio, readyQ, schLock, savedLock, mutexVars, todo>>
  BY DEF SleepOn
<1>2. /\ st \in Status \ Awake /\ type \in TimeoutType /\ o \in WaitObj /\ o # None
      /\ c \in Suspension /\ c.number = number /\ c.arg = q /\ c.phase = "WAIT"
      /\ number \in ResultNumber /\ "RESTART" \in Err
  BY KernelConstants
     DEF Status, Awake, TimeoutType, WaitObj, SleepQ, Suspension, CallNumber, ResultNumber,
         CallPhase, Err
<1>3. /\ ret' \in [Task -> FrameResult] /\ ret'[run].number = number
      /\ ret'[run].arg = q /\ ret'[run].err = "RESTART"
      /\ \A u \in Task \ {run} : ret'[u] = ret[u]
  BY <1>1, <1>2, AnsweredStep DEF UserTask
<1>4. HolderInv' /\ WalkList(todo') /\ UNCHANGED owner
  BY <1>1, HolderSame, WalkListKinds DEF KernelFacts
<1>5. st = "SLEEPING" /\ type = "BLOCKING" /\ o = q
  OBVIOUS
<1> HIDE DEF c, st, type, o
<1>6. IF o = None THEN waitQ' = waitQ
                  ELSE waitQ' = [waitQ EXCEPT ![o] = kTCBQEnqByPrio(@, run, prio)]
  BY <1>1, <1>2
<1>7. /\ KernelFacts' /\ \A u \in Task \ {run} : Undisturbed(u)
      /\ status'[run] = st /\ call'[run] = c /\ WakesOf(run)' = {}
      /\ OnQueues(run)' = (IF o = None THEN {} ELSE {o})
      /\ Armed(run)' <=> timeout # Forever
      /\ Armed(run)' => ttype'[run] = type
  BY <1>1, <1>2, <1>3, <1>4, <1>6, RunSuspends DEF AtWork
<1>8. wqp'[run] = IF timeout = Forever THEN None ELSE o
  BY <1>1 DEF AtWork, AtLarge, KernelFacts, ListInv, UserTask
<1>9. WaitsOn(run, q)'
  BY <1>1, <1>2, <1>5, <1>7, <1>8 DEF WaitsOn, Relocks
<1>10. Waits(run)'
  BY <1>1, <1>2, <1>5, <1>7, <1>8, <1>9 DEF Waits
<1> QED BY <1>1, <1>2, <1>3, <1>4, <1>7, <1>10 DEF Placed

\* kSleepQueueSleep.
LEMMA SleepKeeps ==
  ASSUME SignalledTimed, SleepInv, NEW q \in SleepQ, q \in app.wait[run],
         NEW timeout \in SleepTimeout, kSleepQueueSleep(q, timeout)
  PROVE  SleepInv'
<1>1. Executing /\ NoCallUnderWay /\ UNCHANGED <<jobs, doing, app>> /\ app \in App
  BY DEF kSleepQueueSleep, Calling, postVars, waitSvcVars, SleepInv
<1>2. /\ KernelFacts /\ PlaceInv /\ run \in UserTask /\ run \in Task
      /\ status[run] = "RUNNING" /\ AtWork(run) /\ todo = <<>>
  BY <1>1, CallerFacts
<1>3. CASE Refuse("SLEEP_QUEUE_SLEEP", q, "NOWAIT")
  <2>1. "SLEEP_QUEUE_SLEEP" \in ResultNumber /\ "NOWAIT" \in Err /\ q \in WaitObj \cup {None}
    BY DEF ResultNumber, CallNumber, Err, SleepQ, WaitObj
  <2>2. /\ ret' \in [Task -> FrameResult] /\ ret'[run].number = "SLEEP_QUEUE_SLEEP"
        /\ \A u \in Task \ {run} : ret'[u] = ret[u]
    BY <1>2, <1>3, <2>1, AnsweredStep DEF Refuse
  <2>3. KernelFacts' /\ (\A u \in Task : Undisturbed(u)) /\ UNCHANGED <<run, owner>>
    BY <1>2, <1>3, <2>2, StillStep DEF Refuse
  <2> QED BY <1>1, <2>2, <2>3, QuietCallKeeps DEF OwnersKept
<1>4. CASE SleepOn(q, timeout, "SLEEP_QUEUE_SLEEP")
  <2>1. run \in app.signal => timeout # Forever
    BY <1>1 DEF SignalledTimed
  <2>2. /\ KernelFacts' /\ \A u \in Task \ {run} : Undisturbed(u) /\ ret'[u] = ret[u]
        /\ Placed(run)' /\ call'[run].number = "SLEEP_QUEUE_SLEEP"
        /\ ret'[run].number = "SLEEP_QUEUE_SLEEP" /\ UNCHANGED <<run, owner>>
    BY <1>1, <1>2, <1>4, <2>1, SleepOnStep
  <2>3. OwnersKept
    BY <2>2 DEF OwnersKept
  <2> QED BY <1>1, <1>2, <2>2, <2>3, TaskCallKeeps
<1> QED BY <1>3, <1>4 DEF kSleepQueueSleep

\* One task is released from a sleep queue: by a task, or by an interrupt.
LEMMA ReleaseKeeps ==
  ASSUME SleepInv, todo = <<>>, NEW q \in SleepQ, NEW w \in Task, Released(w, q),
         KernelFacts', UNCHANGED <<schedVars, mutexVars, call, jobs, doing, app>>,
         \/ UNCHANGED ret
         \/ Executing /\ NoCallUnderWay /\ Returns("NONE", None, "SUCCESS")
  PROVE  SleepInv'
<1>1. /\ PlaceInv /\ q \in WaitObj /\ q \notin Mutex /\ UNCHANGED <<run, status, owner>>
      /\ OwnersKept /\ \A u \in Task : call'[u] = call[u]
  BY KernelConstants DEF SleepInv, SleepQ, WaitObj, schedVars, mutexVars, OwnersKept
<1>2. Placed(w)' /\ \A u \in Task \ {w} : Undisturbed(u)
  BY <1>1, ReleasedLeaves DEF Released
<1>3. CASE UNCHANGED ret
  <2>1. PlaceInv'
    BY <1>1, <1>2, OthersKept
  <2>2. jobs' \in Seq(WakeJob)
    BY DEF SleepInv, ArgInv
  <2> QED BY <1>1, <1>3, <2>1, <2>2, OutsideStep
<1>4. CASE Executing /\ NoCallUnderWay /\ Returns("NONE", None, "SUCCESS")
  <2>1. run \in Task /\ KernelFacts
    BY <1>4, CallerFacts
  <2>2. "NONE" \in ResultNumber /\ "SUCCESS" \in Err
    BY DEF ResultNumber, CallNumber, Err
  <2>3. ret'[run].number = "NONE" /\ \A u \in Task \ {run} : ret'[u] = ret[u]
    BY <1>4, <2>1, <2>2, AnsweredStep
  <2> QED BY <1>1, <1>2, <1>4, <2>1, <2>3, TaskCallKeeps
<1> QED BY <1>3, <1>4

\* kSleepQueueSignal and kSleepQueueReady leave the frame of the caller so.
LEMMA NoneAnswered ==
  ASSUME KernelFacts, run \in Task, todo = <<>>, NEW err \in Err, Returns("NONE", None, err)
  PROVE  /\ ret' \in [Task -> FrameResult] /\ ret'[run].number = "NONE"
         /\ \A u \in Task \ {run} : ret'[u] = ret[u]
<1>1. "NONE" \in ResultNumber
  BY DEF ResultNumber, CallNumber
<1> QED BY <1>1, AnsweredStep

\* A call with nothing to do.
LEMMA RefusedKeeps ==
  ASSUME SleepInv, Executing, NoCallUnderWay, NEW err \in Err, Refuse("NONE", None, err),
         UNCHANGED <<jobs, doing, app>>
  PROVE  SleepInv'
<1>1. KernelFacts /\ run \in Task /\ todo = <<>>
  BY CallerFacts
<1>2. /\ ret' \in [Task -> FrameResult] /\ ret'[run].number = "NONE"
      /\ \A u \in Task \ {run} : ret'[u] = ret[u]
  BY <1>1, NoneAnswered DEF Refuse
<1>3. KernelFacts' /\ (\A u \in Task : Undisturbed(u)) /\ UNCHANGED <<run, owner>>
  BY <1>1, <1>2, StillStep DEF Refuse
<1> QED BY <1>2, <1>3, QuietCallKeeps DEF OwnersKept

\* kSleepQueueSignal, by a task and by an interrupt.
LEMMA SignalOneKeeps ==
  ASSUME SleepInv, NEW q \in SleepQ, kSleepQueueSignal(q) \/ IsrSignal(q)
  PROVE  SleepInv'
<1>1. /\ UNCHANGED <<jobs, doing, app>> /\ todo = <<>> /\ KernelFacts /\ run \in Task
  BY AtWorkFacts
     DEF kSleepQueueSignal, IsrSignal, Calling, Executing, Isr, postVars, waitSvcVars, SleepInv
<1>2. CASE /\ SignalOne(q)
           /\ \/ UNCHANGED ret
              \/ Executing /\ NoCallUnderWay /\ Returns("NONE", None, "SUCCESS")
  <2>1. ret' \in [Task -> FrameResult]
    <3>1. CASE UNCHANGED ret
      BY <1>1, <3>1 DEF KernelFacts, ContinuationInv
    <3>2. CASE Returns("NONE", None, "SUCCESS")
      BY <1>1, <3>2, NoneAnswered DEF Err
    <3> QED BY <1>2, <3>1, <3>2
  <2>2. /\ UNCHANGED <<schedVars, lock, owner, mesgPrio, call>> /\ UNCHANGED mutexVars
        /\ waitQ[q] # <<>> /\ WakeHead(q) /\ q \in WaitObj
    BY <1>2 DEF SignalOne, mutexVars, SleepQ, WaitObj
  <2>3. KernelFacts' /\ \E w \in Task : Released(w, q)
    BY <1>1, <2>1, <2>2, WakeHeadStep
  <2> QED BY <1>1, <1>2, <2>2, <2>3, ReleaseKeeps
<1>3. CASE /\ Executing /\ NoCallUnderWay
           /\ Refuse("NONE", None, "EMPTY_WAITING_QUEUE")
  BY <1>1, <1>3, RefusedKeeps DEF Err
<1> QED BY <1>2, <1>3 DEF kSleepQueueSignal, IsrSignal, Calling

\* kSleepQueueReady.
LEMMA PickKeeps ==
  ASSUME SleepInv, NEW q \in SleepQ, NEW t \in Task, kSleepQueueReady(q, t)
  PROVE  SleepInv'
<1>1. /\ Executing /\ NoCallUnderWay /\ UNCHANGED <<jobs, doing, app>>
      /\ Returns("NONE", None, "SUCCESS") /\ UNCHANGED <<schedVars, mutexVars, call>>
      /\ q \in OnQueues(t) /\ q \in WaitObj
      /\ waitQ' = [waitQ EXCEPT ![q] = kTCBQRem(@, t)]
      /\ todo' = <<[op |-> "ready", task |-> t]>>
  BY DEF kSleepQueueReady, Calling, postVars, waitSvcVars, OnQueues, SleepQ, WaitObj, ReadySwtchOf
<1>2. KernelFacts /\ run \in Task /\ todo = <<>> /\ ListInv
  BY <1>1, CallerFacts DEF KernelFacts
<1>3. ret' \in [Task -> FrameResult]
  BY <1>1, <1>2, NoneAnswered DEF Err
<1>4. /\ waitQ' \in [WaitObj -> Seq(Task)] /\ \A p \in WaitObj : NoDuplicates(waitQ'[p])
      /\ \A u \in Task \ {t} : OnQueues(u)' = OnQueues(u)
      /\ OnQueues(t)' = OnQueues(t) \ {q}
  BY <1>1, <1>2, QueueLoses
<1>5. /\ DisarmTimeout(t) \/ UNCHANGED timeVars
      /\ wqp' = wqp \/ wqp' = [wqp EXCEPT ![t] = None]
      /\ ttype[t] = "BLOCKING" => DisarmTimeout(t) /\ wqp' = [wqp EXCEPT ![t] = None]
      /\ ttype[t] # "BLOCKING" => UNCHANGED timeVars
  BY DEF kSleepQueueReady
<1>6. HolderInv' /\ "ready" \in WakeOps
  BY <1>1, <1>2, HolderSame DEF WakeOps
<1>7. /\ KernelFacts' /\ \A u \in Task \ {t} : Undisturbed(u)
      /\ WakesOf(t) = {} /\ WakesOf(t)' = {[op |-> "ready", task |-> t]}
      /\ DisarmTimeout(t) => ~Armed(t)'
      /\ UNCHANGED timeVars => (Armed(t)' <=> Armed(t))
  BY <1>1, <1>2, <1>3, <1>4, <1>5, <1>6, WakeBegins
<1>8. Released(t, q)
  <2>1. wqp'[t] \in {wqp[t], None} /\ (ttype[t] = "BLOCKING" => wqp'[t] = None)
    BY <1>2, <1>5 DEF ListInv
  <2>2. status'[t] = status[t] /\ call'[t] = call[t]
    BY <1>1 DEF schedVars
  <2> QED BY <1>1, <1>4, <1>5, <1>7, <2>1, <2>2 DEF Released
<1> QED BY <1>1, <1>2, <1>7, <1>8, ReleaseKeeps

\* kSleepQueueUnready.
LEMMA UnreadyKeeps ==
  ASSUME SignalledTimed, SleepInv, NEW q \in SleepQ, NEW t \in app.unready, call[t] = NoCall,
         kSleepQueueUnready(q, t)
  PROVE  SleepInv'
<1>1. /\ Executing /\ NoCallUnderWay /\ UNCHANGED <<jobs, doing, app, run>> /\ app \in App
      /\ Returns("NONE", None, "SUCCESS") /\ t # run /\ status[t] = "READY"
      /\ readyQ' = [readyQ EXCEPT ![prio[t]] = kTCBQRem(@, t)]
      /\ waitQ' = [waitQ EXCEPT ![q] = kTCBQEnqByPrio(@, t, prio)]
      /\ status' = [status EXCEPT ![t] = "SLEEPQ_BLOCKED"]
      /\ UNCHANGED <<prio, pendSV, schLock, savedLock, wqp, mutexVars, timeVars, call, todo>>
  BY DEF kSleepQueueUnready, Calling, postVars, waitSvcVars, SleepInv
<1>2. /\ KernelFacts /\ PlaceInv /\ run \in Task /\ todo = <<>>
      /\ DispatchInv /\ ListInv /\ ContinuationInv
  BY <1>1, CallerFacts DEF KernelFacts
<1>3. t \in UserTask /\ t \in Task \ {run, IdleTask} /\ q \in WaitObj /\ q # None
  BY <1>1, WaitConstants, KernelConstants DEF UserTask, SleepQ, WaitObj
<1>4. AtWork(t)
  BY <1>1, <1>2, <1>3, AtWorkFacts DEF Awake
<1>5. /\ ret' \in [Task -> FrameResult] /\ ret'[run].number = "NONE"
      /\ \A u \in Task \ {run} : ret'[u] = ret[u]
  BY <1>1, <1>2, NoneAnswered DEF Err
<1>6. DispatchInv'
  <2>1. "SLEEPQ_BLOCKED" \in Status \ Awake
    BY DEF Status, Awake
  <2> QED BY <1>1, <1>2, <1>3, <2>1, DispatchUnready
<1>7. /\ waitQ' \in [WaitObj -> Seq(Task)] /\ \A p \in WaitObj : NoDuplicates(waitQ'[p])
      /\ \A u \in Task \ {t} : OnQueues(u)' = OnQueues(u)
      /\ OnQueues(t)' = OnQueues(t) \cup {q}
  BY <1>1, <1>2, <1>3, <1>4, QueueGains DEF AtWork, AtLarge
<1>8. UNCHANGED <<tmo, ttype, owner, lock, mesgPrio>>
  BY <1>1 DEF timeVars, mutexVars
<1>9. KernelFacts'
  <2>1. ListInv'
    BY <1>1, <1>2, <1>7, <1>8 DEF ListInv
  <2>2. ContinuationInv' /\ HolderInv' /\ PendingInv' /\ LockInv'
    BY <1>1, <1>2, <1>5, <1>8 DEF KernelFacts, ContinuationInv, HolderInv, PendingInv, LockInv
  <2> QED BY <1>6, <2>1, <2>2 DEF KernelFacts
<1>10. \A u \in Task \ {t} : Undisturbed(u)
  BY <1>1, <1>2, <1>7, <1>8 DEF Undisturbed, Armed, WakesOf, DispatchInv
<1>11. Placed(t)'
  <2>1. /\ status'[t] = "SLEEPQ_BLOCKED" /\ OnQueues(t)' = {q} /\ ~Armed(t)' /\ WakesOf(t)' = {}
        /\ wqp'[t] = None /\ call'[t].number = "NONE"
    BY <1>1, <1>2, <1>3, <1>4, <1>7, <1>8
    DEF AtWork, AtLarge, Armed, WakesOf, NoCall, DispatchInv
  <2>2. t \notin app.signal
    BY <1>1 DEF SignalledTimed
  <2>3. WaitsOn(t, q)'
    BY <2>1 DEF WaitsOn
  <2> QED BY <1>1, <1>3, <2>1, <2>2, <2>3 DEF Waits, Placed
<1>12. OwnersKept /\ call'[t] = call[t]
  BY <1>1, <1>8 DEF OwnersKept
<1> QED BY <1>1, <1>3, <1>5, <1>9, <1>10, <1>11, <1>12, TaskCallKeeps

(***************************************************************************)
(* kSleepQueueWake, and PostProc that calls it for an interrupt.           *)
(***************************************************************************)
LEMMA WakeOfType ==
  ASSUME KernelFacts, NEW q \in SleepQ, NEW n \in Int
  PROVE  WakeOf(q, n) \in WakeRecord /\ WakeOf(q, n).count \in Int
<1>1. waitQ[q] \in Seq(Task)
  BY DEF KernelFacts, ListInv, SleepQ, WaitObj
<1>2. Len(waitQ[q]) \in Nat
  BY <1>1, LenProperties
<1>3. Smaller(n, Len(waitQ[q])) \in Int
  BY <1>2 DEF Smaller
<1> HIDE DEF Smaller
<1> QED BY <1>2, <1>3 DEF WakeOf, WakeRecord

\* Which call is under way, by its step.
LEMMA UnderWay ==
  ASSUME SleepInv, NEW step, At(step)
  PROVE  /\ KernelFacts /\ PlaceInv /\ todo = <<>> /\ run \in Task /\ doing.step = step
         /\ \/ doing \in WakeRecord /\ step \in {"test", "lock", "loop", "unlock"}
            \/ CondUnderWay /\ step \in {"release", "sleep", "relocked"}
<1>1. KernelFacts /\ PlaceInv /\ todo = <<>> /\ doing # None /\ doing.step = step
  BY DEF SleepInv, At
<1>2. run \in Task
  BY <1>1, AtWorkFacts
<1> QED BY <1>1, <1>2 DEF SleepInv, DoingInv, CondUnderWay, WakeRecord, CondRecord

\* What holds inside a wake, between its critical regions.
LEMMA WakeUnderWay ==
  ASSUME SleepInv, At("test") \/ At("lock") \/ At("loop") \/ At("unlock")
  PROVE  KernelFacts /\ PlaceInv /\ todo = <<>> /\ run \in Task /\ doing \in WakeRecord
<1>1. PICK step \in {"test", "lock", "loop", "unlock"} : At(step)
  OBVIOUS
<1>2. step \notin {"release", "sleep", "relocked"}
  OBVIOUS
<1> QED BY <1>1, <1>2, UnderWay

\* What holds inside a wait on a condition, between its critical regions.
LEMMA CondIsUnderWay ==
  ASSUME SleepInv, NEW step \in {"release", "sleep", "relocked"}, At(step)
  PROVE  /\ KernelFacts /\ PlaceInv /\ todo = <<>> /\ CondUnderWay /\ doing.step = step
         /\ run \in UserTask /\ run \in Task /\ status[run] = "RUNNING" /\ AtWork(run)
         /\ doing.obj \in CondVar
<1>1. step \notin {"test", "lock", "loop", "unlock"}
  OBVIOUS
<1>2. /\ KernelFacts /\ PlaceInv /\ todo = <<>> /\ CondUnderWay /\ doing.step = step
      /\ run \in Task
  BY <1>1, UnderWay
<1>3. run \in UserTask /\ status[run] = "RUNNING" /\ doing.obj \in CondVar
  BY <1>2 DEF CondUnderWay, CondRecord
<1> QED BY <1>2, <1>3, AtWorkFacts

\* A step of a wake, or of PostProc, when no wait on a condition is under way.
LEMMA WakeStepKeeps ==
  ASSUME SleepInv, doing = None \/ doing \in WakeRecord, doing' = None \/ doing' \in WakeRecord,
         KernelFacts', PlaceInv', UNCHANGED <<app, owner>>, jobs' \in Seq(WakeJob),
         \A u \in Task : call'[u] = call[u] \/ AboutCond(call'[u]),
         \A u \in Task : ret'[u] = ret[u] \/ (AboutCond(ret'[u]) /\ ~Succeeded(u)')
  PROVE  SleepInv'
<1>1. ArgInv'
  BY ArgKept DEF SleepInv
<1>2. DoingInv'
  BY DEF DoingInv
<1>3. ~(doing \in CondRecord /\ doing.step = "sleep")
  BY WaitConstants DEF CondRecord, WakeRecord, CondVar
<1>4. ResultInv'
  BY <1>3 DEF SleepInv, ResultInv, Succeeded
<1> QED BY <1>1, <1>2, <1>4 DEF SleepInv

\* The same, when no task is moved and no call is.
LEMMA WakeIdleKeeps ==
  ASSUME SleepInv, todo = <<>>, doing = None \/ doing \in WakeRecord,
         doing' = None \/ doing' \in WakeRecord, PendKept, LockInv',
         UNCHANGED <<run, status, prio, readyQ, waitVars, mutexVars, timeVars, call, todo, app>>,
         \/ UNCHANGED ret
         \/ Returns("NONE", None, "SUCCESS"),
         jobs' \in Seq(WakeJob)
  PROVE  SleepInv'
<1>1. KernelFacts /\ PlaceInv /\ run \in Task
  BY AtWorkFacts DEF SleepInv
<1>2. /\ ret' \in [Task -> FrameResult]
      /\ \A u \in Task : ret'[u] = ret[u] \/ ret'[u].number = "NONE"
  <2>1. CASE UNCHANGED ret
    BY <1>1, <2>1 DEF KernelFacts, ContinuationInv
  <2>2. CASE Returns("NONE", None, "SUCCESS")
    BY <1>1, <2>2, NoneAnswered DEF Err
  <2> QED BY <2>1, <2>2
<1>3. /\ KernelFacts' /\ \A u \in Task : Undisturbed(u)
      /\ UNCHANGED <<run, status, owner, call>>
  BY <1>1, <1>2, IdleStep
<1>4. PlaceInv'
  BY <1>1, <1>3, AllKept
<1>5. \A u \in Task : ret'[u] = ret[u] \/ (AboutCond(ret'[u]) /\ ~Succeeded(u)')
  BY <1>2 DEF AboutCond, Succeeded
<1> QED BY <1>3, <1>4, <1>5, WakeStepKeeps

\* Nothing but the call under way, or PostProc, goes on.
LEMMA WakeRecordKeeps ==
  ASSUME SleepInv, todo = <<>>, doing = None \/ doing \in WakeRecord,
         doing' = None \/ doing' \in WakeRecord, UNCHANGED kernelVars, UNCHANGED app,
         jobs' \in Seq(WakeJob)
  PROVE  SleepInv'
<1>1. /\ UNCHANGED <<run, status, prio, readyQ, waitVars, mutexVars, timeVars, call, todo, app>>
      /\ UNCHANGED ret /\ PendKept /\ LockInv'
  BY DEF kernelVars, schedVars, callVars, PendKept, SleepInv, KernelFacts, LockInv
<1> QED BY <1>1, WakeIdleKeeps

\* kSleepQueueWake by a task.
LEMMA WakeKeeps ==
  ASSUME SleepInv, NEW q \in SleepQ, NEW n \in 0 .. 1, kSleepQueueWake(q, n)
  PROVE  SleepInv'
<1>1. /\ Executing /\ NoCallUnderWay /\ doing = None /\ UNCHANGED <<jobs, app>>
      /\ jobs' \in Seq(WakeJob)
  BY DEF kSleepQueueWake, Calling, NoCallUnderWay, postVars, SleepInv, ArgInv
<1>2. KernelFacts /\ todo = <<>>
  BY <1>1, CallerFacts
<1>3. CASE Refuse("NONE", None, "EMPTY_WAITING_QUEUE") /\ UNCHANGED doing
  BY <1>1, <1>3, RefusedKeeps DEF Err
<1>4. CASE doing' = WakeOf(q, n) /\ UNCHANGED kernelVars
  <2>1. doing' \in WakeRecord
    BY <1>2, <1>4, WakeOfType
  <2> QED BY <1>1, <1>2, <1>4, <2>1, WakeRecordKeeps
<1> QED BY <1>3, <1>4 DEF kSleepQueueWake

\* A task that waits for events and is made ready.
LEMMA EventWoken ==
  ASSUME KernelFacts, PlaceInv, todo = <<>>, NEW t \in Task, status[t] = "SLEEPING_EV_FLAG",
         todo' = <<ReadySwtchOf(t)>>, UNCHANGED <<schedVars, waitQ, mutexVars, call>>,
         ret' \in [Task -> FrameResult],
         IF t # PostProc /\ ttype[t] = "EVENTFLAGS"
         THEN DisarmTimeout(t) /\ wqp' = [wqp EXCEPT ![t] = None]
         ELSE UNCHANGED <<timeVars, wqp>>
  PROVE  /\ KernelFacts' /\ \A u \in Task \ {t} : Undisturbed(u)
         /\ Placed(t)' /\ UNCHANGED <<run, status, owner, call>>
<1>1. Rests(t)
  BY NobodyWoken DEF PlaceInv, Placed, AtWork, AtLarge, Waits, WaitsOn, Leaves, Awake
<1>2. /\ HolderInv' /\ "ready" \in WakeOps /\ todo' = <<[op |-> "ready", task |-> t]>>
      /\ waitQ' \in [WaitObj -> Seq(Task)] /\ \A p \in WaitObj : NoDuplicates(waitQ'[p])
      /\ \A u \in Task : OnQueues(u)' = OnQueues(u)
      /\ UNCHANGED <<run, status, owner, call>>
  BY HolderSame DEF WakeOps, ReadySwtchOf, KernelFacts, ListInv, OnQueues, schedVars, mutexVars
<1>3. /\ DisarmTimeout(t) \/ UNCHANGED timeVars
      /\ wqp' = wqp \/ wqp' = [wqp EXCEPT ![t] = None]
  OBVIOUS
<1>4. /\ KernelFacts' /\ \A u \in Task \ {t} : Undisturbed(u)
      /\ WakesOf(t) = {} /\ WakesOf(t)' = {[op |-> "ready", task |-> t]}
      /\ DisarmTimeout(t) => ~Armed(t)'
      /\ UNCHANGED timeVars => (Armed(t)' <=> Armed(t))
  BY <1>2, <1>3, WakeBegins
<1>5. ~Armed(t)' /\ wqp'[t] = None
  BY <1>1, <1>4 DEF Rests, KernelFacts, ListInv
<1>6. Leaves(t)'
  BY <1>1, <1>2, <1>4, <1>5 DEF Leaves, Rests, Relocks, Awake
<1> QED BY <1>2, <1>4, <1>6 DEF Placed

\* kSleepQueueWake by an interrupt.
LEMMA IsrWakeKeeps ==
  ASSUME SleepInv, NEW q \in SleepQ, NEW n \in 0 .. 1, IsrWake(q, n)
  PROVE  SleepInv'
<1> DEFINE job == [job |-> "SLEEPQ_WAKE", obj |-> q, n |-> WakeOf(q, n).count]
<1>1. /\ todo = <<>> /\ JobEnq(job) /\ UNCHANGED <<doing, app>>
      /\ UNCHANGED <<schedVars, waitVars, mutexVars, timeVars, callVars>>
      /\ UNCHANGED <<run, status, owner, call, ret, schedVars, waitQ, wqp>>
  BY DEF IsrWake, Isr, schedVars, mutexVars, callVars, waitVars
<1>2. KernelFacts /\ PlaceInv /\ ret' \in [Task -> FrameResult]
  BY <1>1 DEF SleepInv, KernelFacts, ContinuationInv
<1>3. jobs' \in Seq(WakeJob)
  <2>1. job \in WakeJob
    BY <1>2, WakeOfType DEF WakeJob
  <2>2. jobs \in Seq(WakeJob) /\ jobs' = Append(jobs, job)
    BY <1>1 DEF SleepInv, ArgInv, JobEnq
  <2> HIDE DEF job
  <2> QED BY <2>1, <2>2, AppendProperties
<1> HIDE DEF job
<1>4. PostProc \in Task
  BY PostProcConstants
<1>5. KernelFacts' /\ PlaceInv'
  <2>1. CASE status[PostProc] = "SLEEPING_EV_FLAG"
    <3>1. todo' = <<ReadySwtchOf(PostProc)>>
      BY <1>1, <2>1 DEF JobEnq
    <3>2. /\ KernelFacts' /\ \A u \in Task \ {PostProc} : Undisturbed(u)
          /\ Placed(PostProc)'
      BY <1>1, <1>2, <1>4, <2>1, <3>1, EventWoken
    <3> QED BY <1>1, <1>2, <1>4, <3>2, OthersKept
  <2>2. CASE status[PostProc] # "SLEEPING_EV_FLAG"
    <3>1. UNCHANGED todo
      BY <1>1, <2>2 DEF JobEnq
    <3>2. KernelFacts' /\ \A u \in Task : Undisturbed(u)
      BY <1>1, <1>2, <3>1, StillStep
    <3> QED BY <1>1, <1>2, <3>2, AllKept
  <2> QED BY <2>1, <2>2
<1> QED BY <1>1, <1>3, <1>5, OutsideStep

\* PostProc takes a job, and goes on with its loop.
LEMMA PostProcWakeKeeps ==
  ASSUME SleepInv, NEW job, PostProcWake(job)
  PROVE  SleepInv'
<1>1. /\ doing = None /\ todo = <<>> /\ jobs # <<>> /\ job = Head(jobs) /\ jobs' = Tail(jobs)
      /\ doing' = [step |-> "test", obj |-> job.obj, chosen |-> None, count |-> job.n]
      /\ UNCHANGED kernelVars /\ UNCHANGED app
  BY DEF PostProcWake, JobDeq, NoCallUnderWay, PostProcAt
<1>2. job \in WakeJob /\ jobs' \in Seq(WakeJob)
  BY <1>1, TailFacts DEF SleepInv, ArgInv
<1>3. doing' \in WakeRecord
  BY <1>1, <1>2 DEF WakeJob, WakeRecord
<1> QED BY <1>1, <1>2, <1>3, WakeRecordKeeps

\* PostProc's own loop, between its jobs.
LEMMA PostProcLoopKeeps ==
  ASSUME SleepInv, NoCallUnderWay, PostProcResume \/ PostProcScanned \/ PostProcWait,
         UNCHANGED <<doing, app>>
  PROVE  SleepInv'
<1>1. /\ doing = None /\ doing' = None /\ todo = <<>> /\ ~pendSV /\ run = PostProc
      /\ UNCHANGED jobs /\ jobs' \in Seq(WakeJob)
  BY DEF NoCallUnderWay, PostProcResume, PostProcScanned, PostProcWait, PostProcEventGet,
         PostProcAt, SleepInv, ArgInv
<1>2. CASE UNCHANGED kernelVars
  BY <1>1, <1>2, WakeRecordKeeps
<1>3. CASE PostProcWait
  <2>1. /\ UNCHANGED <<run, prio, readyQ, schLock, savedLock, waitVars, mutexVars, timeVars,
                       callVars, todo>>
        /\ UNCHANGED <<call, ret, waitQ, wqp, tmo, ttype>>
    BY <1>3 DEF PostProcWait, PostProcEventGet, callVars, waitVars, timeVars
  <2>2. /\ KernelFacts /\ PlaceInv /\ run \in Task /\ DispatchInv /\ LockInv'
    BY <2>1, AtWorkFacts DEF SleepInv, KernelFacts, LockInv
  <2>3. CASE UNCHANGED <<status, pendSV>>
    <3>1. PendKept
      BY <2>3 DEF PendKept
    <3> QED BY <1>1, <2>1, <2>2, <2>3, <3>1, WakeIdleKeeps
  <2>4. CASE status' = [status EXCEPT ![run] = "SLEEPING_EV_FLAG"] /\ pendSV' = TRUE
    <3>1. status[run] = "RUNNING" /\ AtWork(run) /\ run # IdleTask
      BY <1>1, <2>2, AtWorkFacts, PostProcConstants DEF DispatchInv, SleepInv
    <3>2. DispatchInv'
      <4>1. "SLEEPING_EV_FLAG" \in Status \ {"READY", "RUNNING"}
        BY DEF Status
      <4> QED BY <2>1, <2>2, <2>4, <3>1, <4>1, DispatchSuspend
    <3>3. KernelFacts' /\ UNCHANGED owner
      <4>1. ListInv' /\ ContinuationInv' /\ PendingInv'
        BY <2>1, <2>2 DEF KernelFacts, ListInv, ContinuationInv, PendingInv
      <4> QED BY <2>1, <2>2, <3>2, <4>1, HolderSame DEF KernelFacts
    <3>4. \A u \in Task \ {run} : Undisturbed(u)
      BY <2>1, <2>2, <2>4 DEF Undisturbed, OnQueues, Armed, WakesOf, DispatchInv
    <3>5. Rests(run)'
      <4>1. status'[run] = "SLEEPING_EV_FLAG"
        BY <2>2, <2>4 DEF DispatchInv
      <4>2. call[run].number = "NONE"
        BY <1>1, <2>2 DEF KernelFacts, ContinuationInv, UserTask
      <4> QED BY <2>1, <3>1, <4>1, <4>2
              DEF Rests, AtWork, AtLarge, OnQueues, Armed, WakesOf, Relocks
    <3>6. PlaceInv'
      <4>1. Placed(run)'
        BY <3>5 DEF Placed
      <4>2. ASSUME NEW u \in Task PROVE Placed(u)'
        BY <2>1, <2>2, <3>3, <3>4, <4>1, PlaceKept DEF PlaceInv
      <4> QED BY <4>2 DEF PlaceInv
    <3> QED BY <1>1, <2>1, <3>3, <3>6, WakeStepKeeps
  <2>5. pendSV' = TRUE \/ UNCHANGED <<status, pendSV>>
    BY <1>3 DEF PostProcWait, PostProcEventGet, kPendCtxSwtch, kPendCtxSwtchNow_
  <2> QED BY <1>3, <2>3, <2>4, <2>5 DEF PostProcWait, PostProcEventGet
<1> QED BY <1>2, <1>3 DEF PostProcResume, PostProcScanned

(***************************************************************************)
(* The regions of a wake.                                                  *)
(***************************************************************************)
\* kSchLock and kSchUnlock within a call.
LEMMA LockStays ==
  ASSUME KernelFacts, run \in Task, \/ LockSched /\ UNCHANGED pendSV
                                    \/ UnlockSched
  PROVE  LockInv' /\ PendKept
<1>1. LockInv
  BY DEF KernelFacts
<1>2. CASE LockSched /\ UNCHANGED pendSV
  BY <1>1, <1>2 DEF LockSched, LockInv, PendKept
<1>3. CASE UnlockSched
  BY <1>1, <1>3 DEF UnlockSched, LockInv, PendKept, NoCtxSwtch, kPendCtxSwtchNow_
<1> QED BY <1>2, <1>3

\* The head of the queue is made ready at once.
LEMMA WakeOneKeeps ==
  ASSUME SleepInv, WakeOne
  PROVE  SleepInv'
<1>1. /\ KernelFacts /\ PlaceInv /\ todo = <<>> /\ run \in Task /\ doing \in WakeRecord
  BY WakeUnderWay DEF WakeOne
<1>2. PICK q \in SleepQ : q = doing.obj
  BY <1>1 DEF WakeRecord
<1>3. waitQ[q] # <<>> /\ q \in WaitObj /\ q \notin Mutex /\ ListInv
  BY <1>1, <1>2, KernelConstants DEF WakeOne, SleepQ, WaitObj, KernelFacts
<1>4. PICK w \in Task : w = Head(waitQ[q])
  BY <1>3, TailFacts DEF ListInv
<1>5. /\ waitQ' = [waitQ EXCEPT ![q] = Tail(@)]
      /\ IF ttype[w] = "BLOCKING"
         THEN DisarmTimeout(w) /\ wqp' = [wqp EXCEPT ![w] = None]
         ELSE UNCHANGED <<timeVars, wqp>>
      /\ readyQ' = ReadyEnq(readyQ, w) /\ kSyscallTaskWake(w)
      /\ status' = [status EXCEPT ![w] = "READY"]
      /\ \/ doing' = [doing EXCEPT !.count = @ - 1, !.chosen = w]
         \/ doing' = [doing EXCEPT !.count = @ - 1]
      /\ UNCHANGED <<run, prio, schLock, savedLock, pendingSw, pendSV, mutexVars, todo, jobs, app>>
  BY <1>2, <1>4 DEF WakeOne, postVars
<1>6. /\ w \in Task /\ q \in OnQueues(w)
      /\ waitQ' \in [WaitObj -> Seq(Task)] /\ \A p \in WaitObj : NoDuplicates(waitQ'[p])
      /\ \A u \in Task \ {w} : OnQueues(u)' = OnQueues(u)
      /\ OnQueues(w)' = OnQueues(w) \ {q}
  BY <1>3, <1>4, <1>5, HeadLeaves
<1>7. Waits(w)
  BY <1>1, <1>4, <1>6 DEF PlaceInv, Placed, AtWork, AtLarge, Rests, Leaves
<1>8. /\ OnQueues(w) = {q} /\ WaitsOn(w, q) /\ WakesOf(w) = {} /\ status[w] \notin Awake
      /\ ~Relocks(w)
  BY <1>3, <1>6, <1>7 DEF Waits, WaitsOn, Awake, Relocks
<1>9. /\ tmo' \in Seq(Task) /\ NoDuplicates(tmo') /\ ttype' \in [Task -> TimeoutType]
      /\ \A u \in Task \ {w} : (Armed(u)' <=> Armed(u)) /\ ttype'[u] = ttype[u]
      /\ ~Armed(w)'
  <2>1. CASE ttype[w] = "BLOCKING"
    BY <1>3, <1>4, <1>5, <2>1, NodeDisarmed
  <2>2. CASE ttype[w] # "BLOCKING"
    <3>1. ~Armed(w) /\ UNCHANGED <<tmo, ttype>>
      BY <1>3, <1>5, <1>8, <2>2 DEF WaitsOn, timeVars
    <3> QED BY <1>3, <1>4, <3>1, NodesSame
  <2> QED BY <2>1, <2>2
<1>10. /\ wqp' \in [Task -> WaitObj \cup {None}] /\ wqp'[w] = None
       /\ \A u \in Task \ {w} : wqp'[u] = wqp[u]
  BY <1>3, <1>4, <1>5, <1>8 DEF ListInv, WaitsOn
<1>11. /\ ContinuationInv' /\ CallGoesOn(w, TRUE)
       /\ \A u \in Task \ {w} : call'[u] = call[u] /\ ret'[u] = ret[u]
  <2>1. ContinuationInv /\ TRUE \in BOOLEAN /\ (IF TRUE THEN kSyscallTaskWake(w)
                   ELSE kSyscallTaskTimeout(w) \/ kSyscallTaskSignal(w))
    BY <1>1, <1>5 DEF KernelFacts
  <2> QED BY <1>4, <2>1, CallsEnd
<1>12. KernelFacts'
  <2>1. DispatchInv'
    <3>1. PendKept /\ DispatchInv /\ status[w] \notin {"READY", "RUNNING"}
      BY <1>1, <1>5, <1>8 DEF PendKept, KernelFacts, Awake
    <3> QED BY <1>4, <1>5, <3>1, DispatchReady
  <2>2. ListInv'
    BY <1>6, <1>9, <1>10 DEF ListInv
  <2>3. HolderInv' /\ PendingInv' /\ LockInv'
    BY <1>1, <1>5, HolderSame DEF KernelFacts, PendingInv, LockInv
  <2> QED BY <1>11, <2>1, <2>2, <2>3 DEF KernelFacts
<1>13. status \in [Task -> Status] /\ UNCHANGED owner /\ WakesOf(w)' = WakesOf(w)
  BY <1>1, <1>5 DEF KernelFacts, DispatchInv, mutexVars, WakesOf
<1>14. \A u \in Task \ {w} : Undisturbed(u)
  BY <1>4, <1>5, <1>6, <1>9, <1>10, <1>11, <1>13 DEF Undisturbed, WakesOf
<1>15. PlaceInv'
  <2>1. AtWork(w)'
    BY <1>4, <1>5, <1>6, <1>8, <1>9, <1>10, <1>13 DEF AtWork, AtLarge, Awake
  <2> QED BY <1>1, <1>4, <1>5, <1>14, <2>1, OthersKept DEF Placed
<1>16. AboutCond(call'[w]) /\ (ret'[w] = ret[w] \/ (AboutCond(ret'[w]) /\ ~Succeeded(w)'))
  BY <1>4, <1>8, <1>11 DEF CallGoesOn, AboutCond, Succeeded, Relocks, SleepInv, ArgInv
<1>17. doing' \in WakeRecord
  <2> DEFINE n == doing.count - 1
  <2>1. \/ doing' = [doing EXCEPT !.count = n, !.chosen = w]
        \/ doing' = [doing EXCEPT !.count = n]
    BY <1>5
  <2>2. n \in Int
    BY <1>1 DEF WakeRecord
  <2> HIDE DEF n
  <2>3. CASE doing' = [doing EXCEPT !.count = n, !.chosen = w]
    BY <1>1, <1>4, <2>2, <2>3 DEF WakeRecord
  <2>4. CASE doing' = [doing EXCEPT !.count = n]
    BY <1>1, <2>2, <2>4 DEF WakeRecord
  <2> QED BY <2>1, <2>3, <2>4
<1>18. /\ \A u \in Task : call'[u] = call[u] \/ AboutCond(call'[u])
       /\ \A u \in Task : ret'[u] = ret[u] \/ (AboutCond(ret'[u]) /\ ~Succeeded(u)')
  BY <1>11, <1>16
<1>19. jobs' \in Seq(WakeJob)
  BY <1>5 DEF SleepInv, ArgInv
<1> QED BY <1>1, <1>5, <1>12, <1>13, <1>15, <1>17, <1>18, <1>19, WakeStepKeeps

\* The other regions of a wake.
LEMMA WakeCallKeeps ==
  ASSUME SleepInv, WakeTest \/ WakeLock \/ WakeResched \/ WakeEnd
  PROVE  SleepInv'
<1>1. /\ KernelFacts /\ PlaceInv /\ todo = <<>> /\ run \in Task /\ doing \in WakeRecord
      /\ UNCHANGED <<jobs, app>> /\ jobs' \in Seq(WakeJob) /\ LockInv
  BY WakeUnderWay
     DEF WakeTest, WakeLock, WakeResched, WakeEnd, postVars, SleepInv, ArgInv, KernelFacts
<1>2. CASE WakeTest
  <2>1. doing' = None \/ doing' \in WakeRecord
    <3>1. doing.obj \in SleepQ /\ doing.count \in Int
      BY <1>1 DEF WakeRecord
    <3>2. WakeOf(doing.obj, doing.count) \in WakeRecord
      BY <1>1, <3>1, WakeOfType
    <3> QED BY <1>2, <3>2 DEF WakeTest
  <2>2. UNCHANGED kernelVars
    BY <1>2 DEF WakeTest
  <2> QED BY <1>1, <2>1, <2>2, WakeRecordKeeps
<1>3. CASE WakeLock \/ WakeResched \/ WakeEnd
  <2>1. doing' = None \/ doing' \in WakeRecord
    BY <1>1, <1>3 DEF WakeLock, WakeResched, WakeEnd, WakeRecord
  <2>2. PendKept /\ LockInv'
    <3>1. CASE WakeLock
      BY <1>1, <3>1, LockStays DEF WakeLock
    <3>2. CASE WakeEnd
      BY <1>1, <3>2, LockStays DEF WakeEnd
    <3>3. CASE WakeResched
      <4>1. PendKept
        <5>1. NoCtxSwtch \/ kReschedTask(prio[doing.chosen], prio)
          BY <3>3 DEF WakeResched
        <5> QED BY <5>1, PendRequests
      <4> QED BY <1>1, <3>3, <4>1 DEF WakeResched, LockInv
    <3> QED BY <1>3, <3>1, <3>2, <3>3
  <2>3. UNCHANGED <<run, status, prio, readyQ, waitVars, mutexVars, timeVars, call, todo, app>>
    BY <1>1, <1>3 DEF WakeLock, WakeResched, WakeEnd, callVars
  <2>4. UNCHANGED ret \/ Returns("NONE", None, "SUCCESS")
    BY <1>3 DEF WakeLock, WakeResched, WakeEnd, callVars
  <2> QED BY <1>1, <2>1, <2>2, <2>3, <2>4, WakeIdleKeeps
<1> QED BY <1>2, <1>3

(***************************************************************************)
(* kCondVarWait, region by region.                                         *)
(***************************************************************************)
\* A region of the running task that ends its call, or leaves it.
LEMMA CallEndsStep ==
  ASSUME KernelFacts, PlaceInv, todo = <<>>, run \in UserTask, status[run] = "RUNNING",
         AtWork(run), NEW c \in Suspension, call' = [call EXCEPT ![run] = c],
         ret' \in [Task -> FrameResult], PendKept, LockInv', UNCHANGED app,
         UNCHANGED <<run, status, prio, readyQ, waitVars, mutexVars, timeVars, todo>>
  PROVE  KernelFacts' /\ PlaceInv' /\ UNCHANGED owner
         /\ (\A u \in Task \ {run} : call'[u] = call[u]) /\ call'[run] = c
<1>1. run \in Task /\ ContinuationInv /\ DispatchInv /\ ListInv
  BY DEF UserTask, KernelFacts
<1>2. UNCHANGED <<waitQ, wqp, tmo, ttype>>
  BY DEF waitVars, timeVars
<1>3. /\ ContinuationInv' /\ call'[run] = c
      /\ \A u \in Task \ {run} : call'[u] = call[u]
  BY <1>1 DEF ContinuationInv
<1>4. DispatchInv'
  BY <1>1, DispatchFrame
<1>5. ListInv' /\ PendingInv'
  BY <1>1, <1>2 DEF ListInv, KernelFacts, PendingInv
<1>6. KernelFacts' /\ UNCHANGED owner
  BY <1>3, <1>4, <1>5, HolderSame DEF KernelFacts
<1>7. \A u \in Task \ {run} : Undisturbed(u)
  BY <1>2, <1>3 DEF Undisturbed, OnQueues, Armed, WakesOf
<1>8. AtWork(run)'
  BY <1>2 DEF AtWork, AtLarge, OnQueues, Armed, WakesOf
<1>9. PlaceInv'
  BY <1>1, <1>6, <1>7, <1>8, OthersKept DEF Placed
<1> QED BY <1>3, <1>6, <1>9

\* The scheduler is locked; the mutex of the condition is the caller's.
LEMMA CondBeginKeeps ==
  ASSUME SignalledTimed, SleepInv, NEW c \in SleepQ, c \in app.wait[run], kCondVarWait(c)
  PROVE  SleepInv'
<1>1. /\ Executing /\ doing = None /\ Monitor[c] # None /\ owner[Monitor[c]] = run /\ LockSched
      /\ doing' = [step |-> "release", obj |-> c] /\ UNCHANGED <<jobs, app, call, ret>>
      /\ UNCHANGED <<run, status, prio, readyQ, pendSV, waitVars, mutexVars, timeVars, todo>>
      /\ app \in App
  BY DEF kCondVarWait, Calling, NoCallUnderWay, postVars, callVars, SleepInv
<1>2. /\ KernelFacts /\ PlaceInv /\ run \in UserTask /\ run \in Task
      /\ status[run] = "RUNNING" /\ todo = <<>> /\ call[run] = NoCall
  BY <1>1, CallerFacts
<1>3. /\ KernelFacts' /\ \A u \in Task : Undisturbed(u)
      /\ UNCHANGED <<run, status, owner, call>>
  <2>1. LockInv' /\ PendKept
    BY <1>1, <1>2, LockStays
  <2>2. ret' \in [Task -> FrameResult]
    BY <1>1, <1>2 DEF KernelFacts, ContinuationInv
  <2> QED BY <1>1, <1>2, <2>1, <2>2, IdleStep
<1>4. PlaceInv'
  BY <1>1, <1>2, <1>3, AllKept
<1>5. ArgInv'
  <2>1. jobs' \in Seq(WakeJob)
    BY <1>1 DEF SleepInv, ArgInv
  <2> QED BY <1>1, <2>1, ArgKept DEF SleepInv
<1>6. DoingInv'
  <2>1. run \notin app.signal
    BY <1>1, <1>2 DEF SignalledTimed
  <2>2. doing' \in CondRecord /\ doing'.step = "release" /\ doing'.obj = c
    BY <1>1 DEF CondRecord, CondVar
  <2>3. CondUnderWay'
    BY <1>1, <1>2, <1>3, <2>1, <2>2 DEF CondUnderWay, NoCall
  <2> QED BY <2>3 DEF DoingInv
<1>7. ResultInv'
  <2>1. ~(doing \in CondRecord /\ doing.step = "sleep")
    BY <1>1, WaitConstants DEF CondRecord, CondVar
  <2> QED BY <1>1, <1>3, <2>1 DEF SleepInv, ResultInv, Succeeded
<1> QED BY <1>1, <1>3, <1>4, <1>5, <1>6, <1>7 DEF SleepInv

\* The mutex is given up.
LEMMA CondReleaseKeeps ==
  ASSUME SleepInv, CondRelease
  PROVE  SleepInv'
<1>1. At("release")
  BY DEF CondRelease
<1>2. /\ KernelFacts /\ PlaceInv /\ todo = <<>> /\ CondUnderWay /\ doing.step = "release"
      /\ run \in UserTask /\ run \in Task /\ status[run] = "RUNNING" /\ AtWork(run)
      /\ doing.obj \in CondVar
  BY <1>1, CondIsUnderWay
<1>3. PICK m \in Mutex : m = Monitor[doing.obj]
  BY <1>2, MonitorType
<1>4. /\ owner[m] = run
      /\ UnlockFree(m) \/ UnlockHandOff(m)
      /\ doing' = [doing EXCEPT !.step = "sleep"]
      /\ UNCHANGED <<schedVars, mesgPrio, call, ret, jobs, app, run, status>>
  BY <1>2, <1>3 DEF CondRelease, CondUnderWay, callVars, postVars, schedVars
<1>5. /\ KernelFacts' /\ OwnersKept
      /\ \/ \A u \in Task : Undisturbed(u)
         \/ \E w \in Task : Released(w, m) /\ wqp'[w] = None /\ owner'[m] = w
  <2>1. ret' \in [Task -> FrameResult] /\ UNCHANGED <<schedVars, mesgPrio, call>>
    BY <1>2, <1>4 DEF KernelFacts, ContinuationInv
  <2> QED BY <1>2, <1>4, <2>1, UnlockStep
<1>6. PlaceInv'
  <2>1. CASE \A u \in Task : Undisturbed(u)
    BY <1>2, <1>4, <2>1, AllKept
  <2>2. ASSUME NEW w \in Task, Released(w, m), wqp'[w] = None, owner'[m] = w PROVE PlaceInv'
    <3>1. Placed(w)'
      BY <1>2, <2>2, ReleasedLeaves DEF WaitObj
    <3>2. \A u \in Task \ {w} : Undisturbed(u)
      BY <2>2 DEF Released
    <3> QED BY <1>2, <1>4, <3>1, <3>2, OthersKept
  <2> QED BY <1>5, <2>1, <2>2
<1>7. ArgInv'
  <2>1. jobs' \in Seq(WakeJob)
    BY <1>4 DEF SleepInv, ArgInv
  <2> QED BY <1>4, <2>1, ArgKept DEF SleepInv
<1>8. doing' \in CondRecord /\ doing'.step = "sleep" /\ doing'.obj = doing.obj
  BY <1>2, <1>4 DEF CondUnderWay, CondRecord
<1>9. DoingInv'
  <2>1. CondUnderWay'
    BY <1>2, <1>4, <1>8 DEF CondUnderWay
  <2> QED BY <2>1 DEF DoingInv
<1>10. ResultInv'
  <2>1. ASSUME NEW u \in Task, Succeeded(u)', u # run PROVE owner'[Monitor[ret'[u].arg]] = u
    <3>1. Succeeded(u) /\ ret'[u].arg = ret[u].arg
      BY <1>4, <2>1 DEF Succeeded
    <3>2. owner[Monitor[ret[u].arg]] = u /\ Monitor[ret[u].arg] \in Mutex /\ u # None
      BY <2>1, <3>1, MonitorType, KernelConstants
         DEF SleepInv, ResultInv, ArgInv, AboutCond, Succeeded
    <3> QED BY <1>5, <2>1, <3>1, <3>2 DEF OwnersKept
  <2> QED BY <1>4, <1>8, <2>1 DEF ResultInv
<1> QED BY <1>4, <1>5, <1>6, <1>7, <1>9, <1>10 DEF SleepInv

\* The task goes to sleep on the condition.
LEMMA CondSleepKeeps ==
  ASSUME SleepInv, CondSleep
  PROVE  SleepInv'
<1>1. At("sleep")
  BY DEF CondSleep
<1>2. /\ KernelFacts /\ PlaceInv /\ todo = <<>> /\ CondUnderWay /\ doing.step = "sleep"
      /\ run \in UserTask /\ run \in Task /\ status[run] = "RUNNING" /\ AtWork(run)
      /\ doing.obj \in CondVar
  BY <1>1, CondIsUnderWay
<1>3. PICK c \in CondVar : c = doing.obj
  BY <1>2
<1>4. /\ SleepOn(c, Forever, "CONDVAR_WAIT") /\ doing' = None /\ UNCHANGED <<jobs, app>>
      /\ run \notin app.signal /\ c \in SleepQ
  BY <1>2, <1>3, MonitorType DEF CondSleep, CondUnderWay, postVars
<1>5. /\ KernelFacts' /\ \A u \in Task \ {run} : Undisturbed(u) /\ ret'[u] = ret[u]
      /\ Placed(run)' /\ call'[run].arg = c
      /\ ret'[run].arg = c /\ ret'[run].err = "RESTART"
      /\ UNCHANGED <<run, owner>>
  BY <1>2, <1>4, SleepOnStep
<1>6. PlaceInv'
  BY <1>2, <1>4, <1>5, OthersKept
<1>7. ArgInv'
  <2>1. jobs' \in Seq(WakeJob) /\ AboutCond(call'[run]) /\ AboutCond(ret'[run])
    BY <1>4, <1>5 DEF SleepInv, ArgInv, AboutCond
  <2>2. \A u \in Task : ret'[u] = ret[u] \/ AboutCond(ret'[u])
    BY <1>5, <2>1
  <2>3. \A u \in Task : call'[u] = call[u] \/ AboutCond(call'[u])
    BY <1>5, <2>1 DEF Undisturbed
  <2> QED BY <2>1, <2>2, <2>3, ArgKept DEF SleepInv
<1>8. ResultInv'
  BY <1>5 DEF SleepInv, ResultInv, Succeeded
<1> QED BY <1>4, <1>5, <1>6, <1>7, <1>8 DEF SleepInv, DoingInv

\* What a task that is to enter its call again knows.
LEMMA RestartFacts ==
  ASSUME SleepInv, NEW number, number # "NONE", Restarted(number)
  PROVE  /\ KernelFacts /\ PlaceInv /\ todo = <<>> /\ doing = None
         /\ run \in UserTask /\ run \in Task /\ status[run] = "RUNNING" /\ AtWork(run)
         /\ call[run] \in Suspension /\ call[run].number = number
<1>1. /\ todo = <<>> /\ doing = None /\ status[run] = "RUNNING" /\ call[run].number = number
      /\ KernelFacts /\ PlaceInv
  BY DEF SleepInv, Restarted, NoCallUnderWay
<1>2. run \in Task /\ AtWork(run)
  BY <1>1, AtWorkFacts
<1> QED BY <1>1, <1>2 DEF KernelFacts, ContinuationInv

\* Woken, the task takes the mutex again, or waits for it.
LEMMA CondRelockKeeps ==
  ASSUME SleepInv, CondRelock
  PROVE  SleepInv'
<1>1. /\ KernelFacts /\ PlaceInv /\ todo = <<>> /\ doing = None
      /\ run \in UserTask /\ run \in Task /\ status[run] = "RUNNING" /\ AtWork(run)
      /\ call[run] \in Suspension /\ call[run].number = "CONDVAR_WAIT"
  BY RestartFacts DEF CondRelock
<1>2. PICK c \in CondVar : c = call[run].arg
  BY <1>1 DEF SleepInv, ArgInv, AboutCond
<1>3. PICK m \in Mutex : m = Monitor[c]
  BY MonitorType
<1>4. /\ UNCHANGED <<jobs, app>> /\ jobs' \in Seq(WakeJob)
      /\ ~(doing \in CondRecord /\ doing.step = "sleep")
  BY <1>1, WaitConstants DEF CondRelock, postVars, SleepInv, ArgInv, CondRecord, CondVar
<1>5. CASE /\ ~lock[m] /\ OwnMutex(m)
           /\ doing' = [step |-> "relocked", obj |-> c]
           /\ UNCHANGED <<schedVars, callVars>>
  <2>1. HolderInv' /\ OwnersKept /\ owner'[m] = run
    BY <1>1, <1>5, MutexTaken DEF KernelFacts
  <2>2. /\ UNCHANGED <<run, status, prio, readyQ, waitVars, tmo, ttype, call, ret, schLock, todo>>
        /\ PendKept /\ LockInv' /\ WalkList(todo') /\ ret' \in [Task -> FrameResult]
        /\ owner' = [owner EXCEPT ![m] = run]
    BY <1>1, <1>5, WalkListKinds
       DEF OwnMutex, schedVars, callVars, timeVars, PendKept, KernelFacts, LockInv, ContinuationInv
  <2>3. KernelFacts' /\ \A t \in Task : Undisturbed(t)
    BY <1>1, <2>1, <2>2, LocalStep
  <2>4. PlaceInv'
    BY <1>1, <1>4, <2>3, AllKept
  <2>5. ArgInv'
    BY <1>4, <2>2, ArgKept DEF SleepInv
  <2>6. DoingInv'
    <3>1. doing' \in CondRecord /\ doing'.step = "relocked" /\ doing'.obj = c
      BY <1>5, MonitorType DEF CondRecord
    <3>2. CondUnderWay'
      BY <1>1, <1>2, <1>3, <2>1, <2>2, <3>1 DEF CondUnderWay
    <3> QED BY <3>2 DEF DoingInv
  <2>7. ResultInv'
    <3>1. ASSUME NEW u \in Task, Succeeded(u)' PROVE owner'[Monitor[ret'[u].arg]] = u
      <4>1. Succeeded(u) /\ ret'[u].arg = ret[u].arg
        BY <2>2, <3>1 DEF Succeeded
      <4>2. owner[Monitor[ret[u].arg]] = u /\ Monitor[ret[u].arg] \in Mutex /\ u # None
        BY <1>4, <4>1, MonitorType, KernelConstants
           DEF SleepInv, ResultInv, ArgInv, AboutCond, Succeeded
      <4> QED BY <1>1, <2>1, <2>2, <4>1, <4>2 DEF OwnersKept, KernelFacts, HolderInv
    <3> QED BY <3>1 DEF ResultInv
  <2> QED BY <1>4, <2>3, <2>4, <2>5, <2>6, <2>7 DEF SleepInv
<1>6. CASE /\ WaitForMutex(m, Forever, [call[run] EXCEPT !.wake = "SUCCESS"])
           /\ UNCHANGED doing
  <2> DEFINE d == [call[run] EXCEPT !.wake = "SUCCESS"]
  <2>1. d \in Suspension /\ d.number = "CONDVAR_WAIT" /\ d.arg = c
    BY <1>1, <1>2 DEF Suspension, Err
  <2>2. WaitForMutex(m, Forever, d)
    BY <1>6
  <2> HIDE DEF d
  <2>3. /\ KernelFacts' /\ \A u \in Task \ {run} : Undisturbed(u) /\ ret'[u] = ret[u]
        /\ status'[run] = "BLOCKED" /\ OnQueues(run)' = {m} /\ WakesOf(run)' = {}
        /\ wqp'[run] = m /\ call'[run] = d
        /\ Armed(run)' => ttype'[run] = "BLOCKING"
        /\ ret'[run].number = d.number /\ ret'[run].err = "RESTART"
        /\ UNCHANGED <<run, owner>>
    BY <1>1, <2>1, <2>2, MutexWaitStep DEF AtWork
  <2>4. ret'[run].arg = c
    BY <1>1, <2>1, <2>2 DEF WaitForMutex, Returns, KernelFacts, ContinuationInv
  <2>5. Placed(run)'
    <3>1. WaitsOn(run, m)'
      BY <1>3, <2>1, <2>3 DEF WaitsOn
    <3>2. m \in WaitObj /\ m # None
      BY KernelConstants DEF WaitObj
    <3> QED BY <1>1, <2>3, <3>1, <3>2 DEF Waits, Placed
  <2>6. PlaceInv'
    BY <1>1, <1>4, <2>3, <2>5, OthersKept
  <2>7. AboutCond(call'[run]) /\ AboutCond(ret'[run]) /\ ~Succeeded(run)'
    BY <2>1, <2>3, <2>4 DEF AboutCond, Succeeded
  <2>8. /\ \A u \in Task : call'[u] = call[u] \/ AboutCond(call'[u])
        /\ \A u \in Task : ret'[u] = ret[u] \/ (AboutCond(ret'[u]) /\ ~Succeeded(u)')
    BY <2>3, <2>7 DEF Undisturbed
  <2> QED BY <1>1, <1>4, <1>6, <2>3, <2>6, <2>8, WakeStepKeeps
<1> QED BY <1>2, <1>3, <1>5, <1>6 DEF CondRelock

\* It unlocks the scheduler and returns, with the mutex.
LEMMA CondReturnKeeps ==
  ASSUME SleepInv, CondReturn
  PROVE  SleepInv'
<1>1. At("relocked")
  BY DEF CondReturn
<1>2. /\ KernelFacts /\ PlaceInv /\ todo = <<>> /\ CondUnderWay /\ doing.step = "relocked"
      /\ run \in UserTask /\ run \in Task /\ status[run] = "RUNNING" /\ AtWork(run)
      /\ doing.obj \in CondVar
  BY <1>1, CondIsUnderWay
<1>3. /\ call[run].number = "CONDVAR_WAIT" /\ call[run].arg = doing.obj
      /\ owner[Monitor[doing.obj]] = run /\ call[run] \in Suspension /\ ContinuationInv
  BY <1>2 DEF CondUnderWay, KernelFacts, ContinuationInv
<1>4. /\ UnlockSched /\ kSyscallTaskComplete_(run, call[run].wake) /\ doing' = None
      /\ UNCHANGED <<run, status, prio, readyQ, waitVars, mutexVars, timeVars, todo, jobs, app>>
      /\ LockInv' /\ PendKept
  BY <1>2, LockStays DEF CondReturn, postVars
<1>5. /\ ret' \in [Task -> FrameResult] /\ NoCall \in Suspension /\ NoCall.number = "NONE"
      /\ call' = [call EXCEPT ![run] = NoCall]
      /\ ret'[run].number = "CONDVAR_WAIT" /\ ret'[run].arg = doing.obj
      /\ \A u \in Task \ {run} : ret'[u] = ret[u]
  <2>1. call' = [call EXCEPT ![run] = NoCall]
    BY <1>4 DEF kSyscallTaskComplete_
  <2>2. NoCall \in Suspension /\ NoCall.number = "NONE"
    BY DEF NoCall, Suspension, CallNumber, CallPhase, Err
  <2>3. PICK err \in Err : err = call[run].wake
    BY <1>3 DEF Suspension
  <2>4. Returns("CONDVAR_WAIT", doing.obj, err)
    BY <1>3, <1>4, <2>3 DEF kSyscallTaskComplete_, Returns
  <2>5. "CONDVAR_WAIT" \in ResultNumber /\ doing.obj \in WaitObj \cup {None}
    BY <1>2 DEF ResultNumber, CallNumber, CondVar, SleepQ, WaitObj
  <2> QED BY <1>2, <2>1, <2>2, <2>4, <2>5, AnsweredStep
<1>6. /\ KernelFacts' /\ PlaceInv' /\ UNCHANGED owner
      /\ (\A u \in Task \ {run} : call'[u] = call[u]) /\ call'[run] = NoCall
  BY <1>2, <1>4, <1>5, CallEndsStep
<1>7. ArgInv'
  <2>1. jobs' \in Seq(WakeJob) /\ AboutCond(call'[run]) /\ AboutCond(ret'[run])
    BY <1>2, <1>4, <1>5, <1>6 DEF SleepInv, ArgInv, AboutCond
  <2>2. \A u \in Task : ret'[u] = ret[u] \/ AboutCond(ret'[u])
    BY <1>5, <2>1
  <2>3. \A u \in Task : call'[u] = call[u] \/ AboutCond(call'[u])
    BY <1>6, <2>1
  <2> QED BY <2>1, <2>2, <2>3, ArgKept DEF SleepInv
<1>8. ResultInv'
  <2>1. doing.step # "sleep"
    BY <1>2
  <2> QED BY <1>3, <1>5, <1>6, <2>1 DEF SleepInv, ResultInv, Succeeded
<1> QED BY <1>4, <1>6, <1>7, <1>8 DEF SleepInv, DoingInv

(***************************************************************************)
(* Task events.                                                            *)
(***************************************************************************)
\* The running task tests its flags: it goes on, or sleeps.
LEMMA EventTestKeeps ==
  ASSUME SleepInv, NoCallUnderWay, KernelFacts, PlaceInv, todo = <<>>,
         run \in UserTask, status[run] = "RUNNING", AtWork(run),
         NEW req, NEW all, NEW timeout, EventTest(req, all, timeout), EventFrame
  PROVE  SleepInv'
<1>1. /\ UNCHANGED <<jobs, doing, app, run, prio, readyQ, schLock, savedLock, waitVars, mutexVars,
                     todo, waitQ, wqp>>
      /\ run \in Task /\ ContinuationInv /\ call[run] \in Suspension
      /\ LockInv' /\ HolderInv' /\ UNCHANGED owner /\ OwnersKept
  BY HolderSame
     DEF EventFrame, postVars, waitVars, UserTask, KernelFacts, ContinuationInv, LockInv, OwnersKept
<1>2. PICK err \in Err : Returns("EVENT_GET", None, err)
  BY DEF EventTest, Err
<1>3. /\ ret' \in [Task -> FrameResult] /\ ret'[run].number = "EVENT_GET"
      /\ \A u \in Task \ {run} : ret'[u] = ret[u]
  <2>1. "EVENT_GET" \in ResultNumber /\ None \in WaitObj \cup {None}
    BY DEF ResultNumber, CallNumber, RunsAgainCall
  <2> QED BY <1>1, <1>2, <2>1, AnsweredStep
<1>4. ASSUME NEW c \in Suspension, call' = [call EXCEPT ![run] = c], c.number # "CONDVAR_WAIT"
                                                                       \/ c = call[run],
             NoCtxSwtch, UNCHANGED <<status, timeVars>>
      PROVE  SleepInv'
  <2>1. PendKept
    BY <1>4 DEF NoCtxSwtch, PendKept
  <2>2. /\ KernelFacts' /\ PlaceInv'
        /\ (\A u \in Task \ {run} : call'[u] = call[u]) /\ call'[run] = c
    BY <1>1, <1>3, <1>4, <2>1, CallEndsStep
  <2>3. \A u \in Task : call'[u] = call[u] \/ AboutCond(call'[u])
    BY <1>4, <2>2 DEF AboutCond
  <2> QED BY <1>1, <1>3, <2>2, <2>3, UserStep
<1>5. CASE call' = [call EXCEPT ![run] = NoCall] /\ NoCtxSwtch /\ UNCHANGED <<status, timeVars>>
  <2>1. NoCall \in Suspension /\ NoCall.number # "CONDVAR_WAIT"
    BY DEF NoCall, Suspension, CallNumber, CallPhase, Err
  <2> HIDE DEF NoCall
  <2> QED BY <1>4, <1>5, <2>1
<1>6. CASE UNCHANGED call /\ NoCtxSwtch /\ UNCHANGED <<status, timeVars>>
  <2>1. call' = [call EXCEPT ![run] = call[run]]
    BY <1>1, <1>6 DEF ContinuationInv
  <2> QED BY <1>1, <1>4, <1>6, <2>1
<1>7. CASE /\ ArmTimeout(run, "EVENTFLAGS", timeout)
           /\ status' = [status EXCEPT ![run] = "SLEEPING_EV_FLAG"]
           /\ call' = [call EXCEPT ![run].number = "EVENT_GET", ![run].phase = "WAIT"]
           /\ kPendCtxSwtch("SLEEPING_EV_FLAG")
  <2> DEFINE c == [call[run] EXCEPT !.number = "EVENT_GET", !.phase = "WAIT"]
             st == "SLEEPING_EV_FLAG"
             type == "EVENTFLAGS"
             o == None
  <2>1. /\ c \in Suspension /\ c.number = "EVENT_GET"
        /\ st \in Status \ Awake /\ type \in TimeoutType /\ o \in WaitObj \cup {None}
    BY <1>1 DEF Suspension, CallNumber, RunsAgainCall, CallPhase, Status, Awake, TimeoutType
  <2>2. call' = [call EXCEPT ![run] = c]
    BY <1>1, <1>7 DEF ContinuationInv
  <2>3. /\ st = "SLEEPING_EV_FLAG" /\ type = "EVENTFLAGS" /\ o = None
        /\ status' = [status EXCEPT ![run] = st] /\ kPendCtxSwtch(st)
        /\ ArmTimeout(run, type, timeout)
        /\ IF o = None THEN waitQ' = waitQ
                       ELSE waitQ' = [waitQ EXCEPT ![o] = kTCBQEnqByPrio(@, run, prio)]
    BY <1>1, <1>7
  <2>4. WalkList(todo')
    BY <1>1, WalkListKinds DEF KernelFacts
  <2> HIDE DEF c, st, type, o
  <2>5. /\ KernelFacts' /\ \A u \in Task \ {run} : Undisturbed(u)
        /\ status'[run] = st /\ call'[run] = c /\ WakesOf(run)' = {}
        /\ OnQueues(run)' = (IF o = None THEN {} ELSE {o})
        /\ Armed(run)' => ttype'[run] = type
    BY <1>1, <1>3, <2>1, <2>2, <2>3, <2>4, RunSuspends DEF AtWork
  <2>6. wqp'[run] = None /\ run # PostProc
    BY <1>1 DEF AtWork, AtLarge, UserTask
  <2>7. Rests(run)'
    BY <1>1, <2>1, <2>3, <2>5, <2>6 DEF Rests, Relocks
  <2>8. PlaceInv'
    BY <1>1, <2>5, <2>7, OthersKept DEF Placed
  <2>9. \A u \in Task : call'[u] = call[u] \/ AboutCond(call'[u])
    BY <2>1, <2>5 DEF AboutCond, Undisturbed
  <2> QED BY <1>1, <1>3, <2>5, <2>8, <2>9, UserStep
<1> QED BY <1>5, <1>6, <1>7 DEF EventTest

\* kEventSet, by a task and by an interrupt.
LEMMA EventSetKeeps ==
  ASSUME SleepInv, NEW t \in UserTask, NEW flags, kEventSet(t, flags)
  PROVE  SleepInv'
<1>1. /\ todo = <<>> /\ UNCHANGED <<jobs, doing, app, run, status, owner>>
      /\ UNCHANGED <<schedVars, waitQ, mutexVars, call>> /\ jobs' \in Seq(WakeJob) /\ OwnersKept
  BY DEF kEventSet, Calling, Executing, Isr, postVars, schedVars, mutexVars, SleepInv, ArgInv,
         OwnersKept
<1>2. KernelFacts /\ PlaceInv /\ run \in Task
  BY AtWorkFacts DEF SleepInv
<1>3. /\ ret' \in [Task -> FrameResult]
      /\ UNCHANGED ret \/ (/\ Executing /\ NoCallUnderWay /\ ret'[run].number = "NONE"
                           /\ \A u \in Task \ {run} : ret'[u] = ret[u])
  <2>1. CASE UNCHANGED ret
    BY <1>2, <2>1 DEF KernelFacts, ContinuationInv
  <2>2. CASE Calling /\ Returns("NONE", None, "SUCCESS")
    BY <1>1, <1>2, <2>2, NoneAnswered DEF Err, Calling
  <2> QED BY <2>1, <2>2 DEF kEventSet
<1>4. PICK x \in Task : /\ KernelFacts' /\ \A u \in Task \ {x} : Undisturbed(u)
                        /\ Placed(x)' /\ UNCHANGED call
  <2>1. CASE /\ status[t] = "SLEEPING_EV_FLAG"
             /\ IF ttype[t] = "EVENTFLAGS"
                THEN DisarmTimeout(t) /\ wqp' = [wqp EXCEPT ![t] = None]
                ELSE UNCHANGED <<timeVars, wqp>>
             /\ todo' = <<ReadySwtchOf(t)>>
    BY <1>1, <1>2, <1>3, <2>1, EventWoken DEF UserTask
  <2>2. CASE UNCHANGED <<timeVars, wqp, todo>>
    <3>1. UNCHANGED <<schedVars, waitVars, mutexVars, timeVars, call, todo>>
      BY <1>1, <2>2 DEF waitVars
    <3>2. KernelFacts' /\ (\A u \in Task : Undisturbed(u)) /\ UNCHANGED <<run, status, owner, call>>
      BY <1>1, <1>2, <1>3, <3>1, StillStep
    <3>3. Placed(run)'
      BY <1>1, <1>2, <3>2, PlaceKept DEF PlaceInv
    <3> QED BY <1>2, <3>2, <3>3
  <2> QED BY <2>1, <2>2 DEF kEventSet, SetFlags, UserTask
<1>5. CASE UNCHANGED ret
  <2>1. PlaceInv'
    BY <1>1, <1>2, <1>4, OthersKept
  <2> QED BY <1>1, <1>4, <1>5, <2>1, OutsideStep
<1>6. CASE /\ Executing /\ NoCallUnderWay /\ ret'[run].number = "NONE"
           /\ \A u \in Task \ {run} : ret'[u] = ret[u]
  BY <1>1, <1>4, <1>6, TaskCallKeeps
<1> QED BY <1>3, <1>5, <1>6

\* kEventClear.
LEMMA EventClearKeeps ==
  ASSUME SleepInv, NEW t, NEW flags, kEventClear(t, flags)
  PROVE  SleepInv'
<1>1. /\ Executing /\ NoCallUnderWay /\ Returns("NONE", None, "SUCCESS")
      /\ UNCHANGED <<schedVars, waitVars, mutexVars, timeVars, call, todo>>
      /\ UNCHANGED <<jobs, doing, app>>
  BY DEF kEventClear, Calling, postVars
<1>2. KernelFacts /\ run \in Task /\ todo = <<>>
  BY <1>1, CallerFacts
<1>3. /\ ret' \in [Task -> FrameResult] /\ ret'[run].number = "NONE"
      /\ \A u \in Task \ {run} : ret'[u] = ret[u]
  BY <1>1, <1>2, NoneAnswered DEF Err
<1>4. KernelFacts' /\ (\A u \in Task : Undisturbed(u)) /\ UNCHANGED <<run, owner>>
  BY <1>1, <1>2, <1>3, StillStep
<1> QED BY <1>1, <1>3, <1>4, QuietCallKeeps DEF OwnersKept

(***************************************************************************)
(* The theorems.                                                           *)
(***************************************************************************)
LEMMA SleepStutter ==
  ASSUME SleepInv, UNCHANGED allVars
  PROVE  SleepInv'
<1>1. /\ UNCHANGED <<run, status, prio, readyQ, schLock, savedLock, pendSV, waitQ, wqp, lock, owner,
                     mesgPrio, tmo, ttype, call, ret, todo>>
      /\ UNCHANGED <<jobs, doing, app>>
  BY DEF allVars, kernelVars, schedVars, waitVars, mutexVars, timeVars, callVars, postVars,
         waitSvcVars
<1>2. KernelFacts'
  BY <1>1 DEF SleepInv, KernelFacts, DispatchInv, ListInv, ContinuationInv, HolderInv, PendingInv,
              LockInv
<1>3. \A u \in Task : Undisturbed(u)
  BY <1>1 DEF Undisturbed, OnQueues, Armed, WakesOf
<1>4. PlaceInv'
  BY <1>1, <1>3, AllKept DEF SleepInv
<1>5. status'[run] = status[run] /\ jobs' \in Seq(WakeJob) /\ \A u \in Task : call'[u] = call[u]
  BY <1>1 DEF SleepInv, ArgInv
<1> QED BY <1>1, <1>2, <1>4, <1>5, OutsideStep

\* Every step keeps the invariant.
LEMMA SleepStep ==
  ASSUME SignalledTimed, SleepInv, [WaitNext]_allVars
  PROVE  SleepInv'
<1>1. CASE UNCHANGED allVars
  BY <1>1, SleepStutter
<1>2. CASE KernelBetween
  BY <1>2, KernelBetweenKeeps
<1>3. CASE PostProcStep
  <2>1. ASSUME NEW job, PostProcWake(job) PROVE SleepInv'
    BY <2>1, PostProcWakeKeeps
  <2> QED BY <1>3, <2>1, PostProcLoopKeeps DEF PostProcStep, waitSvcVars
<1>4. CASE CallStep
  BY <1>4, WakeCallKeeps, WakeOneKeeps, CondReleaseKeeps, CondSleepKeeps, CondRelockKeeps,
     CondReturnKeeps DEF CallStep
<1>5. ASSUME NEW q \in SleepQ,
             \/ /\ run \in UserTask /\ q \in app.wait[run]
                /\ \/ \E timeout \in SleepTimeout : kSleepQueueSleep(q, timeout)
                   \/ kCondVarWait(q)
             \/ kSleepQueueSignal(q) \/ IsrSignal(q)
             \/ \E n \in 0 .. 1 : kSleepQueueWake(q, n) \/ IsrWake(q, n)
             \/ \E t \in UserTask : kSleepQueueReady(q, t)
             \/ \E t \in app.unready : call[t] = NoCall /\ kSleepQueueUnready(q, t)
      PROVE  SleepInv'
  <2>1. ASSUME NEW timeout \in SleepTimeout, q \in app.wait[run], kSleepQueueSleep(q, timeout)
        PROVE  SleepInv'
    BY <2>1, SleepKeeps
  <2>2. CASE q \in app.wait[run] /\ kCondVarWait(q)
    BY <2>2, CondBeginKeeps
  <2>3. CASE kSleepQueueSignal(q) \/ IsrSignal(q)
    BY <2>3, SignalOneKeeps
  <2>4. ASSUME NEW n \in 0 .. 1, kSleepQueueWake(q, n) \/ IsrWake(q, n) PROVE SleepInv'
    BY <2>4, WakeKeeps, IsrWakeKeeps
  <2>5. ASSUME NEW t \in UserTask, kSleepQueueReady(q, t) PROVE SleepInv'
    BY <2>5, PickKeeps DEF UserTask
  <2>6. ASSUME NEW t \in app.unready, call[t] = NoCall, kSleepQueueUnready(q, t) PROVE SleepInv'
    BY <2>6, UnreadyKeeps
  <2> QED BY <1>5, <2>1, <2>2, <2>3, <2>4, <2>5, <2>6
<1>6. CASE EventCall
  <2>1. ASSUME NEW e \in EventRequest, NEW timeout, kEventGet(e.req, e.all, timeout)
        PROVE  SleepInv'
    BY <2>1, CallerFacts, EventTestKeeps DEF kEventGet, Calling
  <2>2. ASSUME NEW t \in app.event, NEW f, kEventSet(t, {f}) \/ kEventClear(t, {f})
        PROVE  SleepInv'
    <3>1. t \in UserTask
      BY WaitConstants DEF SleepInv
    <3> QED BY <2>2, <3>1, EventSetKeeps, EventClearKeeps
  <2> QED BY <1>6, <2>1, <2>2 DEF EventCall
<1>7. ASSUME NEW timeout, EventRestart(timeout) PROVE SleepInv'
  <2>1. NoCallUnderWay /\ "EVENT_GET" # "NONE" /\ Restarted("EVENT_GET")
    BY <1>7 DEF EventRestart, Restarted
  <2>2. /\ KernelFacts /\ PlaceInv /\ todo = <<>>
        /\ run \in UserTask /\ status[run] = "RUNNING" /\ AtWork(run)
    BY <2>1, RestartFacts
  <2> QED BY <1>7, <2>1, <2>2, EventTestKeeps DEF EventRestart
<1> QED BY <1>1, <1>2, <1>3, <1>4, <1>5, <1>6, <1>7 DEF WaitNext, SleepCall

\* It holds at the start.
LEMMA SleepStarts ==
  ASSUME WaitInit
  PROVE  SleepInv
<1>1. /\ KernelFacts
      /\ \A t \in Task : /\ OnQueues(t) = {} /\ ~Armed(t) /\ wqp[t] = None /\ WakesOf(t) = {}
                         /\ call[t] = NoCall /\ ret[t] = NoRet
                         /\ (status[t] = "SLEEPING_EV_FLAG" \/ status[t] \in Awake)
  <2>1. Init
    BY DEF WaitInit
  <2>2. /\ KernelFacts
        /\ \A t \in Task : /\ OnQueues(t) = {} /\ ~Armed(t) /\ wqp[t] = None /\ WakesOf(t) = {}
                           /\ call[t] = NoCall /\ ret[t] = NoRet
                           /\ (status[t] = "SLEEPING_EV_FLAG" \/ status[t] \in Awake)
                           /\ status[t] = "SLEEPING_EV_FLAG" => t = PostProc
    BY <2>1, InitKernelFacts
  <2> QED BY <2>2
<1>2. PlaceInv
  BY <1>1 DEF PlaceInv, Placed, AtWork, AtLarge, Rests, Relocks, NoCall
<1>3. jobs \in Seq(WakeJob)
  BY SmallSequences DEF WaitInit, PostProcInit
<1>4. ArgInv /\ ResultInv
  BY <1>1, <1>3 DEF ArgInv, AboutCond, ResultInv, Succeeded, NoCall, NoRet
<1> QED BY <1>1, <1>2, <1>4 DEF SleepInv, DoingInv, WaitInit

\* Every task is where its records say, and has the mutex its wait gave up, in
\* every interleaving of calls, interrupts, expiries, signals and restarts, if
\* tasks that are sent signals sleep with timeouts only.
THEOREM SleepInvariance == ASSUME SignalledTimed PROVE WaitSpec => []SleepInv
<1>1. WaitInit => SleepInv
  BY SleepStarts
<1>2. SleepInv /\ [WaitNext]_allVars => SleepInv'
  BY SleepStep
<1> QED BY <1>1, <1>2, PTL DEF WaitSpec

\* A sleeper is on the queue its call names and on no other list, where signal,
\* wake and broadcast find it; who is READY is on the queue of its priority.
THEOREM SleepersAreReachable ==
  ASSUME SignalledTimed PROVE WaitSpec => []SleepersReachable
<1>1. SleepInv => SleepersReachable
  <2> SUFFICES ASSUME SleepInv, Quiet, NEW t \in Task
               PROVE  /\ status[t] = "SLEEPING" => LinkedOn(t) = {call[t].arg}
                      /\ status[t] = "SLEEPQ_BLOCKED" => LinkedOn(t) \in {{q} : q \in SleepQ}
                      /\ status[t] = "READY" => LinkedOn(t) = {prio[t]}
    BY DEF SleepersReachable
  <2>1. KernelFacts /\ Placed(t) /\ DispatchInv
    BY DEF SleepInv, PlaceInv, KernelFacts
  <2>2. WakesOf(t) = {}
    BY NobodyWoken DEF Quiet
  <2>3. LinkedOn(t) = {p \in Prio : t \in ToSet(readyQ[p])} \cup OnQueues(t)
    BY DEF LinkedOn, OnQueues
  <2>4. {p \in Prio : t \in ToSet(readyQ[p])} = IF status[t] = "READY" THEN {prio[t]} ELSE {}
    BY <2>1 DEF DispatchInv
  <2>5. status[t] \in Awake => OnQueues(t) = {}
    BY <2>1 DEF Placed, AtWork, AtLarge, Waits, WaitsOn, Rests, Leaves, Awake
  <2>6. status[t] \in {"SLEEPING", "SLEEPQ_BLOCKED"} =>
          \E o \in WaitObj : OnQueues(t) = {o} /\ WaitsOn(t, o)
    BY <2>1, <2>2 DEF Placed, AtWork, AtLarge, Waits, Rests, Leaves, Awake
  <2> QED BY <2>3, <2>4, <2>5, <2>6 DEF WaitsOn, Awake
<1> QED BY <1>1, SleepInvariance, PTL

\* Who returns with success from a wait on a condition has its mutex, however
\* it got it.
THEOREM CondWaitReturnsWithMutex ==
  ASSUME SignalledTimed PROVE WaitSpec => []CondWaitReturnsOwner
<1>1. SleepInv => CondWaitReturnsOwner
  <2>1. SleepInv /\ NoCallUnderWay => ~(doing \in CondRecord /\ doing.step = "sleep")
    BY NoCondUnderWay DEF SleepInv
  <2> QED BY <2>1 DEF SleepInv, ResultInv, Succeeded, CondWaitReturnsOwner
<1> QED BY <1>1, SleepInvariance, PTL
==============================================================================
