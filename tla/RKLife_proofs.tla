---------------------------- MODULE RKLife_proofs ----------------------------
(***************************************************************************)
(* Spawn, termination and the containment of faults, for every set of      *)
(* tasks, mutexes and stacks: what a task that is gone had is back, nobody *)
(* is ended in place of another, and who waited for a mutex of a task that *)
(* faulted is told so.                                                     *)
(***************************************************************************)
EXTENDS RKLife, RKMutexSafety_proofs

(***************************************************************************)
(* The inductive invariant.                                                *)
(***************************************************************************)
\* The call a task of each status is suspended in.
CallFor(st) ==
  CASE st = "BLOCKED"        -> "MUTEX_LOCK"
    [] st = "SLEEPING_DELAY" -> "SLEEP_DELAY"
    [] st = "SELF_SUSPENDED" -> "TASK_SELF_SUSPEND"
    [] OTHER                 -> "NONE"

\* Only a BLOCKED task waits for a mutex.
CallInv ==
  \A t \in Task :
    /\ call[t].number = CallFor(status[t])
    /\ status[t] # "BLOCKED" => wqp[t] = None /\ waitingFor[t] = None

\* What the critical region still does: a task is made ready only behind walks,
\* and by then it waits for nothing; the tick handler shares its list with no
\* call but that for the node that expired; a cleanup ends last.
Woke == {"BLOCKED", "SLEEPING_DELAY", "SELF_SUSPENDED", "TERMINATED"}

RegionOrder(calls) ==
  /\ \A i, j \in DOMAIN calls : i < j =>
       /\ calls[j].op \in WakeOps => calls[i].op = "updatePrio"
       /\ calls[i].op # "faultDone"
  /\ \A c, d \in ToSet(calls) : c.op = "handleTimeouts" =>
       d.op \in {"handleTimeouts", "updatePrio", "timeoutReady"}

RegionInv ==
  /\ RegionOrder(todo)
  /\ \A c \in ToSet(todo) : c.op # "signalReady"
  /\ \A c \in ToSet(todo) : c.op \in WakeOps =>
       /\ status[c.task] \in Woke
       /\ c.op = "ready" => wqp[c.task] = None /\ waitingFor[c.task] = None
       /\ status[c.task] = "TERMINATED" => c.op = "ready" /\ c.task \in spawned

\* The records of ownership agree, and a poisoned mutex is nobody's, its waiters
\* gone or about to be released.
PoisonInv ==
  \A m \in Mutex :
    /\ lock[m] <=> owner[m] # None
    /\ \A t \in Task : m \in owned[t] <=> owner[m] = t
    /\ faulted[m] => /\ owner[m] = None
                     /\ waitQ[m] = <<>> \/ FaultWakeOf(m) \in ToSet(todo)
    /\ FaultWakeOf(m) \in ToSet(todo) => faulted[m]

\* A call is to report a faulted owner, or has, only of a poisoned mutex.
ReportInv ==
  \A t \in Task :
    /\ call[t].wake = "OWNER_FAULTED" =>
         call[t].number = "MUTEX_LOCK" /\ call[t].arg \in Mutex /\ faulted[call[t].arg]
    /\ ret[t].err = "OWNER_FAULTED" => ret[t].arg \in Mutex /\ faulted[ret[t].arg]

\* PostProc cleans up after a task that faulted and waits to be taken out.
FaultOps == {"faultRelease", "faultDone"}

CleanupInv ==
  \A c \in ToSet(todo) : c.op \in FaultOps =>
    /\ status[c.task] = "FAULT_PENDING"
    /\ run = PostProc /\ postStep = "scan" /\ cleaning = None
    /\ c.task \notin cleanupPending /\ c.task \in UserTask
    /\ FaultReleaseOf(c.task) \in ToSet(todo) \/ owned[c.task] = {}

\* PostProc has nothing to do and sleeps, is about to be switched to, or works.
Leaving == {"PENDING", "FAULT_PENDING"}

Rests ==
  /\ status[PostProc] = "SLEEPING_EV_FLAG" /\ postStep = "wait"
  /\ jobs = <<>> /\ cleanupPending = {} /\ cleaning = None

Comes ==
  /\ status[PostProc] = "READY" /\ pendSV /\ Head(readyQ[0]) = PostProc
  /\ postStep = "wait" /\ cleaning = None

Works ==
  /\ status[PostProc] = "RUNNING" /\ ~pendSV
  /\ cleaning = None <=> postStep # "clean"
  /\ cleaning # None => /\ cleaning \in UserTask \ cleanupPending
                        /\ status[cleaning] = "FAULT_PENDING"
  /\ postStep = "jobs" => cleanupPending = {} /\ Len(jobs) <= budget

\* What is left to PostProc, by tasks that gave up the processor for good.
LeftInv ==
  /\ \A t \in cleanupPending : t \in UserTask /\ status[t] = "FAULT_PENDING"
  /\ \/ jobs = <<>>
     \/ \E t \in UserTask : status[t] = "PENDING" /\ jobs = <<TerminateJob(t)>>

PostInv ==
  /\ prio[PostProc] = 0 /\ mesgPrio[PostProc].base = 0 /\ budget \in Nat
  /\ run = PostProc => Works \/ (Rests /\ pendSV)
  /\ run # PostProc => IF status[run] \in Leaving THEN Comes ELSE Rests

\* A stack is a task's or free; a slot is quarantined only when its task is gone.
SlotInv ==
  /\ spawned \subseteq UserTask /\ quarantine \subseteq UserTask
  /\ freeStacks \in Nat /\ Cardinality(spawned) + freeStacks = StackBlocks
  /\ \A t \in spawned :
       status[t] # "TERMINATED" \/ ReadySwtchOf(t) \in ToSet(todo)
  /\ \A t \in quarantine : status[t] = "TERMINATED" /\ t \notin spawned
  /\ \A t \in Task : status[t] = "TERMINATED" => t \in UserTask /\ owned[t] = {}

\* The handles of a slot carry one generation after the other, and none names
\* its next life.
LivesInv ==
  /\ generation \in [UserTask -> Nat] /\ handles \in [UserTask -> Seq(Nat)]
  /\ \A t \in UserTask :
       /\ handles[t] # <<>>
       /\ \A i, j \in DOMAIN handles[t] : i < j => handles[t][i] < handles[t][j]
       /\ \A i \in DOMAIN handles[t] :
            /\ handles[t][i] <= generation[t]
            /\ status[t] = "TERMINATED" /\ t \notin spawned => handles[t][i] < generation[t]
  /\ misled = FALSE

LifeInv ==
  /\ KernelInv /\ ReadyPlaces /\ WaitPlaces /\ RunInv
  /\ CallInv /\ RegionInv /\ PoisonInv /\ ReportInv
  /\ CleanupInv /\ LeftInv /\ PostInv /\ SlotInv /\ LivesInv
  /\ status[run] # "TERMINATED"

(***************************************************************************)
(* The calls of a critical region.                                         *)
(***************************************************************************)
\* When the call at the head has been made nothing is out of order; behind a
\* call that was not a walk nobody is made ready, and a cleanup has ended.
LEMMA RegionTail ==
  ASSUME NEW q \in Seq(KernelCall), q # <<>>, RegionOrder(q)
  PROVE  /\ RegionOrder(Tail(q))
         /\ Head(q).op # "updatePrio" => \A c \in ToSet(Tail(q)) : c.op \notin WakeOps
         /\ Head(q).op = "faultDone" => ToSet(Tail(q)) = {}
<1> HIDE DEF KernelCall
<1>1. /\ Len(q) \in Nat /\ DOMAIN q = 1 .. Len(q) /\ Len(q) > 0
      /\ Tail(q) \in Seq(KernelCall) /\ Len(Tail(q)) = Len(q) - 1
      /\ DOMAIN Tail(q) = 1 .. Len(q) - 1
      /\ \A i \in 1 .. Len(q) - 1 : Tail(q)[i] = q[i + 1]
      /\ Head(q) = q[1]
  BY LenProperties, EmptySeq, HeadTailProperties
<1>2. \A i \in 1 .. Len(q) - 1 : i + 1 \in 1 .. Len(q)
  BY <1>1
<1>3. ToSet(Tail(q)) \subseteq ToSet(q)
  BY TailFacts
<1>4. \A i, j \in DOMAIN q : i < j =>
        /\ q[j].op \in WakeOps => q[i].op = "updatePrio"
        /\ q[i].op # "faultDone"
  BY DEF RegionOrder
<1>5. \A i, j \in DOMAIN Tail(q) : i < j =>
        /\ Tail(q)[j].op \in WakeOps => Tail(q)[i].op = "updatePrio"
        /\ Tail(q)[i].op # "faultDone"
  BY <1>1, <1>2, <1>4
<1>6. RegionOrder(Tail(q))
  BY <1>3, <1>5 DEF RegionOrder
<1>7. \A c \in ToSet(Tail(q)) : \E j \in 1 .. Len(q) : 1 < j /\ c = q[j]
  BY <1>1, <1>2 DEF ToSet
<1>8. 1 \in 1 .. Len(q)
  BY <1>1
<1> QED BY <1>1, <1>4, <1>6, <1>7, <1>8

\* Walks before the rest change nothing.
LEMMA RegionWalks ==
  ASSUME NEW a \in Seq(KernelCall), \A c \in ToSet(a) : c.op = "updatePrio",
         NEW b \in Seq(KernelCall), RegionOrder(b)
  PROVE  RegionOrder(a \o b)
<1> HIDE DEF KernelCall
<1>1. /\ Len(a) \in Nat /\ DOMAIN a = 1 .. Len(a)
      /\ Len(b) \in Nat /\ DOMAIN b = 1 .. Len(b)
  BY LenProperties
<1> DEFINE c == a \o b
<1>2. /\ DOMAIN c = 1 .. Len(a) + Len(b)
      /\ \A i \in 1 .. Len(a) + Len(b) :
           c[i] = IF i <= Len(a) THEN a[i] ELSE b[i - Len(a)]
      /\ ToSet(c) = ToSet(a) \cup ToSet(b)
  BY ConcatProperties, LenProperties, ConcatSet
<1>3. \A i \in 1 .. Len(a) : a[i].op = "updatePrio"
  BY <1>1 DEF ToSet
<1> HIDE DEF c
<1>4. \A i \in 1 .. Len(a) + Len(b) :
        \/ c[i].op = "updatePrio"
        \/ i > Len(a) /\ i - Len(a) \in DOMAIN b /\ c[i] = b[i - Len(a)]
  BY <1>1, <1>2, <1>3
<1>5. ASSUME NEW i \in DOMAIN c, NEW j \in DOMAIN c, i < j
      PROVE  /\ c[j].op \in WakeOps => c[i].op = "updatePrio"
             /\ c[i].op # "faultDone"
  <2>1. CASE c[i].op = "updatePrio"
    BY <2>1
  <2>2. CASE i > Len(a) /\ i - Len(a) \in DOMAIN b /\ c[i] = b[i - Len(a)]
    <3>1. j > Len(a) /\ j - Len(a) \in DOMAIN b /\ c[j] = b[j - Len(a)]
      BY <1>1, <1>2, <1>5, <2>2
    <3>2. i - Len(a) < j - Len(a)
      BY <1>1, <1>2, <1>5
    <3> QED BY <2>2, <3>1, <3>2 DEF RegionOrder
  <2> QED BY <1>2, <1>4, <2>1, <2>2
<1>6. \A d, e \in ToSet(c) : d.op = "handleTimeouts" =>
        e.op \in {"handleTimeouts", "updatePrio", "timeoutReady"}
  BY <1>2 DEF RegionOrder
<1> QED BY <1>5, <1>6 DEF RegionOrder, c

\* So does one other call, if the rest makes nobody ready and has no part in
\* the tick.
LEMMA RegionCall ==
  ASSUME NEW x \in KernelCall, x.op \notin {"faultDone", "handleTimeouts"},
         NEW b \in Seq(KernelCall), RegionOrder(b),
         \A c \in ToSet(b) : c.op \notin WakeOps \cup {"handleTimeouts"}
  PROVE  RegionOrder(<<x>> \o b)
<1> HIDE DEF KernelCall
<1> DEFINE a == <<x>>
<1>1. /\ a \in Seq(KernelCall) /\ Len(a) = 1 /\ a[1] = x
      /\ ToSet(a) = {x} /\ Len(b) \in Nat /\ DOMAIN b = 1 .. Len(b)
  BY LenProperties, SmallSequences
<1> HIDE DEF a
<1> DEFINE c == a \o b
<1>2. /\ DOMAIN c = 1 .. 1 + Len(b)
      /\ \A i \in 1 .. 1 + Len(b) : c[i] = IF i <= 1 THEN a[i] ELSE b[i - 1]
      /\ ToSet(c) = {x} \cup ToSet(b)
  <2>1. /\ DOMAIN c = 1 .. Len(a) + Len(b)
        /\ \A i \in 1 .. Len(a) + Len(b) :
             c[i] = IF i <= Len(a) THEN a[i] ELSE b[i - Len(a)]
    <3>1. a \in Seq(KernelCall)
      BY <1>1
    <3>2. /\ c \in Seq(KernelCall) /\ Len(c) = Len(a) + Len(b)
          /\ \A i \in 1 .. Len(a) + Len(b) :
               c[i] = IF i <= Len(a) THEN a[i] ELSE b[i - Len(a)]
      BY <3>1, ConcatProperties
    <3> HIDE DEF c
    <3> QED BY <3>2, LenProperties
  <2>2. ToSet(c) = ToSet(a) \cup ToSet(b)
    BY <1>1, ConcatSet
  <2> HIDE DEF c
  <2> QED BY <1>1, <2>1, <2>2
<1> HIDE DEF c
<1>3. c[1] = x /\ \A i \in 1 .. 1 + Len(b) : i # 1 => i - 1 \in DOMAIN b /\ c[i] = b[i - 1]
  BY <1>1, <1>2
<1>4. \A i \in DOMAIN b : b[i] \in ToSet(b)
  BY DEF ToSet
<1>5. ASSUME NEW i \in DOMAIN c, NEW j \in DOMAIN c, i < j
      PROVE  /\ c[j].op \in WakeOps => c[i].op = "updatePrio"
             /\ c[i].op # "faultDone"
  <2>1. j # 1 /\ c[j].op \notin WakeOps
    BY <1>1, <1>2, <1>3, <1>4, <1>5
  <2>2. CASE i = 1
    BY <1>3, <2>1, <2>2
  <2>3. CASE i # 1
    <3>1. i - 1 < j - 1 /\ i - 1 \in DOMAIN b /\ j - 1 \in DOMAIN b /\ c[i] = b[i - 1]
      BY <1>1, <1>2, <1>3, <1>5, <2>1, <2>3
    <3>2. b[i - 1].op # "faultDone"
      BY <3>1 DEF RegionOrder
    <3> QED BY <2>1, <3>1, <3>2
  <2> QED BY <2>2, <2>3
<1>6. \A d, e \in ToSet(c) : d.op = "handleTimeouts" =>
        e.op \in {"handleTimeouts", "updatePrio", "timeoutReady"}
  BY <1>2
<1> QED BY <1>5, <1>6 DEF RegionOrder, c, a

\* The lists that critical regions begin with.
LEMMA RegionShort ==
  /\ RegionOrder(<<>>)
  /\ \A c : RegionOrder(<<c>>)
  /\ \A t, b : RegionOrder(<<[op |-> "timeoutReady", task |-> t], HandleTimeoutsOf(b)>>)
  /\ \A t : RegionOrder(<<FaultReleaseOf(t), FaultDoneOf(t)>>)
<1>1. \A c : ToSet(<<c>>) = {c} /\ DOMAIN <<c>> = {1}
  BY DEF ToSet
<1>2. \A c, d : /\ ToSet(<<c, d>>) = {c, d} /\ DOMAIN <<c, d>> = {1, 2}
                /\ <<c, d>>[1] = c /\ <<c, d>>[2] = d
  BY DEF ToSet
<1>3. RegionOrder(<<>>)
  BY DEF RegionOrder, ToSet
<1>4. \A c : RegionOrder(<<c>>)
  BY <1>1 DEF RegionOrder
<1>5. ASSUME NEW c, NEW d, d.op \notin WakeOps, c.op # "faultDone",
             c.op # "handleTimeouts",
             d.op = "handleTimeouts" => c.op = "timeoutReady"
      PROVE  RegionOrder(<<c, d>>)
  <2>1. /\ ToSet(<<c, d>>) = {c, d} /\ DOMAIN <<c, d>> = {1, 2}
        /\ <<c, d>>[1] = c /\ <<c, d>>[2] = d
    BY <1>2
  <2> DEFINE q == <<c, d>>
  <2> HIDE DEF q
  <2>2. \A i, j \in DOMAIN q : i < j => i = 1 /\ j = 2
    BY <2>1 DEF q
  <2> QED BY <1>5, <2>1, <2>2 DEF RegionOrder, q
<1>6. \A t, b : RegionOrder(<<[op |-> "timeoutReady", task |-> t], HandleTimeoutsOf(b)>>)
  <2> TAKE t, b
  <2> DEFINE x == [op |-> "timeoutReady", task |-> t]
             y == HandleTimeoutsOf(b)
  <2>1. x.op = "timeoutReady" /\ y.op = "handleTimeouts" /\ y.op \notin WakeOps
    BY DEF HandleTimeoutsOf, WakeOps
  <2> HIDE DEF x, y
  <2>2. RegionOrder(<<x, y>>)
    BY <1>5, <2>1
  <2> QED BY <2>2 DEF x, y
<1>7. \A t : RegionOrder(<<FaultReleaseOf(t), FaultDoneOf(t)>>)
  <2> TAKE t
  <2> DEFINE x == FaultReleaseOf(t)
             y == FaultDoneOf(t)
  <2>1. x.op = "faultRelease" /\ y.op = "faultDone" /\ y.op \notin WakeOps
    BY DEF FaultReleaseOf, FaultDoneOf, WakeOps
  <2> HIDE DEF x, y
  <2>2. RegionOrder(<<x, y>>)
    BY <1>5, <2>1
  <2> QED BY <2>2 DEF x, y
<1> QED BY <1>3, <1>4, <1>6, <1>7

(***************************************************************************)
(* What the invariant says of the tasks.                                   *)
(***************************************************************************)
\* The types, and the constants of the modules below.
LEMMA LifeTypes ==
  ASSUME LifeInv
  PROVE  /\ KernelInv /\ TypeOK /\ run \in Task /\ status \in [Task -> Status]
         /\ prio \in [Task -> Prio] /\ readyQ \in [Prio -> Seq(Task)]
         /\ call \in [Task -> Suspension] /\ ret \in [Task -> FrameResult]
         /\ waitQ \in [WaitObj -> Seq(Task)] /\ wqp \in [Task -> WaitObj \cup {None}]
         /\ lock \in [Mutex -> BOOLEAN] /\ owner \in [Mutex -> Task \cup {None}]
         /\ owned \in [Task -> SUBSET Mutex] /\ faulted \in [Mutex -> BOOLEAN]
         /\ waitingFor \in [Task -> Mutex \cup {None}]
         /\ todo \in Seq(KernelCall) /\ tmo \in Seq(Task)
         /\ PostProc \in Task \ {IdleTask} /\ PostProc \in NoPreempt
         /\ PostProc \notin UserTask /\ UserTask \subseteq Task
         /\ IdleTask \in Task /\ None \notin Task /\ None \notin WaitObj
         /\ Mutex \subseteq WaitObj /\ 0 \in Prio
BY KernelConstants, PostProcConstants, NominalPrioType
DEF LifeInv, KernelInv, TypeOK, SchedTypeOK, WaitTypeOK, MutexTypeOK, TimeTypeOK,
    CallTypeOK, UserTask, WaitObj

\* A task that is not BLOCKED waits for no mutex; one that is not READY is in no
\* ready queue; only a task suspended for a time has its timeout armed.
LEMMA NotListed ==
  ASSUME LifeInv, NEW t \in Task
  PROVE  /\ status[t] # "BLOCKED" =>
              /\ wqp[t] = None /\ waitingFor[t] = None
              /\ \A o \in WaitObj : t \notin ToSet(waitQ[o])
         /\ status[t] # "READY" => \A p \in Prio : t \notin ToSet(readyQ[p])
         /\ status[t] \notin {"BLOCKED", "SLEEPING_DELAY"} => t \notin ToSet(tmo)
<1>1. /\ CallInv /\ ReadyPlaces /\ QueueInv /\ TimeInv
  BY DEF LifeInv, KernelInv
<1>2. \A o \in WaitObj : t \in ToSet(waitQ[o]) => call[t].number = "MUTEX_LOCK"
  BY <1>1 DEF QueueInv
<1>3. t \in ToSet(tmo) => call[t].number \in {"MUTEX_LOCK", "SLEEP_DELAY"}
  BY <1>1 DEF TimeInv
<1>4. call[t].number = CallFor(status[t])
  BY <1>1 DEF CallInv
<1>5. /\ status[t] # "BLOCKED" => call[t].number # "MUTEX_LOCK"
      /\ status[t] \notin {"BLOCKED", "SLEEPING_DELAY"}
           => call[t].number \notin {"MUTEX_LOCK", "SLEEP_DELAY"}
  BY <1>4 DEF CallFor
<1> QED BY <1>1, <1>2, <1>3, <1>5 DEF CallInv, ReadyPlaces

\* A user task that executes is RUNNING, suspended in nothing, and PostProc
\* rests.
LEMMA UserRuns ==
  ASSUME LifeInv, Executing
  PROVE  /\ run \in UserTask /\ run \in Task /\ run # PostProc /\ run # IdleTask
         /\ status[run] = "RUNNING" /\ call[run] = NoCall
         /\ todo = <<>> /\ ToSet(todo) = {} /\ ~pendSV /\ Rests
         /\ wqp[run] = None /\ waitingFor[run] = None /\ run \notin ToSet(tmo)
         /\ \A o \in WaitObj : run \notin ToSet(waitQ[o])
         /\ \A p \in Prio : run \notin ToSet(readyQ[p])
<1>1. /\ run \in UserTask /\ run \in Task /\ run # PostProc /\ run # IdleTask
      /\ status[run] = "RUNNING" /\ call[run] = NoCall
      /\ todo = <<>> /\ ToSet(todo) = {} /\ ~pendSV /\ PostInv
  BY DEF Executing, UserTask, LifeInv, RunInv, ToSet
<1>2. Rests
  BY <1>1 DEF PostInv, Leaving
<1> QED BY <1>1, <1>2, NotListed

\* PostProc, when it runs, works.
LEMMA PostProcRuns ==
  ASSUME LifeInv, NEW s, PostProcAt(s)
  PROVE  /\ run = PostProc /\ todo = <<>> /\ ToSet(todo) = {} /\ Works
         /\ postStep = s /\ status[PostProc] = "RUNNING" /\ ~pendSV
BY DEF PostProcAt, LifeInv, PostInv, Works, ToSet

\* A queued task is BLOCKED in a lock call of that mutex.
LEMMA QueuedBlocked ==
  ASSUME LifeInv, NEW o \in WaitObj, NEW t \in ToSet(waitQ[o])
  PROVE  /\ t \in Task /\ status[t] = "BLOCKED" /\ o \in Mutex
         /\ wqp[t] = o /\ waitingFor[t] = o /\ t # PostProc
         /\ call[t].number = "MUTEX_LOCK" /\ call[t].arg = o
<1>1. /\ CallInv /\ QueueInv /\ WaitPlaces /\ PostInv /\ RunInv
  BY DEF LifeInv, KernelInv
<1>2. t \in Task
  BY LifeTypes, ListedTasks
<1>3. /\ wqp[t] = o /\ waitingFor[t] = o /\ status[t] = "BLOCKED"
      /\ call[t].number = "MUTEX_LOCK" /\ call[t].arg = o
  <2>1. /\ wqp[t] = o /\ waitingFor[t] = o
        /\ call[t].number = "MUTEX_LOCK" /\ call[t].arg = o
    BY <1>1 DEF QueueInv, WaitPlaces
  <2> QED BY <1>2, <2>1, NotListed
<1>4. o \in Mutex
  BY <1>2, <1>3, LifeTypes
<1>5. status[PostProc] # "BLOCKED"
  BY <1>1 DEF PostInv, Works, Rests, Comes
<1> QED BY <1>2, <1>3, <1>4, <1>5

\* PostProc is RUNNING, READY or asleep.
LEMMA PostProcStatus ==
  ASSUME LifeInv
  PROVE  status[PostProc] \in {"RUNNING", "READY", "SLEEPING_EV_FLAG"}
BY DEF LifeInv, PostInv, Works, Rests, Comes

(***************************************************************************)
(* Waking a task.                                                          *)
(***************************************************************************)
\* What the two ways of making a task ready have in common.
Awoken(t) ==
  /\ todo # <<>> /\ Head(todo).op \in {"ready", "timeoutReady"} /\ Head(todo).task = t
  /\ todo' = Tail(todo) /\ \A c \in ToSet(Tail(todo)) : c.op \notin WakeOps
  /\ status[t] \in Woke /\ t # PostProc
  /\ status[t] = "TERMINATED" => t \in spawned
  /\ status' = [status EXCEPT ![t] = "READY"]
  /\ readyQ' = [readyQ EXCEPT ![prio[t]] = kTCBQEnq(@, t)]
  /\ call'[t].number = "NONE" /\ call'[t].wake # "OWNER_FAULTED"
  /\ wqp'[t] = None /\ waitingFor'[t] = None
  /\ ret'[t].err = "OWNER_FAULTED" =>
       \/ ret'[t] = ret[t]
       \/ call[t].wake = "OWNER_FAULTED" /\ ret'[t].arg = call[t].arg
  /\ \A u \in Task \ {t} : /\ call'[u] = call[u] /\ ret'[u] = ret[u]
                           /\ wqp'[u] = wqp[u] /\ waitingFor'[u] = waitingFor[u]
  /\ (~pendSV' => ~pendSV) /\ (run = PostProc /\ ~pendSV => ~pendSV')
  /\ UNCHANGED <<run, prio, waitQ, lock, owner, faulted, owned, mesgPrio, tmo,
                 faultVars, lifeVars>>

\* The call of a task that is woken is over, whatever it was.
LEMMA AwokenCall ==
  ASSUME LifeInv, NEW t \in Task,
         \/ kSyscallTaskWake(t)
         \/ kSyscallTaskTimeout(t)
  PROVE  /\ call'[t].number = "NONE" /\ call'[t].wake # "OWNER_FAULTED"
         /\ ret'[t].err = "OWNER_FAULTED" =>
              \/ ret'[t] = ret[t]
              \/ call[t].wake = "OWNER_FAULTED" /\ ret'[t].arg = call[t].arg
         /\ \A u \in Task \ {t} : call'[u] = call[u] /\ ret'[u] = ret[u]
<1>1. /\ call \in [Task -> Suspension] /\ ret \in [Task -> FrameResult]
      /\ call[t].number \in {"NONE", "MUTEX_LOCK", "SLEEP_DELAY", "TASK_SELF_SUSPEND"}
      /\ call[t].wake = "OWNER_FAULTED" => call[t].number = "MUTEX_LOCK"
  BY LifeTypes DEF LifeInv, CallInv, CallFor, ReportInv
<1>2. /\ "MUTEX_LOCK" \in WakeResultCall
      /\ {"NONE", "SLEEP_DELAY", "TASK_SELF_SUSPEND"} \cap WakeResultCall = {}
      /\ {"NONE", "MUTEX_LOCK", "SLEEP_DELAY", "TASK_SELF_SUSPEND"} \cap RunsAgainCall = {}
  BY DEF WakeResultCall, RunsAgainCall
<1>3. \/ UNCHANGED callVars /\ call[t].number = "NONE"
      \/ kSyscallTaskComplete_(t, call[t].wake)
      \/ \E e \in {"SUCCESS", "TIMEOUT"} : kSyscallTaskComplete_(t, e)
  <2>1. CASE kSyscallTaskWake(t)
    <3>1. CASE call[t].number = "NONE"
      BY <1>2, <2>1, <3>1 DEF kSyscallTaskWake
    <3>2. CASE call[t].number = "MUTEX_LOCK"
      BY <1>2, <2>1, <3>2 DEF kSyscallTaskWake
    <3>3. CASE call[t].number \in {"SLEEP_DELAY", "TASK_SELF_SUSPEND"}
      <4>1. kSyscallTaskComplete_(t, "SUCCESS")
        BY <1>2, <2>1, <3>3 DEF kSyscallTaskWake
      <4> QED BY <4>1
    <3> QED BY <1>1, <3>1, <3>2, <3>3
  <2>2. CASE kSyscallTaskTimeout(t)
    BY <1>1, <2>2 DEF kSyscallTaskTimeout
  <2> QED BY <2>1, <2>2
<1>4. ASSUME NEW e, kSyscallTaskComplete_(t, e)
      PROVE  /\ call'[t] = NoCall /\ ret'[t].err = e /\ ret'[t].arg = call[t].arg
             /\ \A u \in Task \ {t} : call'[u] = call[u] /\ ret'[u] = ret[u]
  BY <1>1, <1>4 DEF kSyscallTaskComplete_
<1> QED BY <1>1, <1>3, <1>4 DEF callVars, NoCall

LEMMA AwokenEffects ==
  ASSUME LifeInv, ReadySwtch \/ TimeoutReady, UNCHANGED <<faultVars, lifeVars>>
  PROVE  \E t \in Task : Awoken(t)
<1> DEFINE t == Head(todo).task
<1>1. /\ KernelInv /\ TypeOK /\ RegionInv /\ CallInv /\ run \in Task
      /\ prio \in [Task -> Prio] /\ PostProc \in NoPreempt
      /\ wqp \in [Task -> WaitObj \cup {None}]
      /\ waitingFor \in [Task -> Mutex \cup {None}]
  BY LifeTypes DEF LifeInv
<1>2. /\ todo # <<>> /\ todo' = Tail(todo) /\ t \in Task
      /\ Head(todo).op \in {"ready", "timeoutReady"} /\ todo \in Seq(KernelCall)
      /\ Head(todo).op \in WakeOps /\ Head(todo).op # "updatePrio"
  BY <1>1, HeadTask DEF ReadySwtch, TimeoutReady, WakeOps, TypeOK
<1>3. Head(todo) \in ToSet(todo)
  BY <1>1, <1>2, TodoSets
<1>4. /\ status[t] \in Woke
      /\ Head(todo).op = "ready" => wqp[t] = None /\ waitingFor[t] = None
      /\ status[t] = "TERMINATED" => Head(todo).op = "ready" /\ t \in spawned
  BY <1>2, <1>3, <1>1 DEF RegionInv
<1>5. \A c \in ToSet(Tail(todo)) : c.op \notin WakeOps
  BY <1>1, <1>2, RegionTail DEF RegionInv
<1>6. t # PostProc
  BY <1>4, PostProcStatus DEF Woke
<1>7. PICK u \in Task : u = t
  BY <1>2
<1>8. /\ status' = [status EXCEPT ![u] = "READY"]
      /\ readyQ' = [readyQ EXCEPT ![prio[u]] = kTCBQEnq(@, u)]
      /\ kSyscallTaskWake(u) \/ kSyscallTaskTimeout(u)
      /\ UNCHANGED <<run, prio, waitQ, lock, owner, faulted, owned, mesgPrio, tmo>>
  BY <1>6, <1>7 DEF ReadySwtch, TimeoutReady, ReadyEnq, waitVars, mutexVars, timeVars
<1>9. /\ (~pendSV' => ~pendSV) /\ (run = PostProc /\ ~pendSV => ~pendSV')
  <2>1. CASE ReadySwtch
    BY <1>1, <2>1, SwitchKept DEF ReadySwtch, kReschedTask, NoCtxSwtch
  <2>2. CASE TimeoutReady
    BY <2>2 DEF TimeoutReady
  <2> QED BY <2>1, <2>2
<1>10. /\ wqp'[u] = None /\ waitingFor'[u] = None
       /\ \A v \in Task \ {u} : wqp'[v] = wqp[v] /\ waitingFor'[v] = waitingFor[v]
  <2>1. CASE ReadySwtch
    BY <1>4, <1>7, <2>1 DEF ReadySwtch, waitVars, mutexVars
  <2>2. CASE TimeoutReady
    <3>1. wqp' = [wqp EXCEPT ![u] = None] /\ kSyscallTaskTimeout(u)
      BY <1>7, <2>2 DEF TimeoutReady
    <3>2. call[u].number # "MUTEX_LOCK" => waitingFor[u] = None
      BY <1>1 DEF CallInv, CallFor
    <3>3. \/ UNCHANGED waitingFor /\ call[u].number # "MUTEX_LOCK"
          \/ waitingFor' = [waitingFor EXCEPT ![u] = None]
      BY <3>1 DEF kSyscallTaskTimeout
    <3> QED BY <1>1, <3>1, <3>2, <3>3
  <2> QED BY <2>1, <2>2
<1> HIDE DEF t
<1>11. /\ call'[u].number = "NONE" /\ call'[u].wake # "OWNER_FAULTED"
       /\ ret'[u].err = "OWNER_FAULTED" =>
            \/ ret'[u] = ret[u]
            \/ call[u].wake = "OWNER_FAULTED" /\ ret'[u].arg = call[u].arg
       /\ \A v \in Task \ {u} : call'[v] = call[v] /\ ret'[v] = ret[v]
  BY <1>8, AwokenCall
<1>12. Awoken(u)
  BY <1>2, <1>4, <1>5, <1>6, <1>7, <1>8, <1>9, <1>10, <1>11 DEF Awoken, t
<1> QED BY <1>12

(***************************************************************************)
(* The kernel's part of the invariant: a step of the mutex service keeps   *)
(* it whoever owns the mutexes; the steps of PostProc and of LifeNext one  *)
(* by one.                                                                 *)
(***************************************************************************)
LEMMA KernelPart ==
  ASSUME LifeInv, [Next]_kernelVars
  PROVE  KernelInv'
<1>1. KernelInv
  BY DEF LifeInv
<1> QED BY <1>1, TypeStep, ReadyStep, TimeStep, QueueStep, TodoStep, StaleStep DEF KernelInv

\* What the kernel's invariant says, beside the types.
LEMMA KernelParts ==
  ASSUME LifeInv
  PROVE  /\ KernelInv /\ TypeOK /\ ReadyInv /\ TimeInv /\ QueueInv /\ TodoInv /\ StaleInv
         /\ ReadyPlaces /\ WaitPlaces
BY DEF LifeInv, KernelInv

\* The wait queues when no more is queued than was.
LEMMA QueueFrame ==
  ASSUME LifeInv,
         \A o \in WaitObj : /\ NoDuplicates(waitQ'[o])
                            /\ ToSet(waitQ'[o]) \subseteq ToSet(waitQ[o]),
         \A o \in WaitObj : \A t \in ToSet(waitQ'[o]) :
           /\ wqp'[t] = wqp[t] /\ waitingFor'[t] = waitingFor[t]
           /\ call'[t].number = call[t].number /\ call'[t].arg = call[t].arg
           /\ t \in ToSet(tmo') => t \in ToSet(tmo) /\ ttype'[t] = ttype[t],
         \A t \in Task : status'[t] = "SELF_SUSPENDED" =>
           status[t] = "SELF_SUSPENDED" /\ call'[t].number = call[t].number
  PROVE  QueueInv' /\ WaitPlaces'
<1>1. QueueInv /\ WaitPlaces
  BY KernelParts
<1>2. ASSUME NEW o \in WaitObj, NEW t \in ToSet(waitQ'[o])
      PROVE  /\ wqp'[t] = o /\ call'[t].number = "MUTEX_LOCK" /\ call'[t].arg = o
             /\ waitingFor'[t] = o
             /\ t \in ToSet(tmo') => ttype'[t] = "BLOCKING"
  <2>1. t \in ToSet(waitQ[o])
    OBVIOUS
  <2>2. /\ wqp[t] = o /\ call[t].number = "MUTEX_LOCK" /\ call[t].arg = o
        /\ waitingFor[t] = o
        /\ t \in ToSet(tmo) => ttype[t] = "BLOCKING"
    BY <1>1, <2>1 DEF QueueInv, WaitPlaces
  <2> QED BY <2>2
<1> QED BY <1>1, <1>2 DEF QueueInv, WaitPlaces

LEMMA BaseStutter ==
  ASSUME LifeInv, UNCHANGED kernelVars
  PROVE  KernelInv' /\ ReadyPlaces' /\ WaitPlaces'
<1>1. KernelInv'
  BY KernelPart
<1>2. UNCHANGED <<readyQ, prio, status, waitQ, waitingFor, call>>
  BY DEF kernelVars, schedVars, waitVars, mutexVars, callVars
<1>3. ReadyPlaces'
  BY <1>2, KernelParts, ReadyKept
<1>4. WaitPlaces'
  BY <1>2, KernelParts DEF WaitPlaces
<1> QED BY <1>1, <1>3, <1>4

\* The task that runs gives way for good, or PostProc goes to sleep; PostProc
\* may be made ready at the head of its queue.
GivesWay(st, wake) ==
  /\ status' = [status EXCEPT ![run] = st,
                              ![PostProc] = IF wake THEN "READY" ELSE @]
  /\ readyQ' = IF wake THEN [readyQ EXCEPT ![0] = kTCBQJam(@, PostProc)] ELSE readyQ
  /\ pendSV' = TRUE /\ pendingSw' = FALSE
  /\ UNCHANGED <<run, prio, schLock, savedLock, waitVars, mutexVars, timeVars,
                 callVars, todo>>

LEMMA GivesWayBase ==
  ASSUME LifeInv, NEW st \in {"PENDING", "FAULT_PENDING", "SLEEPING_EV_FLAG"}, NEW wake \in BOOLEAN,
         GivesWay(st, wake), status[run] = "RUNNING", run # IdleTask,
         wake => run # PostProc /\ status[PostProc] = "SLEEPING_EV_FLAG"
  PROVE  KernelInv' /\ ReadyPlaces' /\ WaitPlaces'
<1>1. /\ run \in Task /\ status \in [Task -> Status] /\ prio \in [Task -> Prio]
      /\ readyQ \in [Prio -> Seq(Task)] /\ TypeOK /\ PostProc \in Task \ {IdleTask}
      /\ prio[PostProc] = 0 /\ 0 \in Prio /\ st \in Status
      /\ KernelInv /\ ReadyPlaces
  BY LifeTypes DEF LifeInv, PostInv, Status
<1> DEFINE q == readyQ[0]
           j == kTCBQJam(q, PostProc)
<1>2. /\ j \in Seq(Task) /\ ToSet(j) = ToSet(q) \cup {PostProc}
      /\ wake => NoDuplicates(j) /\ PostProc \notin ToSet(q)
  <2>1. j \in Seq(Task) /\ ToSet(j) = ToSet(q) \cup {PostProc}
    BY <1>1, ReadyEnqProperties
  <2>2. wake => PostProc \notin ToSet(q)
    BY <1>1 DEF ReadyPlaces
  <2>3. q \in Seq(Task) /\ NoDuplicates(q)
    BY <1>1 DEF ReadyPlaces
  <2>4. wake => NoDuplicates(j)
    BY <1>1, <2>2, <2>3, EnterOnce
  <2> QED BY <2>1, <2>2, <2>4
<1>3. /\ readyQ'[0] = IF wake THEN j ELSE q
      /\ \A p \in Prio \ {0} : readyQ'[p] = readyQ[p]
      /\ readyQ' \in [Prio -> Seq(Task)]
  BY <1>1, <1>2 DEF GivesWay
<1>4. /\ status' \in [Task -> Status]
      /\ \A t \in Task \ {run, PostProc} : status'[t] = status[t]
      /\ wake => status'[PostProc] = "READY"
      /\ PostProc # run /\ ~wake => status'[PostProc] = status[PostProc]
      /\ status'[run] = st
  <2>1. CASE wake
    <3>1. status' = [status EXCEPT ![run] = st, ![PostProc] = "READY"]
      BY <2>1 DEF GivesWay
    <3> QED BY <1>1, <2>1, <3>1 DEF Status
  <2>2. CASE ~wake
    <3>1. status' = [status EXCEPT ![run] = st, ![PostProc] = @]
      BY <2>2 DEF GivesWay
    <3>2. status' \in [Task -> Status]
      BY <1>1, <3>1
    <3>3. \A t \in Task : status'[t] = IF t = run THEN st ELSE status[t]
      BY <1>1, <3>1
    <3> QED BY <1>1, <2>2, <3>2, <3>3
  <2> QED BY <2>1, <2>2
<1> HIDE DEF j
<1>5. \A p \in Prio : ToSet(readyQ[p]) \subseteq ToSet(readyQ'[p])
  BY <1>2, <1>3
<1>6. TypeOK'
  BY <1>1, <1>3, <1>4 DEF TypeOK, SchedTypeOK, WaitTypeOK, MutexTypeOK, TimeTypeOK,
     CallTypeOK, GivesWay, waitVars, mutexVars, timeVars, callVars
<1>7. ReadyInv'
  <2>1. \A t \in Task : status'[t] = "READY" => t \in ToSet(readyQ'[prio'[t]])
    <3> TAKE t \in Task
    <3> HAVE status'[t] = "READY"
    <3>1. prio'[t] = prio[t]
      BY DEF GivesWay
    <3>2. CASE status[t] = "READY"
      BY <1>1, <1>5, <3>1, <3>2, KernelParts DEF ReadyInv
    <3>3. CASE status[t] # "READY"
      <4>1. t = PostProc /\ wake
        BY <1>4, <3>3
      <4> QED BY <1>1, <1>2, <1>3, <3>1, <4>1
    <3> QED BY <3>2, <3>3
  <2>2. \A t \in Task : status'[t] = "RUNNING" => t = run'
    BY <1>4, KernelParts DEF ReadyInv, GivesWay
  <2>3. status'[IdleTask] \in {"READY", "RUNNING"}
    BY <1>1, <1>4, LifeTypes, KernelParts DEF ReadyInv
  <2> QED BY <2>1, <2>2, <2>3 DEF ReadyInv
<1>8. TimeInv' /\ TodoInv' /\ StaleInv'
  BY KernelParts DEF TimeInv, TodoInv, StaleInv, GivesWay, waitVars, timeVars, callVars
<1>9. QueueInv' /\ WaitPlaces'
  <2>1. UNCHANGED <<waitQ, wqp, waitingFor, call, tmo, ttype>>
    BY DEF GivesWay, waitVars, mutexVars, timeVars, callVars
  <2>2. \A t \in Task : status'[t] = "SELF_SUSPENDED" => status[t] = "SELF_SUSPENDED"
    BY <1>4
  <2>3. \A o \in WaitObj : NoDuplicates(waitQ[o])
    BY KernelParts DEF QueueInv
  <2> QED BY <2>1, <2>2, <2>3, QueueFrame
<1>10. ReadyPlaces'
  <2>1. \A p \in Prio : NoDuplicates(readyQ'[p])
    <3>1. \A p \in Prio : NoDuplicates(readyQ[p])
      BY <1>1 DEF ReadyPlaces
    <3>2. \A p \in Prio : readyQ'[p] = readyQ[p] \/ (readyQ'[p] = j /\ wake)
      BY <1>3
    <3> QED BY <1>2, <3>1, <3>2
  <2>2. ASSUME NEW p \in Prio, NEW t \in ToSet(readyQ'[p])
        PROVE  status'[t] = "READY" /\ prio'[t] = p
    <3>1. t \in ToSet(readyQ[p]) \/ (p = 0 /\ t = PostProc /\ wake)
      BY <1>2, <1>3, <2>2
    <3>2. CASE t \in ToSet(readyQ[p])
      <4>1. status[t] = "READY" /\ prio[t] = p
        BY <1>1, <3>2 DEF ReadyPlaces
      <4>2. t # run /\ (t = PostProc => ~wake)
        BY <4>1
      <4>3. t \in Task
        <5>1. readyQ[p] \in Seq(Task)
          BY <1>1
        <5> QED BY <3>2, <5>1, LenProperties, ElementOfSeq DEF ToSet
      <4> QED BY <1>4, <4>1, <4>2, <4>3 DEF GivesWay
    <3>3. CASE p = 0 /\ t = PostProc /\ wake
      BY <1>1, <1>4, <3>3 DEF GivesWay
    <3> QED BY <3>1, <3>2, <3>3
  <2> QED BY <2>1, <2>2 DEF ReadyPlaces
<1> QED BY <1>6, <1>7, <1>8, <1>9, <1>10 DEF KernelInv

\* The timeouts when one is disarmed.
LEMMA DisarmTime ==
  ASSUME LifeInv, NEW t \in Task, DisarmTimeout(t),
         \A u \in Task \ {t} : call'[u].number = call[u].number,
         NoTick(todo') => NoTick(todo)
  PROVE  /\ TimeInv' /\ TimeTypeOK'
         /\ ToSet(tmo') \subseteq ToSet(tmo) \ {t}
         /\ \A u \in Task \ {t} : ttype'[u] = ttype[u]
<1>1. TypeOK /\ TimeInv /\ ToSet(tmo) \subseteq Task
  BY KernelParts, ListedTasks
<1>2. /\ NoDuplicates(tmo') /\ OrderedBy(tmo', left')
      /\ ToSet(tmo') \subseteq ToSet(tmo) \ {t}
      /\ \A u \in Task \ {t} : left'[u] = left[u] /\ ttype'[u] = ttype[u]
  BY <1>1, DisarmEffects
<1>3. TimeTypeOK'
  BY <1>1, DisarmTypes
<1>4. \A u \in ToSet(tmo') : /\ u \in ToSet(tmo) /\ left'[u] = left[u]
                             /\ call'[u].number = call[u].number
  BY <1>1, <1>2
<1>5. TimeInv'
  BY <1>1, <1>2, <1>4 DEF TimeInv
<1> QED BY <1>2, <1>3, <1>5

\* The cleanup after a fault begins: the task is on no list.
CleanupBegun(t) ==
  /\ t = cleaning /\ t \in UserTask \ cleanupPending /\ status[t] = "FAULT_PENDING"
  /\ run = PostProc /\ status[PostProc] = "RUNNING" /\ ~pendSV /\ todo = <<>>
  /\ todo' = <<FaultReleaseOf(t), FaultDoneOf(t)>>
  /\ postStep' = "scan" /\ cleaning' = None
  /\ \A u \in Task : wqp'[u] = wqp[u] /\ waitingFor'[u] = waitingFor[u]
  /\ wqp' \in [Task -> WaitObj \cup {None}]
  /\ waitingFor' \in [Task -> Mutex \cup {None}]
  /\ DisarmTimeout(t)
  /\ UNCHANGED <<readyQ, waitQ, run, status, prio, schLock, savedLock, pendingSw,
                 pendSV, lock, owner, faulted, owned, mesgPrio, callVars,
                 cleanupPending, postSig, jobs, budget>>

LEMMA CleanupBegins ==
  ASSUME LifeInv, kTaskFaultCleanup
  PROVE  \E t \in Task : CleanupBegun(t)
<1>1. /\ run = PostProc /\ todo = <<>> /\ Works /\ postStep = "clean"
      /\ status[PostProc] = "RUNNING" /\ ~pendSV
  BY PostProcRuns DEF kTaskFaultCleanup
<1>2. PICK t \in UserTask \ cleanupPending : t = cleaning /\ status[t] = "FAULT_PENDING"
  BY <1>1 DEF Works
<1>3. /\ t \in Task /\ wqp[t] = None /\ waitingFor[t] = None
      /\ wqp \in [Task -> WaitObj \cup {None}]
      /\ waitingFor \in [Task -> Mutex \cup {None}]
  BY <1>2, LifeTypes, NotListed
<1> DEFINE c == <<FaultReleaseOf(t), FaultDoneOf(t)>>
<1>4. c \in Seq(KernelCall)
  BY <1>3 DEF FaultReleaseOf, FaultDoneOf, KernelCall
<1>5. <<>> \o c = c
  BY <1>4, ConcatEmptySeq
<1>6. /\ todo' = <<>> \o c
      /\ UNCHANGED <<readyQ, waitQ>>
  BY <1>2, <1>3 DEF kTaskFaultCleanup
<1> HIDE DEF c
<1>7. /\ wqp' = [wqp EXCEPT ![t] = None] /\ waitingFor' = [waitingFor EXCEPT ![t] = None]
      /\ DisarmTimeout(t) /\ postStep' = "scan" /\ cleaning' = None
      /\ UNCHANGED <<run, status, prio, schLock, savedLock, pendingSw,
                     pendSV, lock, owner, faulted, owned, mesgPrio, callVars,
                     cleanupPending, postSig, jobs, budget>>
  BY <1>2 DEF kTaskFaultCleanup
<1>8. /\ \A u \in Task : wqp'[u] = wqp[u] /\ waitingFor'[u] = waitingFor[u]
      /\ wqp' \in [Task -> WaitObj \cup {None}]
      /\ waitingFor' \in [Task -> Mutex \cup {None}]
  BY <1>3, <1>7
<1>9. CleanupBegun(t)
  BY <1>1, <1>2, <1>5, <1>6, <1>7, <1>8 DEF CleanupBegun, c
<1> QED BY <1>3, <1>9

LEMMA CleanupTodo ==
  ASSUME NEW t \in Task, todo' = <<FaultReleaseOf(t), FaultDoneOf(t)>>
  PROVE  /\ todo' \in Seq(KernelCall)
         /\ ToSet(todo') = {FaultReleaseOf(t), FaultDoneOf(t)}
         /\ \A c \in ToSet(todo') : c.op \in FaultOps /\ c.task = t
<1> DEFINE a == FaultReleaseOf(t)
           b == FaultDoneOf(t)
<1>1. /\ a \in KernelCall /\ b \in KernelCall /\ a.task = t /\ b.task = t
      /\ a.op \in FaultOps /\ b.op \in FaultOps
  BY DEF FaultReleaseOf, FaultDoneOf, KernelCall, FaultOps
<1> HIDE DEF a, b, KernelCall
<1>2. <<a, b>> \in Seq(KernelCall) /\ ToSet(<<a, b>>) = {a, b}
  BY <1>1, SmallSequences
<1> QED BY <1>1, <1>2 DEF a, b

LEMMA CleanupBase ==
  ASSUME LifeInv, NEW t \in Task, CleanupBegun(t)
  PROVE  KernelInv' /\ ReadyPlaces' /\ WaitPlaces'
<1>1. /\ DisarmTimeout(t) /\ todo = <<>>
      /\ UNCHANGED <<readyQ, waitQ, run, status, prio, schLock, savedLock, pendingSw,
                     pendSV, lock, owner, faulted, owned, mesgPrio, call, ret>>
      /\ \A u \in Task : wqp'[u] = wqp[u] /\ waitingFor'[u] = waitingFor[u]
      /\ wqp' \in [Task -> WaitObj \cup {None}]
      /\ waitingFor' \in [Task -> Mutex \cup {None}]
      /\ todo' = <<FaultReleaseOf(t), FaultDoneOf(t)>>
  BY DEF CleanupBegun, callVars
<1>2. /\ todo' \in Seq(KernelCall)
      /\ \A c \in ToSet(todo') : c.op \in FaultOps
  BY <1>1, CleanupTodo
<1>3. NoTick(todo)
  BY <1>1 DEF NoTick, ToSet
<1>4. /\ TimeInv' /\ TimeTypeOK'
      /\ ToSet(tmo') \subseteq ToSet(tmo) \ {t}
      /\ \A u \in Task \ {t} : ttype'[u] = ttype[u]
  BY <1>1, <1>3, DisarmTime
<1>5. TypeOK'
  BY <1>1, <1>2, <1>4, KernelParts
  DEF TypeOK, SchedTypeOK, WaitTypeOK, MutexTypeOK, CallTypeOK
<1>6. ReadyInv' /\ ReadyPlaces'
  BY <1>1, KernelParts DEF ReadyInv, ReadyPlaces
<1>7. TodoInv'
  BY <1>1, <1>2 DEF TodoInv, FaultOps
<1>8. StaleInv'
  BY <1>1, KernelParts DEF StaleInv
<1>9. QueueInv' /\ WaitPlaces'
  <2>1. \A o \in WaitObj : NoDuplicates(waitQ[o]) /\ ToSet(waitQ[o]) \subseteq Task
    BY KernelParts, ListedTasks DEF QueueInv
  <2>2. \A o \in WaitObj : \A u \in ToSet(waitQ'[o]) :
           /\ wqp'[u] = wqp[u] /\ waitingFor'[u] = waitingFor[u]
           /\ call'[u].number = call[u].number /\ call'[u].arg = call[u].arg
           /\ u \in ToSet(tmo') => u \in ToSet(tmo) /\ ttype'[u] = ttype[u]
    BY <1>1, <1>4, <2>1
  <2> QED BY <1>1, <2>1, <2>2, QueueFrame
<1> QED BY <1>4, <1>5, <1>6, <1>7, <1>8, <1>9 DEF KernelInv

\* A call before the ones still to be made.
LEMMA TodoPush ==
  ASSUME LifeInv, NEW x \in KernelCall
  PROVE  <<x>> \o todo \in Seq(KernelCall) /\ ToSet(<<x>> \o todo) = {x} \cup ToSet(todo)
<1> HIDE DEF KernelCall
<1> DEFINE a == <<x>>
<1>1. a \in Seq(KernelCall) /\ ToSet(a) = {x} /\ todo \in Seq(KernelCall)
  BY SmallSequences, LifeTypes
<1> HIDE DEF a
<1>2. a \o todo \in Seq(KernelCall)
  BY <1>1, ConcatProperties
<1>3. ToSet(a \o todo) = ToSet(a) \cup ToSet(todo)
  BY <1>1, ConcatSet
<1> QED BY <1>1, <1>2, <1>3 DEF a

\* The call at the head of the list, and those behind it.
LEMMA TodoHead ==
  ASSUME LifeInv, todo # <<>>
  PROVE  /\ Head(todo) \in KernelCall /\ Head(todo) \in ToSet(todo)
         /\ Tail(todo) \in Seq(KernelCall) /\ RegionOrder(Tail(todo))
         /\ ToSet(todo) = {Head(todo)} \cup ToSet(Tail(todo))
         /\ Head(todo).op # "updatePrio" => \A c \in ToSet(Tail(todo)) : c.op \notin WakeOps
         /\ Head(todo).op = "faultDone" => ToSet(Tail(todo)) = {}
         /\ Head(todo).op \in FaultOps \cup {"faultWake", "ready"} =>
              /\ \A c \in ToSet(todo) : c.op # "handleTimeouts"
              /\ NoTick(todo)
<1>1. todo \in Seq(KernelCall) /\ RegionInv /\ TypeOK
  BY LifeTypes DEF LifeInv
<1>2. /\ Head(todo) \in KernelCall /\ Tail(todo) \in Seq(KernelCall)
      /\ ToSet(todo) = {Head(todo)} \cup ToSet(Tail(todo))
  BY <1>1, TodoTypes, TodoSets
<1>3. /\ RegionOrder(Tail(todo))
      /\ Head(todo).op # "updatePrio" => \A c \in ToSet(Tail(todo)) : c.op \notin WakeOps
      /\ Head(todo).op = "faultDone" => ToSet(Tail(todo)) = {}
  BY <1>1, RegionTail DEF RegionInv
<1>4. Head(todo).op \in FaultOps \cup {"faultWake", "ready"} =>
        \A c \in ToSet(todo) : c.op # "handleTimeouts"
  BY <1>1, <1>2 DEF RegionInv, RegionOrder, FaultOps
<1> QED BY <1>2, <1>3, <1>4 DEF NoTick

\* A step on the records of ownership alone.
LEMMA OwnershipBase ==
  ASSUME LifeInv,
         UNCHANGED <<schedVars, waitVars, waitingFor, mesgPrio, timeVars, callVars>>,
         lock' \in [Mutex -> BOOLEAN], owner' \in [Mutex -> Task \cup {None}],
         faulted' \in [Mutex -> BOOLEAN], owned' \in [Task -> SUBSET Mutex],
         todo' \in Seq(KernelCall), NoTick(todo') => NoTick(todo),
         \A c \in ToSet(todo') : c \in ToSet(todo) \/ c.op \notin WakeOps
  PROVE  KernelInv' /\ ReadyPlaces' /\ WaitPlaces'
<1>1. /\ UNCHANGED <<run, status, prio, readyQ, schLock, savedLock, pendingSw, pendSV>>
      /\ UNCHANGED <<waitQ, wqp, waitingFor, mesgPrio, tmo, left, ttype, call, ret>>
  BY DEF schedVars, waitVars, timeVars, callVars
<1>2. TypeOK'
  BY <1>1, KernelParts
  DEF TypeOK, SchedTypeOK, WaitTypeOK, MutexTypeOK, TimeTypeOK, CallTypeOK
<1>3. ReadyInv' /\ ReadyPlaces' /\ StaleInv' /\ QueueInv' /\ WaitPlaces'
  BY <1>1, KernelParts DEF ReadyInv, ReadyPlaces, StaleInv, QueueInv, WaitPlaces
<1>4. TimeInv'
  BY <1>1, KernelParts, TimeFrame
<1>5. TodoInv'
  BY <1>1, KernelParts DEF TodoInv, WakeOps
<1> QED BY <1>2, <1>3, <1>4, <1>5 DEF KernelInv

\* The next mutex of the task that faulted is poisoned.
Poisoned(t, m) ==
  /\ todo # <<>> /\ Head(todo) = FaultReleaseOf(t) /\ m \in owned[t]
  /\ owned' = [owned EXCEPT ![t] = @ \ {m}]
  /\ faulted' = [faulted EXCEPT ![m] = TRUE]
  /\ owner' = [owner EXCEPT ![m] = None]
  /\ lock' = [lock EXCEPT ![m] = FALSE]
  /\ todo' = <<FaultWakeOf(m)>> \o todo
  /\ UNCHANGED <<schedVars, waitVars, waitingFor, mesgPrio, timeVars, callVars,
                 faultVars>>

\* The call at the head ends, and nothing else changes.
CallEnds ==
  /\ todo # <<>> /\ Head(todo).op \in {"faultRelease", "faultWake"}
  /\ Head(todo).op = "faultRelease" => owned[Head(todo).task] = {}
  /\ Head(todo).op = "faultWake" => waitQ[Head(todo).mutex] = <<>>
  /\ todo' = Tail(todo)
  /\ UNCHANGED <<schedVars, waitVars, mutexVars, timeVars, callVars, faultVars>>

\* The next waiter of a poisoned mutex stops waiting.
ToldOfFault(m, w) ==
  /\ todo # <<>> /\ Head(todo) = FaultWakeOf(m) /\ waitQ[m] # <<>> /\ w = Head(waitQ[m])
  /\ waitQ' = [waitQ EXCEPT ![m] = Tail(@)]
  /\ DisarmTimeout(w)
  /\ wqp' = [wqp EXCEPT ![w] = None]
  /\ waitingFor' = [waitingFor EXCEPT ![w] = None]
  /\ call' = [call EXCEPT ![w].wake = "OWNER_FAULTED"]
  /\ todo' = <<ReadySwtchOf(w)>> \o todo
  /\ UNCHANGED <<schedVars, lock, owner, faulted, owned, mesgPrio, ret, faultVars>>

\* What the two loops of kTaskFaultReleaseOwnedMutexes_ do.
LEMMA ReleaseKinds ==
  ASSUME LifeInv, FaultWake \/ \E t \in Task : FaultRelease(t)
  PROVE  \/ CallEnds
         \/ \E t \in Task : \E m \in Mutex : Poisoned(t, m)
         \/ \E m \in Mutex : \E w \in Task : ToldOfFault(m, w)
<1>1. CASE FaultWake
  <2>1. /\ todo # <<>> /\ Head(todo).op = "faultWake" /\ Head(todo) \in KernelCall
    BY <1>1, TodoHead DEF FaultWake
  <2>2. PICK m \in Mutex : Head(todo) = FaultWakeOf(m) /\ Head(todo).mutex = m
    BY <2>1 DEF KernelCall, FaultWakeOf
  <2>3. CASE waitQ[m] = <<>>
    BY <1>1, <2>1, <2>2, <2>3 DEF FaultWake, CallEnds, mutexVars, callVars
  <2>4. CASE waitQ[m] # <<>>
    <3>1. m \in WaitObj /\ waitQ[m] \in Seq(Task)
      BY LifeTypes
    <3>2. PICK w \in Task : w = Head(waitQ[m])
      BY <2>4, <3>1, TailFacts
    <3>3. ToldOfFault(m, w)
      BY <1>1, <2>1, <2>2, <2>4, <3>2 DEF FaultWake, ToldOfFault
    <3> QED BY <3>3
  <2> QED BY <2>3, <2>4
<1>2. ASSUME NEW t \in Task, FaultRelease(t)
      PROVE  CallEnds \/ \E m \in Mutex : Poisoned(t, m)
  <2>1. /\ todo # <<>> /\ Head(todo) = FaultReleaseOf(t) /\ owned[t] \subseteq Mutex
        /\ Head(todo).op = "faultRelease" /\ Head(todo).task = t
    BY <1>2, LifeTypes DEF FaultRelease, Releasing, FaultReleaseOf
  <2>2. CASE ReleaseEnd(t)
    BY <2>1, <2>2 DEF ReleaseEnd, CallEnds
  <2>3. ASSUME NEW m \in owned[t], ReleaseMutex(t, m, <<FaultWakeOf(m)>> \o todo)
        PROVE  Poisoned(t, m)
    BY <2>1, <2>3 DEF ReleaseMutex, Poisoned
  <2> QED BY <1>2, <2>1, <2>2, <2>3 DEF FaultRelease
<1> QED BY <1>1, <1>2

LEMMA CallEndsBase ==
  ASSUME LifeInv, CallEnds
  PROVE  KernelInv' /\ ReadyPlaces' /\ WaitPlaces'
<1>1. /\ todo # <<>> /\ todo' = Tail(todo)
      /\ Head(todo).op \in FaultOps \cup {"faultWake", "ready"}
      /\ UNCHANGED <<schedVars, waitVars, waitingFor, mesgPrio, timeVars, callVars>>
      /\ UNCHANGED <<lock, owner, faulted, owned>>
  BY DEF CallEnds, FaultOps, mutexVars
<1>2. /\ todo' \in Seq(KernelCall) /\ ToSet(todo') \subseteq ToSet(todo) /\ NoTick(todo)
  BY <1>1, TodoHead
<1> QED BY <1>1, <1>2, LifeTypes, OwnershipBase

LEMMA PoisonedBase ==
  ASSUME LifeInv, NEW t \in Task, NEW m \in Mutex, Poisoned(t, m)
  PROVE  /\ KernelInv' /\ ReadyPlaces' /\ WaitPlaces'
         /\ ToSet(todo') = {FaultWakeOf(m)} \cup ToSet(todo)
<1>1. FaultWakeOf(m) \in KernelCall /\ FaultWakeOf(m).op = "faultWake"
  BY DEF FaultWakeOf, KernelCall
<1>2. /\ todo' \in Seq(KernelCall) /\ ToSet(todo') = {FaultWakeOf(m)} \cup ToSet(todo)
  BY <1>1, TodoPush DEF Poisoned
<1>3. Head(todo).op = "faultRelease" /\ todo # <<>>
  BY DEF Poisoned, FaultReleaseOf
<1>4. NoTick(todo)
  BY <1>3, TodoHead DEF FaultOps
<1>5. \A c \in ToSet(todo') : c \in ToSet(todo) \/ c.op \notin WakeOps
  BY <1>1, <1>2 DEF WakeOps
<1>6. /\ UNCHANGED <<schedVars, waitVars, waitingFor, mesgPrio, timeVars, callVars>>
      /\ lock' \in [Mutex -> BOOLEAN] /\ owner' \in [Mutex -> Task \cup {None}]
      /\ faulted' \in [Mutex -> BOOLEAN] /\ owned' \in [Task -> SUBSET Mutex]
  BY LifeTypes DEF Poisoned
<1> QED BY <1>2, <1>4, <1>5, <1>6, OwnershipBase

\* A waiter that is told is on no list by then.
LEMMA ToldEffects ==
  ASSUME LifeInv, NEW m \in Mutex, NEW w \in Task, ToldOfFault(m, w)
  PROVE  /\ w \in ToSet(waitQ[m]) /\ status[w] = "BLOCKED" /\ w # PostProc
         /\ call[w].number = "MUTEX_LOCK" /\ call[w].arg = m
         /\ call'[w].number = "MUTEX_LOCK" /\ call'[w].arg = m
         /\ call'[w].wake = "OWNER_FAULTED"
         /\ wqp'[w] = None /\ waitingFor'[w] = None
         /\ \A u \in Task \ {w} : /\ wqp'[u] = wqp[u] /\ waitingFor'[u] = waitingFor[u]
                                  /\ call'[u] = call[u]
         /\ \A o \in WaitObj : /\ NoDuplicates(waitQ'[o]) /\ waitQ'[o] \in Seq(Task)
                               /\ ToSet(waitQ'[o]) \subseteq ToSet(waitQ[o]) \ {w}
         /\ \A o \in WaitObj \ {m} : waitQ'[o] = waitQ[o]
         /\ ToSet(todo') = {ReadySwtchOf(w)} \cup ToSet(todo)
         /\ todo' \in Seq(KernelCall) /\ NoTick(todo)
         /\ \A c \in ToSet(todo) : c.op \notin WakeOps \cup {"handleTimeouts"}
<1>1. /\ call \in [Task -> Suspension] /\ waitQ \in [WaitObj -> Seq(Task)]
      /\ m \in WaitObj /\ wqp \in [Task -> WaitObj \cup {None}]
      /\ waitingFor \in [Task -> Mutex \cup {None}] /\ QueueInv
      /\ waitQ[m] \in Seq(Task) /\ NoDuplicates(waitQ[m]) /\ waitQ[m] # <<>>
  BY LifeTypes, KernelParts DEF QueueInv, ToldOfFault
<1>2. /\ w \in ToSet(waitQ[m]) /\ w \notin ToSet(Tail(waitQ[m]))
      /\ NoDuplicates(Tail(waitQ[m])) /\ Tail(waitQ[m]) \in Seq(Task)
      /\ ToSet(Tail(waitQ[m])) \subseteq ToSet(waitQ[m])
  BY <1>1, TailFacts DEF ToldOfFault
<1>3. /\ status[w] = "BLOCKED" /\ w # PostProc
      /\ call[w].number = "MUTEX_LOCK" /\ call[w].arg = m
  BY <1>1, <1>2, QueuedBlocked
<1>4. /\ waitQ'[m] = Tail(waitQ[m]) /\ \A o \in WaitObj \ {m} : waitQ'[o] = waitQ[o]
  BY <1>1 DEF ToldOfFault
<1>5. \A o \in WaitObj \ {m} : w \notin ToSet(waitQ[o])
  BY <1>1, <1>2 DEF QueueInv
<1>6. \A o \in WaitObj : /\ NoDuplicates(waitQ'[o]) /\ waitQ'[o] \in Seq(Task)
                         /\ ToSet(waitQ'[o]) \subseteq ToSet(waitQ[o]) \ {w}
  <2>1. \A o \in WaitObj \ {m} : NoDuplicates(waitQ[o]) /\ waitQ[o] \in Seq(Task)
    BY <1>1 DEF QueueInv
  <2> QED BY <1>2, <1>4, <1>5, <2>1
<1>7. /\ call'[w].number = "MUTEX_LOCK" /\ call'[w].arg = m
      /\ call'[w].wake = "OWNER_FAULTED"
      /\ wqp'[w] = None /\ waitingFor'[w] = None
      /\ \A u \in Task \ {w} : /\ wqp'[u] = wqp[u] /\ waitingFor'[u] = waitingFor[u]
                               /\ call'[u] = call[u]
  BY <1>1, <1>3 DEF ToldOfFault, Suspension
<1>8. ReadySwtchOf(w) \in KernelCall
  BY DEF ReadySwtchOf, KernelCall
<1>9. todo' \in Seq(KernelCall) /\ ToSet(todo') = {ReadySwtchOf(w)} \cup ToSet(todo)
  BY <1>8, TodoPush DEF ToldOfFault
<1>10. /\ todo # <<>> /\ Head(todo).op = "faultWake"
  BY DEF ToldOfFault, FaultWakeOf
<1>11. NoTick(todo) /\ \A c \in ToSet(todo) : c.op \notin WakeOps \cup {"handleTimeouts"}
  <2>1. Head(todo).op \notin WakeOps
    BY <1>10 DEF WakeOps
  <2> QED BY <1>10, <2>1, TodoHead
<1> QED BY <1>2, <1>3, <1>4, <1>6, <1>7, <1>9, <1>11

LEMMA ToldBase ==
  ASSUME LifeInv, NEW m \in Mutex, NEW w \in Task, ToldOfFault(m, w)
  PROVE  KernelInv' /\ ReadyPlaces' /\ WaitPlaces'
<1>1. /\ DisarmTimeout(w)
      /\ UNCHANGED <<run, status, prio, readyQ, schLock, savedLock, pendingSw, pendSV>>
      /\ UNCHANGED <<lock, owner, faulted, owned, mesgPrio, ret>>
      /\ waitQ' = [waitQ EXCEPT ![m] = Tail(@)]
      /\ wqp' = [wqp EXCEPT ![w] = None]
      /\ waitingFor' = [waitingFor EXCEPT ![w] = None]
      /\ call' = [call EXCEPT ![w].wake = "OWNER_FAULTED"]
  BY DEF ToldOfFault, schedVars
<1>2. /\ call[w].number = "MUTEX_LOCK" /\ call'[w].number = "MUTEX_LOCK"
      /\ \A u \in Task \ {w} : wqp'[u] = wqp[u] /\ waitingFor'[u] = waitingFor[u] /\ call'[u] = call[u]
      /\ \A o \in WaitObj : /\ NoDuplicates(waitQ'[o]) /\ waitQ'[o] \in Seq(Task)
                            /\ ToSet(waitQ'[o]) \subseteq ToSet(waitQ[o]) \ {w}
      /\ ToSet(todo') = {ReadySwtchOf(w)} \cup ToSet(todo)
      /\ todo' \in Seq(KernelCall) /\ NoTick(todo)
      /\ \A c \in ToSet(todo) : c.op \notin WakeOps \cup {"handleTimeouts"}
      /\ wqp'[w] = None
  <2>1. /\ call[w].number = "MUTEX_LOCK" /\ call'[w].number = "MUTEX_LOCK" /\ wqp'[w] = None
        /\ \A u \in Task \ {w} : /\ wqp'[u] = wqp[u] /\ waitingFor'[u] = waitingFor[u]
                                 /\ call'[u] = call[u]
    BY ToldEffects
  <2>2. \A o \in WaitObj : /\ NoDuplicates(waitQ'[o]) /\ waitQ'[o] \in Seq(Task)
                           /\ ToSet(waitQ'[o]) \subseteq ToSet(waitQ[o]) \ {w}
    BY ToldEffects
  <2>3. /\ ToSet(todo') = {ReadySwtchOf(w)} \cup ToSet(todo)
        /\ todo' \in Seq(KernelCall) /\ NoTick(todo)
        /\ \A c \in ToSet(todo) : c.op \notin WakeOps \cup {"handleTimeouts"}
    BY ToldEffects
  <2> QED BY <2>1, <2>2, <2>3
<1>3. \A u \in Task : call'[u].number = call[u].number
  <2>1. /\ call[w].number = "MUTEX_LOCK" /\ call'[w].number = "MUTEX_LOCK"
        /\ \A u \in Task \ {w} : call'[u] = call[u]
    BY <1>2
  <2> QED BY <2>1
<1>4. /\ TimeInv' /\ TimeTypeOK'
      /\ ToSet(tmo') \subseteq ToSet(tmo) \ {w}
      /\ \A u \in Task \ {w} : ttype'[u] = ttype[u]
  BY <1>1, <1>2, <1>3, DisarmTime
<1>5. TypeOK'
  <2>1. waitQ' \in [WaitObj -> Seq(Task)]
    BY <1>1, <1>2, LifeTypes
  <2>2. wqp' \in [Task -> WaitObj \cup {None}]
    BY <1>1, LifeTypes
  <2>3. waitingFor' \in [Task -> Mutex \cup {None}]
    BY <1>1, LifeTypes
  <2>4. call' \in [Task -> Suspension]
    <3>1. "OWNER_FAULTED" \in Err
      BY DEF Err
    <3>2. call[w] \in Suspension /\ call \in [Task -> Suspension]
      BY LifeTypes
    <3>3. [call[w] EXCEPT !.wake = "OWNER_FAULTED"] \in Suspension
      BY <3>1, <3>2 DEF Suspension
    <3> QED BY <1>1, <3>2, <3>3
  <2> QED BY <1>1, <1>2, <1>4, <2>1, <2>2, <2>3, <2>4, KernelParts
      DEF TypeOK, SchedTypeOK, WaitTypeOK, MutexTypeOK, CallTypeOK
<1>6. ReadyInv' /\ ReadyPlaces'
  BY <1>1, KernelParts DEF ReadyInv, ReadyPlaces
<1>7. TodoInv'
  <2>1. \A c \in ToSet(todo') : c = ReadySwtchOf(w) \/ c.op \notin WakeOps
    BY <1>2
  <2>2. \A c \in ToSet(todo') : c.op \in WakeOps => c.task = w
    BY <2>1 DEF ReadySwtchOf
  <2>3. w \notin ToSet(tmo') /\ \A o \in WaitObj : w \notin ToSet(waitQ'[o])
    BY <1>2, <1>4
  <2> QED BY <2>2, <2>3 DEF TodoInv, WakeOps
<1>8. StaleInv'
  BY <1>2, KernelParts, KernelConstants DEF StaleInv
<1>9. QueueInv' /\ WaitPlaces'
  <2>1. \A o \in WaitObj : ToSet(waitQ'[o]) \subseteq Task \ {w}
    BY <1>2, KernelParts, ListedTasks
  <2>2. \A o \in WaitObj : \A u \in ToSet(waitQ'[o]) :
           /\ wqp'[u] = wqp[u] /\ waitingFor'[u] = waitingFor[u]
           /\ call'[u].number = call[u].number /\ call'[u].arg = call[u].arg
           /\ u \in ToSet(tmo') => u \in ToSet(tmo) /\ ttype'[u] = ttype[u]
    BY <1>2, <1>4, <2>1
  <2> QED BY <1>1, <1>2, <1>3, <2>2, QueueFrame
<1> QED BY <1>4, <1>5, <1>6, <1>7, <1>8, <1>9 DEF KernelInv

\* What a call returns to the running task.
LEMMA ReturnsTo ==
  ASSUME LifeInv, NEW number \in ResultNumber, NEW arg \in WaitObj \cup {None}, NEW err \in Err,
         Returns(number, arg, err)
  PROVE  /\ ret' \in [Task -> FrameResult]
         /\ ret'[run].err = err /\ ret'[run].arg = arg
         /\ \A u \in Task \ {run} : ret'[u] = ret[u]
BY LifeTypes DEF Returns, FrameResult

(***************************************************************************)
(* The end of a task.                                                      *)
(***************************************************************************)
\* What the ways of taking a task out have in common.
Ended(t) ==
  /\ t \in UserTask /\ t # run /\ owned[t] = {}
  /\ status[t] \notin {"RUNNING", "BLOCKED", "TERMINATED"}
  /\ readyQ' = IF status[t] = "READY"
               THEN [readyQ EXCEPT ![prio[t]] = kTCBQRem(@, t)] ELSE readyQ
  /\ IF t \in ToSet(tmo) THEN DisarmTimeout(t) ELSE UNCHANGED timeVars
  /\ status' = [status EXCEPT ![t] = "TERMINATED"]
  /\ call' = [call EXCEPT ![t] = NoCall]
  /\ ret' \in [Task -> FrameResult]
  /\ todo' \in Seq(KernelCall) /\ ToSet(todo') = {} /\ NoTick(todo)
  /\ UNCHANGED <<run, prio, schLock, savedLock, pendingSw, pendSV, waitVars,
                 mutexVars>>

\* It is nowhere then.
LEMMA EndedEffects ==
  ASSUME LifeInv, NEW t, Ended(t)
  PROVE  /\ t \in Task /\ t # PostProc /\ t # IdleTask
         /\ status' \in [Task -> Status] /\ call' \in [Task -> Suspension]
         /\ status'[t] = "TERMINATED" /\ call'[t] = NoCall
         /\ \A u \in Task \ {t} : status'[u] = status[u] /\ call'[u] = call[u]
         /\ readyQ' \in [Prio -> Seq(Task)]
         /\ \A p \in Prio : /\ NoDuplicates(readyQ'[p])
                            /\ ToSet(readyQ'[p]) = ToSet(readyQ[p]) \ {t}
                            /\ t \notin ToSet(readyQ[p]) => readyQ'[p] = readyQ[p]
         /\ TimeInv' /\ TimeTypeOK' /\ ToSet(tmo') \subseteq ToSet(tmo) \ {t}
         /\ \A u \in Task \ {t} : ttype'[u] = ttype[u]
<1>1. /\ t \in Task /\ status \in [Task -> Status] /\ call \in [Task -> Suspension]
      /\ prio \in [Task -> Prio] /\ readyQ \in [Prio -> Seq(Task)]
      /\ "TERMINATED" \in Status /\ TypeOK
      /\ t # PostProc /\ t # IdleTask
  BY LifeTypes DEF Ended, Status, UserTask
<1>2. NoCall \in Suspension
  BY DEF NoCall, Suspension, CallNumber, CallPhase, Err
<1>3. /\ status' \in [Task -> Status] /\ call' \in [Task -> Suspension]
      /\ status'[t] = "TERMINATED" /\ call'[t] = NoCall
      /\ \A u \in Task \ {t} : status'[u] = status[u] /\ call'[u] = call[u]
  BY <1>1, <1>2 DEF Ended
<1>4. /\ readyQ' \in [Prio -> Seq(Task)]
      /\ \A p \in Prio : /\ NoDuplicates(readyQ'[p])
                         /\ ToSet(readyQ'[p]) = ToSet(readyQ[p]) \ {t}
                         /\ t \notin ToSet(readyQ[p]) => readyQ'[p] = readyQ[p]
  <2>1. CASE status[t] # "READY"
    <3>1. \A p \in Prio : t \notin ToSet(readyQ[p]) /\ NoDuplicates(readyQ[p])
      BY <1>1, <2>1, NotListed, KernelParts DEF ReadyPlaces
    <3> QED BY <1>1, <2>1, <3>1 DEF Ended
  <2>2. CASE status[t] = "READY"
    <3> DEFINE q == readyQ[prio[t]]
               r == kTCBQRem(q, t)
    <3>1. q \in Seq(Task) /\ NoDuplicates(q) /\ t \in ToSet(q)
      BY <1>1, <2>2, KernelParts DEF ReadyPlaces, ReadyInv
    <3>2. r \in Seq(Task) /\ NoDuplicates(r) /\ ToSet(r) = ToSet(q) \ {t}
      BY <3>1, RemProperties
    <3> HIDE DEF r
    <3>3. /\ readyQ'[prio[t]] = r /\ \A p \in Prio \ {prio[t]} : readyQ'[p] = readyQ[p]
          /\ readyQ' \in [Prio -> Seq(Task)]
      BY <1>1, <2>2, <3>2 DEF Ended, r
    <3>4. \A p \in Prio \ {prio[t]} : t \notin ToSet(readyQ[p]) /\ NoDuplicates(readyQ[p])
      BY <1>1, KernelParts DEF ReadyPlaces
    <3> QED BY <1>1, <3>1, <3>2, <3>3, <3>4
  <2> QED BY <2>1, <2>2
<1>5. /\ TimeInv' /\ TimeTypeOK' /\ ToSet(tmo') \subseteq ToSet(tmo) \ {t}
      /\ \A u \in Task \ {t} : ttype'[u] = ttype[u]
  <2>1. NoTick(todo)
    BY DEF Ended
  <2>2. CASE t \in ToSet(tmo)
    <3>1. DisarmTimeout(t)
      BY <2>2 DEF Ended
    <3>2. \A u \in Task \ {t} : call'[u].number = call[u].number
      BY <1>3
    <3> QED BY <1>1, <2>1, <3>1, <3>2, DisarmTime
  <2>3. CASE t \notin ToSet(tmo)
    <3>1. UNCHANGED <<tmo, left, ttype>>
      BY <2>3 DEF Ended, timeVars
    <3>2. \A u \in ToSet(tmo) : call'[u].number = call[u].number
      BY <1>1, <1>3, <2>3, ListedTasks
    <3>3. TimeInv'
      BY <2>1, <3>1, <3>2, KernelParts, TimeFrame
    <3> QED BY <2>3, <3>1, <3>3, KernelParts DEF TypeOK, TimeTypeOK
  <2> QED BY <2>2, <2>3
<1> QED BY <1>1, <1>3, <1>4, <1>5

LEMMA EndedBase ==
  ASSUME LifeInv, NEW t, Ended(t)
  PROVE  KernelInv' /\ ReadyPlaces' /\ WaitPlaces'
<1>1. /\ UNCHANGED <<run, prio, schLock, savedLock, pendingSw, pendSV, waitQ, wqp>>
      /\ UNCHANGED <<lock, owner, faulted, owned, waitingFor, mesgPrio>>
      /\ t # run /\ status[t] # "BLOCKED"
      /\ ret' \in [Task -> FrameResult]
      /\ todo' \in Seq(KernelCall) /\ ToSet(todo') = {}
  BY DEF Ended, waitVars, mutexVars
<1>2. /\ t \in Task /\ t # IdleTask
      /\ status' \in [Task -> Status] /\ call' \in [Task -> Suspension]
      /\ status'[t] = "TERMINATED" /\ call'[t] = NoCall
      /\ \A u \in Task \ {t} : status'[u] = status[u] /\ call'[u] = call[u]
      /\ readyQ' \in [Prio -> Seq(Task)]
      /\ \A p \in Prio : /\ NoDuplicates(readyQ'[p])
                         /\ ToSet(readyQ'[p]) = ToSet(readyQ[p]) \ {t}
      /\ TimeInv' /\ TimeTypeOK' /\ ToSet(tmo') \subseteq ToSet(tmo) \ {t}
      /\ \A u \in Task \ {t} : ttype'[u] = ttype[u]
  BY EndedEffects
<1>3. TypeOK'
  BY <1>1, <1>2, KernelParts
  DEF TypeOK, SchedTypeOK, WaitTypeOK, MutexTypeOK, CallTypeOK
<1>4. ReadyInv'
  <2>1. ReadyInv /\ prio \in [Task -> Prio] /\ IdleTask \in Task
    BY LifeTypes, KernelParts
  <2>2. \A u \in Task : status'[u] = "READY" => u \in ToSet(readyQ'[prio'[u]])
    <3> TAKE u \in Task
    <3> HAVE status'[u] = "READY"
    <3>1. u # t /\ status[u] = "READY" /\ prio'[u] = prio[u] /\ prio[u] \in Prio
      BY <1>1, <1>2, <2>1
    <3>2. u \in ToSet(readyQ[prio[u]])
      BY <2>1, <3>1 DEF ReadyInv
    <3> QED BY <1>2, <3>1, <3>2
  <2>3. \A u \in Task : status'[u] = "RUNNING" => u = run'
    BY <1>1, <1>2, <2>1 DEF ReadyInv
  <2>4. status'[IdleTask] \in {"READY", "RUNNING"}
    BY <1>2, <2>1 DEF ReadyInv
  <2> QED BY <2>2, <2>3, <2>4 DEF ReadyInv
<1>5. ReadyPlaces'
  <2>1. \A p \in Prio : ToSet(readyQ[p]) \subseteq Task
    <3>1. \A p \in Prio : readyQ[p] \in Seq(Task)
      BY LifeTypes
    <3> QED BY <3>1, LenProperties, ElementOfSeq DEF ToSet
  <2> QED BY <1>1, <1>2, <2>1, KernelParts DEF ReadyPlaces
<1>6. TodoInv' /\ StaleInv'
  BY <1>1, KernelParts DEF TodoInv, StaleInv
<1>7. QueueInv' /\ WaitPlaces'
  <2>1. \A o \in WaitObj : NoDuplicates(waitQ[o]) /\ ToSet(waitQ[o]) \subseteq Task \ {t}
    BY <1>1, <1>2, KernelParts, ListedTasks, NotListed DEF QueueInv
  <2>2. \A o \in WaitObj : \A u \in ToSet(waitQ'[o]) :
           /\ wqp'[u] = wqp[u] /\ waitingFor'[u] = waitingFor[u]
           /\ call'[u].number = call[u].number /\ call'[u].arg = call[u].arg
           /\ u \in ToSet(tmo') => u \in ToSet(tmo) /\ ttype'[u] = ttype[u]
    BY <1>1, <1>2, <2>1
  <2>3. \A u \in Task : status'[u] = "SELF_SUSPENDED" =>
           status[u] = "SELF_SUSPENDED" /\ call'[u].number = call[u].number
    BY <1>2
  <2> QED BY <1>1, <2>1, <2>2, <2>3, QueueFrame
<1> QED BY <1>2, <1>3, <1>4, <1>5, <1>6, <1>7 DEF KernelInv

(***************************************************************************)
(* The steps of the system's own kinds.                                    *)
(***************************************************************************)
LEMMA EmptyTodo == <<>> \in Seq(KernelCall) /\ ToSet(<<>>) = {} /\ NoTick(<<>>)
BY SmallSequences DEF NoTick, ToSet

\* kTaskTerminate on another task.
LEMMA OtherEnds ==
  ASSUME LifeInv, NEW t \in UserTask, NEW k, TerminateOther(t, k)
  PROVE  /\ Ended(t) /\ t \in spawned /\ status[t] \notin {"FAULT_PENDING"}
         /\ Rests /\ run # PostProc /\ run \in Task /\ ~pendSV
<1>1. /\ Executing /\ t \in spawned /\ status[t] # "TERMINATED" /\ ~Spared(t)
      /\ EndTask(t) /\ Returns("TASK_TERMINATE", None, "SUCCESS")
  BY DEF TerminateOther, Resolves
<1>2. /\ todo = <<>> /\ status[run] = "RUNNING" /\ Rests /\ run # PostProc
      /\ run \in Task /\ ~pendSV
  BY <1>1, UserRuns
<1>3. /\ owned[t] = {}
      /\ status[t] \in {"READY", "SLEEPING_DELAY", "SLEEPING_EV_FLAG",
                        "SELF_SUSPENDED", "PENDING"}
  BY <1>1 DEF Spared
<1>4. "TASK_TERMINATE" \in ResultNumber /\ "SUCCESS" \in Err
  BY DEF ResultNumber, Err
<1>5. ret' \in [Task -> FrameResult]
  BY <1>1, <1>4, ReturnsTo
<1>6. todo' = <<>> /\ t # run
  BY <1>1, <1>2, <1>3 DEF EndTask
<1>7. Ended(t)
  BY <1>1, <1>2, <1>3, <1>5, <1>6, EmptyTodo DEF Ended, EndTask
<1> QED BY <1>1, <1>2, <1>3, <1>7

\* A job of PostProc: the task is taken out, or the job is dropped.
JobDropped ==
  /\ jobs # <<>> /\ jobs' = Tail(jobs) /\ budget > 0 /\ budget' = budget - 1
  /\ UNCHANGED <<kernelVars, cleanupPending, cleaning, postSig, postStep, lifeVars>>

JobEnds(t, life) ==
  /\ Ended(t) /\ t \in spawned /\ ReleaseSlot(t)
  /\ jobs # <<>> /\ Head(jobs).task = t /\ Head(jobs).life = life
  /\ jobs' = Tail(jobs) /\ budget > 0 /\ budget' = budget - 1
  /\ misled' = (misled \/ life # Lives(t))
  /\ UNCHANGED <<cleanupPending, cleaning, postSig, postStep>>

LEMMA JobKinds ==
  ASSUME LifeInv, NEW job, PostProcTerminate(job)
  PROVE  /\ Works /\ run = PostProc /\ todo = <<>> /\ postStep = "jobs"
         /\ JobDropped \/ \E t \in UserTask : JobEnds(t, Head(jobs).life)
<1>1. /\ PostProcAt("jobs") /\ budget > 0 /\ jobs # <<>> /\ job = Head(jobs)
      /\ jobs' = Tail(jobs) /\ budget' = budget - 1
      /\ UNCHANGED <<ret, postSig, postStep>>
  BY DEF PostProcTerminate, JobDeq
<1>2. /\ run = PostProc /\ todo = <<>> /\ Works /\ postStep = "jobs"
      /\ status[PostProc] = "RUNNING"
  BY <1>1, PostProcRuns
<1>3. CASE job.task \in spawned /\ ~Spared(job.task)
  <2>1. /\ EndTask(job.task) /\ misled' = (misled \/ job.life # Lives(job.task))
    BY <1>3 DEF PostProcTerminate
  <2>2. PICK t \in UserTask : t = job.task
    BY <1>3 DEF LifeInv, SlotInv
  <2>3. /\ owned[t] = {}
        /\ status[t] \in {"READY", "SLEEPING_DELAY", "SLEEPING_EV_FLAG",
                          "SELF_SUSPENDED", "PENDING"}
    BY <1>3, <2>2 DEF Spared
  <2>4. ret' \in [Task -> FrameResult] /\ todo' = <<>> /\ t # run
    BY <1>1, <1>2, <2>1, <2>2, LifeTypes DEF EndTask
  <2>5. EndTask(t)
    BY <2>1, <2>2
  <2>6. Ended(t)
    BY <1>2, <2>2, <2>3, <2>4, <2>5, EmptyTodo DEF Ended, EndTask
  <2>7. ReleaseSlot(t) /\ UNCHANGED <<cleanupPending, cleaning>>
    BY <2>5 DEF EndTask
  <2>8. JobEnds(t, Head(jobs).life)
    BY <1>1, <1>3, <2>1, <2>2, <2>6, <2>7 DEF JobEnds
  <2> QED BY <1>2, <2>8
<1>4. CASE ~(job.task \in spawned /\ ~Spared(job.task))
  <2>1. UNCHANGED <<schedVars, waitVars, mutexVars, timeVars, call,
                    todo, cleanupPending, cleaning, lifeVars>>
    BY <1>4 DEF PostProcTerminate
  <2> QED BY <1>1, <1>2, <2>1 DEF JobDropped, kernelVars, callVars
<1> QED BY <1>3, <1>4

\* The end of a cleanup.
FaultEnded(t) ==
  /\ Ended(t) /\ status[t] = "FAULT_PENDING" /\ t \notin cleanupPending
  /\ run = PostProc /\ postStep = "scan" /\ cleaning = None
  /\ \A m \in Mutex : FaultWakeOf(m) \notin ToSet(todo)
  /\ \A u \in Task : ReadySwtchOf(u) \notin ToSet(todo)
  /\ IF t \in spawned
     THEN ReleaseSlot(t)
     ELSE /\ quarantine' = quarantine \cup {t}
          /\ generation' = [generation EXCEPT ![t] = @ + 1]
          /\ UNCHANGED <<spawned, freeStacks, handles>>
  /\ UNCHANGED <<misled, ret, faultVars>>

LEMMA FaultEnds ==
  ASSUME LifeInv, FaultEnd
  PROVE  \E t \in UserTask : FaultEnded(t)
<1>1. /\ todo # <<>> /\ Head(todo).op = "faultDone" /\ todo' = Tail(todo)
  BY DEF FaultEnd, FaultDone
<1>2. /\ Head(todo) \in ToSet(todo) /\ ToSet(todo) = {Head(todo)} /\ ToSet(todo') = {}
      /\ todo' \in Seq(KernelCall) /\ NoTick(todo)
  BY <1>1, TodoHead DEF FaultOps
<1>3. PICK t \in UserTask : t = Head(todo).task
  BY <1>1, <1>2 DEF LifeInv, CleanupInv, FaultOps
<1>4. /\ status[t] = "FAULT_PENDING" /\ t \notin cleanupPending
      /\ run = PostProc /\ postStep = "scan" /\ cleaning = None
      /\ FaultReleaseOf(t) \in ToSet(todo) \/ owned[t] = {}
  BY <1>1, <1>2, <1>3 DEF LifeInv, CleanupInv, FaultOps
<1>5. owned[t] = {}
  BY <1>1, <1>2, <1>4 DEF FaultReleaseOf
<1>6. /\ t # run /\ t \in Task /\ t \notin ToSet(tmo)
  BY <1>3, <1>4, LifeTypes, NotListed
<1>7. /\ call' = [call EXCEPT ![t] = NoCall]
      /\ status' = [status EXCEPT ![t] = "TERMINATED"]
      /\ UNCHANGED <<run, prio, readyQ, schLock, savedLock, pendingSw, pendSV,
                     waitVars, mutexVars, timeVars, ret, faultVars>>
  BY <1>3 DEF FaultEnd, FaultDone
<1>8. ret' \in [Task -> FrameResult]
  BY <1>7, LifeTypes
<1>9. Ended(t)
  BY <1>2, <1>4, <1>5, <1>6, <1>7, <1>8 DEF Ended
<1>10. /\ \A m \in Mutex : FaultWakeOf(m) \notin ToSet(todo)
       /\ \A u \in Task : ReadySwtchOf(u) \notin ToSet(todo)
  BY <1>1, <1>2 DEF FaultWakeOf, ReadySwtchOf
<1>11. FaultEnded(t)
  BY <1>3, <1>4, <1>7, <1>9, <1>10 DEF FaultEnded, FaultEnd
<1> QED BY <1>11

\* A task gives way for good: PostProc rests, and is woken.
LEMMA LeavesToPostProc ==
  ASSUME LifeInv, Executing, NEW st \in {"PENDING", "FAULT_PENDING"}, LeftToPostProc(st)
  PROVE  GivesWay(st, TRUE) /\ KernelInv' /\ ReadyPlaces' /\ WaitPlaces'
<1>1. /\ run \in Task /\ run # PostProc /\ run # IdleTask /\ status[run] = "RUNNING"
      /\ status[PostProc] = "SLEEPING_EV_FLAG" /\ prio[PostProc] = 0
  BY UserRuns DEF Rests, LifeInv, PostInv
<1>2. GivesWay(st, TRUE)
  BY <1>1 DEF LeftToPostProc, GivesWay, ReadyEnq, kPendCtxSwtchNow_
<1> QED BY <1>1, <1>2, GivesWayBase

\* PostProc waits for its event, which may be there already.
LEMMA PostProcWaits ==
  ASSUME LifeInv, PostProcWait
  PROVE  /\ run = PostProc /\ todo = <<>> /\ Works /\ ~pendSV
         /\ cleaning = None /\ cleanupPending = {} /\ jobs = <<>>
         /\ jobs' = <<>> /\ budget' = 0
         /\ \/ UNCHANGED kernelVars /\ postStep' = "scan"
            \/ GivesWay("SLEEPING_EV_FLAG", FALSE) /\ postStep' = "wait"
         /\ KernelInv' /\ ReadyPlaces' /\ WaitPlaces'
<1>1. /\ run = PostProc /\ todo = <<>> /\ Works /\ ~pendSV /\ postStep = "jobs"
      /\ status[PostProc] = "RUNNING" /\ cleaning = None /\ cleanupPending = {}
      /\ Len(jobs) <= budget /\ PostProcEventGet
      /\ jobs = <<>> \/ budget = 0
  BY PostProcRuns DEF PostProcWait, Works
<1>2. jobs = <<>>
  <2>1. \A x : Len(<<x>>) = 1
    OBVIOUS
  <2>2. jobs = <<>> \/ Len(jobs) = 1
    BY <2>1 DEF LifeInv, LeftInv
  <2> QED BY <1>1, <2>2
<1>3. jobs' = <<>> /\ budget' = 0
  BY <1>1, <1>2 DEF PostProcEventGet
<1>4. CASE postSig
  <2>1. UNCHANGED kernelVars /\ postStep' = "scan"
    BY <1>1, <1>4 DEF PostProcEventGet, kernelVars, schedVars
  <2> QED BY <1>1, <1>2, <1>3, <2>1, BaseStutter
<1>5. CASE ~postSig
  <2>1. /\ status' = [status EXCEPT ![run] = "SLEEPING_EV_FLAG"]
        /\ kPendCtxSwtch("SLEEPING_EV_FLAG") /\ postStep' = "wait"
        /\ UNCHANGED <<run, prio, readyQ, schLock, savedLock, waitVars, mutexVars,
                       timeVars, callVars, todo>>
    BY <1>1, <1>5 DEF PostProcEventGet
  <2>2. pendSV' = TRUE /\ pendingSw' = FALSE
    BY <2>1 DEF kPendCtxSwtch, kPendCtxSwtchNow_
  <2>3. [status EXCEPT ![run] = "SLEEPING_EV_FLAG"]
          = [status EXCEPT ![run] = "SLEEPING_EV_FLAG", ![PostProc] = @]
    BY <1>1, LifeTypes
  <2>4. GivesWay("SLEEPING_EV_FLAG", FALSE)
    BY <2>1, <2>2, <2>3 DEF GivesWay
  <2>5. run # IdleTask
    BY <1>1, LifeTypes
  <2>6. KernelInv' /\ ReadyPlaces' /\ WaitPlaces'
    BY <1>1, <2>4, <2>5, GivesWayBase
  <2> QED BY <1>1, <1>2, <1>3, <2>1, <2>4, <2>6
<1> QED BY <1>4, <1>5

\* A free slot is taken.
SpawnedInto(t) ==
  /\ t \in UserTask \ quarantine /\ t \notin spawned /\ t # run
  /\ status[t] = "TERMINATED" /\ call[t].number = "NONE" /\ freeStacks > 0
  /\ freeStacks' = freeStacks - 1 /\ spawned' = spawned \cup {t}
  /\ handles' = [handles EXCEPT ![t] = Append(@, generation[t])]
  /\ todo = <<>> /\ todo' \in Seq(KernelCall) /\ ToSet(todo') = {ReadySwtchOf(t)}
  /\ RegionOrder(todo')
  /\ wqp[t] = None /\ waitingFor[t] = None /\ t \notin ToSet(tmo)
  /\ \A o \in WaitObj : t \notin ToSet(waitQ[o])
  /\ prio' = [prio EXCEPT ![t] = NominalPrio[t]]
  /\ savedLock' = [savedLock EXCEPT ![t] = 0]
  /\ ret' \in [Task -> FrameResult]
  /\ \A u \in Task : ret'[u] = ret[u] \/ ret'[u].err = "SUCCESS"
  /\ UNCHANGED <<run, status, readyQ, schLock, pendingSw, pendSV, waitVars,
                 mutexVars, timeVars, call, faultVars, generation, quarantine, misled>>

LEMMA SpawnTakes ==
  ASSUME LifeInv, NEW t \in UserTask, kTaskSpawn(t)
  PROVE  SpawnedInto(t)
<1>1. /\ todo = <<>> /\ ToSet(todo) = {} /\ status[run] = "RUNNING" /\ run \in Task
      /\ run # PostProc
  BY UserRuns DEF kTaskSpawn
<1>2. /\ status[t] = "TERMINATED" /\ t \notin quarantine /\ freeStacks > 0 /\ t \in Task
      /\ freeStacks' = freeStacks - 1 /\ spawned' = spawned \cup {t}
      /\ kTaskCreateFromPool_(t)
      /\ UNCHANGED <<faultVars, generation, quarantine, misled>>
  BY LifeTypes DEF kTaskSpawn, FreeSlots
<1>3. t \notin spawned
  BY <1>1, <1>2 DEF LifeInv, SlotInv
<1>4. /\ wqp[t] = None /\ waitingFor[t] = None /\ t \notin ToSet(tmo)
      /\ \A o \in WaitObj : t \notin ToSet(waitQ[o])
  BY <1>2, NotListed
<1>5. ReadySwtchOf(t) \in KernelCall
  BY <1>2 DEF ReadySwtchOf, KernelCall
<1> HIDE DEF KernelCall
<1>6. /\ todo' \in Seq(KernelCall) /\ ToSet(todo') = {ReadySwtchOf(t)} /\ RegionOrder(todo')
  BY <1>2, <1>5, SmallSequences, RegionShort DEF kTaskCreateFromPool_
<1>7. /\ ret' \in [Task -> FrameResult]
      /\ \A u \in Task : ret'[u] = ret[u] \/ ret'[u].err = "SUCCESS"
  <2> DEFINE done == [number |-> "TASK_SPAWN", arg |-> None, err |-> "SUCCESS"]
  <2>1. /\ done \in FrameResult /\ NoRet \in FrameResult
        /\ done.err = "SUCCESS" /\ NoRet.err = "SUCCESS"
    BY DEF FrameResult, NoRet, ResultNumber, CallNumber, Err
  <2>2. ret' = [ret EXCEPT ![t] = NoRet, ![run] = done] /\ ret \in [Task -> FrameResult]
    BY <1>2, LifeTypes DEF kTaskCreateFromPool_
  <2> HIDE DEF done
  <2> QED BY <1>1, <1>2, <2>1, <2>2
<1>8. call[t].number = "NONE"
  BY <1>2 DEF LifeInv, CallInv, CallFor
<1> QED BY <1>1, <1>2, <1>3, <1>4, <1>6, <1>7, <1>8 DEF SpawnedInto, kTaskCreateFromPool_

LEMMA SpawnBase ==
  ASSUME LifeInv, NEW t \in UserTask, SpawnedInto(t)
  PROVE  KernelInv' /\ ReadyPlaces' /\ WaitPlaces'
<1>1. /\ UNCHANGED <<run, status, readyQ, schLock, pendingSw, pendSV, waitQ, wqp>>
      /\ UNCHANGED <<lock, owner, faulted, owned, waitingFor, mesgPrio>>
      /\ UNCHANGED <<tmo, left, ttype, call>>
      /\ status[t] = "TERMINATED" /\ t \in Task /\ t \notin ToSet(tmo)
      /\ \A o \in WaitObj : t \notin ToSet(waitQ[o])
      /\ todo = <<>> /\ todo' \in Seq(KernelCall) /\ ToSet(todo') = {ReadySwtchOf(t)}
      /\ prio' = [prio EXCEPT ![t] = NominalPrio[t]]
      /\ savedLock' = [savedLock EXCEPT ![t] = 0]
      /\ ret' \in [Task -> FrameResult]
  BY LifeTypes DEF SpawnedInto, waitVars, mutexVars, timeVars
<1>2. /\ prio' \in [Task -> Prio] /\ \A u \in Task \ {t} : prio'[u] = prio[u]
  BY <1>1, LifeTypes, NominalPrioType
<1>3. savedLock' \in [Task -> Nat]
  BY <1>1, KernelParts DEF TypeOK, SchedTypeOK
<1>4. TypeOK'
  BY <1>1, <1>2, <1>3, KernelParts
  DEF TypeOK, SchedTypeOK, WaitTypeOK, MutexTypeOK, TimeTypeOK, CallTypeOK
<1>5. ReadyInv'
  BY <1>1, <1>2, KernelParts DEF ReadyInv
<1>6. ReadyPlaces'
  <2>1. \A p \in Prio : ToSet(readyQ[p]) \subseteq Task \ {t}
    <3>1. \A p \in Prio : readyQ[p] \in Seq(Task) /\ t \notin ToSet(readyQ[p])
      BY <1>1, LifeTypes, NotListed
    <3> QED BY <3>1, LenProperties, ElementOfSeq DEF ToSet
  <2> QED BY <1>1, <1>2, <2>1, KernelParts DEF ReadyPlaces
<1>7. TodoInv'
  BY <1>1 DEF TodoInv, ReadySwtchOf
<1>8. TimeInv'
  <2>1. NoTick(todo)
    BY <1>1, EmptyTodo
  <2> QED BY <1>1, <2>1, KernelParts, TimeFrame
<1>9. StaleInv' /\ QueueInv' /\ WaitPlaces'
  BY <1>1, KernelParts DEF StaleInv, QueueInv, WaitPlaces
<1> QED BY <1>4, <1>5, <1>6, <1>7, <1>8, <1>9 DEF KernelInv

(***************************************************************************)
(* The steps of the mutex service, by what they do to the rest.            *)
(***************************************************************************)
\* The head of a queue stays when another task leaves it or joins it.
LEMMA HeadKept ==
  ASSUME NEW S, NEW q \in Seq(S), q # <<>>, NEW t \in S, t # Head(q)
  PROVE  /\ Head(kTCBQRem(q, t)) = Head(q) /\ Head(kTCBQEnq(q, t)) = Head(q)
<1>1. /\ Len(q) \in Nat /\ DOMAIN q = 1 .. Len(q) /\ Len(q) > 0 /\ Head(q) = q[1]
  BY LenProperties, EmptySeq, HeadTailProperties
<1>2. Head(kTCBQEnq(q, t)) = Head(q)
  <2> DEFINE a == Append(q, t)
  <2>1. a \in Seq(S) /\ Len(a) = Len(q) + 1 /\ a[1] = q[1]
    BY <1>1, AppendProperties
  <2> HIDE DEF a
  <2>2. a # <<>> /\ Head(a) = a[1]
    BY <1>1, <2>1, EmptySeq, HeadTailProperties
  <2> QED BY <1>1, <2>1, <2>2 DEF kTCBQEnq, a
<1>3. CASE t \notin ToSet(q)
  BY <1>2, <1>3 DEF kTCBQRem
<1>4. CASE t \in ToSet(q)
  <2> DEFINE i == CHOOSE i \in DOMAIN q : q[i] = t
             r == RemoveAt(q, i)
  <2>1. i \in 1 .. Len(q) /\ q[i] = t
    BY <1>1, <1>4 DEF ToSet
  <2> HIDE DEF i
  <2>2. i > 1
    BY <1>1, <2>1
  <2>3. /\ r \in Seq(S) /\ Len(r) = Len(q) - 1
        /\ \A j \in 1 .. Len(q) - 1 : r[j] = IF j < i THEN q[j] ELSE q[j + 1]
    BY <2>1, RemoveAtProperties
  <2> HIDE DEF r
  <2>4. Len(r) > 0 /\ r[1] = q[1]
    BY <1>1, <2>1, <2>2, <2>3
  <2>5. r # <<>> /\ Head(r) = r[1]
    BY <2>3, <2>4, EmptySeq, HeadTailProperties
  <2>6. kTCBQRem(q, t) = r
    BY <1>4 DEF kTCBQRem, r, i
  <2> QED BY <1>1, <1>2, <2>4, <2>5, <2>6
<1> QED BY <1>3, <1>4

\* PostProc, about to be switched to, stays at the head of its queue.
FirstInLine ==
  status[PostProc] = "READY" /\ Head(readyQ[0]) = PostProc
    => Head(readyQ'[0]) = PostProc

LEMMA LineKept ==
  ASSUME LifeInv, NEW t \in Task \ {PostProc},
         readyQ'[0] \in {readyQ[0], kTCBQRem(readyQ[0], t), kTCBQEnq(readyQ[0], t)}
  PROVE  FirstInLine
<1> SUFFICES ASSUME status[PostProc] = "READY", Head(readyQ[0]) = PostProc
             PROVE  Head(readyQ'[0]) = PostProc
  BY DEF FirstInLine
<1>1. /\ readyQ[0] \in Seq(Task) /\ PostProc \in Task /\ prio[PostProc] = 0
  BY LifeTypes DEF LifeInv, PostInv
<1>2. PostProc \in ToSet(readyQ[0])
  BY <1>1, KernelParts DEF ReadyInv
<1>3. readyQ[0] # <<>>
  BY <1>2, EmptyTodo
<1> QED BY <1>1, <1>3, HeadKept

\* A round of a walk.
Walked ==
  /\ todo # <<>> /\ Head(todo).op = "updatePrio"
  /\ todo' \in Seq(KernelCall) /\ RegionOrder(todo')
  /\ \A c \in ToSet(todo') : c \in ToSet(todo) \/ c.op = "updatePrio"
  /\ \A c \in ToSet(todo) : c \in ToSet(todo') \/ c.op = "updatePrio"
  /\ \A o \in WaitObj : ToSet(waitQ'[o]) = ToSet(waitQ[o])
  /\ prio'[PostProc] = prio[PostProc] /\ FirstInLine
  /\ (~pendSV' => ~pendSV) /\ (run = PostProc /\ ~pendSV => ~pendSV')
  /\ KernelInv' /\ ReadyPlaces' /\ WaitPlaces'
  /\ UNCHANGED <<run, status, wqp, lock, owner, faulted, owned, waitingFor,
                 mesgPrio, tmo, call, ret, faultVars, lifeVars>>

LEMMA WalkEffects ==
  ASSUME LifeInv, UpdatePrio, UNCHANGED <<faultVars, lifeVars>>
  PROVE  Walked
<1> DEFINE t == Head(todo).task
           new == kTaskCalcEffectivePrio_(t)
<1>1. /\ KernelInv /\ TypeOK /\ StaleInv /\ ReadyPlaces /\ WaitPlaces
      /\ RegionInv /\ run \in Task /\ PostProc \in NoPreempt /\ PostProc \in Task
      /\ prio[PostProc] = 0 /\ mesgPrio[PostProc].base = 0
      /\ prio \in [Task -> Prio] /\ readyQ \in [Prio -> Seq(Task)] /\ 0 \in Prio
      /\ Prio \subseteq Nat
  BY LifeTypes, KernelParts, NominalPrioType DEF LifeInv, PostInv
<1>2. /\ todo # <<>> /\ Head(todo).op = "updatePrio"
      /\ UNCHANGED <<run, status, wqp, lock, owner, faulted, owned, waitingFor,
                     mesgPrio, tmo, call, ret, faultVars, lifeVars>>
  BY DEF UpdatePrio, schedVars, mutexVars, timeVars, callVars
<1>3. /\ t \in Task /\ new \in Prio /\ new <= mesgPrio[t].base /\ ~StaleWait(t)
  BY <1>1, <1>2, HeadTask, CalcEffectiveProperties DEF StaleInv, StaleWait
<1>4. KernelInv' /\ ReadyPlaces'
  BY <1>1, KernelPart, ReadyWalk DEF Next, KernelStep
<1>5. \A o \in WaitObj : ToSet(waitQ'[o]) = ToSet(waitQ[o])
  BY <1>1, WalkQueues
<1>6. WaitPlaces'
  BY <1>1, <1>2, <1>5 DEF WaitPlaces
<1>7. /\ \A c \in ToSet(todo') : c \in ToSet(todo) \/ c.op = "updatePrio"
      /\ \A c \in ToSet(todo) : c \in ToSet(todo') \/ c.op = "updatePrio"
  BY <1>1, UpdatePrioOps
<1>8. todo' \in Seq(KernelCall) /\ RegionOrder(todo')
  <2>1. Tail(todo) \in Seq(KernelCall) /\ RegionOrder(Tail(todo))
    BY <1>2, TodoHead
  <2>2. \/ todo' = Tail(todo)
        \/ \E a \in {<<>>, <<UpdatePrioOf(owner[waitingFor[t]])>>} :
             /\ todo' = a \o Tail(todo)
             /\ a # <<>> => waitingFor[t] # None /\ owner[waitingFor[t]] # None
    BY DEF UpdatePrio
  <2>3. ASSUME NEW a \in {<<>>, <<UpdatePrioOf(owner[waitingFor[t]])>>},
               todo' = a \o Tail(todo),
               a # <<>> => waitingFor[t] # None /\ owner[waitingFor[t]] # None
        PROVE  RegionOrder(todo')
    <3>1. a \in Seq(KernelCall) /\ \A c \in ToSet(a) : c.op = "updatePrio"
      <4>1. CASE a = <<>>
        BY <4>1, EmptyTodo
      <4>2. CASE a # <<>>
        <5>1. owner[waitingFor[t]] \in Task
          BY <1>3, <2>3, <4>2, LifeTypes
        <5>2. PICK u \in Task : u = owner[waitingFor[t]]
          BY <5>1
        <5>3. UpdatePrioOf(u) \in KernelCall /\ UpdatePrioOf(u).op = "updatePrio"
          BY DEF UpdatePrioOf, KernelCall
        <5> HIDE DEF KernelCall
        <5>4. a = <<UpdatePrioOf(u)>>
          BY <2>3, <4>2, <5>2
        <5> QED BY <5>3, <5>4, SmallSequences
      <4> QED BY <4>1, <4>2
    <3> QED BY <2>1, <2>3, <3>1, RegionWalks
  <2>4. RegionOrder(todo')
    BY <2>1, <2>2, <2>3
  <2> QED BY <2>4, <1>4 DEF KernelInv, TypeOK
<1>9. ~pendSV' => ~pendSV
  BY SwitchKept DEF UpdatePrio, schedVars
<1>10. run = PostProc /\ ~pendSV => ~pendSV'
  BY <1>1 DEF UpdatePrio, schedVars, kReschedTask, kReschedRunning, NoCtxSwtch
<1>11. prio'[PostProc] = prio[PostProc] /\ FirstInLine
  <2>1. CASE new = prio[t]
    BY <1>1, <2>1 DEF UpdatePrio, schedVars, FirstInLine
  <2>2. CASE new # prio[t]
    <3>1. t # PostProc
      <4> HIDE DEF t, new
      <4>1. t = PostProc => new <= 0 /\ new \in Nat /\ new # 0
        BY <1>1, <1>3, <2>2
      <4> QED BY <4>1
    <3>2. /\ prio' = [prio EXCEPT ![t] = new]
          /\ readyQ' = IF status[t] = "READY"
                       THEN [readyQ EXCEPT ![prio[t]] = kTCBQRem(@, t),
                                           ![new] = kTCBQEnq(@, t)]
                       ELSE readyQ
      BY <1>3, <2>2 DEF UpdatePrio
    <3> HIDE DEF t, new
    <3>3. readyQ'[0] \in {readyQ[0], kTCBQRem(readyQ[0], t), kTCBQEnq(readyQ[0], t)}
      BY <1>1, <1>3, <2>2, <3>2
    <3>4. FirstInLine
      BY <1>3, <3>1, <3>3, LineKept
    <3> QED BY <1>1, <3>1, <3>2, <3>4
  <2> QED BY <2>1, <2>2
<1> QED BY <1>2, <1>4, <1>5, <1>6, <1>7, <1>8, <1>9, <1>10, <1>11 DEF Walked

\* What the steps keep for the kernel.
KernelBase == KernelInv /\ ReadyPlaces /\ WaitPlaces

\* Nobody is queued, and who changes is on no queue.
LEMMA PlacesFrame ==
  ASSUME LifeInv, NEW t,
         \A u \in Task \ {t} : waitingFor'[u] = waitingFor[u] /\ call'[u] = call[u],
         \A o \in WaitObj : ToSet(waitQ'[o]) \subseteq ToSet(waitQ[o]) \ {t}
  PROVE  WaitPlaces'
<1>1. WaitPlaces /\ \A o \in WaitObj : ToSet(waitQ[o]) \subseteq Task
  BY KernelParts, ListedTasks
<1> QED BY <1>1 DEF WaitPlaces

LEMMA AwokenBase ==
  ASSUME LifeInv, ReadySwtch \/ TimeoutReady, UNCHANGED <<faultVars, lifeVars>>
  PROVE  \E t \in Task : Awoken(t) /\ KernelBase'
<1>1. PICK t \in Task : Awoken(t)
  BY AwokenEffects
<1>2. KernelInv'
  BY KernelPart DEF Next, KernelStep
<1>3. /\ status[t] # "READY" /\ status' = [status EXCEPT ![t] = "READY"]
      /\ readyQ' = [readyQ EXCEPT ![prio[t]] = kTCBQEnq(@, t)] /\ UNCHANGED prio
  BY <1>1 DEF Awoken, Woke
<1>4. ReadyPlaces'
  BY <1>3, KernelParts, ReadyEnter
<1>5. WaitPlaces'
  <2>1. /\ todo # <<>> /\ Head(todo).task = t /\ Head(todo).op \in {"ready", "timeoutReady"}
        /\ UNCHANGED waitQ
        /\ \A u \in Task \ {t} : waitingFor'[u] = waitingFor[u] /\ call'[u] = call[u]
    BY <1>1 DEF Awoken
  <2>2. \A o \in WaitObj : t \notin ToSet(waitQ[o])
    BY <2>1, TodoHead, KernelParts DEF TodoInv
  <2>3. \A o \in WaitObj : ToSet(waitQ'[o]) \subseteq ToSet(waitQ[o]) \ {t}
    BY <2>1, <2>2
  <2> QED BY <2>1, <2>3, PlacesFrame
<1> QED BY <1>1, <1>2, <1>4, <1>5 DEF KernelBase

\* A timeout node expires.
Expired(t) ==
  /\ todo # <<>> /\ Head(todo).op = "handleTimeouts"
  /\ status[t] \in {"BLOCKED", "SLEEPING_DELAY"}
  /\ \A o \in WaitObj : ToSet(waitQ'[o]) \subseteq ToSet(waitQ[o])
  /\ todo' \in Seq(KernelCall) /\ RegionOrder(todo')
  /\ \A c \in ToSet(todo') : \/ c.op \in {"updatePrio", "handleTimeouts"}
                             \/ c = [op |-> "timeoutReady", task |-> t]
  /\ KernelBase'
  /\ UNCHANGED <<run, status, prio, readyQ, pendSV, wqp, lock, owner, faulted,
                 owned, waitingFor, mesgPrio, call, ret, faultVars, lifeVars>>

LEMMA ExpireEffects ==
  ASSUME LifeInv, TimeoutExpire, UNCHANGED <<faultVars, lifeVars>>
  PROVE  \E t \in Task : Expired(t)
<1>1. /\ todo # <<>> /\ Head(todo).op = "handleTimeouts" /\ tmo # <<>>
      /\ UNCHANGED <<run, status, prio, readyQ, pendSV, wqp, lock, owner, faulted,
                     owned, waitingFor, mesgPrio, call, ret, faultVars, lifeVars>>
  BY DEF TimeoutExpire, schedVars, mutexVars, callVars
<1>2. /\ Head(tmo) \in Task /\ todo' \in Seq(KernelCall)
      /\ \A c \in ToSet(todo') :
           \/ c.op = "updatePrio"
           \/ c = [op |-> "timeoutReady", task |-> Head(tmo)]
           \/ c = HandleTimeoutsOf(TRUE)
  BY KernelParts, ExpireTodo
<1>3. PICK t \in Task : t = Head(tmo)
  BY <1>2
<1>4. t \in ToSet(tmo)
  BY <1>1, <1>3, LifeTypes, TailFacts
<1>5. status[t] \in {"BLOCKED", "SLEEPING_DELAY"}
  BY <1>4, NotListed
<1>6. /\ waitQ' = IF ttype[t] = "BLOCKING" THEN [waitQ EXCEPT ![wqp[t]] = kTCBQRem(@, t)]
                                           ELSE waitQ
      /\ todo' = (IF ttype[t] = "BLOCKING" THEN WaiterRemoved(t) ELSE <<>>)
                   \o <<[op |-> "timeoutReady", task |-> t], HandleTimeoutsOf(TRUE)>>
  BY <1>3 DEF TimeoutExpire
<1>7. ttype[t] # "BLOCKING" => \A o \in WaitObj : t \notin ToSet(waitQ[o])
  BY <1>4, KernelParts DEF QueueInv
<1>8. \A o \in WaitObj : ToSet(waitQ'[o]) \subseteq ToSet(waitQ[o]) \ {t}
  <2>1. \/ waitQ' = [waitQ EXCEPT ![wqp[t]] = kTCBQRem(@, t)]
        \/ waitQ' = waitQ /\ \A o \in WaitObj : t \notin ToSet(waitQ[o])
    BY <1>6, <1>7
  <2> QED BY <2>1, KernelParts, UnlinkQueues
<1>9. RegionOrder(todo')
  <2> DEFINE a == IF ttype[t] = "BLOCKING" THEN WaiterRemoved(t) ELSE <<>>
             b == <<[op |-> "timeoutReady", task |-> t], HandleTimeoutsOf(TRUE)>>
  <2>1. a \in Seq(KernelCall) /\ \A c \in ToSet(a) : c.op = "updatePrio"
    BY KernelParts, TodoTypes, WaiterRemovedOps, EmptyTodo
  <2>2. b \in Seq(KernelCall)
    BY DEF KernelCall, HandleTimeoutsOf
  <2>3. RegionOrder(b)
    BY RegionShort
  <2>4. todo' = a \o b
    BY <1>6
  <2> HIDE DEF a, b
  <2> QED BY <2>1, <2>2, <2>3, <2>4, RegionWalks
<1>10. \A c \in ToSet(todo') : \/ c.op \in {"updatePrio", "handleTimeouts"}
                               \/ c = [op |-> "timeoutReady", task |-> t]
  BY <1>2, <1>3 DEF HandleTimeoutsOf
<1>11. KernelBase'
  <2>1. KernelInv'
    BY KernelPart DEF Next, KernelStep
  <2>2. ReadyPlaces'
    BY <1>1, KernelParts, ReadyKept
  <2>3. WaitPlaces'
    BY <1>1, <1>8, PlacesFrame
  <2> QED BY <2>1, <2>2, <2>3 DEF KernelBase
<1>12. Expired(t)
  BY <1>1, <1>2, <1>5, <1>8, <1>9, <1>10, <1>11 DEF Expired
<1> QED BY <1>12

\* No task is touched: the tick comes, or is over.
Ticked ==
  /\ todo' \in Seq(KernelCall) /\ RegionOrder(todo')
  /\ \/ todo = <<>> \/ (todo # <<>> /\ Head(todo).op = "handleTimeouts")
  /\ \A c \in ToSet(todo') : c.op \in {"updatePrio", "handleTimeouts"}
  /\ (~pendSV' => ~pendSV) /\ (run = PostProc /\ ~pendSV => ~pendSV')
  /\ KernelBase'
  /\ UNCHANGED <<run, status, prio, readyQ, waitQ, wqp, lock, owner, faulted,
                 owned, waitingFor, mesgPrio, tmo, call, ret, faultVars, lifeVars>>

LEMMA TickEffects ==
  ASSUME LifeInv, Tick \/ TickEnd, UNCHANGED <<faultVars, lifeVars>>
  PROVE  Ticked
<1>1. UNCHANGED <<run, status, prio, readyQ, waitQ, wqp, lock, owner, faulted,
                  owned, waitingFor, mesgPrio, tmo, call, ret, faultVars, lifeVars>>
  BY DEF Tick, TickEnd, schedVars, waitVars, mutexVars, timeVars, callVars
<1>2. KernelBase'
  <2>1. KernelInv'
    BY KernelPart DEF Next, KernelStep
  <2>2. ReadyPlaces' /\ WaitPlaces'
    BY <1>1, KernelParts DEF ReadyPlaces, WaitPlaces
  <2> QED BY <2>1, <2>2 DEF KernelBase
<1>3. CASE Tick
  <2>1. HandleTimeoutsOf(FALSE) \in KernelCall /\ HandleTimeoutsOf(FALSE).op = "handleTimeouts"
    BY DEF HandleTimeoutsOf, KernelCall
  <2>2. todo = <<>> /\ todo' = <<HandleTimeoutsOf(FALSE)>> /\ UNCHANGED pendSV
    BY <1>3 DEF Tick, schedVars
  <2> HIDE DEF KernelCall
  <2>3. /\ todo' \in Seq(KernelCall) /\ RegionOrder(todo')
        /\ ToSet(todo') = {HandleTimeoutsOf(FALSE)}
    BY <2>1, <2>2, SmallSequences, RegionShort
  <2> QED BY <1>1, <1>2, <2>1, <2>2, <2>3 DEF Ticked
<1>4. CASE TickEnd
  <2>1. todo # <<>> /\ Head(todo).op = "handleTimeouts" /\ todo' = Tail(todo)
    BY <1>4 DEF TickEnd
  <2>2. /\ todo' \in Seq(KernelCall) /\ RegionOrder(todo') /\ Head(todo) \in ToSet(todo)
        /\ \A c \in ToSet(todo') : c.op \notin WakeOps /\ c \in ToSet(todo)
    BY <2>1, TodoHead
  <2>3. \A c \in ToSet(todo') : c.op \in {"updatePrio", "handleTimeouts"}
    <3>1. \A c \in ToSet(todo') : c.op \in {"handleTimeouts", "updatePrio", "timeoutReady"}
      BY <2>1, <2>2 DEF LifeInv, RegionInv, RegionOrder
    <3> QED BY <2>2, <3>1 DEF WakeOps
  <2>4. ~pendSV' => ~pendSV
    BY <1>4, SwitchKept DEF TickEnd
  <2>5. run = PostProc /\ ~pendSV => ~pendSV'
    <3>1. run = PostProc /\ ~pendSV => status[run] = "RUNNING" /\ run \in NoPreempt
      BY LifeTypes DEF LifeInv, RunInv
    <3> QED BY <1>4, <3>1 DEF TickEnd, NoCtxSwtch
  <2> QED BY <1>1, <1>2, <2>1, <2>2, <2>3, <2>4, <2>5 DEF Ticked
<1> QED BY <1>3, <1>4

(***************************************************************************)
(* What keeps each part of the invariant.                                  *)
(***************************************************************************)
LEMMA CallFrame ==
  ASSUME LifeInv,
         \A u \in Task :
           \/ /\ status'[u] = status[u] /\ call'[u].number = call[u].number
              /\ wqp'[u] = wqp[u] /\ waitingFor'[u] = waitingFor[u]
           \/ /\ call'[u].number = CallFor(status'[u])
              /\ status'[u] # "BLOCKED" => wqp'[u] = None /\ waitingFor'[u] = None
  PROVE  CallInv'
<1>1. CallInv
  BY DEF LifeInv
<1> QED BY <1>1 DEF CallInv

\* A step that sends nobody to the ready queues but those it was to.
LEMMA RegionFrame ==
  ASSUME LifeInv, RegionOrder(todo'), spawned \subseteq spawned',
         \A c \in ToSet(todo') : c.op \in WakeOps =>
           /\ c \in ToSet(todo) /\ status'[c.task] = status[c.task]
           /\ c.op = "ready" => wqp'[c.task] = wqp[c.task]
                                /\ waitingFor'[c.task] = waitingFor[c.task]
  PROVE  RegionInv'
<1>1. RegionInv /\ "signalReady" \in WakeOps
  BY DEF LifeInv, WakeOps
<1>2. \A c \in ToSet(todo') : c.op # "signalReady"
  BY <1>1 DEF RegionInv
<1> QED BY <1>1, <1>2 DEF RegionInv

LEMMA PoisonFrame ==
  ASSUME LifeInv, UNCHANGED <<lock, owner, owned, faulted>>,
         \A m \in Mutex : faulted[m] /\ waitQ[m] = <<>> => waitQ'[m] = <<>>,
         \A m \in Mutex : /\ FaultWakeOf(m) \in ToSet(todo') => FaultWakeOf(m) \in ToSet(todo)
                          /\ FaultWakeOf(m) \in ToSet(todo) =>
                               FaultWakeOf(m) \in ToSet(todo') \/ waitQ'[m] = <<>>
  PROVE  PoisonInv'
<1>1. PoisonInv
  BY DEF LifeInv
<1> QED BY <1>1 DEF PoisonInv

\* No queue of a poisoned mutex fills.
LEMMA StaysEmpty ==
  ASSUME LifeInv, KernelInv', NEW o \in WaitObj, ToSet(waitQ'[o]) \subseteq ToSet(waitQ[o])
  PROVE  waitQ[o] = <<>> => waitQ'[o] = <<>>
<1>1. waitQ[o] = <<>> => ToSet(waitQ'[o]) = {}
  BY EmptyTodo
<1>2. waitQ'[o] \in Seq(Task)
  BY DEF KernelInv, TypeOK, WaitTypeOK
<1> QED BY <1>1, <1>2, EmptySet

LEMMA ReportFrame ==
  ASSUME LifeInv,
         \A m \in Mutex : faulted[m] => faulted'[m],
         \A u \in Task :
           /\ \/ call'[u].wake # "OWNER_FAULTED"
              \/ call'[u] = call[u]
              \/ call'[u].number = "MUTEX_LOCK" /\ call'[u].arg \in Mutex
                   /\ faulted'[call'[u].arg]
           /\ \/ ret'[u].err # "OWNER_FAULTED"
              \/ ret'[u] = ret[u]
              \/ ret'[u].arg \in Mutex /\ faulted'[ret'[u].arg]
  PROVE  ReportInv'
<1>1. ReportInv
  BY DEF LifeInv
<1> QED BY <1>1 DEF ReportInv

LEMMA CleanupFrame ==
  ASSUME LifeInv, UNCHANGED <<run, postStep, cleaning, cleanupPending, status>>,
         \A c \in ToSet(todo') : c.op \in FaultOps => c \in ToSet(todo),
         \A t \in Task : FaultReleaseOf(t) \in ToSet(todo) =>
           FaultReleaseOf(t) \in ToSet(todo') \/ owned'[t] = {},
         \A t \in Task : owned[t] = {} => owned'[t] = {}
  PROVE  CleanupInv'
<1>1. CleanupInv /\ UserTask \subseteq Task
  BY LifeTypes DEF LifeInv
<1>2. ASSUME NEW c \in ToSet(todo'), c.op \in FaultOps
      PROVE  /\ status'[c.task] = "FAULT_PENDING"
             /\ run' = PostProc /\ postStep' = "scan" /\ cleaning' = None
             /\ c.task \notin cleanupPending' /\ c.task \in UserTask
             /\ FaultReleaseOf(c.task) \in ToSet(todo') \/ owned'[c.task] = {}
  <2>1. /\ status[c.task] = "FAULT_PENDING"
        /\ run = PostProc /\ postStep = "scan" /\ cleaning = None
        /\ c.task \notin cleanupPending /\ c.task \in UserTask
        /\ FaultReleaseOf(c.task) \in ToSet(todo) \/ owned[c.task] = {}
    BY <1>1, <1>2 DEF CleanupInv
  <2> QED BY <1>1, <2>1
<1> QED BY <1>2 DEF CleanupInv

\* Tasks end and begin elsewhere.
AliveKept ==
  \A t \in Task :
    \/ status'[t] = status[t]
    \/ status'[t] # "TERMINATED" /\ (status[t] = "TERMINATED" => t \in spawned)

LEMMA SlotFrame ==
  ASSUME LifeInv, UNCHANGED lifeVars, AliveKept,
         \A t \in Task : status[t] = "TERMINATED" /\ owned[t] = {} => owned'[t] = {},
         \A t \in spawned : ReadySwtchOf(t) \in ToSet(todo) =>
           ReadySwtchOf(t) \in ToSet(todo') \/ status'[t] # "TERMINATED"
  PROVE  SlotInv' /\ LivesInv'
<1>1. /\ SlotInv /\ LivesInv /\ UserTask \subseteq Task
      /\ UNCHANGED <<spawned, generation, quarantine, freeStacks, handles, misled>>
  BY LifeTypes DEF LifeInv, lifeVars
<1>2. \A t \in Task : status'[t] = "TERMINATED" => status[t] = "TERMINATED"
  BY DEF AliveKept
<1>3. SlotInv'
  <2>1. /\ spawned' \subseteq UserTask /\ quarantine' \subseteq UserTask
        /\ freeStacks' \in Nat
        /\ Cardinality(spawned') + freeStacks' = StackBlocks
    BY <1>1 DEF SlotInv
  <2>2. \A t \in spawned' : status'[t] # "TERMINATED" \/ ReadySwtchOf(t) \in ToSet(todo')
    BY <1>1, <1>2 DEF SlotInv
  <2>3. \A t \in quarantine' : status'[t] = "TERMINATED" /\ t \notin spawned'
    <3> TAKE t \in quarantine'
    <3>1. t \in Task /\ status[t] = "TERMINATED" /\ t \notin spawned
      BY <1>1 DEF SlotInv
    <3> QED BY <1>1, <3>1 DEF AliveKept
  <2>4. \A t \in Task : status'[t] = "TERMINATED" => t \in UserTask /\ owned'[t] = {}
    BY <1>1, <1>2 DEF SlotInv
  <2> QED BY <2>1, <2>2, <2>3, <2>4 DEF SlotInv
<1>4. LivesInv'
  BY <1>1, <1>2 DEF LivesInv
<1> QED BY <1>3, <1>4

\* Nobody leaves for PostProc, and PostProc does what it did.
TasksKept ==
  \A t \in Task :
    \/ status'[t] = status[t]
    \/ /\ t # PostProc
       /\ status[t] \notin Leaving /\ status'[t] \notin Leaving \cup {"TERMINATED"}
       /\ status[t] = "TERMINATED" => t \in spawned

SwitchHeld ==
  (~pendSV' => ~pendSV) /\ (run = PostProc /\ ~pendSV => ~pendSV')

LEMMA PostFrame ==
  ASSUME LifeInv, UNCHANGED <<run, faultVars, lifeVars, mesgPrio>>,
         TasksKept, SwitchHeld, FirstInLine, prio'[PostProc] = prio[PostProc]
  PROVE  LeftInv' /\ PostInv' /\ status'[run'] # "TERMINATED" /\ AliveKept
<1>1. /\ LeftInv /\ PostInv /\ UserTask \subseteq Task /\ run \in Task
      /\ PostProc \in Task /\ status[run] # "TERMINATED"
      /\ UNCHANGED <<run, cleanupPending, cleaning, postStep, jobs, budget, handles, mesgPrio>>
  BY LifeTypes DEF LifeInv, faultVars, postVars, lifeVars
<1>2. \A t \in Task : status[t] \in Leaving => status'[t] = status[t]
  BY DEF TasksKept
<1>3. LeftInv'
  <2>1. \A t \in cleanupPending' : t \in UserTask /\ status'[t] = "FAULT_PENDING"
    BY <1>1, <1>2 DEF LeftInv, Leaving
  <2>2. \/ jobs' = <<>>
        \/ \E t \in UserTask : status'[t] = "PENDING" /\ jobs' = <<TerminateJob(t)>>'
    BY <1>1, <1>2 DEF LeftInv, Leaving, TerminateJob, Lives
  <2> QED BY <2>1, <2>2 DEF LeftInv
<1>4. status'[PostProc] = status[PostProc]
  BY <1>1 DEF TasksKept
<1>5. Rests => Rests'
  BY <1>1, <1>4 DEF Rests
<1>6. Works /\ (~pendSV => ~pendSV') => Works'
  BY <1>1, <1>2, <1>4 DEF Works, Leaving
<1>7. Comes => Comes'
  BY <1>1, <1>4 DEF Comes, FirstInLine, SwitchHeld
<1>8. status'[run] \in Leaving <=> status[run] \in Leaving
  BY <1>1 DEF TasksKept
<1>9. /\ prio'[PostProc] = 0 /\ mesgPrio'[PostProc].base = 0 /\ budget' \in Nat
  BY <1>1 DEF PostInv
<1>10. run' = PostProc => Works' \/ (Rests' /\ pendSV')
  BY <1>1, <1>5, <1>6 DEF PostInv, SwitchHeld, Works
<1>11. run' # PostProc => IF status'[run'] \in Leaving THEN Comes' ELSE Rests'
  BY <1>1, <1>5, <1>7, <1>8 DEF PostInv
<1>12. PostInv'
  BY <1>9, <1>10, <1>11 DEF PostInv
<1>13. status'[run'] # "TERMINATED" /\ AliveKept
  BY <1>1 DEF TasksKept, AliveKept
<1> QED BY <1>3, <1>12, <1>13

\* Whoever stops RUNNING leaves a switch pended.
LEMMA RunFrame ==
  ASSUME LifeInv, pendSV' \/ (~pendSV /\ run' = run /\ (status[run] = "RUNNING" =>
                                                        status'[run] = "RUNNING"))
  PROVE  RunInv'
<1>1. RunInv
  BY DEF LifeInv
<1> QED BY <1>1 DEF RunInv

(***************************************************************************)
(* The invariant is kept: the steps of the mutex service.                  *)
(***************************************************************************)
LEMMA AwokenKeeps ==
  ASSUME LifeInv, NEW t \in Task, Awoken(t), KernelBase'
  PROVE  LifeInv'
<1>1. /\ UNCHANGED <<run, prio, waitQ, lock, owner, faulted, owned, mesgPrio, tmo,
                     faultVars, lifeVars>>
      /\ UNCHANGED <<postStep, cleaning, cleanupPending, spawned>>
      /\ todo # <<>> /\ todo' = Tail(todo) /\ \A c \in ToSet(Tail(todo)) : c.op \notin WakeOps
      /\ Head(todo).op \in {"ready", "timeoutReady"} /\ Head(todo).task = t
      /\ status[t] \in Woke /\ t # PostProc /\ status'[t] = "READY"
      /\ status[t] = "TERMINATED" => t \in spawned
      /\ \A u \in Task \ {t} : status'[u] = status[u]
      /\ call'[t].number = "NONE" /\ call'[t].wake # "OWNER_FAULTED"
      /\ wqp'[t] = None /\ waitingFor'[t] = None
      /\ \A u \in Task \ {t} : /\ call'[u] = call[u] /\ ret'[u] = ret[u]
                               /\ wqp'[u] = wqp[u] /\ waitingFor'[u] = waitingFor[u]
      /\ SwitchHeld
  BY LifeTypes DEF Awoken, faultVars, postVars, lifeVars, SwitchHeld
<1>2. /\ ToSet(todo) = {Head(todo)} \cup ToSet(todo') /\ RegionOrder(todo')
      /\ Head(todo) \in ToSet(todo)
  BY <1>1, TodoHead
<1>3. CallInv'
  <2>1. \A u \in Task :
           \/ /\ status'[u] = status[u] /\ call'[u].number = call[u].number
              /\ wqp'[u] = wqp[u] /\ waitingFor'[u] = waitingFor[u]
           \/ /\ call'[u].number = CallFor(status'[u])
              /\ status'[u] # "BLOCKED" => wqp'[u] = None /\ waitingFor'[u] = None
    BY <1>1 DEF CallFor
  <2> QED BY <2>1, CallFrame
<1>4. RegionInv'
  BY <1>1, <1>2, RegionFrame
<1>5. PoisonInv'
  <2>1. \A m \in Mutex : FaultWakeOf(m) # Head(todo)
    BY <1>1 DEF FaultWakeOf
  <2> QED BY <1>1, <1>2, <2>1, PoisonFrame
<1>6. ReportInv'
  <2>1. /\ call[t].wake = "OWNER_FAULTED" => call[t].arg \in Mutex /\ faulted[call[t].arg]
        /\ ret'[t].err = "OWNER_FAULTED" =>
             \/ ret'[t] = ret[t]
             \/ call[t].wake = "OWNER_FAULTED" /\ ret'[t].arg = call[t].arg
    BY DEF LifeInv, ReportInv, Awoken
  <2>2. \A u \in Task :
           /\ \/ call'[u].wake # "OWNER_FAULTED"
              \/ call'[u] = call[u]
              \/ call'[u].number = "MUTEX_LOCK" /\ call'[u].arg \in Mutex
                   /\ faulted'[call'[u].arg]
           /\ \/ ret'[u].err # "OWNER_FAULTED"
              \/ ret'[u] = ret[u]
              \/ ret'[u].arg \in Mutex /\ faulted'[ret'[u].arg]
    BY <1>1, <2>1
  <2> QED BY <1>1, <2>2, ReportFrame
<1>7. CleanupInv'
  <2> SUFFICES ASSUME NEW c \in ToSet(todo'), c.op \in FaultOps
               PROVE  /\ status'[c.task] = "FAULT_PENDING"
                      /\ run' = PostProc /\ postStep' = "scan" /\ cleaning' = None
                      /\ c.task \notin cleanupPending' /\ c.task \in UserTask
                      /\ FaultReleaseOf(c.task) \in ToSet(todo') \/ owned'[c.task] = {}
    BY DEF CleanupInv
  <2>1. /\ status[c.task] = "FAULT_PENDING"
        /\ run = PostProc /\ postStep = "scan" /\ cleaning = None
        /\ c.task \notin cleanupPending /\ c.task \in UserTask
        /\ FaultReleaseOf(c.task) \in ToSet(todo) \/ owned[c.task] = {}
    BY <1>2 DEF LifeInv, CleanupInv
  <2>2. c.task # t /\ c.task \in Task /\ FaultReleaseOf(c.task) # Head(todo)
    BY <1>1, <2>1, LifeTypes DEF Woke, FaultReleaseOf
  <2> QED BY <1>1, <1>2, <2>1, <2>2
<1>8. RunInv'
  <2>1. status[run] = "RUNNING" => run # t
    BY <1>1 DEF Woke
  <2>2. run \in Task
    BY LifeTypes
  <2> QED BY <1>1, <2>1, <2>2, RunFrame DEF SwitchHeld
<1>9. LeftInv' /\ PostInv' /\ status'[run'] # "TERMINATED" /\ AliveKept
  <2>1. TasksKept
    BY <1>1 DEF TasksKept, Leaving, Woke
  <2>2. FirstInLine
    <3>1. /\ prio \in [Task -> Prio] /\ readyQ \in [Prio -> Seq(Task)] /\ 0 \in Prio
          /\ readyQ' = [readyQ EXCEPT ![prio[t]] = kTCBQEnq(@, t)]
      BY LifeTypes DEF Awoken
    <3>2. readyQ'[0] \in {readyQ[0], kTCBQRem(readyQ[0], t), kTCBQEnq(readyQ[0], t)}
      BY <3>1
    <3> QED BY <1>1, <3>2, LineKept
  <2> QED BY <1>1, <2>1, <2>2, PostFrame
<1>10. SlotInv' /\ LivesInv'
  <2>1. \A u \in spawned : ReadySwtchOf(u) \in ToSet(todo) =>
           ReadySwtchOf(u) \in ToSet(todo') \/ status'[u] # "TERMINATED"
    BY <1>1, <1>2 DEF ReadySwtchOf
  <2> QED BY <1>1, <1>9, <2>1, SlotFrame
<1> QED BY <1>3, <1>4, <1>5, <1>6, <1>7, <1>8, <1>9, <1>10 DEF LifeInv, KernelBase

\* Where only calls that were to be made are made, whatever walks and ticks come
\* beside them, no part of a cleanup is lost.
LEMMA TodoCalls ==
  ASSUME \A c \in ToSet(todo') : c \in ToSet(todo) \/ c.op \in {"updatePrio", "handleTimeouts"},
         \A c \in ToSet(todo) : c \in ToSet(todo') \/ c.op \in {"updatePrio", "handleTimeouts"}
  PROVE  /\ \A m : FaultWakeOf(m) \in ToSet(todo') <=> FaultWakeOf(m) \in ToSet(todo)
         /\ \A t : FaultReleaseOf(t) \in ToSet(todo') <=> FaultReleaseOf(t) \in ToSet(todo)
         /\ \A t : ReadySwtchOf(t) \in ToSet(todo) => ReadySwtchOf(t) \in ToSet(todo')
         /\ \A c \in ToSet(todo') : c.op \in FaultOps \cup WakeOps => c \in ToSet(todo)
<1>1. /\ \A m : FaultWakeOf(m).op \notin {"updatePrio", "handleTimeouts"}
      /\ \A t : FaultReleaseOf(t).op \notin {"updatePrio", "handleTimeouts"}
      /\ \A t : ReadySwtchOf(t).op \notin {"updatePrio", "handleTimeouts"}
      /\ {"updatePrio", "handleTimeouts"} \cap (FaultOps \cup WakeOps) = {}
  BY DEF FaultWakeOf, FaultReleaseOf, ReadySwtchOf, FaultOps, WakeOps
<1> QED BY <1>1

\* The step leaves every task what it was.
LEMMA NoneChanged ==
  ASSUME LifeInv, KernelBase', RegionOrder(todo'),
         UNCHANGED <<run, status, wqp, lock, owner, faulted, owned, waitingFor,
                     mesgPrio, call, ret, faultVars, lifeVars>>,
         \A o \in WaitObj : ToSet(waitQ'[o]) \subseteq ToSet(waitQ[o]),
         \A c \in ToSet(todo') : c \in ToSet(todo) \/ c.op \in {"updatePrio", "handleTimeouts"},
         \A c \in ToSet(todo) : c \in ToSet(todo') \/ c.op \in {"updatePrio", "handleTimeouts"},
         SwitchHeld, FirstInLine, prio'[PostProc] = prio[PostProc]
  PROVE  LifeInv'
<1>1. UNCHANGED <<postStep, cleaning, cleanupPending, spawned>>
  BY DEF faultVars, postVars, lifeVars
<1>2. /\ \A m : FaultWakeOf(m) \in ToSet(todo') <=> FaultWakeOf(m) \in ToSet(todo)
      /\ \A t : FaultReleaseOf(t) \in ToSet(todo') <=> FaultReleaseOf(t) \in ToSet(todo)
      /\ \A t : ReadySwtchOf(t) \in ToSet(todo) => ReadySwtchOf(t) \in ToSet(todo')
      /\ \A c \in ToSet(todo') : c.op \in FaultOps \cup WakeOps => c \in ToSet(todo)
  BY TodoCalls
<1>3. CallInv' /\ ReportInv'
  BY CallFrame, ReportFrame
<1>4. RegionInv'
  BY <1>1, <1>2, RegionFrame
<1>5. PoisonInv'
  <2>1. \A m \in Mutex : waitQ[m] = <<>> => waitQ'[m] = <<>>
    BY LifeTypes, StaysEmpty DEF KernelBase
  <2> QED BY <1>2, <2>1, PoisonFrame
<1>6. CleanupInv'
  BY <1>1, <1>2, CleanupFrame
<1>7. RunInv'
  BY RunFrame DEF SwitchHeld
<1>8. LeftInv' /\ PostInv' /\ status'[run'] # "TERMINATED" /\ AliveKept
  <2>1. TasksKept
    BY DEF TasksKept
  <2> QED BY <2>1, PostFrame
<1>9. SlotInv' /\ LivesInv'
  BY <1>2, <1>8, SlotFrame
<1> QED BY <1>3, <1>4, <1>5, <1>6, <1>7, <1>8, <1>9 DEF LifeInv, KernelBase

LEMMA WalkedKeeps ==
  ASSUME LifeInv, Walked
  PROVE  LifeInv'
<1>1. /\ KernelBase' /\ RegionOrder(todo') /\ SwitchHeld /\ FirstInLine
      /\ prio'[PostProc] = prio[PostProc]
      /\ UNCHANGED <<run, status, wqp, lock, owner, faulted, owned, waitingFor,
                     mesgPrio, call, ret, faultVars, lifeVars>>
      /\ \A o \in WaitObj : ToSet(waitQ'[o]) \subseteq ToSet(waitQ[o])
      /\ \A c \in ToSet(todo') : c \in ToSet(todo) \/ c.op \in {"updatePrio", "handleTimeouts"}
      /\ \A c \in ToSet(todo) : c \in ToSet(todo') \/ c.op \in {"updatePrio", "handleTimeouts"}
  BY DEF Walked, KernelBase, SwitchHeld
<1> QED BY <1>1, NoneChanged

\* While the tick is at work nobody cleans up.
LEMMA TickAlone ==
  ASSUME LifeInv, todo # <<>>, Head(todo).op = "handleTimeouts"
  PROVE  /\ \A c \in ToSet(todo) : c.op \in {"handleTimeouts", "updatePrio"}
<1>1. /\ Head(todo) \in ToSet(todo) /\ ToSet(todo) = {Head(todo)} \cup ToSet(Tail(todo))
      /\ \A c \in ToSet(Tail(todo)) : c.op \notin WakeOps
  BY TodoHead
<1>2. \A c \in ToSet(todo) : c.op \in {"handleTimeouts", "updatePrio", "timeoutReady"}
  BY <1>1 DEF LifeInv, RegionInv, RegionOrder
<1> QED BY <1>1, <1>2 DEF WakeOps

LEMMA TickedKeeps ==
  ASSUME LifeInv, Ticked
  PROVE  LifeInv'
<1>1. /\ KernelBase' /\ RegionOrder(todo') /\ SwitchHeld
      /\ prio'[PostProc] = prio[PostProc] /\ readyQ'[0] = readyQ[0]
      /\ UNCHANGED <<run, status, wqp, lock, owner, faulted, owned, waitingFor,
                     mesgPrio, call, ret, faultVars, lifeVars>>
      /\ \A o \in WaitObj : ToSet(waitQ'[o]) \subseteq ToSet(waitQ[o])
      /\ \A c \in ToSet(todo') : c \in ToSet(todo) \/ c.op \in {"updatePrio", "handleTimeouts"}
  BY DEF Ticked, SwitchHeld
<1>2. FirstInLine
  BY <1>1 DEF FirstInLine
<1>3. \A c \in ToSet(todo) : c \in ToSet(todo') \/ c.op \in {"updatePrio", "handleTimeouts"}
  BY TickAlone, EmptyTodo DEF Ticked
<1> QED BY <1>1, <1>2, <1>3, NoneChanged

LEMMA ExpiredKeeps ==
  ASSUME LifeInv, NEW t \in Task, Expired(t)
  PROVE  LifeInv'
<1> DEFINE x == [op |-> "timeoutReady", task |-> t]
<1>1. /\ KernelBase' /\ RegionOrder(todo')
      /\ UNCHANGED <<run, status, prio, readyQ, pendSV, wqp, lock, owner, faulted,
                     owned, waitingFor, mesgPrio, call, ret, faultVars, lifeVars>>
      /\ UNCHANGED <<postStep, cleaning, cleanupPending, spawned>>
      /\ status[t] \in {"BLOCKED", "SLEEPING_DELAY"}
      /\ \A o \in WaitObj : ToSet(waitQ'[o]) \subseteq ToSet(waitQ[o])
      /\ \A c \in ToSet(todo') : c.op \in {"updatePrio", "handleTimeouts"} \/ c = x
      /\ \A c \in ToSet(todo) : c.op \in {"handleTimeouts", "updatePrio"}
  BY TickAlone DEF Expired, faultVars, postVars, lifeVars
<1>2. /\ x.op = "timeoutReady" /\ x.task = t /\ x.op \notin FaultOps
      /\ {"updatePrio", "handleTimeouts"} \cap (FaultOps \cup WakeOps) = {}
      /\ \A m : FaultWakeOf(m).op = "faultWake" /\ FaultWakeOf(m) # x
      /\ \A u : /\ FaultReleaseOf(u).op = "faultRelease"
                /\ ReadySwtchOf(u).op = "ready"
  BY DEF FaultOps, WakeOps, FaultWakeOf, FaultReleaseOf, ReadySwtchOf
<1> HIDE DEF x
<1>3. /\ \A m : FaultWakeOf(m) \notin ToSet(todo') /\ FaultWakeOf(m) \notin ToSet(todo)
      /\ \A u : FaultReleaseOf(u) \notin ToSet(todo) /\ ReadySwtchOf(u) \notin ToSet(todo)
      /\ \A c \in ToSet(todo') : c.op \notin FaultOps
  BY <1>1, <1>2
<1>4. CallInv' /\ ReportInv'
  BY <1>1, CallFrame, ReportFrame
<1>5. RegionInv'
  <2> SUFFICES ASSUME NEW c \in ToSet(todo')
               PROVE  /\ c.op # "signalReady"
                      /\ c.op \in WakeOps =>
                           /\ status'[c.task] \in Woke
                           /\ c.op = "ready" => wqp'[c.task] = None /\ waitingFor'[c.task] = None
                           /\ status'[c.task] = "TERMINATED" => c.op = "ready" /\ c.task \in spawned'
    BY <1>1 DEF RegionInv
  <2>1. c = x \/ c.op \in {"updatePrio", "handleTimeouts"}
    BY <1>1
  <2>2. c = x \/ (c.op \notin WakeOps /\ c.op # "signalReady")
    BY <1>2, <2>1
  <2> QED BY <1>1, <1>2, <2>2 DEF Woke
<1>6. PoisonInv'
  <2>1. \A m \in Mutex : waitQ[m] = <<>> => waitQ'[m] = <<>>
    BY <1>1, LifeTypes, StaysEmpty DEF KernelBase
  <2> QED BY <1>1, <1>3, <2>1, PoisonFrame
<1>7. CleanupInv' /\ RunInv'
  BY <1>1, <1>3, RunFrame DEF CleanupInv
<1>8. LeftInv' /\ PostInv' /\ status'[run'] # "TERMINATED" /\ AliveKept
  <2>1. TasksKept /\ SwitchHeld /\ FirstInLine /\ prio'[PostProc] = prio[PostProc]
    BY <1>1 DEF TasksKept, SwitchHeld, FirstInLine
  <2> QED BY <1>1, <2>1, PostFrame
<1>9. SlotInv' /\ LivesInv'
  BY <1>1, <1>3, <1>8, SlotFrame
<1> QED BY <1>1, <1>4, <1>5, <1>6, <1>7, <1>8, <1>9 DEF LifeInv, KernelBase

\* The switch to PostProc comes before any other.
LEMMA ComesNext ==
  ASSUME LifeInv, kSwtch, Comes, status[run] # "RUNNING"
  PROVE  run' = PostProc
<1>1. /\ readyQ \in [Prio -> Seq(Task)] /\ 0 \in Prio /\ Prio \subseteq Nat
      /\ PostProc \in Task /\ prio[PostProc] = 0
  BY LifeTypes, NominalPrioType DEF LifeInv, PostInv
<1>2. readyQ[0] # <<>>
  <2>1. PostProc \in ToSet(readyQ[0])
    BY <1>1, KernelParts DEF ReadyInv, Comes
  <2> QED BY <2>1, EmptyTodo
<1> DEFINE p == kCalcNextTaskPrio_(readyQ)
<1>3. p \in Prio /\ p <= 0
  BY <1>1, <1>2, NextPrioProperties
<1> HIDE DEF p
<1>4. p = 0
  BY <1>1, <1>3
<1>5. run' = Head(readyQ[p])
  BY DEF kSwtch, p
<1> QED BY <1>4, <1>5 DEF Comes

LEMMA SwitchKeeps ==
  ASSUME LifeInv, kSwtch, UNCHANGED <<faultVars, lifeVars>>
  PROVE  LifeInv'
<1>1. PICK next \in Task : Switched(next)
  BY SwitchEffects, KernelParts
<1>2. /\ todo = <<>> /\ todo' = <<>> /\ ToSet(todo') = {} /\ run' = next /\ ~pendSV' /\ pendSV
      /\ UNCHANGED <<prio, waitQ, wqp, lock, owner, faulted, owned, waitingFor, mesgPrio,
                     call, ret, faultVars, lifeVars>>
      /\ UNCHANGED <<postStep, jobs, budget, cleanupPending, cleaning, spawned, handles>>
      /\ run \in Task /\ PostProc \in Task /\ UserTask \subseteq Task
      /\ status \in [Task -> Status] /\ PostInv /\ LeftInv /\ status[run] # "TERMINATED"
  BY <1>1, LifeTypes, EmptyTodo
  DEF Switched, kSwtch, LifeInv, waitVars, mutexVars, callVars, faultVars, postVars, lifeVars
<1>3. /\ CanRun(next) /\ status'[next] = "RUNNING"
      /\ \A t \in Task \ {next} : status'[t] = IF t = run /\ status[run] = "RUNNING"
                                              THEN "READY" ELSE status[t]
  BY <1>1, <1>2 DEF Switched
<1>4. status[next] \in {"READY", "RUNNING"}
  BY <1>3 DEF CanRun
<1>5. KernelBase'
  <2>1. KernelInv'
    BY KernelPart DEF Next, KernelStep
  <2>2. WaitPlaces'
    BY <1>2, KernelParts DEF WaitPlaces
  <2>3. ReadyPlaces'
    <3>1. /\ \A p \in Prio : NoDuplicates(readyQ'[p])
          /\ \A p \in Prio : \A t \in ToSet(readyQ'[p]) :
               t # next /\ prio[t] = p /\ CanRun(t) /\ t \in Task
      BY <1>1 DEF Switched
    <3>2. \A t \in Task \ {next} : CanRun(t) => status'[t] = "READY"
      BY <1>3 DEF CanRun
    <3>3. \A p \in Prio : \A t \in ToSet(readyQ'[p]) : status'[t] = "READY" /\ prio'[t] = p
      BY <1>2, <3>1, <3>2
    <3> QED BY <3>1, <3>3 DEF ReadyPlaces
  <2> QED BY <2>1, <2>2, <2>3 DEF KernelBase
<1>6. CallInv' /\ ReportInv'
  <2>1. /\ CallFor("READY") = "NONE" /\ CallFor("RUNNING") = "NONE"
    BY DEF CallFor
  <2>2. \A u \in Task :
           \/ /\ status'[u] = status[u] /\ call'[u].number = call[u].number
              /\ wqp'[u] = wqp[u] /\ waitingFor'[u] = waitingFor[u]
           \/ /\ call'[u].number = CallFor(status'[u])
              /\ status'[u] # "BLOCKED" => wqp'[u] = None /\ waitingFor'[u] = None
    BY <1>2, <1>3, <1>4, <2>1 DEF LifeInv, CallInv
  <2> QED BY <1>2, <2>2, CallFrame, ReportFrame
<1>7. RegionInv' /\ CleanupInv' /\ PoisonInv' /\ RunInv'
  <2>1. RegionInv' /\ CleanupInv'
    BY <1>2, RegionShort DEF RegionInv, CleanupInv
  <2>2. PoisonInv'
    BY <1>2, PoisonFrame
  <2> QED BY <1>2, <1>3, <2>1, <2>2 DEF RunInv
<1>8. LeftInv'
  <2>1. \A t \in Task : status[t] \in Leaving => status'[t] = status[t]
    BY <1>3, <1>4 DEF Leaving
  <2>2. \A t \in cleanupPending' : t \in UserTask /\ status'[t] = "FAULT_PENDING"
    BY <1>2, <2>1 DEF LeftInv, Leaving
  <2>3. \/ jobs' = <<>>
        \/ \E t \in UserTask : status'[t] = "PENDING" /\ jobs' = <<TerminateJob(t)>>'
    BY <1>2, <2>1 DEF LeftInv, Leaving, TerminateJob, Lives
  <2> QED BY <2>2, <2>3 DEF LeftInv
<1>9. PostInv'
  <2>1. /\ prio'[PostProc] = 0 /\ mesgPrio'[PostProc].base = 0 /\ budget' \in Nat
    BY <1>2 DEF PostInv
  <2>2. CASE run # PostProc /\ status[run] \in Leaving
    <3>1. Comes /\ status[run] # "RUNNING"
      BY <1>2, <2>2 DEF PostInv, Leaving
    <3>2. next = PostProc
      BY <1>2, <3>1, ComesNext
    <3>3. Works'
      BY <1>2, <1>3, <3>1, <3>2 DEF Works, Comes
    <3> QED BY <1>2, <2>1, <3>2, <3>3 DEF PostInv
  <2>3. CASE ~(run # PostProc /\ status[run] \in Leaving)
    <3>1. Rests
      BY <1>2, <2>3 DEF PostInv, Works
    <3>2. next # PostProc
      BY <1>4, <3>1 DEF Rests
    <3>3. status'[PostProc] = status[PostProc]
      BY <1>2, <1>3, <3>1, <3>2 DEF Rests
    <3>4. Rests'
      BY <1>2, <3>1, <3>3 DEF Rests
    <3>5. status'[run'] \notin Leaving /\ run' # PostProc
      BY <1>2, <1>3, <3>2 DEF Leaving
    <3> QED BY <2>1, <3>4, <3>5 DEF PostInv
  <2> QED BY <2>2, <2>3
<1>10. SlotInv' /\ LivesInv' /\ status'[run'] # "TERMINATED"
  <2>1. AliveKept
    BY <1>3, <1>4 DEF AliveKept
  <2>2. \A t \in spawned : ReadySwtchOf(t) \notin ToSet(todo)
    BY <1>2, EmptyTodo
  <2>3. SlotInv' /\ LivesInv'
    BY <1>2, <2>1, <2>2, SlotFrame
  <2> QED BY <1>2, <1>3, <2>3
<1> QED BY <1>5, <1>6, <1>7, <1>8, <1>9, <1>10 DEF LifeInv, KernelBase

\* A call of the running task that leaves nothing behind but its result, and
\* perhaps a switch to take.
Answered ==
  /\ KernelInv'
  /\ \A u \in Task : \/ ret'[u] = ret[u] \/ ret'[u].err # "OWNER_FAULTED"
                     \/ ret'[u].arg \in Mutex /\ faulted[ret'[u].arg]
  /\ UNCHANGED <<run, status, prio, readyQ, waitQ, wqp, lock, owner, faulted, owned,
                 waitingFor, mesgPrio, call, todo, faultVars, lifeVars>>

LEMMA AnsweredKeeps ==
  ASSUME LifeInv, Executing, Answered
  PROVE  LifeInv'
<1>1. /\ UNCHANGED <<run, status, prio, readyQ, waitQ, wqp, lock, owner, faulted, owned,
                     waitingFor, mesgPrio, call, todo, faultVars, lifeVars>>
      /\ UNCHANGED <<postStep, cleaning, cleanupPending, spawned>>
      /\ todo = <<>> /\ todo' = <<>> /\ ToSet(todo') = {} /\ ToSet(todo) = {}
      /\ KernelInv' /\ ~pendSV /\ run # PostProc /\ status[run] = "RUNNING"
      /\ \A u \in Task : \/ ret'[u] = ret[u] \/ ret'[u].err # "OWNER_FAULTED"
                         \/ ret'[u].arg \in Mutex /\ faulted[ret'[u].arg]
  BY UserRuns DEF Answered, faultVars, postVars, lifeVars
<1>2. KernelBase'
  BY <1>1, KernelParts DEF KernelBase, ReadyPlaces, WaitPlaces
<1>3. CallInv' /\ ReportInv'
  BY <1>1, CallFrame, ReportFrame
<1>4. RegionInv' /\ CleanupInv' /\ PoisonInv'
  BY <1>1, RegionShort, PoisonFrame DEF RegionInv, CleanupInv
<1>5. RunInv'
  BY <1>1 DEF RunInv
<1>6. LeftInv' /\ PostInv' /\ status'[run'] # "TERMINATED" /\ AliveKept
  <2>1. TasksKept /\ SwitchHeld /\ FirstInLine /\ prio'[PostProc] = prio[PostProc]
    BY <1>1 DEF TasksKept, SwitchHeld, FirstInLine
  <2> QED BY <1>1, <2>1, PostFrame
<1>7. SlotInv' /\ LivesInv'
  BY <1>1, <1>6, SlotFrame
<1> QED BY <1>2, <1>3, <1>4, <1>5, <1>6, <1>7 DEF LifeInv, KernelBase

\* The kernel's part when a call returns without a switch.
LEMMA ReturnBase ==
  ASSUME LifeInv, NEW number \in ResultNumber, NEW arg \in WaitObj \cup {None}, NEW err \in Err,
         Returns(number, arg, err),
         UNCHANGED <<schedVars, waitVars, mutexVars, timeVars, call, todo>>
  PROVE  KernelInv'
<1>1. ret' \in [Task -> FrameResult]
  BY ReturnsTo
<1>2. /\ UNCHANGED <<run, status, prio, readyQ, schLock, savedLock, pendingSw, pendSV>>
      /\ UNCHANGED <<waitQ, wqp, lock, owner, faulted, owned, waitingFor, mesgPrio>>
      /\ UNCHANGED <<tmo, left, ttype, call, todo>>
  BY DEF schedVars, waitVars, mutexVars, timeVars
<1>3. TypeOK'
  BY <1>1, <1>2, KernelParts
  DEF TypeOK, SchedTypeOK, WaitTypeOK, MutexTypeOK, TimeTypeOK, CallTypeOK
<1>4. ReadyInv' /\ StaleInv' /\ QueueInv' /\ TodoInv'
  BY <1>2, KernelParts DEF ReadyInv, StaleInv, QueueInv, TodoInv
<1>5. TimeInv'
  BY <1>2, KernelParts, TimeFrame
<1> QED BY <1>3, <1>4, <1>5 DEF KernelInv

\* The calls that leave no more, of the mutex service and of the task service.
LEMMA AnswersInMutexCalls ==
  ASSUME LifeInv, [Next]_kernelVars, UNCHANGED <<faultVars, lifeVars>>, Executing,
         \/ kSchLock \/ kSchUnlock
         \/ \E m \in Mutex : LockFaulted(m) \/ \E timeout \in Timeout : LockNoWait(m, timeout)
  PROVE  Answered
<1>1. KernelInv'
  BY KernelPart
<1>2. /\ UNCHANGED <<run, status, prio, readyQ, waitQ, wqp, lock, owner, faulted, owned,
                     waitingFor, mesgPrio, call, todo>>
      /\ \/ Returns("NONE", None, "SUCCESS")
         \/ \E m \in Mutex : \/ Returns("MUTEX_LOCK", m, "OWNER_FAULTED") /\ faulted[m]
                             \/ Returns("MUTEX_LOCK", m, "NOWAIT")
  BY DEF kSchLock, kSchUnlock, LockFaulted, LockNoWait, LockReturns, schedVars, waitVars,
         mutexVars
<1>3. /\ ret \in [Task -> FrameResult] /\ run \in Task
  BY LifeTypes
<1>4. \A u \in Task : \/ ret'[u] = ret[u] \/ ret'[u].err # "OWNER_FAULTED"
                      \/ ret'[u].arg \in Mutex /\ faulted[ret'[u].arg]
  BY <1>2, <1>3 DEF Returns
<1> QED BY <1>1, <1>2, <1>4 DEF Answered

LEMMA AnswersInTaskCalls ==
  ASSUME LifeInv,
         SpawnRefused
         \/ \E t \in UserTask : \E k : TerminateInvalid(t, k) \/ TerminateSpared(t, k)
  PROVE  Executing /\ Answered
<1>1. PICK number \in {"TASK_SPAWN", "TASK_TERMINATE"},
           err \in {"TASK_POOL_EMPTY", "INVALID_OBJ", "INVALID_ST"} :
        Returns(number, None, err)
  BY DEF SpawnRefused, TerminateInvalid, TerminateSpared, TerminateReturns
<1>2. /\ number \in ResultNumber /\ err \in Err /\ err # "OWNER_FAULTED"
  BY DEF ResultNumber, Err
<1>3. /\ Executing /\ UNCHANGED <<schedVars, waitVars, mutexVars, timeVars, call, todo>>
      /\ UNCHANGED <<faultVars, lifeVars>>
  BY DEF SpawnRefused, TerminateInvalid, TerminateSpared, TerminateReturns
<1>4. KernelInv'
  BY <1>1, <1>2, <1>3, ReturnBase
<1>5. \A u \in Task : ret'[u] = ret[u] \/ ret'[u].err # "OWNER_FAULTED"
  BY <1>1, <1>2, ReturnsTo
<1> QED BY <1>3, <1>4, <1>5 DEF Answered, schedVars, waitVars, mutexVars

\* A task that yields joins its queue, a switch pended.
LEMMA YieldKeeps ==
  ASSUME LifeInv, ~YieldWhenLocked, schLock > 0 => YieldWhenLocked, kYield,
         [Next]_kernelVars, UNCHANGED <<faultVars, lifeVars>>
  PROVE  LifeInv'
<1>1. /\ status' = [status EXCEPT ![run] = "READY"]
      /\ readyQ' = [readyQ EXCEPT ![prio[run]] = kTCBQEnq(@, run)]
      /\ Returns("NONE", None, "SUCCESS") /\ Executing
      /\ UNCHANGED <<run, prio, waitQ, wqp, lock, owner, faulted, owned, waitingFor,
                     mesgPrio, call, todo, faultVars, lifeVars>>
      /\ UNCHANGED <<postStep, cleaning, cleanupPending, spawned>>
  BY DEF kYield, waitVars, mutexVars, faultVars, postVars, lifeVars
<1>2. pendSV'
  <2>1. schLock = 0
    BY KernelParts DEF TypeOK, SchedTypeOK
  <2> QED BY <2>1 DEF kYield, kPendCtxSwtchNow_
<1>3. /\ run \in Task /\ run # PostProc /\ status[run] = "RUNNING" /\ ~pendSV
      /\ todo = <<>> /\ todo' = <<>> /\ ToSet(todo') = {} /\ ToSet(todo) = {}
      /\ wqp[run] = None /\ waitingFor[run] = None /\ call[run] = NoCall
      /\ status'[run] = "READY" /\ \A t \in Task \ {run} : status'[t] = status[t]
      /\ \A u \in Task : ret'[u] = ret[u] \/ ret'[u].err # "OWNER_FAULTED"
      /\ \A t \in Task : ret[t] \in FrameResult
  BY <1>1, UserRuns, LifeTypes DEF Returns
<1>4. KernelBase'
  <2>1. KernelInv'
    BY KernelPart
  <2>2. ReadyPlaces'
    BY <1>1, <1>3, KernelParts, ReadyEnter
  <2>3. WaitPlaces'
    BY <1>1, KernelParts DEF WaitPlaces
  <2> QED BY <2>1, <2>2, <2>3 DEF KernelBase
<1>5. CallInv' /\ ReportInv'
  <2>1. call'[run].number = CallFor(status'[run])
    BY <1>1, <1>3 DEF CallFor, NoCall
  <2>2. \A u \in Task :
           \/ /\ status'[u] = status[u] /\ call'[u].number = call[u].number
              /\ wqp'[u] = wqp[u] /\ waitingFor'[u] = waitingFor[u]
           \/ /\ call'[u].number = CallFor(status'[u])
              /\ status'[u] # "BLOCKED" => wqp'[u] = None /\ waitingFor'[u] = None
    BY <1>1, <1>3, <2>1
  <2> QED BY <1>1, <1>3, <2>2, CallFrame, ReportFrame
<1>6. RegionInv' /\ CleanupInv' /\ PoisonInv' /\ RunInv'
  BY <1>1, <1>2, <1>3, RegionShort, PoisonFrame DEF RegionInv, CleanupInv, RunInv
<1>7. LeftInv' /\ PostInv' /\ status'[run'] # "TERMINATED" /\ AliveKept
  <2>1. TasksKept
    BY <1>3 DEF TasksKept, Leaving
  <2>2. FirstInLine
    <3>1. /\ prio \in [Task -> Prio] /\ readyQ \in [Prio -> Seq(Task)] /\ 0 \in Prio
      BY LifeTypes
    <3>2. readyQ'[0] \in {readyQ[0], kTCBQRem(readyQ[0], run), kTCBQEnq(readyQ[0], run)}
      BY <1>1, <3>1
    <3> QED BY <1>3, <3>2, LineKept
  <2> QED BY <1>1, <1>3, <2>1, <2>2, PostFrame DEF SwitchHeld
<1>8. SlotInv' /\ LivesInv'
  BY <1>1, <1>3, <1>7, SlotFrame
<1> QED BY <1>4, <1>5, <1>6, <1>7, <1>8 DEF LifeInv, KernelBase

\* The running task suspends itself in a call: it sleeps, waits to be resumed,
\* or waits for a mutex.
Suspended(st) ==
  /\ st \in {"SLEEPING_DELAY", "SELF_SUSPENDED", "BLOCKED"}
  /\ status' = [status EXCEPT ![run] = st] /\ pendSV'
  /\ call'[run].number = CallFor(st) /\ call'[run].wake # "OWNER_FAULTED"
  /\ ret'[run].err # "OWNER_FAULTED"
  /\ st # "BLOCKED" => wqp'[run] = None /\ waitingFor'[run] = None
  /\ \A u \in Task \ {run} : /\ call'[u] = call[u] /\ ret'[u] = ret[u]
                             /\ wqp'[u] = wqp[u] /\ waitingFor'[u] = waitingFor[u]
  /\ \A m \in Mutex : faulted[m] => waitQ'[m] = waitQ[m]
  /\ \A c \in ToSet(todo') : c.op = "updatePrio"
  /\ RegionOrder(todo') /\ KernelBase'
  /\ UNCHANGED <<run, prio, readyQ, lock, owner, faulted, owned, mesgPrio,
                 faultVars, lifeVars>>

LEMMA SuspendedKeeps ==
  ASSUME LifeInv, Executing, NEW st, Suspended(st)
  PROVE  LifeInv'
<1>1. /\ st \in {"SLEEPING_DELAY", "SELF_SUSPENDED", "BLOCKED"} /\ pendSV'
      /\ call'[run].number = CallFor(st) /\ call'[run].wake # "OWNER_FAULTED"
      /\ ret'[run].err # "OWNER_FAULTED"
      /\ st # "BLOCKED" => wqp'[run] = None /\ waitingFor'[run] = None
      /\ \A u \in Task \ {run} : /\ call'[u] = call[u] /\ ret'[u] = ret[u]
                                 /\ wqp'[u] = wqp[u] /\ waitingFor'[u] = waitingFor[u]
      /\ \A m \in Mutex : faulted[m] => waitQ'[m] = waitQ[m]
      /\ \A c \in ToSet(todo') : c.op = "updatePrio"
      /\ RegionOrder(todo') /\ KernelBase'
      /\ UNCHANGED <<run, prio, readyQ, lock, owner, faulted, owned, mesgPrio,
                     faultVars, lifeVars>>
      /\ UNCHANGED <<postStep, cleaning, cleanupPending, spawned>>
  BY DEF Suspended, faultVars, postVars, lifeVars
<1>2. /\ run \in Task /\ run # PostProc /\ status[run] = "RUNNING" /\ ~pendSV
      /\ ToSet(todo) = {}
      /\ status'[run] = st /\ \A t \in Task \ {run} : status'[t] = status[t]
  BY UserRuns, LifeTypes DEF Suspended
<1>3. CallInv' /\ ReportInv'
  <2>1. \A u \in Task :
           \/ /\ status'[u] = status[u] /\ call'[u].number = call[u].number
              /\ wqp'[u] = wqp[u] /\ waitingFor'[u] = waitingFor[u]
           \/ /\ call'[u].number = CallFor(status'[u])
              /\ status'[u] # "BLOCKED" => wqp'[u] = None /\ waitingFor'[u] = None
    BY <1>1, <1>2
  <2> QED BY <1>1, <1>2, <2>1, CallFrame, ReportFrame
<1>4. RegionInv' /\ CleanupInv' /\ RunInv'
  BY <1>1, <1>2 DEF RegionInv, CleanupInv, RunInv, WakeOps, FaultOps
<1>5. PoisonInv'
  <2>1. \A m : FaultWakeOf(m) \notin ToSet(todo')
    BY <1>1 DEF FaultWakeOf
  <2> QED BY <1>1, <1>2, <2>1, PoisonFrame
<1>6. LeftInv' /\ PostInv' /\ status'[run'] # "TERMINATED" /\ AliveKept
  <2>1. TasksKept
    BY <1>1, <1>2 DEF TasksKept, Leaving
  <2>2. SwitchHeld /\ FirstInLine /\ prio'[PostProc] = prio[PostProc]
    BY <1>1, <1>2 DEF SwitchHeld, FirstInLine
  <2> QED BY <1>1, <2>1, <2>2, PostFrame
<1>7. SlotInv' /\ LivesInv'
  BY <1>1, <1>2, <1>6, SlotFrame
<1> QED BY <1>1, <1>3, <1>4, <1>5, <1>6, <1>7 DEF LifeInv, KernelBase

LEMMA SuspendKinds ==
  ASSUME LifeInv, [Next]_kernelVars, UNCHANGED <<faultVars, lifeVars>>, Executing,
         \/ \E ticks \in Timeout : kSleepDelay(ticks)
         \/ kTaskSelfSuspend
         \/ \E m \in Mutex : \E timeout \in Timeout : LockBlock(m, timeout)
  PROVE  \E st : Suspended(st)
<1>1. /\ run \in Task /\ call \in [Task -> Suspension] /\ ret \in [Task -> FrameResult]
      /\ call[run] = NoCall /\ status[run] = "RUNNING" /\ todo = <<>>
      /\ wqp[run] = None /\ waitingFor[run] = None
      /\ KernelInv' /\ status \in [Task -> Status]
      /\ wqp \in [Task -> WaitObj \cup {None}] /\ waitingFor \in [Task -> Mutex \cup {None}]
  BY LifeTypes, UserRuns, KernelPart
<1>2. ASSUME NEW st \in {"SLEEPING_DELAY", "SELF_SUSPENDED"}, NEW number,
             number = CallFor(st), Returns(number, None, "RESTART"),
             status' = [status EXCEPT ![run] = st],
             call' = [call EXCEPT ![run].number = number, ![run].phase = "WAIT"],
             kPendCtxSwtch(st),
             UNCHANGED <<run, prio, readyQ, waitVars, mutexVars, todo>>
      PROVE  Suspended(st)
  <2>1. pendSV'
    BY <1>2 DEF kPendCtxSwtch, kPendCtxSwtchNow_
  <2>2. /\ call'[run].number = number /\ call'[run].wake = "SUCCESS"
        /\ \A u \in Task \ {run} : call'[u] = call[u]
    BY <1>1, <1>2 DEF Suspension, NoCall
  <2>3. /\ ret'[run].err # "OWNER_FAULTED" /\ \A u \in Task \ {run} : ret'[u] = ret[u]
    BY <1>1, <1>2 DEF Returns
  <2>4. /\ UNCHANGED <<waitQ, wqp, lock, owner, faulted, owned, waitingFor, mesgPrio>>
        /\ todo' = <<>> /\ ToSet(todo') = {}
    BY <1>1, <1>2, EmptyTodo DEF waitVars, mutexVars
  <2>5. ReadyPlaces'
    BY <1>1, <1>2, ReadyKept, KernelParts
  <2>6. WaitPlaces'
    <3>1. \A o \in WaitObj : run \notin ToSet(waitQ[o])
      BY UserRuns
    <3>2. \A o \in WaitObj : ToSet(waitQ'[o]) \subseteq ToSet(waitQ[o]) \ {run}
      BY <2>4, <3>1
    <3> QED BY <2>2, <2>4, <3>2, PlacesFrame
  <2>7. KernelBase'
    BY <1>1, <2>5, <2>6 DEF KernelBase
  <2> QED BY <1>1, <1>2, <2>1, <2>2, <2>3, <2>4, <2>7, RegionShort DEF Suspended
<1>3. CASE \E ticks \in Timeout : kSleepDelay(ticks)
  <2>1. Suspended("SLEEPING_DELAY")
    BY <1>2, <1>3 DEF kSleepDelay, CallFor
  <2> QED BY <2>1
<1>4. CASE kTaskSelfSuspend
  <2>1. Suspended("SELF_SUSPENDED")
    BY <1>2, <1>4 DEF kTaskSelfSuspend, CallFor
  <2> QED BY <2>1
<1>5. ASSUME NEW m \in Mutex, NEW timeout \in Timeout, LockBlock(m, timeout)
      PROVE  Suspended("BLOCKED")
  <2> DEFINE c == [number |-> "MUTEX_LOCK", arg |-> m, phase |-> "WAIT", wake |-> "SUCCESS"]
  <2>1. /\ ~faulted[m] /\ lock[m] /\ owner[m] \notin {run, None}
        /\ wqp' = [wqp EXCEPT ![run] = m]
        /\ waitingFor' = [waitingFor EXCEPT ![run] = m]
        /\ status' = [status EXCEPT ![run] = "BLOCKED"]
        /\ call' = [call EXCEPT ![run] = c]
        /\ Returns(c.number, c.arg, "RESTART") /\ kPendCtxSwtch("BLOCKED")
        /\ todo' = IF m \in Inherit THEN <<UpdatePrioOf(owner[m])>> ELSE <<>>
        /\ UNCHANGED <<run, prio, readyQ, schLock, savedLock, lock, owner, faulted,
                       owned, mesgPrio>>
    BY <1>5 DEF LockBlock, WaitForMutex
  <2>2. pendSV'
    BY <2>1 DEF kPendCtxSwtch, kPendCtxSwtchNow_
  <2>3. /\ call'[run].number = "MUTEX_LOCK" /\ call'[run].wake # "OWNER_FAULTED"
        /\ \A u \in Task \ {run} : call'[u] = call[u]
    BY <1>1, <2>1
  <2>4. /\ ret'[run].err # "OWNER_FAULTED" /\ \A u \in Task \ {run} : ret'[u] = ret[u]
    BY <1>1, <2>1 DEF Returns
  <2>5. /\ \A u \in Task \ {run} : wqp'[u] = wqp[u] /\ waitingFor'[u] = waitingFor[u]
    BY <1>1, <2>1
  <2>6. /\ ToSet(waitQ'[m]) = ToSet(waitQ[m]) \cup {run}
        /\ \A o \in WaitObj \ {m} : waitQ'[o] = waitQ[o]
    BY <1>5, KernelParts, BlockQueues
  <2>7. /\ RegionOrder(todo') /\ \A d \in ToSet(todo') : d.op = "updatePrio"
    <3>1. todo' = <<>> \/ todo' = <<UpdatePrioOf(owner[m])>>
      BY <2>1
    <3>2. /\ \A d : ToSet(<<d>>) = {d} /\ UpdatePrioOf(owner[m]).op = "updatePrio"
      BY DEF ToSet, UpdatePrioOf
    <3> QED BY <3>1, <3>2, EmptyTodo, RegionShort
  <2>8. ReadyPlaces'
    BY <1>1, <2>1, ReadyKept, KernelParts
  <2>9. WaitPlaces'
    <3>1. \A o \in WaitObj : \A t \in ToSet(waitQ'[o]) :
            \/ t \in ToSet(waitQ[o]) /\ t \in Task \ {run}
            \/ t = run /\ o = m
      BY <2>6, ListedTasks, UserRuns, KernelParts
    <3>2. waitingFor'[run] = m /\ call'[run].arg = m
      BY <1>1, <2>1
    <3> QED BY <2>3, <2>5, <3>1, <3>2, KernelParts DEF WaitPlaces
  <2> HIDE DEF c
  <2> QED BY <1>1, <2>1, <2>2, <2>3, <2>4, <2>5, <2>6, <2>7, <2>8, <2>9, LifeTypes
      DEF Suspended, KernelBase, CallFor
<1> QED BY <1>3, <1>4, <1>5

\* A mutex changes hands, and a waiter may stop waiting for it; or a task is
\* resumed.
Changed(w) ==
  /\ PoisonInv' /\ KernelBase' /\ RegionOrder(todo')
  /\ \A c \in ToSet(todo') : c.op = "updatePrio" \/ (c = ReadySwtchOf(w) /\ w \in Task
       /\ status[w] \in {"BLOCKED", "SELF_SUSPENDED"}
       /\ wqp'[w] = None /\ waitingFor'[w] = None)
  /\ \A u \in Task : \/ wqp'[u] = wqp[u] /\ waitingFor'[u] = waitingFor[u]
                     \/ status[u] = "BLOCKED"
  /\ \A u \in Task : owned[u] = {} /\ status[u] = "TERMINATED" => owned'[u] = {}
  /\ \A u \in Task : ret'[u] = ret[u] \/ ret'[u].err # "OWNER_FAULTED"
  /\ UNCHANGED <<run, status, prio, readyQ, pendSV, faulted, mesgPrio, call,
                 faultVars, lifeVars>>

LEMMA ChangedKeeps ==
  ASSUME LifeInv, Executing, NEW w, Changed(w)
  PROVE  LifeInv'
<1> DEFINE x == ReadySwtchOf(w)
<1>1. /\ PoisonInv' /\ KernelBase' /\ RegionOrder(todo')
      /\ \A c \in ToSet(todo') : \/ c.op = "updatePrio"
                                 \/ /\ c = x /\ w \in Task /\ status[w] \in {"BLOCKED", "SELF_SUSPENDED"}
                                    /\ wqp'[w] = None /\ waitingFor'[w] = None
      /\ \A u \in Task : \/ wqp'[u] = wqp[u] /\ waitingFor'[u] = waitingFor[u]
                         \/ status[u] = "BLOCKED"
      /\ \A u \in Task : owned[u] = {} /\ status[u] = "TERMINATED" => owned'[u] = {}
      /\ UNCHANGED <<run, status, prio, readyQ, pendSV, faulted, mesgPrio, call,
                     faultVars, lifeVars>>
      /\ UNCHANGED <<postStep, cleaning, cleanupPending, spawned>>
      /\ run \in Task /\ run # PostProc /\ status[run] = "RUNNING" /\ ~pendSV
      /\ ToSet(todo) = {} /\ CallInv
      /\ x.op = "ready" /\ x.task = w
  BY UserRuns DEF Changed, faultVars, postVars, lifeVars, LifeInv, ReadySwtchOf
<1> HIDE DEF x
<1>2. CallInv' /\ ReportInv'
  <2>1. \A u \in Task : ret'[u] = ret[u] \/ ret'[u].err # "OWNER_FAULTED"
    BY DEF Changed
  <2>2. \A u \in Task :
           \/ /\ status'[u] = status[u] /\ call'[u].number = call[u].number
              /\ wqp'[u] = wqp[u] /\ waitingFor'[u] = waitingFor[u]
           \/ /\ call'[u].number = CallFor(status'[u])
              /\ status'[u] # "BLOCKED" => wqp'[u] = None /\ waitingFor'[u] = None
    BY <1>1 DEF CallInv
  <2> QED BY <1>1, <2>1, <2>2, CallFrame, ReportFrame
<1>3. RegionInv' /\ CleanupInv' /\ RunInv'
  <2>1. RegionInv'
    BY <1>1 DEF RegionInv, Woke, WakeOps
  <2>2. CleanupInv' /\ RunInv'
    BY <1>1 DEF CleanupInv, RunInv, FaultOps
  <2> QED BY <2>1, <2>2
<1>4. LeftInv' /\ PostInv' /\ status'[run'] # "TERMINATED" /\ AliveKept
  <2>1. TasksKept /\ SwitchHeld /\ FirstInLine /\ prio'[PostProc] = prio[PostProc]
    BY <1>1 DEF TasksKept, SwitchHeld, FirstInLine
  <2> QED BY <1>1, <2>1, PostFrame
<1>5. SlotInv' /\ LivesInv'
  BY <1>1, <1>4, SlotFrame
<1> QED BY <1>1, <1>2, <1>3, <1>4, <1>5 DEF LifeInv, KernelBase

\* A step of the running task that empties no list of calls and queues nobody
\* leaves nothing of a poisoned mutex to wake.
LEMMA ChangedPoison ==
  ASSUME LifeInv, Executing, UNCHANGED faulted,
         \A c \in ToSet(todo') : c.op # "faultWake",
         \A m \in Mutex : faulted[m] =>
           waitQ'[m] = waitQ[m] /\ owner'[m] = owner[m],
         \A m \in Mutex : lock'[m] <=> owner'[m] # None,
         \A m \in Mutex : \A t \in Task : m \in owned'[t] <=> owner'[m] = t
  PROVE  PoisonInv'
<1>1. \A m : FaultWakeOf(m) \notin ToSet(todo') /\ FaultWakeOf(m) \notin ToSet(todo)
  BY UserRuns DEF FaultWakeOf
<1>2. \A m \in Mutex : faulted[m] => owner[m] = None /\ waitQ[m] = <<>>
  BY <1>1 DEF LifeInv, PoisonInv
<1> QED BY <1>1, <1>2 DEF PoisonInv

LEMMA OwnChanges ==
  ASSUME LifeInv, [Next]_kernelVars, UNCHANGED <<faultVars, lifeVars>>, Executing,
         NEW m \in Mutex, LockFree(m)
  PROVE  Changed(None)
<1>1. /\ ~faulted[m] /\ ~lock[m]
      /\ lock' = [lock EXCEPT ![m] = TRUE]
      /\ owner' = [owner EXCEPT ![m] = run]
      /\ owned' = [owned EXCEPT ![run] = @ \cup {m}]
      /\ Returns("MUTEX_LOCK", m, "SUCCESS")
      /\ UNCHANGED <<run, status, prio, readyQ, pendSV, waitQ, wqp, faulted, waitingFor,
                     mesgPrio, call, todo>>
  BY DEF LockFree, TakeMutex, OwnMutex, LockReturns, schedVars, waitVars
<1>2. /\ todo' = <<>> /\ ToSet(todo') = {} /\ run \in Task /\ status[run] = "RUNNING"
      /\ run # None
  BY <1>1, UserRuns, LifeTypes, EmptyTodo
<1>3. PoisonInv'
  <2>1. /\ \A n \in Mutex : lock[n] <=> owner[n] # None
        /\ \A n \in Mutex : \A t \in Task : n \in owned[t] <=> owner[n] = t
    BY DEF LifeInv, PoisonInv
  <2>2. /\ lock'[m] /\ owner'[m] = run /\ owned'[run] = owned[run] \cup {m}
        /\ \A n \in Mutex \ {m} : lock'[n] = lock[n] /\ owner'[n] = owner[n]
        /\ \A t \in Task \ {run} : owned'[t] = owned[t]
    BY <1>1, <1>2, LifeTypes
  <2>3. owner[m] = None /\ None \notin Task
    BY <1>1, <2>1, LifeTypes
  <2>4. /\ \A n \in Mutex : lock'[n] <=> owner'[n] # None
        /\ \A n \in Mutex : \A t \in Task : n \in owned'[t] <=> owner'[n] = t
    BY <1>2, <2>1, <2>2, <2>3
  <2> QED BY <1>1, <1>2, <2>2, <2>4, ChangedPoison
<1>4. KernelBase'
  <2>1. KernelInv'
    BY KernelPart
  <2> QED BY <1>1, <2>1, KernelParts DEF KernelBase, ReadyPlaces, WaitPlaces
<1>5. \A u \in Task : owned[u] = {} /\ status[u] = "TERMINATED" => owned'[u] = {}
  BY <1>1, <1>2, LifeTypes
<1>6. \A u \in Task : ret'[u] = ret[u] \/ ret'[u].err # "OWNER_FAULTED"
  BY <1>1, <1>2, LifeTypes DEF Returns
<1> QED BY <1>1, <1>2, <1>3, <1>4, <1>5, <1>6, RegionShort DEF Changed

LEMMA FreeChanges ==
  ASSUME LifeInv, [Next]_kernelVars, UNCHANGED <<faultVars, lifeVars>>,
         NEW m \in Mutex, kMutexUnlock(m), UnlockFree(m)
  PROVE  Changed(None)
<1>1. /\ ~faulted[m] /\ lock[m] /\ owner[m] = run /\ Executing
      /\ lock' = [lock EXCEPT ![m] = FALSE]
      /\ owner' = [owner EXCEPT ![m] = None]
      /\ owned' = [owned EXCEPT ![run] = @ \ {m}]
      /\ todo' = IF m \in Inherit THEN <<UpdatePrioOf(run)>> ELSE <<>>
      /\ Returns("MUTEX_UNLOCK", m, "SUCCESS")
      /\ UNCHANGED <<run, status, prio, readyQ, pendSV, waitQ, wqp, faulted, waitingFor,
                     mesgPrio, call>>
  BY DEF UnlockFree, FreeMutex, kMutexUnlock, schedVars, waitVars
<1>2. run \in Task /\ status[run] = "RUNNING"
  BY <1>1, UserRuns
<1>3. RegionOrder(todo') /\ \A c \in ToSet(todo') : c.op = "updatePrio"
  <2>1. todo' = <<>> \/ todo' = <<UpdatePrioOf(run)>>
    BY <1>1
  <2>2. /\ \A d : ToSet(<<d>>) = {d} /\ UpdatePrioOf(run).op = "updatePrio"
    BY DEF ToSet, UpdatePrioOf
  <2> QED BY <2>1, <2>2, EmptyTodo, RegionShort
<1>4. PoisonInv'
  <2>1. /\ \A n \in Mutex : lock[n] <=> owner[n] # None
        /\ \A n \in Mutex : \A t \in Task : n \in owned[t] <=> owner[n] = t
    BY DEF LifeInv, PoisonInv
  <2>2. /\ ~lock'[m] /\ owner'[m] = None /\ owned'[run] = owned[run] \ {m}
        /\ \A n \in Mutex \ {m} : lock'[n] = lock[n] /\ owner'[n] = owner[n]
        /\ \A t \in Task \ {run} : owned'[t] = owned[t]
    BY <1>1, <1>2, LifeTypes
  <2>3. /\ \A n \in Mutex : lock'[n] <=> owner'[n] # None
        /\ \A n \in Mutex : \A t \in Task : n \in owned'[t] <=> owner'[n] = t
    BY <1>1, <1>2, <2>1, <2>2, LifeTypes
  <2> QED BY <1>1, <1>3, <2>2, <2>3, ChangedPoison
<1>5. KernelBase'
  <2>1. KernelInv'
    BY KernelPart
  <2> QED BY <1>1, <2>1, KernelParts DEF KernelBase, ReadyPlaces, WaitPlaces
<1>6. \A u \in Task : owned[u] = {} /\ status[u] = "TERMINATED" => owned'[u] = {}
  BY <1>1, <1>2, LifeTypes
<1>7. \A u \in Task : ret'[u] = ret[u] \/ ret'[u].err # "OWNER_FAULTED"
  BY <1>1, <1>2, LifeTypes DEF Returns
<1> QED BY <1>1, <1>3, <1>4, <1>5, <1>6, <1>7 DEF Changed

LEMMA HandOffChanges ==
  ASSUME LifeInv, [Next]_kernelVars, UNCHANGED <<faultVars, lifeVars>>,
         NEW m \in Mutex, kMutexUnlock(m), UnlockHandOff(m)
  PROVE  \E w \in Task : Changed(w)
<1>1. PICK w \in Task : w = Head(waitQ[m])
  BY KernelParts, HandOffTodo
<1>2. /\ ~faulted[m] /\ lock[m] /\ owner[m] = run /\ Executing
      /\ waitQ' = [waitQ EXCEPT ![m] = Tail(@)]
      /\ wqp' = [wqp EXCEPT ![w] = None]
      /\ owner' = [owner EXCEPT ![m] = w]
      /\ owned' = [owned EXCEPT ![run] = @ \ {m}, ![w] = @ \cup {m}]
      /\ lock' = [lock EXCEPT ![m] = TRUE]
      /\ waitingFor' = [waitingFor EXCEPT ![w] = None]
      /\ todo' = (IF m \in Inherit
                  THEN <<UpdatePrioOf(run), UpdatePrioOf(w)>> ELSE <<>>)
                   \o <<ReadySwtchOf(w)>>
      /\ Returns("MUTEX_UNLOCK", m, "SUCCESS")
      /\ UNCHANGED <<run, status, prio, readyQ, pendSV, faulted, mesgPrio, call>>
  BY <1>1 DEF UnlockHandOff, kMutexUnlock, schedVars
<1>3. /\ w \in ToSet(waitQ[m])
      /\ \A o \in WaitObj : ToSet(waitQ'[o]) \subseteq ToSet(waitQ[o]) \ {w}
      /\ \A o \in WaitObj \ {m} : waitQ'[o] = waitQ[o]
      /\ \A c \in ToSet(todo') : c.op = "updatePrio" \/ c = ReadySwtchOf(w)
  BY <1>1, KernelParts, HandOffQueues, HandOffTodo
<1>4. /\ status[w] = "BLOCKED" /\ run \in Task /\ status[run] = "RUNNING" /\ w # run
      /\ w # None /\ m \in WaitObj
  BY <1>2, <1>3, QueuedBlocked, UserRuns, LifeTypes
<1>5. RegionOrder(todo')
  <2> DEFINE a == UpdatePrioOf(run)
             b == UpdatePrioOf(w)
             first == IF m \in Inherit THEN <<a, b>> ELSE <<>>
             last == <<ReadySwtchOf(w)>>
  <2>1. /\ a \in KernelCall /\ b \in KernelCall /\ ReadySwtchOf(w) \in KernelCall
        /\ a.op = "updatePrio" /\ b.op = "updatePrio"
    BY <1>4 DEF KernelCall, UpdatePrioOf, ReadySwtchOf
  <2>2. todo' = first \o last
    BY <1>2
  <2>3. RegionOrder(last)
    BY RegionShort
  <2> HIDE DEF a, b, KernelCall
  <2>4. last \in Seq(KernelCall) /\ first \in Seq(KernelCall) /\ ToSet(first) \subseteq {a, b}
    BY <2>1, SmallSequences, EmptyTodo
  <2> HIDE DEF first, last
  <2>5. \A c \in ToSet(first) : c.op = "updatePrio"
    BY <2>1, <2>4
  <2> QED BY <2>2, <2>3, <2>4, <2>5, RegionWalks
<1>6. PoisonInv'
  <2>1. /\ \A n \in Mutex : lock[n] <=> owner[n] # None
        /\ \A n \in Mutex : \A t \in Task : n \in owned[t] <=> owner[n] = t
    BY DEF LifeInv, PoisonInv
  <2>2. /\ lock'[m] /\ owner'[m] = w /\ owned'[run] = owned[run] \ {m}
        /\ owned'[w] = owned[w] \cup {m}
        /\ \A n \in Mutex \ {m} : lock'[n] = lock[n] /\ owner'[n] = owner[n]
        /\ \A t \in Task \ {run, w} : owned'[t] = owned[t]
    BY <1>2, <1>4, LifeTypes
  <2>3. /\ \A n \in Mutex : lock'[n] <=> owner'[n] # None
        /\ \A n \in Mutex : \A t \in Task : n \in owned'[t] <=> owner'[n] = t
    <3>1. \A n \in Mutex : lock'[n] <=> owner'[n] # None
      BY <1>4, <2>1, <2>2
    <3>2. ASSUME NEW t \in Task PROVE m \in owned'[t] <=> owner'[m] = t
      <4>1. m \in owned'[w] /\ m \notin owned'[run]
        BY <1>4, <2>2
      <4>2. t \notin {run, w} => owned'[t] = owned[t] /\ owner[m] # t
        BY <1>2, <2>2
      <4>3. t \notin {run, w} => m \notin owned'[t]
        BY <2>1, <4>2
      <4> QED BY <2>2, <4>1, <4>3
    <3>3. ASSUME NEW n \in Mutex \ {m}, NEW t \in Task PROVE n \in owned'[t] <=> owner'[n] = t
      <4>1. n \in owned'[t] <=> n \in owned[t]
        BY <1>4, <2>2
      <4> QED BY <2>1, <2>2, <4>1
    <3> QED BY <3>1, <3>2, <3>3
  <2>4. \A c \in ToSet(todo') : c.op # "faultWake"
    BY <1>3 DEF ReadySwtchOf
  <2>5. \A n \in Mutex : faulted[n] => waitQ'[n] = waitQ[n] /\ owner'[n] = owner[n]
    BY <1>2, <1>3, <2>2, LifeTypes
  <2> QED BY <1>2, <2>3, <2>4, <2>5, ChangedPoison
<1>7. wqp'[w] = None /\ waitingFor'[w] = None
      /\ \A u \in Task \ {w} : wqp'[u] = wqp[u] /\ waitingFor'[u] = waitingFor[u]
  BY <1>2, LifeTypes
<1>8. KernelBase'
  <2>1. KernelInv'
    BY KernelPart
  <2>2. ReadyPlaces'
    BY <1>2, KernelParts DEF ReadyPlaces
  <2>3. WaitPlaces'
    BY <1>2, <1>3, <1>7, PlacesFrame
  <2> QED BY <2>1, <2>2, <2>3 DEF KernelBase
<1>9. \A u \in Task : owned[u] = {} /\ status[u] = "TERMINATED" => owned'[u] = {}
  BY <1>2, <1>4, LifeTypes
<1>10. \A u \in Task : ret'[u] = ret[u] \/ ret'[u].err # "OWNER_FAULTED"
  BY <1>2, <1>4, LifeTypes DEF Returns
<1>11. Changed(w)
  BY <1>2, <1>3, <1>4, <1>5, <1>6, <1>7, <1>8, <1>9, <1>10 DEF Changed
<1> QED BY <1>11

LEMMA ResumeChanges ==
  ASSUME LifeInv, [Next]_kernelVars, UNCHANGED <<faultVars, lifeVars>>,
         NEW t \in Task, kTaskResume(t)
  PROVE  Changed(t)
<1>1. /\ status[t] = "SELF_SUSPENDED" /\ todo' = <<ReadySwtchOf(t)>> /\ Executing
      /\ Returns("NONE", None, "SUCCESS")
      /\ UNCHANGED <<run, status, prio, readyQ, pendSV, waitQ, wqp, lock, owner, faulted,
                     owned, waitingFor, mesgPrio, call>>
  BY DEF kTaskResume, schedVars, waitVars, mutexVars
<1>2. wqp[t] = None /\ waitingFor[t] = None /\ run \in Task
  BY <1>1, NotListed, UserRuns
<1>3. RegionOrder(todo') /\ ToSet(todo') = {ReadySwtchOf(t)}
  <2>1. \A d : ToSet(<<d>>) = {d}
    BY DEF ToSet
  <2> QED BY <1>1, <2>1, RegionShort
<1>4. PoisonInv'
  <2>1. \A c \in ToSet(todo') : c.op # "faultWake"
    BY <1>3 DEF ReadySwtchOf
  <2>2. /\ \A m \in Mutex : lock[m] <=> owner[m] # None
        /\ \A m \in Mutex : \A u \in Task : m \in owned[u] <=> owner[m] = u
    BY DEF LifeInv, PoisonInv
  <2> QED BY <1>1, <2>1, <2>2, ChangedPoison
<1>5. KernelBase'
  <2>1. KernelInv'
    BY KernelPart
  <2> QED BY <1>1, <2>1, KernelParts DEF KernelBase, ReadyPlaces, WaitPlaces
<1>6. \A u \in Task : ret'[u] = ret[u] \/ ret'[u].err # "OWNER_FAULTED"
  BY <1>1, <1>2, LifeTypes DEF Returns
<1> QED BY <1>1, <1>2, <1>3, <1>4, <1>5, <1>6 DEF Changed

LEMMA StutterKeeps ==
  ASSUME LifeInv, UNCHANGED systemVars
  PROVE  LifeInv'
<1>1. UNCHANGED kernelVars /\ UNCHANGED <<faultVars, lifeVars>>
  BY DEF systemVars, allVars
<1>2. KernelBase'
  BY <1>1, BaseStutter DEF KernelBase
<1>3. /\ UNCHANGED <<run, status, wqp, lock, owner, faulted, owned, waitingFor,
                     mesgPrio, call, ret, faultVars, lifeVars>>
      /\ UNCHANGED <<waitQ, todo, pendSV, readyQ, prio>>
  BY <1>1 DEF kernelVars, schedVars, waitVars, mutexVars, callVars
<1>4. RegionOrder(todo') /\ SwitchHeld /\ FirstInLine
  BY <1>3 DEF LifeInv, RegionInv, SwitchHeld, FirstInLine
<1> QED BY <1>2, <1>3, <1>4, NoneChanged

\* What the kernel does on its own account, and the calls on the scheduler and
\* on mutexes.
LEMMA KernelKeeps ==
  ASSUME LifeInv, KernelStep \/ Tick, UNCHANGED <<faultVars, lifeVars>>
  PROVE  LifeInv'
<1>1. CASE UpdatePrio
  BY <1>1, WalkEffects, WalkedKeeps
<1>2. CASE ReadySwtch \/ TimeoutReady
  BY <1>2, AwokenBase, AwokenKeeps
<1>3. CASE TimeoutExpire
  BY <1>3, ExpireEffects, ExpiredKeeps
<1>4. CASE Tick \/ TickEnd
  BY <1>4, TickEffects, TickedKeeps
<1>5. CASE kSwtch
  BY <1>5, SwitchKeeps
<1>6. ~SignalReady
  BY TodoHead DEF SignalReady, LifeInv, RegionInv
<1> QED BY <1>1, <1>2, <1>3, <1>4, <1>5, <1>6 DEF KernelStep

LEMMA ServiceKeeps ==
  ASSUME LifeInv, ~YieldWhenLocked, SchedCall \/ MutexCall, UNCHANGED <<faultVars, lifeVars>>
  PROVE  LifeInv'
<1>1. [Next]_kernelVars /\ Executing
  BY DEF Next, SchedCall, MutexCall, kSchLock, kSchUnlock, kYield, kSleepDelay,
         kTaskSelfSuspend, kTaskResume, kMutexLock, kMutexUnlock
<1>2. CASE SchedCall
  <2>1. CASE kSchLock \/ kSchUnlock
    BY <1>1, <2>1, AnswersInMutexCalls, AnsweredKeeps
  <2>2. CASE (schLock > 0 => YieldWhenLocked) /\ kYield
    BY <1>1, <2>2, YieldKeeps
  <2>3. CASE kTaskSelfSuspend \/ \E ticks \in Timeout : kSleepDelay(ticks)
    BY <1>1, <2>3, SuspendKinds, SuspendedKeeps
  <2>4. CASE \E t \in MaySuspend : kTaskResume(t)
    <3>1. PICK t \in MaySuspend : kTaskResume(t)
      BY <2>4
    <3>2. t \in Task
      BY MutexConstants DEF UserTask
    <3> QED BY <1>1, <3>1, <3>2, ResumeChanges, ChangedKeeps
  <2> QED BY <1>2, <2>1, <2>2, <2>3, <2>4 DEF SchedCall
<1>3. ASSUME NEW m \in Mutex, kMutexUnlock(m)
      PROVE  LifeInv'
  BY <1>1, <1>3, FreeChanges, HandOffChanges, ChangedKeeps DEF kMutexUnlock
<1>4. ASSUME NEW m \in Mutex, NEW timeout \in Timeout, kMutexLock(m, timeout)
      PROVE  LifeInv'
  <2>1. CASE LockFaulted(m) \/ LockNoWait(m, timeout)
    BY <1>1, <2>1, AnswersInMutexCalls, AnsweredKeeps
  <2>2. CASE LockFree(m)
    BY <1>1, <2>2, OwnChanges, ChangedKeeps
  <2>3. CASE LockBlock(m, timeout)
    BY <1>1, <2>3, SuspendKinds, SuspendedKeeps
  <2> QED BY <1>4, <2>1, <2>2, <2>3 DEF kMutexLock
<1> QED BY <1>2, <1>3, <1>4 DEF MutexCall

(***************************************************************************)
(* The invariant is kept: the steps of PostProc, and the ends of tasks.    *)
(***************************************************************************)
\* A handle that still names a task names its last life.
LEMMA ResolvesLast ==
  ASSUME LifeInv, NEW t \in UserTask, NEW k \in DOMAIN handles[t], Resolves(t, k)
  PROVE  k = Lives(t)
<1> DEFINE h == handles[t]
<1>1. /\ h \in Seq(Nat) /\ h # <<>> /\ generation[t] = h[k] /\ k \in DOMAIN h
      /\ \A i, j \in DOMAIN h : i < j => h[i] < h[j]
      /\ \A i \in DOMAIN h : h[i] <= generation[t]
  BY DEF LifeInv, LivesInv, Resolves
<1>2. Lives(t) = Len(h)
  BY DEF Lives
<1> HIDE DEF h
<1>3. /\ Len(h) \in Nat /\ DOMAIN h = 1 .. Len(h) /\ Len(h) > 0
  BY <1>1, LenProperties, EmptySeq
<1>4. Len(h) \in DOMAIN h /\ h[k] \in Nat /\ h[Len(h)] \in Nat
  BY <1>1, <1>3, ElementOfSeq
<1>5. ~(k < Len(h))
  BY <1>1, <1>4
<1> QED BY <1>1, <1>2, <1>3, <1>5

\* Who is put in front is first.
LEMMA JamHead ==
  ASSUME NEW S, NEW q \in Seq(S), NEW t \in S
  PROVE  Head(kTCBQJam(q, t)) = t
<1> DEFINE a == <<t>>
           b == a \o q
<1>1. a \in Seq(S) /\ Len(a) = 1 /\ a[1] = t /\ Len(q) \in Nat
  BY LenProperties
<1> HIDE DEF a
<1>2. /\ b \in Seq(S) /\ Len(b) = Len(a) + Len(q)
      /\ \A i \in 1 .. Len(a) + Len(q) : b[i] = IF i <= Len(a) THEN a[i] ELSE q[i - Len(a)]
  BY <1>1, ConcatProperties
<1> HIDE DEF b
<1>3. Len(b) > 0 /\ b[1] = t
  BY <1>1, <1>2
<1>4. Head(b) = t
  BY <1>2, <1>3, EmptySeq, HeadTailProperties
<1> QED BY <1>4 DEF kTCBQJam, a, b

\* A task leaves for PostProc, which comes next.
LEMMA LeavesKeeps ==
  ASSUME LifeInv, Executing, NEW st \in Leaving, LeftToPostProc(st),
         UNCHANGED <<cleaning, lifeVars>>, LeftInv'
  PROVE  LifeInv'
<1>1. GivesWay(st, TRUE) /\ KernelBase'
  BY LeavesToPostProc DEF KernelBase, Leaving
<1>2. /\ run \in Task /\ run # PostProc /\ status[run] = "RUNNING" /\ ~pendSV
      /\ todo = <<>> /\ Rests /\ PostProc \in Task /\ PostProc # run
      /\ wqp[run] = None /\ waitingFor[run] = None /\ call[run] = NoCall
      /\ readyQ \in [Prio -> Seq(Task)] /\ 0 \in Prio /\ PostInv /\ readyQ[0] \in Seq(Task)
      /\ status \in [Task -> Status]
  BY UserRuns, LifeTypes DEF LifeInv
<1>3. /\ pendSV' /\ todo' = <<>> /\ ToSet(todo') = {}
      /\ readyQ' = [readyQ EXCEPT ![0] = kTCBQJam(@, PostProc)]
      /\ status' = [status EXCEPT ![run] = st, ![PostProc] = "READY"]
      /\ UNCHANGED <<run, prio, waitQ, wqp, lock, owner, faulted, owned, waitingFor,
                     mesgPrio, call, ret>>
  BY <1>1, <1>2, EmptyTodo DEF GivesWay, waitVars, mutexVars, callVars
<1>4. /\ status'[run] = st /\ status'[PostProc] = "READY"
      /\ \A u \in Task \ {run, PostProc} : status'[u] = status[u]
      /\ UNCHANGED <<postStep, budget>>
  BY <1>2, <1>3 DEF LeftToPostProc
<1>5. CallInv' /\ ReportInv'
  <2>1. \A s \in {"READY", "RUNNING", "SLEEPING_EV_FLAG", "PENDING", "FAULT_PENDING"} :
          CallFor(s) = "NONE"
    BY DEF CallFor
  <2>2. \A u \in {run, PostProc} :
          call'[u].number = CallFor(status'[u]) /\ wqp'[u] = None /\ waitingFor'[u] = None
    BY <1>2, <1>3, <1>4, <2>1 DEF LifeInv, CallInv, Rests, Leaving
  <2>3. \A u \in Task :
           \/ /\ status'[u] = status[u] /\ call'[u].number = call[u].number
              /\ wqp'[u] = wqp[u] /\ waitingFor'[u] = waitingFor[u]
           \/ /\ call'[u].number = CallFor(status'[u])
              /\ status'[u] # "BLOCKED" => wqp'[u] = None /\ waitingFor'[u] = None
    BY <1>3, <1>4, <2>2
  <2> QED BY <1>3, <2>3, CallFrame, ReportFrame
<1>6. RegionInv' /\ CleanupInv' /\ PoisonInv' /\ RunInv'
  <2>1. PoisonInv'
    BY <1>2, <1>3, PoisonFrame
  <2> QED BY <1>3, <2>1, RegionShort DEF RegionInv, CleanupInv, RunInv
<1>7. PostInv' /\ status'[run'] # "TERMINATED"
  <2> DEFINE q == readyQ[0]
             j == kTCBQJam(q, PostProc)
  <2>1. Head(j) = PostProc
    BY <1>2, JamHead
  <2> HIDE DEF j
  <2>2. readyQ'[0] = j
    BY <1>2, <1>3 DEF j
  <2>3. Comes'
    BY <1>2, <1>3, <1>4, <2>1, <2>2 DEF Comes, Rests
  <2> QED BY <1>2, <1>3, <1>4, <2>3 DEF PostInv, Leaving
<1>8. SlotInv' /\ LivesInv'
  <2>1. AliveKept
    BY <1>2, <1>4 DEF AliveKept, Leaving, Rests
  <2>2. \A t : ReadySwtchOf(t) \notin ToSet(todo)
    BY <1>2, EmptyTodo
  <2> QED BY <1>3, <2>1, <2>2, SlotFrame
<1> QED BY <1>1, <1>5, <1>6, <1>7, <1>8 DEF LifeInv, KernelBase

LEMMA FaultKeeps ==
  ASSUME LifeInv, kTaskFaultTerminate, UNCHANGED lifeVars
  PROVE  LifeInv'
<1>1. /\ Executing /\ cleanupPending' = cleanupPending \cup {run}
      /\ LeftToPostProc("FAULT_PENDING") /\ UNCHANGED <<jobs, cleaning>>
  BY DEF kTaskFaultTerminate
<1>2. /\ cleanupPending = {} /\ jobs = <<>> /\ run \in UserTask /\ run # PostProc
      /\ run \in Task /\ PostProc \in Task
  BY <1>1, UserRuns, LifeTypes DEF Rests
<1>3. status'[run] = "FAULT_PENDING"
  BY <1>1, <1>2, LifeTypes, LeavesToPostProc DEF GivesWay
<1>4. LeftInv'
  BY <1>1, <1>2, <1>3 DEF LeftInv
<1> QED BY <1>1, <1>4, LeavesKeeps DEF Leaving

LEMMA LeaveKeeps ==
  ASSUME LifeInv, NEW t \in UserTask, NEW k \in DOMAIN handles[t], TerminateRunning(t, k)
  PROVE  LifeInv'
<1>1. /\ Executing /\ Resolves(t, k) /\ status[t] = "RUNNING"
      /\ jobs' = Append(jobs, TerminateJob(t)) /\ LeftToPostProc("PENDING")
      /\ misled' = (misled \/ k # Lives(t))
      /\ UNCHANGED <<cleanupPending, cleaning, spawned, generation, quarantine,
                     freeStacks, handles>>
  BY DEF TerminateRunning
<1>2. /\ cleanupPending = {} /\ jobs = <<>> /\ run \in UserTask /\ run # PostProc
      /\ run \in Task /\ PostProc \in Task
  BY <1>1, UserRuns, LifeTypes DEF Rests
<1>3. t = run
  BY <1>1, KernelParts, LifeTypes DEF ReadyInv
<1>4. status'[run] = "PENDING"
  BY <1>1, <1>2, LifeTypes, LeavesToPostProc DEF GivesWay
<1>5. UNCHANGED lifeVars
  <2>1. misled = FALSE /\ k = Lives(t)
    BY <1>1, ResolvesLast DEF LifeInv, LivesInv
  <2> QED BY <1>1, <2>1 DEF lifeVars
<1>6. LeftInv'
  <2>1. jobs' = <<TerminateJob(t)>>
    BY <1>1, <1>2
  <2>2. \E u \in UserTask : status'[u] = "PENDING" /\ jobs' = <<TerminateJob(u)>>'
    <3>1. status'[t] = "PENDING" /\ jobs' = <<TerminateJob(t)>>'
      BY <1>1, <1>3, <1>4, <2>1 DEF TerminateJob, Lives
    <3> QED BY <3>1
  <2> QED BY <1>1, <1>2, <2>2 DEF LeftInv
<1> QED BY <1>1, <1>5, <1>6, LeavesKeeps DEF Leaving

\* PostProc goes on in its loop: only what it keeps account of changes.
LEMMA RoundKeeps ==
  ASSUME LifeInv, run = PostProc, todo = <<>>, UNCHANGED <<kernelVars, lifeVars>>,
         LeftInv', Works', budget' \in Nat
  PROVE  LifeInv'
<1>1. KernelBase'
  BY BaseStutter DEF KernelBase
<1>2. /\ todo' = <<>> /\ ToSet(todo') = {} /\ RegionOrder(todo')
      /\ UNCHANGED <<run, status, prio, readyQ, pendSV, waitQ, wqp, lock, owner, faulted,
                     owned, waitingFor, mesgPrio, call, ret, todo>>
      /\ spawned' = spawned
  BY EmptyTodo, RegionShort DEF kernelVars, schedVars, waitVars, mutexVars, callVars, lifeVars
<1>3. CallInv' /\ ReportInv' /\ PoisonInv'
  BY <1>2, CallFrame, ReportFrame, PoisonFrame
<1>4. RegionInv' /\ CleanupInv'
  BY <1>2 DEF RegionInv, CleanupInv
<1>5. RunInv' /\ PostInv' /\ status'[run'] # "TERMINATED"
  BY <1>2 DEF LifeInv, RunInv, PostInv
<1>6. SlotInv' /\ LivesInv'
  BY <1>2, SlotFrame DEF AliveKept
<1> QED BY <1>1, <1>3, <1>4, <1>5, <1>6 DEF LifeInv, KernelBase

\* A mark is found, or none is left; the event PostProc waited for has come.
LEMMA ScanKeeps ==
  ASSUME LifeInv, UNCHANGED lifeVars,
         \/ (PostProcResume \/ FaultsScanned) /\ UNCHANGED <<cleanupPending, cleaning>>
         \/ \E t \in cleanupPending : PostProcTake(t)
  PROVE  LifeInv'
<1>1. /\ run = PostProc /\ todo = <<>> /\ Works /\ postStep \in {"wait", "scan"}
      /\ UNCHANGED kernelVars /\ jobs' = jobs
  BY PostProcRuns DEF PostProcResume, FaultsScanned, PostProcScanned, PostProcTake
<1>2. UNCHANGED <<status, pendSV, handles>> /\ LeftInv /\ PostInv
  BY <1>1 DEF kernelVars, schedVars, lifeVars, LifeInv
<1>3. cleaning = None
  BY <1>1 DEF Works
<1>4. QLen \in Nat \ {0}
  BY PostProcConstants
<1>5. Len(jobs) \in {0, 1}
  <2>1. \A x : Len(<<x>>) = 1
    OBVIOUS
  <2>2. jobs = <<>> => Len(jobs) = 0
    OBVIOUS
  <2> QED BY <1>2, <2>1, <2>2 DEF LeftInv
<1>6. CASE PostProcResume /\ UNCHANGED <<cleanupPending, cleaning>>
  <2>1. postStep' = "scan" /\ budget' = budget
    BY <1>6 DEF PostProcResume
  <2>2. LeftInv' /\ Works' /\ budget' \in Nat
    BY <1>1, <1>2, <1>3, <1>6, <2>1 DEF LeftInv, Works, PostInv, TerminateJob, Lives
  <2> QED BY <1>1, <2>2, RoundKeeps
<1>7. CASE FaultsScanned /\ UNCHANGED <<cleanupPending, cleaning>>
  <2>1. postStep' = "jobs" /\ budget' = QLen /\ cleanupPending = {}
    BY <1>7 DEF FaultsScanned, PostProcScanned
  <2>2. LeftInv'
    BY <1>1, <1>2, <1>7, <2>1 DEF LeftInv, TerminateJob, Lives
  <2>3. jobs' = jobs /\ budget' \in Nat /\ Len(jobs) <= budget'
    <3>1. jobs' = jobs /\ budget' \in Nat \ {0}
      BY <1>1, <1>4, <2>1
    <3> DEFINE n == Len(jobs)
    <3>2. n \in {0, 1}
      BY <1>5
    <3> HIDE DEF n
    <3>3. n <= budget'
      BY <3>1, <3>2
    <3> QED BY <3>1, <3>3 DEF n
  <2>4. Works'
    BY <1>1, <1>2, <1>3, <1>7, <2>1, <2>3 DEF Works
  <2> QED BY <1>1, <2>2, <2>3, <2>4, RoundKeeps
<1>8. CASE \E t \in cleanupPending : PostProcTake(t)
  <2>1. PICK t \in cleanupPending : PostProcTake(t)
    BY <1>8
  <2>2. /\ cleanupPending' = cleanupPending \ {t} /\ cleaning' = t
        /\ postStep' = "clean" /\ budget' = budget
    BY <2>1 DEF PostProcTake
  <2>3. t \in UserTask /\ status[t] = "FAULT_PENDING" /\ t # None
    BY <1>2, LifeTypes DEF LeftInv
  <2>4. LeftInv' /\ Works' /\ budget' \in Nat
    BY <1>1, <1>2, <2>2, <2>3 DEF LeftInv, Works, PostInv, TerminateJob, Lives
  <2> QED BY <1>1, <2>4, RoundKeeps
<1> QED BY <1>6, <1>7, <1>8

\* PostProc waits for its event again, with nothing left to do.
LEMMA WaitKeeps ==
  ASSUME LifeInv, PostProcWait, UNCHANGED <<cleanupPending, cleaning, lifeVars>>
  PROVE  LifeInv'
<1>1. /\ run = PostProc /\ todo = <<>> /\ Works /\ ~pendSV
      /\ cleaning = None /\ cleanupPending = {} /\ jobs' = <<>> /\ budget' = 0
      /\ cleaning' = None /\ cleanupPending' = {} /\ KernelBase'
  BY PostProcWaits DEF KernelBase
<1>2. LeftInv' /\ budget' \in Nat
  BY <1>1 DEF LeftInv
<1>3. CASE UNCHANGED kernelVars /\ postStep' = "scan"
  <2>1. UNCHANGED <<status, pendSV>>
    BY <1>3 DEF kernelVars, schedVars
  <2>2. Works'
    BY <1>1, <1>3, <2>1 DEF Works
  <2> QED BY <1>1, <1>2, <1>3, <2>2, RoundKeeps
<1>4. CASE GivesWay("SLEEPING_EV_FLAG", FALSE) /\ postStep' = "wait"
  <2>1. /\ pendSV' /\ todo' = <<>> /\ ToSet(todo') = {} /\ run \in Task
        /\ status' = [status EXCEPT ![run] = "SLEEPING_EV_FLAG"]
        /\ UNCHANGED <<run, prio, readyQ, waitQ, wqp, lock, owner, faulted, owned,
                       waitingFor, mesgPrio, call, ret>>
    <3>1. [status EXCEPT ![run] = "SLEEPING_EV_FLAG"]
            = [status EXCEPT ![run] = "SLEEPING_EV_FLAG", ![PostProc] = @]
      BY <1>1, LifeTypes DEF Works
    <3> QED BY <1>1, <1>4, <3>1, EmptyTodo, LifeTypes DEF GivesWay, waitVars, mutexVars, callVars
  <2>2. /\ status'[run] = "SLEEPING_EV_FLAG" /\ status[run] = "RUNNING"
        /\ \A u \in Task \ {run} : status'[u] = status[u]
    BY <1>1, <2>1, LifeTypes DEF Works
  <2>3. CallInv' /\ ReportInv'
    <3>1. call[run].number = CallFor("RUNNING") /\ CallFor("RUNNING") = CallFor("SLEEPING_EV_FLAG")
          /\ wqp[run] = None /\ waitingFor[run] = None
      BY <2>1, <2>2 DEF LifeInv, CallInv, CallFor
    <3>2. \A u \in Task :
             \/ /\ status'[u] = status[u] /\ call'[u].number = call[u].number
                /\ wqp'[u] = wqp[u] /\ waitingFor'[u] = waitingFor[u]
             \/ /\ call'[u].number = CallFor(status'[u])
                /\ status'[u] # "BLOCKED" => wqp'[u] = None /\ waitingFor'[u] = None
      BY <2>1, <2>2, <3>1
    <3> QED BY <2>1, <3>2, CallFrame, ReportFrame
  <2>4. RegionInv' /\ CleanupInv' /\ PoisonInv' /\ RunInv'
    <3>1. PoisonInv'
      BY <1>1, <2>1, PoisonFrame
    <3> QED BY <2>1, <3>1, RegionShort DEF RegionInv, CleanupInv, RunInv
  <2>5. PostInv' /\ status'[run'] # "TERMINATED"
    <3>1. Rests'
      BY <1>1, <1>4, <2>1, <2>2 DEF Rests
    <3> QED BY <1>1, <1>2, <2>1, <2>2, <3>1 DEF LifeInv, PostInv
  <2>6. SlotInv' /\ LivesInv'
    <3>1. AliveKept
      BY <2>1, <2>2 DEF AliveKept
    <3>2. \A t : ReadySwtchOf(t) \notin ToSet(todo)
      BY <1>1, EmptyTodo
    <3> QED BY <2>1, <3>1, <3>2, SlotFrame
  <2> QED BY <1>1, <1>2, <2>3, <2>4, <2>5, <2>6 DEF LifeInv, KernelBase
<1> QED BY <1>3, <1>4, PostProcWaits

\* A cleanup begins: its task is out of the queues, and waits for the rest.
LEMMA BeginKeeps ==
  ASSUME LifeInv, kTaskFaultCleanup, UNCHANGED lifeVars
  PROVE  LifeInv'
<1>1. PICK t \in Task : CleanupBegun(t)
  BY CleanupBegins
<1>2. KernelBase'
  BY <1>1, CleanupBase DEF KernelBase
<1>3. /\ t = cleaning /\ t \in UserTask \ cleanupPending /\ status[t] = "FAULT_PENDING"
      /\ run = PostProc /\ status[PostProc] = "RUNNING" /\ ~pendSV /\ todo = <<>>
      /\ todo' = <<FaultReleaseOf(t), FaultDoneOf(t)>>
      /\ postStep' = "scan" /\ cleaning' = None
      /\ \A u \in Task : wqp'[u] = wqp[u] /\ waitingFor'[u] = waitingFor[u]
      /\ UNCHANGED <<readyQ, waitQ, run, status, prio, pendSV, lock, owner, faulted, owned,
                     mesgPrio, call, ret, cleanupPending, jobs, budget, spawned, handles>>
  BY <1>1 DEF CleanupBegun, callVars, lifeVars
<1>4. /\ ToSet(todo') = {FaultReleaseOf(t), FaultDoneOf(t)} /\ RegionOrder(todo')
      /\ \A c \in ToSet(todo') : c.op \in FaultOps /\ c.task = t
      /\ ToSet(todo) = {}
  BY <1>3, CleanupTodo, RegionShort, EmptyTodo
<1>5. CallInv' /\ ReportInv'
  BY <1>3, CallFrame, ReportFrame
<1>6. RegionInv'
  BY <1>3, <1>4, RegionFrame DEF FaultOps, WakeOps
<1>7. PoisonInv'
  <2>1. \A m \in Mutex : FaultWakeOf(m) \notin ToSet(todo')
    BY <1>4 DEF FaultWakeOf, FaultOps
  <2> QED BY <1>3, <1>4, <2>1, PoisonFrame
<1>8. CleanupInv'
  BY <1>3, <1>4 DEF CleanupInv
<1>9. RunInv' /\ status'[run'] # "TERMINATED"
  BY <1>3 DEF RunInv
<1>10. LeftInv' /\ PostInv'
  <2>1. LeftInv'
    BY <1>3 DEF LifeInv, LeftInv, TerminateJob, Lives
  <2>2. Works'
    BY <1>3 DEF Works
  <2> QED BY <1>3, <2>1, <2>2 DEF LifeInv, PostInv
<1>11. SlotInv' /\ LivesInv'
  BY <1>3, <1>4, SlotFrame DEF AliveKept
<1> QED BY <1>2, <1>5, <1>6, <1>7, <1>8, <1>9, <1>10, <1>11 DEF LifeInv, KernelBase

\* A call of a cleanup leaves the scheduler and PostProc where they were.
LEMMA ReleaseFrame ==
  ASSUME LifeInv, UNCHANGED <<run, status, prio, readyQ, pendSV, mesgPrio, faultVars, lifeVars>>
  PROVE  /\ RunInv' /\ LeftInv' /\ PostInv' /\ status'[run'] # "TERMINATED" /\ AliveKept
<1>1. RunInv' /\ TasksKept /\ SwitchHeld /\ FirstInLine
  BY DEF LifeInv, RunInv, TasksKept, SwitchHeld, FirstInLine
<1> QED BY <1>1, PostFrame

\* A cleanup has released the mutexes of its task, or the waiters of a mutex.
LEMMA CallEndsKeeps ==
  ASSUME LifeInv, CallEnds, UNCHANGED lifeVars
  PROVE  LifeInv'
<1>1. /\ todo # <<>> /\ todo' = Tail(todo)
      /\ Head(todo).op \in {"faultRelease", "faultWake"}
      /\ Head(todo).op = "faultRelease" => owned[Head(todo).task] = {}
      /\ Head(todo).op = "faultWake" => waitQ[Head(todo).mutex] = <<>>
      /\ UNCHANGED <<run, status, prio, readyQ, pendSV, waitQ, wqp, lock, owner, faulted,
                     owned, waitingFor, mesgPrio, call, ret, faultVars, lifeVars>>
      /\ UNCHANGED <<postStep, cleaning, cleanupPending, spawned>>
  BY DEF CallEnds, schedVars, waitVars, mutexVars, callVars, faultVars, postVars, lifeVars
<1>2. ToSet(todo) = {Head(todo)} \cup ToSet(todo') /\ RegionOrder(todo')
  BY <1>1, TodoHead
<1>3. KernelBase'
  BY CallEndsBase DEF KernelBase
<1>4. CallInv' /\ ReportInv'
  BY <1>1, CallFrame, ReportFrame
<1>5. RegionInv'
  BY <1>1, <1>2, RegionFrame
<1>6. PoisonInv'
  <2>1. \A m \in Mutex : FaultWakeOf(m) = Head(todo) => waitQ[m] = <<>>
    <3> TAKE m \in Mutex
    <3> HAVE FaultWakeOf(m) = Head(todo)
    <3>1. FaultWakeOf(m).op = "faultWake" /\ FaultWakeOf(m).mutex = m
      BY DEF FaultWakeOf
    <3> QED BY <1>1, <3>1
  <2> QED BY <1>1, <1>2, <2>1, PoisonFrame
<1>7. CleanupInv'
  <2>1. \A t \in Task : FaultReleaseOf(t) = Head(todo) => owned[t] = {}
    <3> TAKE t \in Task
    <3> HAVE FaultReleaseOf(t) = Head(todo)
    <3>1. FaultReleaseOf(t).op = "faultRelease" /\ FaultReleaseOf(t).task = t
      BY DEF FaultReleaseOf
    <3> QED BY <1>1, <3>1
  <2> QED BY <1>1, <1>2, <2>1, CleanupFrame
<1>8. /\ RunInv' /\ LeftInv' /\ PostInv' /\ status'[run'] # "TERMINATED" /\ AliveKept
  BY <1>1, ReleaseFrame
<1>9. SlotInv' /\ LivesInv'
  <2>1. \A t \in spawned : ReadySwtchOf(t) # Head(todo)
    BY <1>1 DEF ReadySwtchOf
  <2> QED BY <1>1, <1>2, <1>8, <2>1, SlotFrame
<1> QED BY <1>3, <1>4, <1>5, <1>6, <1>7, <1>8, <1>9 DEF LifeInv, KernelBase

\* A mutex of the task is poisoned, and its waiters are released next.
LEMMA PoisonedKeeps ==
  ASSUME LifeInv, NEW t \in Task, NEW m \in Mutex, Poisoned(t, m), UNCHANGED lifeVars
  PROVE  LifeInv'
<1>1. /\ todo # <<>> /\ Head(todo) = FaultReleaseOf(t) /\ m \in owned[t]
      /\ owned' = [owned EXCEPT ![t] = @ \ {m}]
      /\ faulted' = [faulted EXCEPT ![m] = TRUE]
      /\ owner' = [owner EXCEPT ![m] = None]
      /\ lock' = [lock EXCEPT ![m] = FALSE]
      /\ todo' = <<FaultWakeOf(m)>> \o todo
      /\ UNCHANGED <<run, status, prio, readyQ, pendSV, waitQ, wqp, waitingFor,
                     mesgPrio, call, ret, faultVars, lifeVars>>
      /\ UNCHANGED <<postStep, cleaning, cleanupPending, spawned>>
  BY DEF Poisoned, schedVars, waitVars, callVars, faultVars, postVars, lifeVars
<1>2. KernelBase' /\ ToSet(todo') = {FaultWakeOf(m)} \cup ToSet(todo)
  BY PoisonedBase DEF KernelBase
<1>3. /\ owned \in [Task -> SUBSET Mutex] /\ faulted \in [Mutex -> BOOLEAN]
      /\ owner \in [Mutex -> Task \cup {None}] /\ lock \in [Mutex -> BOOLEAN]
      /\ None \notin Task /\ PoisonInv
  BY LifeTypes DEF LifeInv
<1>4. /\ owner'[m] = None /\ lock'[m] = FALSE /\ faulted'[m] = TRUE
      /\ \A n \in Mutex \ {m} : /\ owner'[n] = owner[n] /\ lock'[n] = lock[n]
                                /\ faulted'[n] = faulted[n]
      /\ owned'[t] = owned[t] \ {m} /\ \A u \in Task \ {t} : owned'[u] = owned[u]
  BY <1>1, <1>3
<1>5. CallInv' /\ ReportInv'
  <2>1. \A n \in Mutex : faulted[n] => faulted'[n]
    BY <1>4
  <2> QED BY <1>1, <2>1, CallFrame, ReportFrame
<1>6. RegionInv'
  <2>1. /\ Head(todo).op = "faultRelease" /\ FaultWakeOf(m).op = "faultWake"
        /\ FaultWakeOf(m) \in KernelCall
    BY <1>1 DEF FaultReleaseOf, FaultWakeOf, KernelCall
  <2>2. \A c \in ToSet(todo) : c.op \notin WakeOps \cup {"handleTimeouts"}
    BY <1>1, <2>1, TodoHead DEF WakeOps, FaultOps
  <2>3. todo \in Seq(KernelCall) /\ RegionOrder(todo)
    BY LifeTypes DEF LifeInv, RegionInv
  <2> HIDE DEF KernelCall
  <2>4. RegionOrder(todo')
    BY <1>1, <2>1, <2>2, <2>3, RegionCall
  <2> QED BY <1>1, <1>2, <2>1, <2>4, RegionFrame DEF WakeOps
<1>7. PoisonInv'
  <2>1. owner[m] = t
    BY <1>1, <1>3 DEF PoisonInv
  <2>2. ASSUME NEW n \in Mutex
        PROVE  /\ lock'[n] <=> owner'[n] # None
               /\ \A u \in Task : n \in owned'[u] <=> owner'[n] = u
               /\ faulted'[n] => /\ owner'[n] = None
                                 /\ waitQ'[n] = <<>> \/ FaultWakeOf(n) \in ToSet(todo')
               /\ FaultWakeOf(n) \in ToSet(todo') => faulted'[n]
    <3>1. CASE n = m
      <4>1. \A u \in Task : m \notin owned'[u]
        BY <1>3, <1>4, <2>1 DEF PoisonInv
      <4> QED BY <1>2, <1>3, <1>4, <3>1, <4>1
    <3>2. CASE n # m
      <4>1. /\ lock[n] <=> owner[n] # None
            /\ \A u \in Task : n \in owned[u] <=> owner[n] = u
            /\ faulted[n] => /\ owner[n] = None
                             /\ waitQ[n] = <<>> \/ FaultWakeOf(n) \in ToSet(todo)
            /\ FaultWakeOf(n) \in ToSet(todo) => faulted[n]
        BY <1>3 DEF PoisonInv
      <4>2. FaultWakeOf(n) # FaultWakeOf(m)
        BY <3>2 DEF FaultWakeOf
      <4>3. \A u \in Task : n \in owned'[u] <=> n \in owned[u]
        BY <1>4, <3>2
      <4> QED BY <1>1, <1>2, <1>4, <3>2, <4>1, <4>2, <4>3
    <3> QED BY <3>1, <3>2
  <2> QED BY <2>2 DEF PoisonInv
<1>8. CleanupInv'
  <2>1. FaultWakeOf(m).op \notin FaultOps
    BY DEF FaultWakeOf, FaultOps
  <2>2. \A u \in Task : owned[u] = {} => owned'[u] = {}
    BY <1>4
  <2> QED BY <1>1, <1>2, <2>1, <2>2, CleanupFrame
<1>9. /\ RunInv' /\ LeftInv' /\ PostInv' /\ status'[run'] # "TERMINATED" /\ AliveKept
  BY <1>1, ReleaseFrame
<1>10. SlotInv' /\ LivesInv'
  <2>1. \A u \in Task : owned[u] = {} => owned'[u] = {}
    BY <1>4
  <2> QED BY <1>1, <1>2, <1>9, <2>1, SlotFrame
<1> QED BY <1>2, <1>5, <1>6, <1>7, <1>8, <1>9, <1>10 DEF LifeInv, KernelBase

\* A waiter of a poisoned mutex is told, and made ready next.
LEMMA ToldKeeps ==
  ASSUME LifeInv, NEW m \in Mutex, NEW w \in Task, ToldOfFault(m, w), UNCHANGED lifeVars
  PROVE  LifeInv'
<1>1. /\ todo # <<>> /\ Head(todo) = FaultWakeOf(m) /\ todo' = <<ReadySwtchOf(w)>> \o todo
      /\ UNCHANGED <<run, status, prio, readyQ, pendSV, lock, owner, faulted, owned,
                     mesgPrio, ret, faultVars, lifeVars>>
      /\ UNCHANGED <<postStep, cleaning, cleanupPending, spawned>>
  BY DEF ToldOfFault, schedVars, faultVars, postVars, lifeVars
<1>2. /\ status[w] = "BLOCKED"
      /\ call'[w].number = "MUTEX_LOCK" /\ call'[w].arg = m
      /\ call'[w].wake = "OWNER_FAULTED"
      /\ wqp'[w] = None /\ waitingFor'[w] = None
      /\ \A u \in Task \ {w} : /\ wqp'[u] = wqp[u] /\ waitingFor'[u] = waitingFor[u]
                               /\ call'[u] = call[u]
      /\ \A o \in WaitObj : ToSet(waitQ'[o]) \subseteq ToSet(waitQ[o])
      /\ ToSet(todo') = {ReadySwtchOf(w)} \cup ToSet(todo)
      /\ \A c \in ToSet(todo) : c.op \notin WakeOps \cup {"handleTimeouts"}
  <2>1. \A o \in WaitObj : ToSet(waitQ'[o]) \subseteq ToSet(waitQ[o]) \ {w}
    BY ToldEffects
  <2>2. \A o \in WaitObj : ToSet(waitQ'[o]) \subseteq ToSet(waitQ[o])
    BY <2>1
  <2>3. /\ \A u \in Task \ {w} : /\ wqp'[u] = wqp[u] /\ waitingFor'[u] = waitingFor[u]
                                 /\ call'[u] = call[u]
        /\ ToSet(todo') = {ReadySwtchOf(w)} \cup ToSet(todo)
        /\ \A c \in ToSet(todo) : c.op \notin WakeOps \cup {"handleTimeouts"}
    BY ToldEffects
  <2> QED BY ToldEffects, <2>2, <2>3
<1>3. KernelBase'
  BY ToldBase DEF KernelBase
<1>4. faulted[m]
  <2>1. Head(todo) \in ToSet(todo)
    BY <1>1, TodoHead
  <2> QED BY <1>1, <2>1 DEF LifeInv, PoisonInv
<1>5. CallInv'
  <2>1. call'[w].number = CallFor(status'[w])
    BY <1>1, <1>2 DEF CallFor
  <2>2. \A u \in Task :
           \/ /\ status'[u] = status[u] /\ call'[u].number = call[u].number
              /\ wqp'[u] = wqp[u] /\ waitingFor'[u] = waitingFor[u]
           \/ /\ call'[u].number = CallFor(status'[u])
              /\ status'[u] # "BLOCKED" => wqp'[u] = None /\ waitingFor'[u] = None
    BY <1>1, <1>2, <2>1
  <2> QED BY <2>2, CallFrame
<1>6. ReportInv'
  BY <1>1, <1>2, <1>4, ReportFrame
<1>7. RegionInv'
  <2>1. /\ ReadySwtchOf(w).op = "ready" /\ ReadySwtchOf(w).task = w
        /\ ReadySwtchOf(w) \in KernelCall
    BY DEF ReadySwtchOf, KernelCall
  <2>2. todo \in Seq(KernelCall) /\ RegionOrder(todo)
    BY LifeTypes DEF LifeInv, RegionInv
  <2> HIDE DEF KernelCall
  <2>3. RegionOrder(todo')
    BY <1>1, <1>2, <2>1, <2>2, RegionCall
  <2>4. \A c \in ToSet(todo') : c.op # "signalReady"
    BY <1>2, <2>1 DEF WakeOps
  <2>5. ASSUME NEW c \in ToSet(todo'), c.op \in WakeOps
        PROVE  /\ status'[c.task] \in Woke
               /\ c.op = "ready" => wqp'[c.task] = None /\ waitingFor'[c.task] = None
               /\ status'[c.task] = "TERMINATED" => c.op = "ready" /\ c.task \in spawned'
    <3>1. c = ReadySwtchOf(w)
      BY <1>2, <2>5
    <3> QED BY <1>1, <1>2, <2>1, <3>1 DEF Woke
  <2> QED BY <2>3, <2>4, <2>5 DEF RegionInv
<1>8. PoisonInv'
  <2>1. \A n \in Mutex : waitQ[n] = <<>> => waitQ'[n] = <<>>
    BY <1>2, <1>3, StaysEmpty, LifeTypes DEF KernelBase
  <2>2. \A n \in Mutex : FaultWakeOf(n) # ReadySwtchOf(w)
    BY DEF FaultWakeOf, ReadySwtchOf
  <2> QED BY <1>1, <1>2, <2>1, <2>2, PoisonFrame
<1>9. CleanupInv'
  <2>1. ReadySwtchOf(w).op \notin FaultOps
    BY DEF ReadySwtchOf, FaultOps
  <2> QED BY <1>1, <1>2, <2>1, CleanupFrame
<1>10. /\ RunInv' /\ LeftInv' /\ PostInv' /\ status'[run'] # "TERMINATED" /\ AliveKept
  BY <1>1, ReleaseFrame
<1>11. SlotInv' /\ LivesInv'
  BY <1>1, <1>2, <1>10, SlotFrame
<1> QED BY <1>3, <1>5, <1>6, <1>7, <1>8, <1>9, <1>10, <1>11 DEF LifeInv, KernelBase

LEMMA ReleaseKeeps ==
  ASSUME LifeInv, FaultWake \/ \E t \in Task : FaultRelease(t), UNCHANGED lifeVars
  PROVE  LifeInv'
BY ReleaseKinds, CallEndsKeeps, PoisonedKeeps, ToldKeeps

(***************************************************************************)
(* Slots and handles at the end and at the beginning of a life.            *)
(***************************************************************************)
LEMMA SpawnedFinite ==
  ASSUME LifeInv
  PROVE  IsFiniteSet(spawned) /\ Cardinality(spawned) \in Nat
<1>1. spawned \in SUBSET Task /\ IsFiniteSet(Task)
  BY LifeTypes, KernelConstants DEF LifeInv, SlotInv
<1>2. IsFiniteSet(spawned)
  BY <1>1, FS_Subset
<1> QED BY <1>2, FS_CardinalityType

\* The generation of a slot goes on when its life has ended: its handles are
\* stale, and those of the other slots as good as before.
LEMMA HandlesStale ==
  ASSUME LifeInv, NEW t \in UserTask, status'[t] = "TERMINATED",
         \A u \in Task \ {t} : status'[u] = status[u],
         generation' = [generation EXCEPT ![t] = @ + 1], handles' = handles,
         \A u \in UserTask \ {t} : u \in spawned' <=> u \in spawned, misled' = FALSE
  PROVE  LivesInv'
<1>1. /\ LivesInv /\ UserTask \subseteq Task
      /\ generation \in [UserTask -> Nat] /\ handles \in [UserTask -> Seq(Nat)]
  BY LifeTypes DEF LifeInv, LivesInv
<1>2. /\ generation' \in [UserTask -> Nat] /\ generation'[t] = generation[t] + 1
      /\ \A u \in UserTask \ {t} : generation'[u] = generation[u]
  BY <1>1
<1>3. ASSUME NEW u \in UserTask
      PROVE  /\ handles'[u] # <<>>
             /\ \A i, j \in DOMAIN handles'[u] : i < j => handles'[u][i] < handles'[u][j]
             /\ \A i \in DOMAIN handles'[u] :
                  /\ handles'[u][i] <= generation'[u]
                  /\ status'[u] = "TERMINATED" /\ u \notin spawned' =>
                       handles'[u][i] < generation'[u]
  <2>1. /\ handles[u] # <<>> /\ handles[u] \in Seq(Nat)
        /\ \A i, j \in DOMAIN handles[u] : i < j => handles[u][i] < handles[u][j]
        /\ \A i \in DOMAIN handles[u] :
             /\ handles[u][i] <= generation[u]
             /\ status[u] = "TERMINATED" /\ u \notin spawned => handles[u][i] < generation[u]
    BY <1>1 DEF LivesInv
  <2>2. \A i \in DOMAIN handles[u] : handles[u][i] \in Nat
    BY <2>1, ElementOfSeq, LenProperties
  <2>3. CASE u = t
    <3>1. generation[t] \in Nat
      BY <1>1
    <3>2. \A i \in DOMAIN handles[u] : handles[u][i] < generation'[u]
      BY <1>2, <2>1, <2>2, <2>3, <3>1
    <3> QED BY <1>2, <2>1, <2>2, <2>3, <3>1, <3>2
  <2>4. CASE u # t
    BY <1>1, <1>2, <2>1, <2>4
  <2> QED BY <2>3, <2>4
<1> QED BY <1>1, <1>2, <1>3 DEF LivesInv

LEMMA SlotReleased ==
  ASSUME LifeInv, NEW t, Ended(t), t \in spawned, ReleaseSlot(t), misled' = FALSE,
         \A u \in Task : ReadySwtchOf(u) \notin ToSet(todo)
  PROVE  SlotInv' /\ LivesInv'
<1>1. /\ t \in UserTask /\ t \in Task /\ owned[t] = {} /\ status[t] # "TERMINATED"
      /\ status'[t] = "TERMINATED" /\ \A u \in Task \ {t} : status'[u] = status[u]
      /\ owned' = owned
  BY EndedEffects DEF Ended, mutexVars
<1>2. /\ spawned' = spawned \ {t} /\ freeStacks' = freeStacks + 1
      /\ generation' = [generation EXCEPT ![t] = @ + 1]
      /\ UNCHANGED <<quarantine, handles>>
  BY DEF ReleaseSlot
<1>3. SlotInv /\ UserTask \subseteq Task
  BY LifeTypes DEF LifeInv
<1>4. LivesInv'
  <2>1. \A u \in UserTask \ {t} : u \in spawned' <=> u \in spawned
    BY <1>2
  <2> QED BY <1>1, <1>2, <2>1, HandlesStale
<1>5. /\ freeStacks' \in Nat /\ Cardinality(spawned') + freeStacks' = StackBlocks
  <2>1. Cardinality(spawned \ {t}) = Cardinality(spawned) - 1 /\ Cardinality(spawned) \in Nat
    BY SpawnedFinite, FS_RemoveElement
  <2>2. freeStacks \in Nat /\ Cardinality(spawned) + freeStacks = StackBlocks
    BY <1>3 DEF SlotInv
  <2>3. Cardinality(spawned') = Cardinality(spawned) - 1
    BY <1>2, <2>1
  <2> QED BY <1>2, <2>1, <2>2, <2>3
<1>6. /\ spawned' \subseteq UserTask /\ quarantine' \subseteq UserTask
      /\ \A u \in spawned' : status'[u] # "TERMINATED" \/ ReadySwtchOf(u) \in ToSet(todo')
  BY <1>1, <1>2, <1>3 DEF SlotInv
<1>7. \A u \in quarantine' : status'[u] = "TERMINATED" /\ u \notin spawned'
  BY <1>1, <1>2, <1>3 DEF SlotInv
<1>8. \A u \in Task : status'[u] = "TERMINATED" => u \in UserTask /\ owned'[u] = {}
  BY <1>1, <1>3 DEF SlotInv
<1> QED BY <1>4, <1>5, <1>6, <1>7, <1>8 DEF SlotInv

LEMMA SlotQuarantined ==
  ASSUME LifeInv, NEW t, Ended(t), t \notin spawned, misled' = FALSE,
         quarantine' = quarantine \cup {t},
         generation' = [generation EXCEPT ![t] = @ + 1],
         UNCHANGED <<spawned, freeStacks, handles>>,
         \A u \in Task : ReadySwtchOf(u) \notin ToSet(todo)
  PROVE  SlotInv' /\ LivesInv'
<1>1. /\ t \in UserTask /\ t \in Task /\ owned[t] = {}
      /\ status'[t] = "TERMINATED" /\ \A u \in Task \ {t} : status'[u] = status[u]
      /\ owned' = owned
  BY EndedEffects DEF Ended, mutexVars
<1>2. SlotInv /\ UserTask \subseteq Task
  BY LifeTypes DEF LifeInv
<1>3. LivesInv'
  BY <1>1, HandlesStale
<1>4. /\ freeStacks' \in Nat /\ Cardinality(spawned') + freeStacks' = StackBlocks
      /\ spawned' \subseteq UserTask /\ quarantine' \subseteq UserTask
  BY <1>1, <1>2 DEF SlotInv
<1>5. \A u \in spawned' : status'[u] # "TERMINATED" \/ ReadySwtchOf(u) \in ToSet(todo')
  BY <1>1, <1>2 DEF SlotInv
<1>6. \A u \in quarantine' : status'[u] = "TERMINATED" /\ u \notin spawned'
  BY <1>1, <1>2 DEF SlotInv
<1>7. \A u \in Task : status'[u] = "TERMINATED" => u \in UserTask /\ owned'[u] = {}
  BY <1>1, <1>2 DEF SlotInv
<1> QED BY <1>3, <1>4, <1>5, <1>6, <1>7 DEF SlotInv

(***************************************************************************)
(* The ends of tasks.                                                      *)
(***************************************************************************)
\* What an end does to the kernel, whichever way it came.
LEMMA EndedFrame ==
  ASSUME LifeInv, NEW t, Ended(t),
         \A m \in Mutex : FaultWakeOf(m) \notin ToSet(todo),
         \A u \in Task : ret'[u] = ret[u] \/ ret'[u].err # "OWNER_FAULTED"
  PROVE  /\ KernelBase' /\ RunInv' /\ CallInv' /\ RegionInv' /\ PoisonInv'
         /\ ReportInv' /\ CleanupInv' /\ status'[run'] # "TERMINATED" /\ FirstInLine
         /\ \A u \in Task \ {t} : status'[u] = status[u]
         /\ t \in Task /\ t # PostProc /\ t # run /\ status'[t] = "TERMINATED"
         /\ UNCHANGED <<run, prio, pendSV, mesgPrio>>
<1>1. /\ t \in Task /\ t # PostProc /\ t # run /\ status'[t] = "TERMINATED"
      /\ call'[t] = NoCall
      /\ \A u \in Task \ {t} : status'[u] = status[u] /\ call'[u] = call[u]
  BY EndedEffects DEF Ended
<1>2. /\ UNCHANGED <<run, prio, pendSV, waitQ, wqp, lock, owner, faulted, owned,
                     waitingFor, mesgPrio>>
      /\ ToSet(todo') = {} /\ todo' \in Seq(KernelCall) /\ status[t] # "BLOCKED"
  BY DEF Ended, waitVars, mutexVars
<1>3. KernelBase'
  BY EndedBase DEF KernelBase
<1>4. run \in Task /\ status[run] # "TERMINATED" /\ prio \in [Task -> Prio]
      /\ readyQ \in [Prio -> Seq(Task)] /\ 0 \in Prio
  BY LifeTypes DEF LifeInv
<1>5. RunInv' /\ status'[run'] # "TERMINATED"
  <2>1. status'[run] = status[run]
    BY <1>1, <1>4
  <2> QED BY <1>2, <1>4, <2>1 DEF LifeInv, RunInv
<1>6. CallInv'
  <2>1. wqp[t] = None /\ waitingFor[t] = None /\ NoCall.number = CallFor("TERMINATED")
    BY <1>1, <1>2, NotListed DEF NoCall, CallFor
  <2>2. \A u \in Task :
           \/ /\ status'[u] = status[u] /\ call'[u].number = call[u].number
              /\ wqp'[u] = wqp[u] /\ waitingFor'[u] = waitingFor[u]
           \/ /\ call'[u].number = CallFor(status'[u])
              /\ status'[u] # "BLOCKED" => wqp'[u] = None /\ waitingFor'[u] = None
    BY <1>1, <1>2, <2>1
  <2> QED BY <2>2, CallFrame
<1>7. RegionInv' /\ CleanupInv'
  <2>1. todo' = <<>>
    BY <1>2, EmptySet
  <2> QED BY <1>2, <2>1, RegionShort DEF RegionInv, CleanupInv
<1>8. PoisonInv'
  BY <1>2, PoisonFrame
<1>9. ReportInv'
  <2>1. NoCall.wake # "OWNER_FAULTED"
    BY DEF NoCall
  <2>2. \A u \in Task : call'[u].wake # "OWNER_FAULTED" \/ call'[u] = call[u]
    BY <1>1, <2>1
  <2> QED BY <1>2, <2>2, ReportFrame
<1>10. FirstInLine
  <2>1. readyQ'[0] \in {readyQ[0], kTCBQRem(readyQ[0], t), kTCBQEnq(readyQ[0], t)}
    BY <1>1, <1>4 DEF Ended
  <2> QED BY <1>1, <2>1, LineKept
<1> QED BY <1>1, <1>2, <1>3, <1>5, <1>6, <1>7, <1>8, <1>9, <1>10

\* A task ends another one.
LEMMA OtherKeeps ==
  ASSUME LifeInv, NEW t \in UserTask, NEW k \in DOMAIN handles[t], TerminateOther(t, k)
  PROVE  LifeInv'
<1>1. /\ Executing /\ Resolves(t, k) /\ EndTask(t)
      /\ Returns("TASK_TERMINATE", None, "SUCCESS")
      /\ misled' = (misled \/ k # Lives(t)) /\ UNCHANGED postVars
  BY DEF TerminateOther
<1>2. Ended(t) /\ t \in spawned /\ Rests /\ run # PostProc /\ run \in Task /\ ~pendSV
  BY OtherEnds
<1>3. status[run] = "RUNNING" /\ todo = <<>> /\ ToSet(todo) = {}
  BY <1>1, UserRuns
<1>4. ReleaseSlot(t) /\ UNCHANGED <<cleanupPending, cleaning>>
  BY <1>1 DEF EndTask
<1>5. misled' = FALSE
  BY <1>1, ResolvesLast DEF LifeInv, LivesInv
<1>6. \A u \in Task : ret'[u] = ret[u] \/ ret'[u].err # "OWNER_FAULTED"
  <2>1. "TASK_TERMINATE" \in ResultNumber /\ "SUCCESS" \in Err
    BY DEF ResultNumber, Err
  <2>2. ret'[run].err = "SUCCESS" /\ \A u \in Task \ {run} : ret'[u] = ret[u]
    BY <1>1, <2>1, ReturnsTo
  <2> QED BY <2>2
<1>7. /\ KernelBase' /\ RunInv' /\ CallInv' /\ RegionInv' /\ PoisonInv'
      /\ ReportInv' /\ CleanupInv' /\ status'[run'] # "TERMINATED"
      /\ \A u \in Task \ {t} : status'[u] = status[u]
      /\ t # PostProc /\ t # run
      /\ UNCHANGED <<run, prio, pendSV, mesgPrio>>
  BY <1>2, <1>3, <1>6, EndedFrame
<1>8. SlotInv' /\ LivesInv'
  BY <1>2, <1>3, <1>4, <1>5, SlotReleased
<1>9. LeftInv' /\ PostInv'
  <2>1. UNCHANGED <<cleanupPending, cleaning, postStep, jobs, budget>>
    BY <1>1, <1>4 DEF postVars
  <2>2. PostProc \in Task /\ status'[PostProc] = status[PostProc] /\ status'[run] = "RUNNING"
    BY <1>2, <1>3, <1>7, LifeTypes
  <2>3. Rests' /\ LeftInv'
    BY <1>2, <2>1, <2>2 DEF Rests, LeftInv
  <2> QED BY <1>2, <1>7, <2>1, <2>2, <2>3 DEF LifeInv, PostInv, Leaving
<1> QED BY <1>7, <1>8, <1>9 DEF LifeInv, KernelBase

\* A job ends the task that left it.
LEMMA JobKeeps ==
  ASSUME LifeInv, NEW job, PostProcTerminate(job)
  PROVE  LifeInv'
<1>1. /\ Works /\ run = PostProc /\ todo = <<>> /\ ToSet(todo) = {} /\ postStep = "jobs"
      /\ JobDropped \/ \E t \in UserTask : JobEnds(t, Head(jobs).life)
  BY JobKinds, EmptyTodo
<1>2. jobs # <<>> /\ jobs' = Tail(jobs) /\ budget > 0 /\ budget' = budget - 1
      /\ UNCHANGED <<cleanupPending, cleaning, postStep>>
  BY <1>1 DEF JobDropped, JobEnds
<1>3. PICK u \in UserTask : status[u] = "PENDING" /\ jobs = <<TerminateJob(u)>>
  BY <1>2 DEF LifeInv, LeftInv
<1>4. /\ jobs' = <<>> /\ Head(jobs) = TerminateJob(u)
      /\ cleanupPending = {} /\ cleaning = None /\ status[PostProc] = "RUNNING" /\ ~pendSV
  BY <1>1, <1>2, <1>3 DEF Works
<1>5. /\ budget' \in Nat /\ Len(jobs') <= budget'
  <2>1. budget \in Nat
    BY DEF LifeInv, PostInv
  <2>2. Len(<<>>) = 0
    OBVIOUS
  <2>3. budget' \in Nat
    BY <1>2, <2>1
  <2> DEFINE n == Len(jobs')
  <2>4. n = 0
    BY <1>4, <2>2
  <2> HIDE DEF n
  <2>5. n <= budget'
    BY <2>3, <2>4
  <2> QED BY <2>3, <2>5 DEF n
<1>6. LeftInv'
  BY <1>2, <1>4 DEF LeftInv
<1>7. CASE JobDropped
  <2>1. UNCHANGED <<kernelVars, lifeVars>> /\ UNCHANGED <<status, pendSV>>
    BY <1>7 DEF JobDropped, kernelVars, schedVars
  <2>2. Works'
    BY <1>1, <1>2, <1>4, <1>5, <2>1 DEF Works
  <2> QED BY <1>1, <1>5, <1>6, <2>1, <2>2, RoundKeeps
<1>8. CASE \E t \in UserTask : JobEnds(t, Head(jobs).life)
  <2>1. PICK t \in UserTask : JobEnds(t, Head(jobs).life)
    BY <1>8
  <2>2. /\ Ended(t) /\ t \in spawned /\ ReleaseSlot(t) /\ Head(jobs).task = t
        /\ misled' = (misled \/ Head(jobs).life # Lives(t))
    BY <2>1 DEF JobEnds
  <2>3. t = u /\ Head(jobs).life = Lives(t)
    BY <1>4, <2>2 DEF TerminateJob
  <2>4. misled' = FALSE
    BY <2>2, <2>3 DEF LifeInv, LivesInv
  <2>5. ret' = ret
    BY DEF PostProcTerminate
  <2>6. /\ KernelBase' /\ RunInv' /\ CallInv' /\ RegionInv' /\ PoisonInv'
        /\ ReportInv' /\ CleanupInv' /\ status'[run'] # "TERMINATED"
        /\ \A v \in Task \ {t} : status'[v] = status[v]
        /\ t # PostProc /\ t # run
        /\ UNCHANGED <<run, prio, pendSV, mesgPrio>>
    BY <1>1, <2>2, <2>5, EndedFrame
  <2>7. SlotInv' /\ LivesInv'
    BY <1>1, <2>2, <2>4, SlotReleased
  <2>8. status'[PostProc] = "RUNNING"
    BY <1>4, <2>6, LifeTypes
  <2>9. Works'
    BY <1>1, <1>2, <1>4, <1>5, <2>6, <2>8 DEF Works
  <2>10. PostInv'
    BY <1>1, <1>5, <2>6, <2>9 DEF LifeInv, PostInv
  <2> QED BY <1>6, <2>6, <2>7, <2>10 DEF LifeInv, KernelBase
<1> QED BY <1>1, <1>7, <1>8

\* A cleanup ends its task.
LEMMA FaultEndKeeps ==
  ASSUME LifeInv, FaultEnd
  PROVE  LifeInv'
<1>1. PICK t \in UserTask : FaultEnded(t)
  BY FaultEnds
<1>2. /\ Ended(t) /\ status[t] = "FAULT_PENDING" /\ t \notin cleanupPending
      /\ run = PostProc /\ postStep = "scan" /\ cleaning = None
      /\ \A m \in Mutex : FaultWakeOf(m) \notin ToSet(todo)
      /\ \A u \in Task : ReadySwtchOf(u) \notin ToSet(todo)
      /\ UNCHANGED <<misled, ret, faultVars>>
  BY <1>1 DEF FaultEnded
<1>3. /\ KernelBase' /\ RunInv' /\ CallInv' /\ RegionInv' /\ PoisonInv'
      /\ ReportInv' /\ CleanupInv' /\ status'[run'] # "TERMINATED"
      /\ \A u \in Task \ {t} : status'[u] = status[u]
      /\ t # PostProc /\ t # run /\ UNCHANGED <<run, prio, pendSV, mesgPrio>>
  BY <1>2, EndedFrame
<1>4. misled' = FALSE
  BY <1>2 DEF LifeInv, LivesInv
<1>5. SlotInv' /\ LivesInv'
  <2>1. CASE t \in spawned
    <3>1. ReleaseSlot(t)
      BY <1>1, <2>1 DEF FaultEnded
    <3> QED BY <1>2, <1>4, <2>1, <3>1, SlotReleased
  <2>2. CASE t \notin spawned
    <3>1. /\ quarantine' = quarantine \cup {t}
          /\ generation' = [generation EXCEPT ![t] = @ + 1]
          /\ UNCHANGED <<spawned, freeStacks, handles>>
      BY <1>1, <2>2 DEF FaultEnded
    <3> QED BY <1>2, <1>4, <2>2, <3>1, SlotQuarantined
  <2> QED BY <2>1, <2>2
<1>6. UNCHANGED <<cleanupPending, cleaning, postStep, jobs, budget, handles>>
  BY <1>1, <1>2 DEF FaultEnded, ReleaseSlot, faultVars, postVars
<1>7. LeftInv'
  <2>1. /\ \A u \in cleanupPending : u \in UserTask /\ status[u] = "FAULT_PENDING"
        /\ \/ jobs = <<>>
           \/ \E u \in UserTask : status[u] = "PENDING" /\ jobs = <<TerminateJob(u)>>
    BY DEF LifeInv, LeftInv
  <2>2. UserTask \subseteq Task
    BY LifeTypes
  <2>3. \A u \in cleanupPending' : u \in UserTask /\ status'[u] = "FAULT_PENDING"
    BY <1>2, <1>3, <1>6, <2>1, <2>2
  <2>4. \/ jobs' = <<>>
        \/ \E u \in UserTask : status'[u] = "PENDING" /\ jobs' = <<TerminateJob(u)>>'
    BY <1>2, <1>3, <1>6, <2>1, <2>2 DEF TerminateJob, Lives
  <2> QED BY <2>3, <2>4 DEF LeftInv
<1>8. PostInv'
  <2>1. Works /\ PostProc \in Task
    BY <1>2, LifeTypes DEF LifeInv, PostInv, Rests
  <2>2. status'[PostProc] = status[PostProc]
    BY <1>3, <2>1
  <2>3. Works'
    BY <1>2, <1>3, <1>6, <2>1, <2>2 DEF Works
  <2> QED BY <1>2, <1>3, <1>6, <2>3 DEF LifeInv, PostInv
<1> QED BY <1>3, <1>5, <1>7, <1>8 DEF LifeInv, KernelBase

(***************************************************************************)
(* The beginning of tasks.                                                 *)
(***************************************************************************)
\* A larger number behind a sequence of numbers that grow.
LEMMA GrowingAppend ==
  ASSUME NEW h \in Seq(Nat), NEW g \in Nat,
         \A i, j \in DOMAIN h : i < j => h[i] < h[j],
         \A i \in DOMAIN h : h[i] < g
  PROVE  /\ Append(h, g) \in Seq(Nat) /\ Append(h, g) # <<>>
         /\ \A i, j \in DOMAIN Append(h, g) : i < j => Append(h, g)[i] < Append(h, g)[j]
         /\ \A i \in DOMAIN Append(h, g) : Append(h, g)[i] <= g
<1> DEFINE a == Append(h, g)
           n == Len(h)
<1>1. /\ a \in Seq(Nat) /\ a # <<>> /\ Len(a) = n + 1 /\ a[n + 1] = g
      /\ \A i \in 1 .. n : a[i] = h[i]
  BY AppendProperties
<1>2. n \in Nat /\ DOMAIN h = 1 .. n /\ DOMAIN a = 1 .. n + 1
  BY <1>1, LenProperties
<1>3. \A i \in 1 .. n : h[i] \in Nat
  BY <1>2, ElementOfSeq
<1> HIDE DEF a, n
<1>4. \A i, j \in DOMAIN a : i < j => a[i] < a[j]
  <2> TAKE i, j \in DOMAIN a
  <2> HAVE i < j
  <2>1. i \in 1 .. n /\ a[i] = h[i]
    BY <1>1, <1>2
  <2>2. CASE j = n + 1
    BY <1>1, <1>2, <2>1, <2>2
  <2>3. CASE j # n + 1
    BY <1>1, <1>2, <2>1, <2>3
  <2> QED BY <2>2, <2>3
<1>5. \A i \in DOMAIN a : a[i] <= g
  <2> TAKE i \in DOMAIN a
  <2>1. CASE i = n + 1
    BY <1>1, <2>1
  <2>2. CASE i # n + 1
    <3>1. i \in 1 .. n
      BY <1>2, <2>2
    <3> QED BY <1>1, <1>2, <1>3, <3>1
  <2> QED BY <2>1, <2>2
<1> QED BY <1>1, <1>4, <1>5 DEF a

LEMMA SpawnedSlot ==
  ASSUME LifeInv, NEW t \in UserTask, SpawnedInto(t)
  PROVE  SlotInv' /\ LivesInv'
<1>1. /\ t \in Task /\ t \notin quarantine /\ t \notin spawned /\ status[t] = "TERMINATED"
      /\ freeStacks > 0 /\ freeStacks' = freeStacks - 1 /\ spawned' = spawned \cup {t}
      /\ handles' = [handles EXCEPT ![t] = Append(@, generation[t])]
      /\ ToSet(todo) = {} /\ ToSet(todo') = {ReadySwtchOf(t)}
      /\ UNCHANGED <<status, owned, generation, quarantine, misled>>
  BY LifeTypes, EmptyTodo DEF SpawnedInto, mutexVars
<1>2. SlotInv /\ LivesInv /\ UserTask \subseteq Task
  BY LifeTypes DEF LifeInv
<1>3. SlotInv'
  <2>1. freeStacks' \in Nat /\ Cardinality(spawned') + freeStacks' = StackBlocks
    <3>1. Cardinality(spawned \cup {t}) = Cardinality(spawned) + 1 /\ Cardinality(spawned) \in Nat
      BY <1>1, SpawnedFinite, FS_AddElement
    <3>2. freeStacks \in Nat /\ Cardinality(spawned) + freeStacks = StackBlocks
      BY <1>2 DEF SlotInv
    <3>3. Cardinality(spawned') = Cardinality(spawned) + 1
      BY <1>1, <3>1
    <3> QED BY <1>1, <3>1, <3>2, <3>3
  <2>2. \A u \in spawned' : status'[u] # "TERMINATED" \/ ReadySwtchOf(u) \in ToSet(todo')
    BY <1>1, <1>2 DEF SlotInv
  <2>3. \A u \in quarantine' : status'[u] = "TERMINATED" /\ u \notin spawned'
    BY <1>1, <1>2 DEF SlotInv
  <2> QED BY <1>1, <1>2, <2>1, <2>2, <2>3 DEF SlotInv
<1>4. LivesInv'
  <2> DEFINE h == handles[t]
             g == generation[t]
             a == Append(h, g)
  <2>1. /\ h \in Seq(Nat) /\ g \in Nat /\ handles \in [UserTask -> Seq(Nat)]
        /\ generation \in [UserTask -> Nat]
        /\ \A i, j \in DOMAIN h : i < j => h[i] < h[j]
        /\ \A i \in DOMAIN h : h[i] < g
    BY <1>1, <1>2 DEF LivesInv
  <2>2. handles' = [handles EXCEPT ![t] = a]
    BY <1>1
  <2>3. generation'[t] = g
    BY <1>1
  <2> HIDE DEF h, g
  <2>4. /\ a \in Seq(Nat) /\ a # <<>>
        /\ \A i, j \in DOMAIN a : i < j => a[i] < a[j]
        /\ \A i \in DOMAIN a : a[i] <= g
    BY <2>1, GrowingAppend
  <2> HIDE DEF a
  <2>5. /\ handles' \in [UserTask -> Seq(Nat)] /\ handles'[t] = a
        /\ \A u \in UserTask \ {t} : handles'[u] = handles[u]
    BY <2>1, <2>2, <2>4
  <2>6. ASSUME NEW u \in UserTask
        PROVE  /\ handles'[u] # <<>>
               /\ \A i, j \in DOMAIN handles'[u] : i < j => handles'[u][i] < handles'[u][j]
               /\ \A i \in DOMAIN handles'[u] :
                    /\ handles'[u][i] <= generation'[u]
                    /\ status'[u] = "TERMINATED" /\ u \notin spawned' =>
                         handles'[u][i] < generation'[u]
    <3>1. CASE u = t
      BY <1>1, <2>3, <2>4, <2>5, <3>1
    <3>2. CASE u # t
      <4>1. /\ handles[u] # <<>>
            /\ \A i, j \in DOMAIN handles[u] : i < j => handles[u][i] < handles[u][j]
            /\ \A i \in DOMAIN handles[u] :
                 /\ handles[u][i] <= generation[u]
                 /\ status[u] = "TERMINATED" /\ u \notin spawned =>
                      handles[u][i] < generation[u]
        BY <1>2 DEF LivesInv
      <4> QED BY <1>1, <2>5, <3>2, <4>1
    <3> QED BY <3>1, <3>2
  <2> QED BY <1>1, <1>2, <2>1, <2>5, <2>6 DEF LivesInv
<1> QED BY <1>3, <1>4

LEMMA SpawnKeeps ==
  ASSUME LifeInv, NEW t \in UserTask, kTaskSpawn(t)
  PROVE  LifeInv'
<1>1. SpawnedInto(t) /\ Executing
  BY SpawnTakes DEF kTaskSpawn
<1>2. /\ t \in UserTask /\ t \in Task /\ status[t] = "TERMINATED" /\ spawned' = spawned \cup {t}
      /\ ToSet(todo') = {ReadySwtchOf(t)} /\ RegionOrder(todo')
      /\ wqp[t] = None /\ waitingFor[t] = None
      /\ prio' = [prio EXCEPT ![t] = NominalPrio[t]]
      /\ \A u \in Task : ret'[u] = ret[u] \/ ret'[u].err = "SUCCESS"
      /\ UNCHANGED <<run, status, readyQ, pendSV, waitQ, wqp, lock, owner, faulted, owned,
                     waitingFor, mesgPrio, call, faultVars>>
      /\ UNCHANGED <<cleanupPending, cleaning, postStep, jobs, budget>>
  BY <1>1, LifeTypes DEF SpawnedInto, waitVars, mutexVars, faultVars, postVars
<1>3. /\ run \in Task /\ run # PostProc /\ status[run] = "RUNNING" /\ ToSet(todo) = {}
      /\ ~pendSV /\ Rests /\ PostProc \in Task /\ t # PostProc
  BY <1>1, UserRuns, LifeTypes
<1>4. KernelBase'
  BY <1>1, SpawnBase DEF KernelBase
<1>5. CallInv' /\ ReportInv'
  <2>1. \A u \in Task : ret'[u] = ret[u] \/ ret'[u].err # "OWNER_FAULTED"
    BY <1>2
  <2> QED BY <1>2, <2>1, CallFrame, ReportFrame
<1>6. /\ ReadySwtchOf(t).op = "ready" /\ ReadySwtchOf(t).task = t
  BY DEF ReadySwtchOf
<1>7. RegionInv'
  <2>1. status'[t] \in Woke /\ t \in spawned'
    BY <1>2 DEF Woke
  <2> QED BY <1>2, <1>6, <2>1 DEF RegionInv
<1>8. PoisonInv' /\ CleanupInv'
  <2>1. \A m \in Mutex : FaultWakeOf(m) \notin ToSet(todo')
    BY <1>2, <1>6 DEF FaultWakeOf
  <2>2. PoisonInv'
    BY <1>2, <1>3, <2>1, PoisonFrame
  <2>3. CleanupInv'
    BY <1>2, <1>6 DEF CleanupInv, FaultOps
  <2> QED BY <2>2, <2>3
<1>9. RunInv' /\ status'[run'] # "TERMINATED"
  BY <1>2, <1>3 DEF RunInv
<1>10. LeftInv' /\ PostInv'
  <2>1. Rests' /\ LeftInv'
    BY <1>2, <1>3 DEF Rests, LeftInv
  <2>2. prio'[PostProc] = prio[PostProc]
    BY <1>2, <1>3, LifeTypes
  <2> QED BY <1>2, <1>3, <2>1, <2>2 DEF LifeInv, PostInv, Leaving
<1>11. SlotInv' /\ LivesInv'
  BY <1>1, SpawnedSlot
<1> QED BY <1>4, <1>5, <1>7, <1>8, <1>9, <1>10, <1>11 DEF LifeInv, KernelBase

(***************************************************************************)
(* The invariant of the system.                                            *)
(***************************************************************************)
\* The state kInit leaves, with the tasks the application spawned by then.
LEMMA InitLifeInv ==
  ASSUME LifeInit
  PROVE  LifeInv
<1>1. /\ KernelInv /\ ReadyPlaces /\ WaitPlaces /\ RunInv /\ PostProc \in Task
      /\ FirstRun \in UserTask /\ FirstRun # PostProc /\ UserTask \subseteq Task
      /\ None \notin Task
  BY InitServiceInv, FirstRunType, PostProcConstants, KernelConstants
  DEF LifeInit, FaultInit, ServiceInv, IInv, PlaceInv, UserTask
<1>2. /\ run = FirstRun /\ prio = NominalPrio /\ todo = <<>> /\ pendSV = FALSE
      /\ \A t \in Task : status[t] = CASE t = FirstRun -> "RUNNING"
                                       [] t = PostProc -> "SLEEPING_EV_FLAG"
                                       [] OTHER -> "READY"
      /\ \A t \in Task : /\ call[t].number = "NONE" /\ call[t].wake = "SUCCESS"
                         /\ ret[t].err = "SUCCESS" /\ wqp[t] = None
                         /\ waitingFor[t] = None /\ owned[t] = {}
      /\ \A m \in Mutex : lock[m] = FALSE /\ owner[m] = None /\ faulted[m] = FALSE
      /\ mesgPrio = [t \in Task |-> [base    |-> NominalPrio[t],
                                     ceiling |-> NominalPrio[IdleTask]]]
  BY DEF LifeInit, FaultInit, Init, KernelInit, NoCall, NoRet
<1>3. /\ postStep = "wait" /\ jobs = <<>> /\ budget = 0
      /\ cleanupPending = {} /\ cleaning = None
      /\ spawned = Dynamic /\ generation = [t \in UserTask |-> 0] /\ quarantine = {}
      /\ freeStacks = StackBlocks - Cardinality(Dynamic)
      /\ handles = [t \in UserTask |-> <<0>>] /\ misled = FALSE
  BY DEF LifeInit, FaultInit, PostProcInit
<1>4. ToSet(todo) = {} /\ RegionOrder(todo)
  BY <1>2, EmptyTodo, RegionShort
<1>5. /\ \A t \in Task : status[t] \in {"RUNNING", "SLEEPING_EV_FLAG", "READY"}
      /\ status[run] = "RUNNING" /\ status[PostProc] = "SLEEPING_EV_FLAG"
  BY <1>1, <1>2
<1>6. CallInv
  BY <1>2, <1>5 DEF CallInv, CallFor
<1>7. RegionInv /\ PoisonInv /\ ReportInv /\ CleanupInv
  <2>1. PoisonInv
    BY <1>1, <1>2, <1>4 DEF PoisonInv
  <2> QED BY <1>2, <1>4, <2>1 DEF RegionInv, ReportInv, CleanupInv
<1>8. LeftInv /\ PostInv
  <2>1. Rests
    BY <1>3, <1>5 DEF Rests
  <2>2. prio[PostProc] = 0 /\ mesgPrio[PostProc].base = 0
    BY <1>1, <1>2, PostProcConstants
  <2> QED BY <1>1, <1>2, <1>3, <1>5, <2>1, <2>2 DEF LeftInv, PostInv, Leaving
<1>9. SlotInv
  <2>1. Cardinality(Dynamic) \in Nat /\ Dynamic \subseteq UserTask
    <3>1. IsFiniteSet(Dynamic)
      BY <1>1, LifeConstants, KernelConstants, FS_Subset
    <3> QED BY <3>1, LifeConstants, FS_CardinalityType
  <2>2. freeStacks \in Nat /\ Cardinality(spawned) + freeStacks = StackBlocks
    BY <1>3, <2>1, LifeConstants
  <2> QED BY <1>1, <1>3, <1>5, <2>1, <2>2 DEF SlotInv
<1>10. LivesInv
  <2> DEFINE h == <<0>>
  <2>1. h \in Seq(Nat) /\ h # <<>> /\ DOMAIN h = {1} /\ h[1] = 0
    OBVIOUS
  <2>2. \A t \in UserTask : handles[t] = h /\ generation[t] = 0 /\ status[t] # "TERMINATED"
    BY <1>1, <1>3, <1>5
  <2> HIDE DEF h
  <2>3. handles \in [UserTask -> Seq(Nat)] /\ generation \in [UserTask -> Nat]
    BY <1>3, <2>1 DEF h
  <2> QED BY <1>3, <2>1, <2>2, <2>3 DEF LivesInv
<1> QED BY <1>1, <1>5, <1>6, <1>7, <1>8, <1>9, <1>10 DEF LifeInv

\* Every step of the system keeps the invariant.
LEMMA LifeStep ==
  ASSUME LifeInv, ~YieldWhenLocked, [LifeNext]_systemVars
  PROVE  LifeInv'
<1>1. CASE KernelAndPostProc
  <2>1. CASE KernelStep /\ UNCHANGED <<faultVars, lifeVars>>
    BY <2>1, KernelKeeps
  <2>2. CASE PostProcStep /\ UNCHANGED lifeVars
    BY <2>2, ScanKeeps, WaitKeeps, BeginKeeps DEF PostProcStep
  <2>3. CASE \E i \in DOMAIN jobs : PostProcTerminate(jobs[i])
    BY <2>3, JobKeeps
  <2>4. CASE (FaultWake \/ \E t \in Task : FaultRelease(t)) /\ UNCHANGED lifeVars
    BY <2>4, ReleaseKeeps
  <2>5. CASE FaultEnd
    BY <2>5, FaultEndKeeps
  <2> QED BY <1>1, <2>1, <2>2, <2>3, <2>4, <2>5 DEF KernelAndPostProc
<1>2. CASE LifeTick
  BY <1>2, KernelKeeps DEF LifeTick
<1>3. CASE (SchedCall \/ MutexCall) /\ UNCHANGED <<faultVars, lifeVars>>
  BY <1>3, ServiceKeeps
<1>4. CASE kTaskFaultTerminate /\ UNCHANGED lifeVars
  BY <1>4, FaultKeeps
<1>5. CASE LifeCall
  <2>1. CASE SpawnRefused
    BY <2>1, AnswersInTaskCalls, AnsweredKeeps
  <2>2. CASE \E t \in UserTask : kTaskSpawn(t)
    BY <2>2, SpawnKeeps
  <2>3. ASSUME NEW t \in UserTask, NEW k \in DOMAIN handles[t],
               \/ TerminateInvalid(t, k) \/ TerminateSpared(t, k)
               \/ TerminateOther(t, k) \/ TerminateRunning(t, k)
        PROVE  LifeInv'
    <3>1. CASE TerminateInvalid(t, k) \/ TerminateSpared(t, k)
      BY <3>1, AnswersInTaskCalls, AnsweredKeeps
    <3>2. CASE TerminateOther(t, k)
      BY <3>2, OtherKeeps
    <3>3. CASE TerminateRunning(t, k)
      BY <3>3, LeaveKeeps
    <3> QED BY <2>3, <3>1, <3>2, <3>3
  <2> QED BY <1>5, <2>1, <2>2, <2>3 DEF LifeCall
<1>6. CASE UNCHANGED systemVars
  BY <1>6, StutterKeeps
<1> QED BY <1>1, <1>2, <1>3, <1>4, <1>5, <1>6 DEF LifeNext

\* The invariant holds in every state the system reaches, for every set of
\* tasks, mutexes, stacks and lives, when no task yields while it holds the
\* scheduler lock.
THEOREM LifeInvariance ==
  ASSUME ~YieldWhenLocked
  PROVE  LifeSpec => []LifeInv
<1>1. LifeInit => LifeInv
  BY InitLifeInv
<1>2. LifeInv /\ [LifeNext]_systemVars => LifeInv'
  BY LifeStep
<1> QED BY <1>1, <1>2, PTL DEF LifeSpec

\* Nothing of a TERMINATED task is left in the kernel.
LEMMA DeadDetached == LifeInv => DeadIsDetached
<1> SUFFICES ASSUME LifeInv, NEW t \in Task, status[t] = "TERMINATED"
             PROVE  /\ LinkedOn(t) = {} /\ t \notin ToSet(tmo)
                    /\ owned[t] = {} /\ \A m \in Mutex : owner[m] # t
                    /\ waitingFor[t] = None /\ wqp[t] = None
                    /\ t \notin cleanupPending /\ t # run
  BY DEF DeadIsDetached
<1>1. /\ wqp[t] = None /\ waitingFor[t] = None /\ t \notin ToSet(tmo)
      /\ \A o \in WaitObj : t \notin ToSet(waitQ[o])
      /\ \A p \in Prio : t \notin ToSet(readyQ[p])
  BY NotListed
<1>2. LinkedOn(t) = {}
  BY <1>1 DEF LinkedOn
<1>3. owned[t] = {} /\ \A m \in Mutex : owner[m] # t
  BY DEF LifeInv, SlotInv, PoisonInv
<1>4. t \notin cleanupPending /\ t # run
  BY DEF LifeInv, LeftInv
<1> QED BY <1>1, <1>2, <1>3, <1>4

\* What a task had when it ended is back, once: nothing of it is linked, armed,
\* owned or marked, and every stack is a task's or free.
THEOREM TheGoneIsReleased ==
  ASSUME ~YieldWhenLocked
  PROVE  LifeSpec => []GoneIsReleased
<1>1. ASSUME LifeInv, Quiet
      PROVE  /\ \A t \in spawned : status[t] # "TERMINATED"
             /\ Cardinality(spawned) + freeStacks = StackBlocks
             /\ \A t \in quarantine : status[t] = "TERMINATED" /\ t \notin spawned
  <2>1. ToSet(todo) = {}
    BY <1>1, EmptyTodo DEF Quiet
  <2> QED BY <1>1, <2>1 DEF LifeInv, SlotInv
<1>2. LifeInv => GoneIsReleased
  BY <1>1, DeadDetached DEF GoneIsReleased
<1> QED BY <1>2, LifeInvariance, PTL

\* No handle and no job of a task that is gone ends the task that has its slot
\* now.
THEOREM NobodyEndedInstead ==
  ASSUME ~YieldWhenLocked
  PROVE  LifeSpec => []NoWrongTermination
<1>1. LifeInv => NoWrongTermination
  BY DEF LifeInv, LivesInv, NoWrongTermination
<1> QED BY <1>1, LifeInvariance, PTL

\* Who is told that an owner faulted is told the truth, and nobody is left
\* waiting for a mutex whose owner is gone.
THEOREM FaultsAreReported ==
  ASSUME ~YieldWhenLocked
  PROVE  LifeSpec => []FaultReported
<1>1. ASSUME LifeInv, Quiet
      PROVE  /\ \A t \in Task : ret[t].err = "OWNER_FAULTED" => faulted[ret[t].arg]
             /\ \A m \in Mutex : faulted[m] => waitQ[m] = <<>> /\ ~lock[m]
  <2>1. ToSet(todo) = {}
    BY <1>1, EmptyTodo DEF Quiet
  <2> QED BY <1>1, <2>1 DEF LifeInv, ReportInv, PoisonInv
<1>2. LifeInv => FaultReported
  BY <1>1 DEF FaultReported
<1> QED BY <1>2, LifeInvariance, PTL
=============================================================================
