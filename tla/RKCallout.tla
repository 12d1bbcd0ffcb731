------------------------------ MODULE RKCallout ------------------------------
(***************************************************************************)
(* Callout timers (ktimer.c, ksystasks.c).  The tick counts down the head  *)
(* of a second delta list; when it reaches zero PostProc is woken, takes   *)
(* the timer off the list, calls its function and arms it again.  PostProc *)
(* runs above every task and is never preempted, but it does this outside  *)
(* any critical region: a tick may come between any two of its accesses    *)
(* to the list, which are therefore steps of their own here.  A function   *)
(* may cancel timers, its own included; so may a task while PostProc waits.*)
(***************************************************************************)
EXTENDS Integers, FiniteSets, SequencesExt

CONSTANTS
  Timer,      \* the timers of the application
  Phase,      \* timer.phase
  Period,     \* timer.period
  Reload,     \* the timers created with RK_TIMER_RELOAD
  MayCancel,  \* the timers that are cancelled by a task or a function
  OwnCancel,  \* whether a function may cancel the timer it is called for
  Width,      \* the width of RK_TICK, in bits
  MaxTime,    \* bound: the ticks of a run
  None        \* NULL

Word == 0 .. 2^Width - 1

ASSUME CalloutConstants ==
  /\ IsFiniteSet(Timer) /\ None \notin Timer
  /\ Width \in Nat \ {0, 1} /\ MaxTime \in Nat
  /\ Phase \in [Timer -> Nat] /\ Period \in [Timer -> Nat \ {0}]
  /\ \A t \in Timer : Phase[t] + Period[t] < 2^(Width - 1)
  /\ Reload \subseteq Timer /\ MayCancel \subseteq Timer
  /\ OwnCancel \in BOOLEAN

VARIABLES
  list,       \* the nodes from RK_gTimerListHeadPtr on
  dtick,      \* timer.timeoutNode.dtick
  nextTime,   \* timer.nextTime
  globalTick, \* RK_gRunTime.globalTick
  timerSig,   \* RK_POSTPROC_TIMER_SIG in the event flags of PostProc
  step,       \* where PostProc is
  cur,        \* the timer PostProc has taken
  curr,       \* currPtr of kTimeoutListInsertDelta_, as a position
  word,       \* the dtick PostProc has read and not yet used
  cancelled,  \* history: the timers that were cancelled
  time,       \* history: the ticks since the start
  due         \* history: when each timer is due, in the ticks of `time`

history == <<cancelled, time, due>>
vars == <<list, dtick, nextTime, globalTick, timerSig, step, cur, curr, word,
          history>>

L == INSTANCE RKTimeout WITH Node <- Timer, expiring <- FALSE

Wrapped(x) == L!Wrapped(x)
K_TICK_DELTA(to, from) == Wrapped(to - from)
K_TICK_ADD(base, offset) == Wrapped(base + offset)

(***************************************************************************)
(* Creation, in the initialisation of the application: before the tick.    *)
(***************************************************************************)
kTimerInit(t) ==
  /\ step = "boot" /\ t \notin ToSet(list)
  /\ L!kTimeoutListInsertDelta_(t, Phase[t] + Period[t])
  /\ nextTime' = [nextTime EXCEPT ![t] = K_TICK_ADD(globalTick, Phase[t] + Period[t])]
  /\ due' = [due EXCEPT ![t] = Phase[t] + Period[t]]
  /\ UNCHANGED <<globalTick, timerSig, step, cur, curr, word, cancelled, time>>

\* PostProc runs first, starts the tick and waits for its flags.
Start ==
  /\ step = "boot" /\ ToSet(list) = Timer
  /\ step' = "wait"
  /\ UNCHANGED <<list, dtick, nextTime, globalTick, timerSig, cur, curr, word,
                 history>>

(***************************************************************************)
(* The tick, between any two steps.                                        *)
(***************************************************************************)
\* kTickHandlerRun_: globalTick never holds its largest value; the head counts
\* down, and PostProc is told as long as it is at zero.
Tick ==
  /\ step # "boot" /\ time < MaxTime
  /\ globalTick' = (globalTick + 1) % (2^Width - 1)
  /\ time' = time + 1
  /\ dtick' = IF list # <<>> /\ dtick[Head(list)] > 0
              THEN [dtick EXCEPT ![Head(list)] = @ - 1] ELSE dtick
  /\ timerSig' = (timerSig \/ (list # <<>> /\ dtick[Head(list)] <= 1))
  /\ UNCHANGED <<list, nextTime, step, cur, curr, word, cancelled, due>>

(***************************************************************************)
(* kTimerCancel, a critical region.                                        *)
(***************************************************************************)
CancelNode(t) ==
  /\ IF t \in ToSet(list) THEN L!kRemoveTimeoutNode(t) ELSE UNCHANGED <<list, dtick>>
  /\ cancelled' = cancelled \cup {t}

\* By a task, which PostProc's loop does not let run before it waits again.
kTimerCancel(t) ==
  /\ step = "wait" /\ t \in MayCancel
  /\ CancelNode(t)
  /\ UNCHANGED <<nextTime, globalTick, timerSig, step, cur, curr, word, time, due>>

(***************************************************************************)
(* PostProcSysTask, for RK_POSTPROC_TIMER_SIG.                             *)
(***************************************************************************)
EventGet ==
  /\ step = "wait" /\ timerSig
  /\ timerSig' = FALSE /\ step' = "loop"
  /\ UNCHANGED <<list, dtick, nextTime, globalTick, cur, curr, word, history>>

\* Mutant: the head is taken but not unlinked.
TakeHeadLinked ==
  /\ step = "loop" /\ list # <<>> /\ dtick[Head(list)] = 0
  /\ cur' = Head(list) /\ step' = "call"
  /\ UNCHANGED <<list, dtick, nextTime, globalTick, timerSig, curr, word, history>>

\* The head has expired: RK_gTimerListHeadPtr = node->nextPtr.
TakeHead ==
  /\ step = "loop" /\ list # <<>> /\ dtick[Head(list)] = 0
  /\ cur' = Head(list) /\ list' = Tail(list)
  /\ step' = IF Tail(list) = <<>> THEN "call" ELSE "load"
  /\ UNCHANGED <<dtick, nextTime, globalTick, timerSig, curr, word, history>>

NoneExpired ==
  /\ step = "loop" /\ ~(list # <<>> /\ dtick[Head(list)] = 0)
  /\ step' = "wait"
  /\ UNCHANGED <<list, dtick, nextTime, globalTick, timerSig, cur, curr, word,
                 history>>

\* kRemoveTimeoutNode: nextPtr->dtick += dtick is a load and a store.
RemoveLoad ==
  /\ step = "load"
  /\ word' = dtick[Head(list)] /\ step' = "store"
  /\ UNCHANGED <<list, dtick, nextTime, globalTick, timerSig, cur, curr, history>>

RemoveStore ==
  /\ step = "store"
  /\ dtick' = [dtick EXCEPT ![Head(list)] = Wrapped(word + dtick[cur]), ![cur] = 0]
  /\ step' = "call"
  /\ UNCHANGED <<list, nextTime, globalTick, timerSig, cur, curr, word, history>>

\* funPtr is called; it may cancel a timer.
Call ==
  /\ step = "call"
  /\ \/ UNCHANGED <<list, dtick, cancelled>>
     \/ \E t \in MayCancel : (t = cur => OwnCancel) /\ CancelNode(t)
  /\ step' = IF cur \in Reload THEN "next" ELSE "loop"
  /\ UNCHANGED <<nextTime, globalTick, timerSig, cur, curr, word, time, due>>

\* Mutant: the next time is counted from now.
FromNow(t, now) == K_TICK_ADD(now, Period[t])

\* The first multiple of the period after now.
FirstAfter(t, now) ==
  LET elapsed == K_TICK_DELTA(now, nextTime[t])
  IN  K_TICK_ADD(nextTime[t], (elapsed \div Period[t] + 1) * Period[t])

\* kTimerReload and kTimeoutNodeAdd set the node up for the delay until then.
NextTime ==
  /\ step = "next"
  /\ LET next == FirstAfter(cur, globalTick)
     IN  /\ nextTime' = [nextTime EXCEPT ![cur] = next]
         /\ dtick' = [dtick EXCEPT ![cur] = K_TICK_DELTA(next, globalTick)]
  /\ due' = [due EXCEPT ![cur] = @ + ((time - @) \div Period[cur] + 1) * Period[cur]]
  /\ curr' = 1 /\ step' = "pass"
  /\ UNCHANGED <<list, globalTick, timerSig, cur, word, cancelled, time>>

\* kTimeoutListInsertDelta_: the condition of the loop.
InsertPass ==
  /\ step = "pass"
  /\ IF curr > Len(list)
     THEN step' = "link" /\ UNCHANGED word
     ELSE /\ word' = dtick[list[curr]]
          /\ step' = IF dtick[list[curr]] < dtick[cur] THEN "consume" ELSE "subtract"
  /\ UNCHANGED <<list, dtick, nextTime, globalTick, timerSig, cur, curr, history>>

\* currPtr->dtick is the value the loop compared or a fresh one, as the
\* compiler chooses.
ReadAgain == {word, dtick[list[curr]]}

\* node->dtick -= currPtr->dtick: the body of the loop.
InsertConsume ==
  /\ step = "consume"
  /\ \E ahead \in ReadAgain : dtick' = [dtick EXCEPT ![cur] = @ - ahead]
  /\ curr' = curr + 1 /\ step' = "pass"
  /\ UNCHANGED <<list, nextTime, globalTick, timerSig, cur, word, history>>

\* currPtr->dtick -= node->dtick: after it.
InsertSubtract ==
  /\ step = "subtract"
  /\ \E behind \in ReadAgain :
       dtick' = [dtick EXCEPT ![list[curr]] = Wrapped(behind - dtick[cur])]
  /\ step' = "link"
  /\ UNCHANGED <<list, nextTime, globalTick, timerSig, cur, curr, word, history>>

\* The node is linked where the loop stopped.
LinkNode(goOn) ==
  /\ step = "link"
  /\ list' = InsertAt(list, curr, cur)
  /\ step' = goOn
  /\ UNCHANGED <<dtick, nextTime, globalTick, timerSig, cur, curr, word, history>>

\* Mutant: one reloaded timer is served for each signal.
LinkAndWait == LinkNode("wait")

InsertLink == LinkNode("loop")

PostProcStep ==
  \/ EventGet \/ TakeHead \/ NoneExpired \/ RemoveLoad \/ RemoveStore
  \/ Call \/ NextTime
  \/ InsertPass \/ InsertConsume \/ InsertSubtract \/ InsertLink

Init ==
  /\ list = <<>> /\ dtick = [t \in Timer |-> 0]
  /\ nextTime = [t \in Timer |-> 0] /\ globalTick = 0
  /\ timerSig = FALSE /\ step = "boot"
  /\ cur = None /\ curr = 0 /\ word = 0
  /\ cancelled = {} /\ time = 0 /\ due = [t \in Timer |-> 0]

Next ==
  \/ \E t \in Timer : kTimerInit(t) \/ kTimerCancel(t)
  \/ Start \/ Tick \/ PostProcStep

Spec == Init /\ [][Next]_vars

(***************************************************************************)
(* Properties.                                                             *)
(***************************************************************************)
\* The variables have the types of what they stand for; in particular no node
\* is linked while PostProc arms it.
TypeOK ==
  /\ list \in Seq(Timer) /\ IsInjective(list)
  /\ dtick \in [Timer -> Word] /\ nextTime \in [Timer -> Word]
  /\ globalTick \in Word /\ timerSig \in BOOLEAN
  /\ cur \in Timer \cup {None} /\ curr \in Nat /\ word \in Word
  /\ cancelled \subseteq Timer /\ time \in Nat /\ due \in [Timer -> Nat]

\* A timer never fires before it is due, whatever ticks come between the steps
\* of PostProc and whatever timers are cancelled or armed before it.
NeverEarly == step = "call" => time >= due[cur]

\* A reloaded timer keeps its phase, late or not: until the tick counter rolls
\* over, nextTime is a multiple of its period after its first expiry.
KeepsPhase ==
  step # "boot" => \A t \in Timer : (nextTime[t] - Phase[t]) % Period[t] = 0

\* No expiry is forgotten: while the head of the list is at zero PostProc is in
\* its loop or about to be woken.  (A timer cancelled after a difference has
\* wrapped may leave it at zero unannounced, until the next tick.)
NoLostExpiry ==
  /\ list # <<>> /\ dtick[Head(list)] = 0
  /\ step = "wait" /\ cancelled = {}
  => timerSig

\* The sum from the head to any node is its remaining delay (ktimer.c:788-790),
\* never more than the timer could be armed for: no difference wraps below zero.
RemainingDelayBounded ==
  \A i \in DOMAIN list : L!TicksTo[i] <= Phase[list[i]] + Period[list[i]]

\* A cancelled timer is inactive for good, as nothing is said to arm it again
\* (kTimerCreate and kTimerCancel in kapi.h).
CancelledStaysInactive == cancelled \cap ToSet(list) = {}
=============================================================================
