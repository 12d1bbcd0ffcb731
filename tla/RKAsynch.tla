------------------------------ MODULE RKAsynch -------------------------------
(***************************************************************************)
(* Asynchronous messages (kmesg.c) on the kernel, the mutexes and the      *)
(* containment of faults.  Message blocks come from pools; a block has one *)
(* owner from its allocation on, and passes to the receiver when it is     *)
(* sent.  A pool with a ceiling raises whoever owns one of its blocks, and *)
(* through mutexes whoever that task waits for.  Tasks wait for a block or *)
(* for a message, from anybody or from one sender, with timeouts and       *)
(* signals.  Messages that are copied have blocks of the kernel's own and  *)
(* wait for a receive whose buffer they fit.  When a task faults, its      *)
(* messages go back to their pools, or on to a task that waits for one.    *)
(*                                                                         *)
(* All tasks share a domain, and use only the blocks they own; a task is   *)
(* an endpoint of one kind.                                                *)
(***************************************************************************)
EXTENDS RKFault

CONSTANTS
  Mesg,          \* the RK_MESG blocks of the pools of the application
  PoolOf,        \* their pools, which are OtherObj: allocators wait on them
  Ceiling,       \* mesgPrioCeiling of the pools that have one
  WaitersOf,     \* asynchMesgWaiters, or asynchCopyMesgWaiters, of each task
  CopyBlocks,    \* RK_CONF_ASYNCH_COPY_MESG_MAX
  Size,          \* the sizes of copied payloads and of receive buffers
  App,           \* applications: whom each task sends to, which endpoints are
                 \* for copies, who filters senders, sleeps and yields, locks
                 \* mutexes, or faults
  MesgTimeout    \* the timeouts they wait with

Pool == {PoolOf[m] : m \in Mesg}

ASSUME AsynchConstants ==
  /\ Pool \subseteq OtherObj /\ Ceiling \in [DOMAIN Ceiling -> Prio]
  /\ DOMAIN Ceiling \subseteq Pool
  /\ WaitersOf \in [UserTask -> OtherObj \ Pool]
  /\ CopyBlocks \in Nat /\ Size \subseteq Nat
  /\ App \subseteq [peers : [UserTask -> SUBSET UserTask],
                    copy : SUBSET UserTask, filter : SUBSET UserTask,
                    sched : SUBSET UserTask, lock : SUBSET UserTask,
                    fault : SUBSET MayFault]
  /\ MesgTimeout \subseteq Timeout

VARIABLES
  mstate,      \* state of each block
  ownerOf,     \* ownerPtr, and with it the asynchMesgOwnedList of each task
  sender,      \* the sender a message names
  mesgQ,       \* asynchMesgQueue
  copyQ,       \* asynchCopyMesgQueue: who sent each message, and its size
  asked,       \* the sender and the size of the buffer of the last receive
  dest,        \* what the last allocation or receive of a task was given
  app          \* the application at hand

asynchVars == <<mstate, ownerOf, sender, mesgQ, copyQ, asked, dest, app>>
systemVars == <<allVars, asynchVars>>

(***************************************************************************)
(* kMesgSetOwner_: the ceilings of the old and of the new owner change.    *)
(***************************************************************************)
CeilingOf(t, owns) ==
  LET prios == {NominalPrio[IdleTask]}
        \cup {Ceiling[p] : p \in {PoolOf[m] : m \in {n \in Mesg : owns[n] = t}}
                                   \cap DOMAIN Ceiling}
  IN  CHOOSE p \in prios : \A q \in prios : p <= q

SetOwner(m, t) ==
  /\ ownerOf' = [ownerOf EXCEPT ![m] = t]
  /\ mesgPrio' = [u \in Task |-> [mesgPrio[u] EXCEPT !.ceiling = CeilingOf(u, ownerOf')]]

\* Mutant: the priority of the task that gave the message away stays.
NewOwnerUpdates(m, t) ==
  IF t \in {None, ownerOf[m]} THEN <<>> ELSE <<UpdatePrioOf(t)>>

\* The updates of effective priorities it ends with.
OwnerUpdates(m, t) ==
  IF ownerOf[m] = t THEN <<>>
  ELSE (IF ownerOf[m] = None THEN <<>> ELSE <<UpdatePrioOf(ownerOf[m])>>)
         \o (IF t = None THEN <<>> ELSE <<UpdatePrioOf(t)>>)

(***************************************************************************)
(* What the calls have in common.                                          *)
(***************************************************************************)
NoOwnerChange == UNCHANGED <<ownerOf, mesgPrio>>
MutexesKept   == UNCHANGED <<lock, owner, faulted, owned, waitingFor>>

\* The call ends without waiting; d is what it was given.
Ends(number, o, err, d) ==
  /\ Returns(number, o, err)
  /\ dest' = [dest EXCEPT ![run] = d]
  /\ UNCHANGED <<schedVars, call>>

\* Nothing but that.
Refused(number, o, err) ==
  /\ Ends(number, o, err, None)
  /\ UNCHANGED <<waitVars, timeVars, mesgPrio, todo, mstate, ownerOf, sender,
                 mesgQ, copyQ>>

\* The running task waits on o, in the given place.
WaitOn(number, o, st, queue, timeout) ==
  /\ timeout # NoWait
  /\ ArmTimeout(run, "BLOCKING", timeout)
  /\ wqp' = [wqp EXCEPT ![run] = o]
  /\ waitQ' = [waitQ EXCEPT ![o] = queue]
  /\ status' = [status EXCEPT ![run] = st]
  /\ call' = [call EXCEPT ![run] = [number |-> number, arg |-> o,
                                    phase |-> "WAIT", wake |-> "SUCCESS"]]
  /\ Returns(number, o, "RESTART")
  /\ dest' = [dest EXCEPT ![run] = None]
  /\ kPendCtxSwtch(st)
  /\ UNCHANGED <<run, prio, readyQ, schLock, savedLock, mesgPrio, todo, mstate,
                 ownerOf, sender, mesgQ, copyQ>>

\* w, first on o, waits no longer; reset: also a wait for ever resets its node.
Unlink(w, o, reset) ==
  /\ waitQ' = [waitQ EXCEPT ![o] = kTCBQRem(@, w)]
  /\ IF ttype[w] = "BLOCKING" THEN DisarmTimeout(w) ELSE UNCHANGED timeVars
  /\ wqp' = IF reset \/ ttype[w] = "BLOCKING" THEN [wqp EXCEPT ![w] = None] ELSE wqp

(***************************************************************************)
(* kMesgAllocSyscall and kMesgFree.                                        *)
(***************************************************************************)
FreeBlocks(p) == {m \in Mesg : PoolOf[m] = p /\ mstate[m] = "FREE"}

\* kMesgInitAllocatedBuf_.
InitAllocatedBuf(m, t) ==
  /\ mstate' = [mstate EXCEPT ![m] = "ALLOCATED"]
  /\ sender' = [sender EXCEPT ![m] = None]
  /\ SetOwner(m, t)

AllocFromPool(p) == \E m \in FreeBlocks(p) :
  /\ InitAllocatedBuf(m, run)
  /\ Ends("MESG_ALLOC", p, "SUCCESS", m)
  /\ todo' = OwnerUpdates(m, run)
  /\ UNCHANGED <<waitVars, timeVars, mesgQ, copyQ>>

kMesgAlloc(p, timeout) ==
  /\ Executing
  /\ \/ AllocFromPool(p)
     \/ /\ FreeBlocks(p) = {}
        /\ \/ timeout = NoWait /\ Refused("MESG_ALLOC", p, "BUFFER_EMPTY")
           \/ WaitOn("MESG_ALLOC", p, "BLOCKED", kTCBQEnqByPrio(waitQ[p], run, prio), timeout)
  /\ MutexesKept
  /\ UNCHANGED <<asked, app, faultVars>>

\* kMesgHandoffToWaitingAllocator_: `rest` is what the region does after it.
HandoffToAllocator(m, rest) ==
  LET p == PoolOf[m]
      w == Head(waitQ[p])
  IN  /\ waitQ[p] # <<>>
      /\ Unlink(w, p, TRUE)
      /\ InitAllocatedBuf(m, w)
      /\ dest' = [dest EXCEPT ![w] = m]
      /\ todo' = OwnerUpdates(m, w) \o <<ReadySwtchOf(w)>> \o rest

\* Mutant: the block goes to the free list past the tasks that wait for one.
FreePastAllocators(m, rest) ==
  /\ mstate' = [mstate EXCEPT ![m] = "FREE"]
  /\ sender' = [sender EXCEPT ![m] = None]
  /\ SetOwner(m, None)
  /\ todo' = OwnerUpdates(m, None) \o rest
  /\ UNCHANGED <<waitVars, timeVars, dest>>

ReturnToPool(m, rest) ==
  /\ waitQ[PoolOf[m]] = <<>>
  /\ mstate' = [mstate EXCEPT ![m] = "FREE"]
  /\ sender' = [sender EXCEPT ![m] = None]
  /\ SetOwner(m, None)
  /\ todo' = OwnerUpdates(m, None) \o rest
  /\ UNCHANGED <<waitVars, timeVars, dest>>

\* A block the running task has allocated or received.
Holds(t, m) == ownerOf[m] = t /\ mstate[m] \in {"ALLOCATED", "RECEIVED"}

kMesgFree(m) ==
  /\ Executing /\ Holds(run, m)
  /\ Returns("MESG_FREE", PoolOf[m], "SUCCESS")
  /\ HandoffToAllocator(m, <<>>) \/ ReturnToPool(m, <<>>)
  /\ MutexesKept
  /\ UNCHANGED <<schedVars, call, mesgQ, copyQ, asked, app, faultVars>>

(***************************************************************************)
(* kMesgSend and kMesgWaitSyscall.                                         *)
(***************************************************************************)
Endpoint(t) == status[t] # "TERMINATED"     \* its handle resolves

\* The last receive of r is still waiting, and takes what t sends.
Waits(r)      == waitQ[WaitersOf[r]] # <<>>
Accepts(r, t) == asked[r].from \in {None, t}

\* kMesgDeliverToWaiter_.
DeliverToWaiter(r, m) ==
  /\ Waits(r) /\ Accepts(r, run)
  /\ Unlink(r, WaitersOf[r], FALSE)
  /\ mstate' = [mstate EXCEPT ![m] = "RECEIVED"]
  /\ dest' = [dest EXCEPT ![r] = m]
  /\ todo' = OwnerUpdates(m, r) \o <<ReadySwtchOf(r)>>
  /\ UNCHANGED mesgQ

\* Mutant: a message is queued although its receiver waits for any sender.
QueueMesgAlways(r, m) ==
  /\ Waits(r) => asked[r].from # run
  /\ mstate' = [mstate EXCEPT ![m] = "QUEUED"]
  /\ mesgQ' = [mesgQ EXCEPT ![r] = Append(@, m)]
  /\ todo' = OwnerUpdates(m, r)
  /\ UNCHANGED <<waitVars, timeVars, dest>>

QueueMesg(r, m) ==
  /\ Waits(r) => ~Accepts(r, run)
  /\ mstate' = [mstate EXCEPT ![m] = "QUEUED"]
  /\ mesgQ' = [mesgQ EXCEPT ![r] = Append(@, m)]
  /\ todo' = OwnerUpdates(m, r)
  /\ UNCHANGED <<waitVars, timeVars, dest>>

kMesgSend(r, m) ==
  /\ Executing /\ Holds(run, m) /\ Endpoint(r)
  /\ Returns("MESG_SEND", WaitersOf[r], "SUCCESS")
  /\ sender' = [sender EXCEPT ![m] = run]
  /\ SetOwner(m, r)
  /\ DeliverToWaiter(r, m) \/ QueueMesg(r, m)
  /\ MutexesKept
  /\ UNCHANGED <<schedVars, call, copyQ, asked, app, faultVars>>

Ask(from, size) == asked' = [asked EXCEPT ![run] = [from |-> from, size |-> size]]

\* Mutant: the message stays queued for the next receive.
DequeueLeaves(m) == mstate' = [mstate EXCEPT ![m] = "RECEIVED"] /\ UNCHANGED mesgQ

\* The message leaves the queue; it has been the receiver's since it was sent.
Dequeue(m) ==
  /\ mstate' = [mstate EXCEPT ![m] = "RECEIVED"]
  /\ mesgQ' = [mesgQ EXCEPT ![run] = SelectSeq(@, LAMBDA n : n # m)]

kMesgWait(from, timeout) ==
  LET o == WaitersOf[run]
      i == SelectInSeq(mesgQ[run], LAMBDA m : from \in {None, sender[m]})
  IN  /\ Executing /\ Ask(from, 0)
      /\ \/ /\ i # 0 /\ Dequeue(mesgQ[run][i])
            /\ Ends("MESG_WAIT", o, "SUCCESS", mesgQ[run][i])
            /\ UNCHANGED <<waitVars, timeVars, mesgPrio, todo, ownerOf, sender, copyQ>>
         \/ i = 0 /\ timeout = NoWait /\ Refused("MESG_WAIT", o, "BUFFER_EMPTY")
         \/ i = 0 /\ WaitOn("MESG_WAIT", o, "RECEIVING", kTCBQEnq(waitQ[o], run), timeout)
      /\ MutexesKept
      /\ UNCHANGED <<app, faultVars>>

(***************************************************************************)
(* kMesgSendCopy and kMesgRecvCopySyscall.                                 *)
(***************************************************************************)
CopiesInUse == FoldFunctionOnSet(LAMBDA q, n : Len(q) + n, 0, copyQ, UserTask)

\* Mutant: a copy is delivered whether or not it fits the buffer.
CopyAcceptsAny(r, size) == Waits(r) /\ Accepts(r, run)

\* kMesgCopyReceiverCanAccept_: only a payload that fits wakes a receiver.
CopyReceiverCanAccept(r, size) ==
  Waits(r) /\ Accepts(r, run) /\ size <= asked[r].size

\* kMesgCopyDeliverPayloadToWaiter_.
CopyDeliver(r, size) ==
  /\ CopyReceiverCanAccept(r, size)
  /\ Unlink(r, WaitersOf[r], TRUE)
  /\ dest' = [dest EXCEPT ![r] = [from |-> run, size |-> size]]
  /\ Returns("MESG_SEND_COPY", WaitersOf[r], "SUCCESS")
  /\ todo' = <<ReadySwtchOf(r)>>
  /\ UNCHANGED <<call, copyQ>>

\* kMesgCopyStore_.
CopyStore(r, size) ==
  /\ ~CopyReceiverCanAccept(r, size)
  /\ IF CopiesInUse = CopyBlocks
     THEN /\ Returns("MESG_SEND_COPY", WaitersOf[r], "BUFFER_EMPTY")
          /\ UNCHANGED copyQ
     ELSE /\ Returns("MESG_SEND_COPY", WaitersOf[r], "SUCCESS")
          /\ copyQ' = [copyQ EXCEPT ![r] = Append(@, [from |-> run, size |-> size])]
  /\ UNCHANGED <<waitVars, timeVars, call, todo, dest>>

kMesgSendCopy(r, size) ==
  /\ Executing /\ Endpoint(r)
  /\ CopyDeliver(r, size) \/ CopyStore(r, size)
  /\ MutexesKept /\ NoOwnerChange
  /\ UNCHANGED <<schedVars, mstate, sender, mesgQ, asked, app, faultVars>>

\* The first message from the sender asked for that fits is taken.
kMesgRecvCopy(from, size, timeout) ==
  LET o == WaitersOf[run]
      i == SelectInSeq(copyQ[run],
             LAMBDA c : from \in {None, c.from} /\ c.size <= size)
  IN  /\ Executing /\ Ask(from, size)
      /\ \/ /\ i # 0 /\ copyQ' = [copyQ EXCEPT ![run] = RemoveAt(@, i)]
            /\ Ends("MESG_RECV_COPY", o, "SUCCESS", copyQ[run][i])
            /\ UNCHANGED <<waitVars, timeVars, mesgPrio, todo, mstate, ownerOf,
                           sender, mesgQ>>
         \/ i = 0 /\ timeout = NoWait /\ Refused("MESG_RECV_COPY", o, "BUFFER_EMPTY")
         \/ i = 0 /\ WaitOn("MESG_RECV_COPY", o, "RECEIVING", kTCBQEnq(waitQ[o], run), timeout)
      /\ MutexesKept
      /\ UNCHANGED <<app, faultVars>>

(***************************************************************************)
(* kMesgTaskCleanup, which kTaskFaultCleanup calls once the mutexes of the *)
(* task are released.                                                      *)
(***************************************************************************)
CleaningUp(t) == todo # <<>> /\ Head(todo) = FaultDoneOf(t)

\* kMesgReturnBufferFromCleanup_: the messages queued at t, then the others
\* it owns (which the code takes in the order they came to it).
ReturnBuffer(t) == \E m \in Mesg :
  /\ CleaningUp(t) /\ ownerOf[m] = t
  /\ mesgQ[t] # <<>> => m = Head(mesgQ[t])
  /\ HandoffToAllocator(m, todo) \/ ReturnToPool(m, todo)
  /\ mesgQ' = [mesgQ EXCEPT ![t] = SelectSeq(@, LAMBDA n : n # m)]
  /\ MutexesKept
  /\ UNCHANGED <<schedVars, callVars, copyQ, asked, app, faultVars>>

Owns(t) == {m \in Mesg : ownerOf[m] = t}

\* The copies queued at t are freed.
FreeCopies(t) ==
  /\ CleaningUp(t) /\ Owns(t) = {} /\ copyQ[t] # <<>>
  /\ copyQ' = [copyQ EXCEPT ![t] = <<>>]
  /\ UNCHANGED <<allVars, mstate, ownerOf, sender, mesgQ, asked, dest, app>>

AwaitsCopyFrom(t) ==
  {r \in app.copy \ {t} : Waits(r) /\ asked[r].from = t}

\* kMesgCopyCancelWaitersForSender_: who waits for a copy from t is told.
CancelWaiterForSender(t) == \E r \in AwaitsCopyFrom(t) :
  /\ CleaningUp(t) /\ Owns(t) = {} /\ copyQ[t] = <<>>
  /\ Unlink(r, WaitersOf[r], TRUE)
  /\ call' = [call EXCEPT ![r].wake = "OBJ_NOT_INIT"]
  /\ todo' = <<ReadySwtchOf(r)>> \o todo
  /\ UNCHANGED <<schedVars, mutexVars, ret, faultVars, asynchVars>>

MesgCleanup == \E t \in UserTask :
  ReturnBuffer(t) \/ FreeCopies(t) \/ CancelWaiterForSender(t)

\* Mutant: only the messages still queued are returned.
QueuedOnlyReturned == \A t \in UserTask :
  CleaningUp(t) => mesgQ[t] = <<>> /\ copyQ[t] = <<>> /\ AwaitsCopyFrom(t) = {}

\* Nothing is left to return, free or cancel.
MesgCleanupDone == \A t \in UserTask :
  CleaningUp(t) => Owns(t) = {} /\ copyQ[t] = <<>> /\ AwaitsCopyFrom(t) = {}

(***************************************************************************)
(* The system.                                                             *)
(***************************************************************************)
AsynchInit ==
  /\ FaultInit /\ app \in App
  /\ mstate = [m \in Mesg |-> "FREE"]
  /\ ownerOf = [m \in Mesg |-> None] /\ sender = [m \in Mesg |-> None]
  /\ mesgQ = [t \in UserTask |-> <<>>] /\ copyQ = [t \in UserTask |-> <<>>]
  /\ asked = [t \in UserTask |-> [from |-> None, size |-> 0]]
  /\ dest = [t \in UserTask |-> None]

SystemPart ==
  /\ \/ /\ \/ KernelStep \/ Tick \/ SignalCall
           \/ run \in app.sched /\ SchedCall
           \/ run \in app.lock /\ MutexCall
        /\ UNCHANGED faultVars
     \/ run \in app.fault /\ kTaskFaultTerminate
     \/ PostProcStep
     \/ \E t \in Task : FaultRelease(t)
     \/ FaultWake
     \/ MesgCleanupDone /\ FaultDone
  /\ UNCHANGED asynchVars

\* The filters of a task: any sender, or one that exists.
Filter == {None} \cup IF run \in app.filter
                       THEN {t \in UserTask : Endpoint(t) /\ run \in app.peers[t]}
                       ELSE {}

SenderCall == \E r \in UserTask :
  /\ run \in UserTask /\ r \in app.peers[run]
  /\ \/ r \in app.copy /\ \E size \in Size : kMesgSendCopy(r, size)
     \/ /\ r \notin app.copy
        /\ \/ \E m \in Mesg : kMesgSend(r, m)
           \/ \E p \in Pool, timeout \in MesgTimeout : kMesgAlloc(p, timeout)

ReceiverCall ==
  /\ \E t \in UserTask : run \in app.peers[t]
  /\ \/ \E m \in Mesg : kMesgFree(m)
     \/ \E from \in Filter, timeout \in MesgTimeout :
          \/ run \notin app.copy /\ kMesgWait(from, timeout)
          \/ run \in app.copy /\ \E size \in Size : kMesgRecvCopy(from, size, timeout)

AsynchNext == SystemPart \/ MesgCleanup \/ SenderCall \/ ReceiverCall

AsynchSpec == AsynchInit /\ [][AsynchNext]_systemVars

(***************************************************************************)
(* Properties.                                                             *)
(***************************************************************************)
\* Every block has one place and one owner (kmesg.c:20): a free one none, a
\* queued one the task it is queued at, once; none is lost with a task that
\* faulted while it held it, was sent it, or was waiting for it.
MesgAccounted ==
  Quiet => \A m \in Mesg :
    /\ mstate[m] = "FREE" <=> ownerOf[m] = None
    /\ ownerOf[m] # None => status[ownerOf[m]] # "TERMINATED"
    /\ \A t \in UserTask :
         Cardinality({i \in DOMAIN mesgQ[t] : mesgQ[t][i] = m})
           = IF mstate[m] = "QUEUED" /\ ownerOf[m] = t THEN 1 ELSE 0

\* The priority of a task is what is owed to it, no more and no less, wherever
\* it waits: its own, the ceilings of the pools whose blocks it owns, also
\* queued ones (kmesg.c:33-45), or the priority of a task it keeps waiting for
\* a mutex, along chains of them.
PrioAsOwed ==
  Quiet => \A t \in UserTask : status[t] # "TERMINATED" =>
    LET owed == {NominalPrio[t]}
          \cup {Ceiling[PoolOf[m]] : m \in {n \in Owns(t) : PoolOf[n] \in DOMAIN Ceiling}}
          \cup {prio[u] : u \in UNION {ToSet(waitQ[m]) : m \in owned[t] \cap Inherit}}
    IN  prio[t] \in owed /\ \A p \in owed : prio[t] <= p

\* Nobody waits in vain: no task for a block while its pool has one, no
\* receiver beside a queued message it would take, or that fits, and none for a
\* copy from a task that is gone.
NoStuckMesgWait ==
  Quiet =>
    /\ \A p \in Pool : waitQ[p] # <<>> => FreeBlocks(p) = {}
    /\ \A r \in UserTask : Waits(r) =>
         /\ \A m \in ToSet(mesgQ[r]) : ~Accepts(r, sender[m])
         /\ \A c \in ToSet(copyQ[r]) : Accepts(r, c.from) => c.size > asked[r].size
         /\ r \in app.copy /\ asked[r].from # None => Endpoint(asked[r].from)

\* What an allocation or a receive reports is true: with success came a block
\* that is the caller's, or a copy that fits, from the sender asked for; with a
\* timeout, a signal or any other error came nothing.
MesgResultTrue ==
  Quiet => \A t \in UserTask :
    /\ ret[t].number \in {"MESG_ALLOC", "MESG_WAIT", "MESG_RECV_COPY"}
    /\ ret[t].err # "RESTART" /\ status[t] \in {"READY", "RUNNING"}
    => IF ret[t].err # "SUCCESS" THEN dest[t] = None
       ELSE CASE ret[t].number = "MESG_RECV_COPY" ->
                   Accepts(t, dest[t].from) /\ dest[t].size <= asked[t].size
              [] ret[t].number = "MESG_WAIT" ->
                   Holds(t, dest[t]) /\ Accepts(t, sender[dest[t]])
              [] OTHER -> Holds(t, dest[t]) /\ sender[dest[t]] = None
=============================================================================
