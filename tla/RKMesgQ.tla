------------------------------ MODULE RKMesgQ --------------------------------
(***************************************************************************)
(* Message queues and mailboxes (kmesgq.c) on the kernel and PostProc:     *)
(* copies of messages wait in a ring; a sender waits for room, a receiver  *)
(* for a message, and one that waits gets the message straight into its    *)
(* buffer.  The message of a broadcast stays in the slot of a mailbox until*)
(* every receiver that waited for it has run again and read it.            *)
(*                                                                         *)
(* A woken sender, and a woken receiver of a broadcast, is not served yet: *)
(* its system call runs again when the task does.                          *)
(***************************************************************************)
EXTENDS RKPostProc

CONSTANTS
  Queue,           \* message queues
  Senders,         \* the wait queue waitingSenders of each
  Receivers,       \* the wait queue waitingReceivers of each
  Capacity,        \* the values maxBuf may have
  Mesg,            \* messages
  MaySend,         \* the tasks that send
  MayReceive,      \* the tasks that receive
  MesgTimeout,     \* the timeouts they do it with
  ResetMailbox     \* whether the application resets mailboxes, too

ASSUME MesgQConstants ==
  /\ Senders \in [Queue -> OtherObj] /\ Receivers \in [Queue -> OtherObj]
  /\ \A q, r \in Queue : Senders[q] # Receivers[r]
  /\ \A q, r \in Queue :
       Senders[q] = Senders[r] \/ Receivers[q] = Receivers[r] => q = r
  /\ Capacity \subseteq Nat \ {0}
  /\ Mesg # {} /\ MesgTimeout \subseteq Timeout
  /\ MaySend \subseteq UserTask /\ MayReceive \subseteq UserTask
  /\ ResetMailbox \in BOOLEAN

VARIABLES
  maxBuf,              \* ringBuf.maxBuf
  ring,                \* the messages in the ring, oldest first
  broadcastReceivers,  \* how many receivers the slot is still reserved for
  outgoing,            \* the message the suspended sender asked to send
  inbox                \* the message each task received last

mesgQVars == <<maxBuf, ring, broadcastReceivers, outgoing, inbox>>
allVars == <<kernelVars, postVars, mesgQVars>>

Mailbox(q) == maxBuf[q] = 1
Full(q)    == Len(ring[q]) >= maxBuf[q]

\* A call is entered by the task, or again once the task was woken in it.
Reentered(number, o) ==
  /\ todo = <<>> /\ ~pendSV /\ status[run] = "RUNNING"
  /\ call[run].number = number /\ call[run].arg = o
Enters(number, o) == Executing \/ Reentered(number, o)

\* The call is over: kSyscallTaskClear.
Ends(number, o, err) ==
  /\ Returns(number, o, err)
  /\ call' = [call EXCEPT ![run] = NoCall]

\* The call ends and has changed nothing.
Fails(number, o, err) ==
  /\ Ends(number, o, err)
  /\ UNCHANGED <<schedVars, waitVars, mutexVars, timeVars, todo, postVars,
                 maxBuf, ring, broadcastReceivers, inbox>>

\* The running task waits on o, one of the queues of a message queue.
WaitOn(o, st, number, phase, timeout) ==
  /\ timeout # NoWait
  /\ ArmTimeout(run, "BLOCKING", timeout)
  /\ wqp' = IF timeout = Forever THEN wqp ELSE [wqp EXCEPT ![run] = o]
  /\ status' = [status EXCEPT ![run] = st]
  /\ waitQ' = [waitQ EXCEPT ![o] = kTCBQEnqByPrio(@, run, prio)]
  /\ call' = [call EXCEPT ![run] = [number |-> number, arg |-> o,
                                    phase |-> phase, wake |-> "SUCCESS"]]
  /\ Returns(number, o, "RESTART")
  /\ kPendCtxSwtch(st)
  /\ UNCHANGED <<run, prio, readyQ, schLock, savedLock, mutexVars, todo,
                 postVars, maxBuf, ring, broadcastReceivers, inbox>>

\* The timeouts of the set S of waiters are cleared.
ClearTimeouts(S) ==
  LET timed == {t \in S : ttype[t] = "BLOCKING"}
  IN  /\ tmo'   = Among(tmo, Task \ timed)
      /\ left'  = [t \in Task |-> IF t \in timed THEN 0 ELSE left[t]]
      /\ ttype' = [t \in Task |-> IF t \in timed THEN "NONE" ELSE ttype[t]]
      /\ wqp'   = [t \in Task |-> IF t \in timed THEN None ELSE wqp[t]]

\* The tasks of ts are made ready one by one.  (The code reschedules once, for
\* the most urgent: the request is the same.)
ReadyAll(ts) == [i \in DOMAIN ts |-> ReadySwtchOf(ts[i])]

Waiting(q, phases) == Among(waitQ[Receivers[q]], {t \in Task : call[t].phase \in phases})

\* Whom kMesgQueueDeqNormalReceiver_ picks from: it skips only the receivers
\* that wait for a broadcast still to come.
NormalReceivers(q) == Waiting(q, CallPhase \ {"BROADCAST"})

WakeSenderIfAny(q) ==
  IF waitQ[Senders[q]] = <<>> THEN UNCHANGED <<waitVars, timeVars, todo>>
                              ELSE WakeHead(Senders[q])

\* kMesgQueueWakeNormalReceiverIfAny_.
WakeNormalReceiverIfAny(q) ==
  IF NormalReceivers(q) = <<>> THEN UNCHANGED <<waitVars, timeVars, todo>>
  ELSE LET t == Head(NormalReceivers(q))
       IN  /\ waitQ' = [waitQ EXCEPT ![Receivers[q]] = kTCBQRem(@, t)]
           /\ ClearTimeouts({t})
           /\ todo' = <<ReadySwtchOf(t)>>

(***************************************************************************)
(* Delivery of a message that finds room: kMesgQueueDirectSendIfAny_, or   *)
(* the ring.  `number` and what the sender's call becomes are the caller's.*)
(***************************************************************************)
\* Mutant: a message always goes through the ring.
NeverDirect(q) == FALSE

MayDirect(q) ==
  ring[q] = <<>> /\ broadcastReceivers[q] = 0 /\ NormalReceivers(q) # <<>>

\* The first receiver gets m; after says what is left of the sender's call.
DirectSend(q, m, callAfter) ==
  LET t == Head(NormalReceivers(q))
  IN  /\ waitQ' = [waitQ EXCEPT ![Receivers[q]] = kTCBQRem(@, t)]
      /\ ClearTimeouts({t})
      /\ inbox' = [inbox EXCEPT ![t] = m]
      /\ call' = [callAfter EXCEPT ![t].phase = "DELIVERED"]
      /\ todo' = <<ReadySwtchOf(t)>>
      /\ UNCHANGED <<ring, broadcastReceivers>>

RingSend(q, newRing, callAfter) ==
  /\ ring' = [ring EXCEPT ![q] = newRing]
  /\ WakeNormalReceiverIfAny(q)
  /\ call' = callAfter
  /\ UNCHANGED <<broadcastReceivers, inbox>>

(***************************************************************************)
(* kMesgQueueSendSyscall and kMesgQueueJamSyscall.                         *)
(***************************************************************************)
AddTo(q, m, number) ==
  IF number = "MESG_QUEUE_JAM" THEN <<m>> \o ring[q] ELSE Append(ring[q], m)

SendMesg(q, m, timeout, number) ==
  LET ended == [call EXCEPT ![run] = NoCall]
      o == Senders[q]
  IN  \/ /\ Full(q) /\ timeout = NoWait
         /\ Fails(number, o, "BUFFER_FULL")
         /\ UNCHANGED outgoing
      \/ /\ Full(q) /\ WaitOn(o, "SENDING", number, "WAIT", timeout)
         /\ outgoing' = [outgoing EXCEPT ![run] = m]
      \/ /\ ~Full(q)
         /\ \/ MayDirect(q) /\ DirectSend(q, m, ended)
            \/ ~MayDirect(q) /\ RingSend(q, AddTo(q, m, number), ended)
         /\ Returns(number, o, "SUCCESS")
         /\ outgoing' = [outgoing EXCEPT ![run] = None]
         /\ UNCHANGED <<schedVars, mutexVars, postVars, maxBuf>>

kMesgQueueSend(q, m, timeout, number) ==
  Executing /\ SendMesg(q, m, timeout, number)

\* A woken sender tries again: the room may be taken by then.
SendAgain(q, timeout, number) ==
  /\ Reentered(number, Senders[q]) /\ timeout # NoWait
  /\ SendMesg(q, outgoing[run], timeout, number)

\* An interrupt sends without waiting.
IsrSend(q, m) ==
  /\ todo = <<>> /\ ~Full(q)
  /\ \/ MayDirect(q) /\ DirectSend(q, m, call)
     \/ ~MayDirect(q) /\ RingSend(q, Append(ring[q], m), call)
  /\ UNCHANGED <<schedVars, mutexVars, ret, postVars, maxBuf, outgoing>>

(***************************************************************************)
(* kMesgQueueRecvSyscall.                                                  *)
(***************************************************************************)
kMesgQueueRecv(q, timeout) ==
  LET nothing == ring[q] = <<>> \/ broadcastReceivers[q] > 0
      o == Receivers[q]
  IN  /\ Enters("MESG_QUEUE_RECV", o)
      /\ \/ nothing /\ timeout = NoWait /\ Executing
            /\ Fails("MESG_QUEUE_RECV", o, "BUFFER_EMPTY")
         \/ nothing /\ WaitOn(o, "RECEIVING", "MESG_QUEUE_RECV", "WAIT", timeout)
         \/ /\ ~nothing
            /\ ring' = [ring EXCEPT ![q] = Tail(@)]
            /\ inbox' = [inbox EXCEPT ![run] = Head(ring[q])]
            /\ WakeSenderIfAny(q)
            /\ Ends("MESG_QUEUE_RECV", o, "SUCCESS")
            /\ UNCHANGED <<schedVars, mutexVars, postVars, maxBuf,
                           broadcastReceivers>>
      /\ UNCHANGED outgoing

(***************************************************************************)
(* Mailboxes: kMesgQueuePostOvw, kMesgQueueBroadcast and its receivers.    *)
(***************************************************************************)
kMesgQueuePostOvw(q, m) ==
  /\ Executing /\ Mailbox(q)
  /\ \/ broadcastReceivers[q] > 0 /\ Fails("NONE", None, "BUFFER_FULL")
     \/ /\ broadcastReceivers[q] = 0
        /\ \/ MayDirect(q) /\ DirectSend(q, m, call)
           \/ /\ ~MayDirect(q)
              /\ ring' = [ring EXCEPT ![q] = <<m>>]
              /\ IF ring[q] = <<>> THEN WakeNormalReceiverIfAny(q)
                                   ELSE UNCHANGED <<waitVars, timeVars, todo>>
              /\ UNCHANGED <<call, broadcastReceivers, inbox>>
        /\ Returns("NONE", None, "SUCCESS")
        /\ UNCHANGED <<schedVars, mutexVars, postVars, maxBuf>>
  /\ UNCHANGED outgoing

\* Mutant: the timeouts of the receivers stay armed until they are woken.
PreparedStillTimed(q, m, to) ==
  /\ ring' = [ring EXCEPT ![q] = <<m>>]
  /\ broadcastReceivers' = [broadcastReceivers EXCEPT ![q] = Len(to)]
  /\ call' = [t \in Task |-> IF t \in ToSet(to)
                             THEN [call[t] EXCEPT !.phase = "BROADCAST_DELIVER"]
                             ELSE call[t]]
  /\ JobRoom /\ JobEnq([job |-> "MESGQ_BROADCAST_WAKE", obj |-> q, n |-> Len(to)])
  /\ Returns("NONE", None, "SUCCESS")
  /\ UNCHANGED <<schedVars, waitVars, timeVars, mutexVars, postStep, budget,
                 maxBuf, inbox>>

\* kMesgQueuePrepareBroadcastReceivers_: those who wait now take part; one of
\* several is woken by PostProc, a single one at once.
BroadcastTo(q, m, to) ==
  /\ ring' = [ring EXCEPT ![q] = <<m>>]
  /\ broadcastReceivers' = [broadcastReceivers EXCEPT ![q] = Len(to)]
  /\ ClearTimeouts(ToSet(to))
  /\ call' = [t \in Task |-> IF t \in ToSet(to)
                             THEN [call[t] EXCEPT !.phase = "BROADCAST_DELIVER"]
                             ELSE call[t]]
  /\ IF Len(to) = 1
     THEN /\ waitQ' = [waitQ EXCEPT ![Receivers[q]] = kTCBQRem(@, to[1])]
          /\ todo' = ReadyAll(to)
          /\ UNCHANGED postVars
     ELSE /\ JobEnq([job |-> "MESGQ_BROADCAST_WAKE", obj |-> q, n |-> Len(to)])
          /\ UNCHANGED <<waitQ, postStep, budget>>
  /\ Returns("NONE", None, "SUCCESS")
  /\ UNCHANGED <<schedVars, mutexVars, maxBuf, inbox>>

kMesgQueueBroadcast(q, m) ==
  LET to == Waiting(q, {"BROADCAST"})
  IN  /\ Executing /\ Mailbox(q)
      /\ \/ to = <<>> /\ Fails("NONE", None, "BUFFER_EMPTY")
         \/ to # <<>> /\ Full(q) /\ Fails("NONE", None, "BUFFER_FULL")
         \/ to # <<>> /\ ~Full(q) /\ Len(to) > 1 /\ ~JobRoom
            /\ Fails("NONE", None, "NOWAIT")
         \/ to # <<>> /\ ~Full(q) /\ (Len(to) > 1 => JobRoom)
            /\ BroadcastTo(q, m, to)
      /\ UNCHANGED outgoing

\* kMesgQueueBroadcastWake, by PostProc: n of the prepared receivers.
PostProcBroadcastWake(job) ==
  LET prepared == Waiting(job.obj, {"BROADCAST_DELIVER"})
      woken == SubSeq(prepared, 1, IF Len(prepared) < job.n THEN Len(prepared)
                                                            ELSE job.n)
  IN  /\ JobDeq(job) /\ job.job = "MESGQ_BROADCAST_WAKE"
      /\ waitQ' = [waitQ EXCEPT ![Receivers[job.obj]] =
                     Among(@, Task \ ToSet(woken))]
      /\ todo' = ReadyAll(woken)
      /\ UNCHANGED <<schedVars, wqp, mutexVars, timeVars, callVars, postSig,
                     postStep, mesgQVars>>

\* Mutant: every reader takes the message out.
BroadcastReadTakes(q) ==
  /\ ring' = [ring EXCEPT ![q] = <<>>]
  /\ broadcastReceivers' = [broadcastReceivers EXCEPT ![q] = @ - 1]
  /\ WakeSenderIfAny(q)

\* The last reader takes the message out, the others copy it.
BroadcastRead(q) ==
  IF broadcastReceivers[q] = 1
  THEN /\ ring' = [ring EXCEPT ![q] = <<>>]
       /\ broadcastReceivers' = [broadcastReceivers EXCEPT ![q] = 0]
       /\ WakeSenderIfAny(q)
  ELSE /\ broadcastReceivers' = [broadcastReceivers EXCEPT ![q] = @ - 1]
       /\ UNCHANGED <<ring, waitVars, timeVars, todo>>

kMesgQueueBroadcastRecv(q, timeout) ==
  LET o == Receivers[q]
  IN  /\ Enters("MESG_QUEUE_BROADCAST_RECV", o) /\ Mailbox(q)
      /\ \/ /\ call[run].phase # "BROADCAST_DELIVER" /\ timeout = NoWait /\ Executing
            /\ Fails("MESG_QUEUE_BROADCAST_RECV", o, "BUFFER_EMPTY")
         \/ /\ call[run].phase # "BROADCAST_DELIVER"
            /\ WaitOn(o, "RECEIVING", "MESG_QUEUE_BROADCAST_RECV", "BROADCAST",
                      timeout)
         \/ /\ call[run].phase = "BROADCAST_DELIVER"
            /\ ring[q] # <<>> /\ broadcastReceivers[q] > 0   \* K_ASSERT
            /\ inbox' = [inbox EXCEPT ![run] = Head(ring[q])]
            /\ BroadcastRead(q)
            /\ Ends("MESG_QUEUE_BROADCAST_RECV", o, "SUCCESS")
            /\ UNCHANGED <<schedVars, mutexVars, postVars, maxBuf>>
      /\ UNCHANGED outgoing

(***************************************************************************)
(* kMesgQueueReset, by a task or, when an interrupt asked for it and tasks *)
(* wait, by PostProc.                                                      *)
(***************************************************************************)
MayReset(q) == ResetMailbox \/ ~Mailbox(q)
WaitsOnQueue(q) == waitQ[Receivers[q]] \o waitQ[Senders[q]]

ResetQueue(q) ==
  LET all == WaitsOnQueue(q)
  IN  /\ ring' = [ring EXCEPT ![q] = <<>>]
      /\ broadcastReceivers' = [broadcastReceivers EXCEPT ![q] = 0]
      /\ waitQ' = [waitQ EXCEPT ![Receivers[q]] = <<>>, ![Senders[q]] = <<>>]
      /\ ClearTimeouts(ToSet(all))
      /\ call' = [t \in Task |-> IF t \in ToSet(waitQ[Receivers[q]])
                                 THEN [call[t] EXCEPT !.phase = "WAIT"] ELSE call[t]]
      /\ todo' = ReadyAll(all)
      /\ UNCHANGED <<schedVars, mutexVars, maxBuf, outgoing, inbox>>

kMesgQueueReset(q) ==
  /\ Executing /\ MayReset(q) /\ ResetQueue(q)
  /\ Returns("NONE", None, "SUCCESS")
  /\ UNCHANGED postVars

IsrReset(q) ==
  /\ todo = <<>> /\ MayReset(q)
  /\ \/ WaitsOnQueue(q) = <<>> /\ ResetQueue(q) /\ UNCHANGED <<ret, postVars>>
     \/ /\ WaitsOnQueue(q) # <<>> /\ JobRoom
        /\ JobEnq([job |-> "MESGQ_RESET", obj |-> q, n |-> Len(WaitsOnQueue(q))])
        /\ UNCHANGED <<schedVars, waitVars, mutexVars, timeVars, callVars,
                       postStep, budget, mesgQVars>>

PostProcReset(job) ==
  /\ JobDeq(job) /\ job.job = "MESGQ_RESET" /\ ResetQueue(job.obj)
  /\ UNCHANGED <<ret, postSig, postStep>>

(***************************************************************************)
(* The system.                                                             *)
(***************************************************************************)
MesgQInit ==
  /\ Init /\ PostProcInit
  /\ maxBuf \in [Queue -> Capacity]
  /\ ring = [q \in Queue |-> <<>>]
  /\ broadcastReceivers = [q \in Queue |-> 0]
  /\ outgoing = [t \in UserTask |-> None]
  /\ \E m \in Mesg : inbox = [t \in UserTask |-> m]

\* A signal is sent only to a task whose wait has a timeout.
TimedSignal == \E t \in MaySignal : wqp[t] # None /\ kTaskSignalReady(t)

KernelPart ==
  /\ KernelStep \/ Tick \/ SchedCall \/ TimedSignal
  /\ UNCHANGED <<postVars, mesgQVars>>

PostProcStep ==
  \/ /\ PostProcResume \/ PostProcScanned \/ PostProcWait
     /\ UNCHANGED mesgQVars
  \/ \E job \in ToSet(jobs) : PostProcBroadcastWake(job) \/ PostProcReset(job)

MesgQCall == \E q \in Queue :
  \/ \E m \in Mesg, timeout \in MesgTimeout :
       run \in MaySend /\ \E number \in {"MESG_QUEUE_SEND", "MESG_QUEUE_JAM"} :
         kMesgQueueSend(q, m, timeout, number) \/ SendAgain(q, timeout, number)
  \/ run \in MayReceive /\ \E timeout \in MesgTimeout :
       kMesgQueueRecv(q, timeout) \/ kMesgQueueBroadcastRecv(q, timeout)
  \/ \E m \in Mesg :
       \/ run \in MaySend /\ (kMesgQueuePostOvw(q, m) \/ kMesgQueueBroadcast(q, m))
       \/ IsrSend(q, m)
  \/ kMesgQueueReset(q) \/ IsrReset(q)

MesgQNext == KernelPart \/ PostProcStep \/ MesgQCall

MesgQSpec == MesgQInit /\ [][MesgQNext]_allVars

(***************************************************************************)
(* Properties.                                                             *)
(***************************************************************************)
\* A broadcast reserves the slot for exactly the receivers that are still to
\* read it, woken or not (kmesgq.c:21): none of them times out or is passed
\* over, and the slot is neither reused before nor kept after them.
BroadcastAccounted ==
  Quiet => \A q \in Queue :
    /\ broadcastReceivers[q] =
         Cardinality({t \in Task : /\ call[t].arg = Receivers[q]
                                   /\ call[t].phase = "BROADCAST_DELIVER"})
    /\ broadcastReceivers[q] > 0 => Len(ring[q]) = 1

\* No receiver waits beside a message: as long as one is in the ring that no
\* broadcast holds, nobody waits to receive from it.
NoReceiverBesideMessage ==
  Quiet => \A q \in Queue :
    ring[q] # <<>> /\ broadcastReceivers[q] = 0 => Waiting(q, {"WAIT"}) = <<>>

\* The tasks that were woken in a call on q and have not run since.
WokenOn(q) == {t \in Task : /\ call[t].arg \in {Senders[q], Receivers[q]}
                            /\ status[t] \in {"READY", "RUNNING"}}

\* A task waits to send only because the queue is full (kmesgq.c:20): there is
\* no state in which one task waits to send and another to receive, with
\* nobody on the way to serve them.
NoStuckPair ==
  Quiet => \A q \in Queue :
    ~ /\ waitQ[Senders[q]] # <<>> /\ Waiting(q, {"WAIT"}) # <<>>
      /\ broadcastReceivers[q] = 0 /\ WokenOn(q) = {}

QueueAbs == INSTANCE MesgQAbs
         WITH Reader <- UserTask, size <- maxBuf, content <- ring, got <- inbox,
              readers <- [q \in Queue |->
                {t \in Task : /\ call[t].arg = Receivers[q]
                              /\ call[t].phase = "BROADCAST_DELIVER"}]

\* With its waits, restarts, timeouts and direct deliveries the service does
\* what MesgQAbs promises: messages are neither lost, doubled nor overtaken,
\* and each reader of a broadcast reads it once.
ImplementsMesgQAbs == QueueAbs!Spec
=============================================================================
