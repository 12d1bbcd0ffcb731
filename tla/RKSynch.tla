------------------------------- MODULE RKSynch -------------------------------
(***************************************************************************)
(* Synchronous messages (ksynchmesg.c) on the kernel and the mutexes: the  *)
(* copying rendezvous of kSynchSendWait and kSyncRecv, and the extended    *)
(* one of kSynchMesgCall, kSynchMesgAccept and kSynchMesgReply.  The       *)
(* objects are the tasks themselves: each keeps queues of its senders and  *)
(* of its callers, and both sides point at each other.  Queued peers lend  *)
(* their priority; an accepted caller sets that of its server.  Timeouts   *)
(* and signals undo either side's half of a rendezvous at every stage, and  *)
(* PostProc what is left of it when a partner faults.                       *)
(*                                                                         *)
(* The messages are valid, and every task has kSynchMesgInit behind it.    *)
(***************************************************************************)
EXTENDS RKFault

CONSTANTS
  SendersOf,     \* synchMesgSenders of each task
  CallersOf,     \* synchMesgCallers
  AcceptorsOf,   \* synchMesgAcceptWaiters
  App,           \* applications: whom each task sends to and calls, and who
                 \* locks mutexes and may fault
  MesgTimeout,   \* the timeouts they do it with
  FaultWhileAbandoned  \* whether a task may give up a call where tasks fault

Queues == {SendersOf, CallersOf, AcceptorsOf}

ASSUME SynchConstants ==
  /\ \A q \in Queues : q \in [UserTask -> OtherObj]
  /\ \A t \in UserTask : PeerQueue[t] = {SendersOf[t], CallersOf[t]}
  /\ App \subseteq [peers : [UserTask -> SUBSET UserTask],
                   lock : SUBSET UserTask, fault : SUBSET MayFault]
  /\ \A a \in App, t \in UserTask : t \notin a.peers[t]
  /\ MesgTimeout \subseteq Timeout

VARIABLES
  pendingSender,   \* synchMesgPendingSenderPtr, the cached head of the senders
  receiverOf,      \* synchMesgReceiverPtr of a queued sender or a caller
  callState,       \* synchMesgCallState
  activeCaller,    \* synchMesgActiveCallerPtr of a server
  copies,          \* how often the payload (of a call: the reply) of the
                   \* current or last call of a task was copied, up to 2
  app              \* the application at hand

linkVars  == <<pendingSender, receiverOf, callState, activeCaller>>
synchVars == <<linkVars, copies, app>>
systemVars == <<allVars, synchVars>>

\* kTaskHandleResolve: the handle of a task that is gone is stale.
Endpoint(t) == status[t] # "TERMINATED"

OwnsMutex(t) == owned[t] # {}
Copied(c, t) == [c EXCEPT ![t] = IF @ = 2 THEN 2 ELSE @ + 1]

\* A call of the running task begins: nothing is copied yet.
Fresh == [copies EXCEPT ![run] = 0]

Refused(number, o, err) ==
  /\ Returns(number, o, err)
  /\ copies' = Fresh
  /\ UNCHANGED <<schedVars, waitVars, mutexVars, timeVars, call, todo, linkVars>>

\* The running task waits, linked on o (none for a receiver), which its
\* timeout node names when the wait is timed.
Suspend(number, o, st, type, timeout) ==
  /\ timeout # NoWait
  /\ ArmTimeout(run, type, timeout)
  /\ status' = [status EXCEPT ![run] = st]
  /\ call' = [call EXCEPT ![run] = [number |-> number, arg |-> o,
                                    phase |-> "WAIT", wake |-> "SUCCESS"]]
  /\ Returns(number, o, "RESTART")
  /\ kPendCtxSwtch(st)
  /\ copies' = Fresh
  /\ UNCHANGED <<run, prio, readyQ, schLock, savedLock>>

WqpIfTimed(o, timeout) ==
  IF timeout = Forever THEN wqp ELSE [wqp EXCEPT ![run] = o]

\* The wait of t with timeouts of the given type is over.
StopTimeout(t, type) ==
  IF ttype[t] = type
    THEN DisarmTimeout(t) /\ wqp' = [wqp EXCEPT ![t] = None]
    ELSE UNCHANGED <<timeVars, wqp>>

\* kSynchMesgPromoteNext_: p is cached, and when nobody is, the head of q.
Promoted(p, q) == IF p = None /\ q # <<>> THEN Head(q) ELSE p

(***************************************************************************)
(* The copying rendezvous: kSynchSendWaitSyscall and kSyncRecvSyscall.     *)
(***************************************************************************)
MaySend == /\ ~OwnsMutex(run) /\ receiverOf[run] = None
           /\ callState[run] = "IDLE"

\* r waits in kSyncRecv: its synchMesgRecvBufPtr is set.
InReceive(r) == call[r].number = "SYNCH_RECV" /\ status[r] = "RECEIVING"

\* kSynchMesgDirectRecv_: the payload goes straight into the receiver's buffer.
DirectRecv(r) ==
  /\ InReceive(r) /\ pendingSender[r] = None
  /\ Returns("SYNCH_SEND_WAIT", SendersOf[r], "SUCCESS")
  /\ copies' = Copied(Copied(Fresh, run), r)
  /\ StopTimeout(r, "SYNCH_RECV")
  /\ todo' = <<ReadySwtchOf(r)>>
  /\ UNCHANGED <<schedVars, waitQ, mutexVars, call, linkVars>>

SendBlock(r, timeout) ==
  LET o == SendersOf[r]
  IN  /\ Suspend("SYNCH_SEND_WAIT", o, "SENDING", "SYNCH_SEND", timeout)
      /\ wqp' = WqpIfTimed(o, timeout)
      /\ waitQ' = [waitQ EXCEPT ![o] = kTCBQEnqByPrio(@, run, prio)]
      /\ receiverOf' = [receiverOf EXCEPT ![run] = r]
      /\ pendingSender' = [pendingSender EXCEPT ![r] = Promoted(@, waitQ'[o])]
      /\ todo' = <<UpdatePrioOf(r)>>
      /\ UNCHANGED <<mutexVars, callState, activeCaller>>

kSynchSendWait(r, timeout) ==
  /\ Executing
  /\ \/ ~Endpoint(r)
        /\ Refused("SYNCH_SEND_WAIT", SendersOf[r], "INVALID_OBJ")
     \/ Endpoint(r) /\ ~MaySend
        /\ Refused("SYNCH_SEND_WAIT", SendersOf[r], "INVALID_ST")
     \/ MaySend /\ DirectRecv(r)
     \/ Endpoint(r) /\ MaySend /\ ~InReceive(r) /\ timeout = NoWait
        /\ Refused("SYNCH_SEND_WAIT", SendersOf[r], "NOWAIT")
     \/ Endpoint(r) /\ MaySend /\ ~InReceive(r) /\ SendBlock(r, timeout)
  /\ UNCHANGED app

\* kSynchMesgConsumePendingSend_: the cached sender, head of the queue or not.
ConsumePendingSend ==
  LET s == pendingSender[run]
      o == SendersOf[run]
      q == kTCBQRem(waitQ[o], s)
  IN  /\ waitQ' = [waitQ EXCEPT ![o] = q]
      /\ pendingSender' = [pendingSender EXCEPT ![run] = Promoted(None, q)]
      /\ receiverOf' = [receiverOf EXCEPT ![s] = None]
      /\ StopTimeout(s, "SYNCH_SEND")
      /\ copies' = Copied(Copied(Fresh, run), s)
      /\ todo' = <<UpdatePrioOf(run), ReadySwtchOf(s)>>
      /\ UNCHANGED <<callState, activeCaller>>

kSyncRecv(timeout) ==
  /\ Executing
  /\ \/ OwnsMutex(run)
        /\ Refused("SYNCH_RECV", None, "INVALID_ST")
     \/ ~OwnsMutex(run) /\ pendingSender[run] # None /\ ConsumePendingSend
        /\ Returns("SYNCH_RECV", None, "SUCCESS")
        /\ UNCHANGED <<schedVars, mutexVars, call>>
     \/ ~OwnsMutex(run) /\ pendingSender[run] = None /\ timeout = NoWait
        /\ Refused("SYNCH_RECV", None, "BUFFER_EMPTY")
     \/ ~OwnsMutex(run) /\ pendingSender[run] = None
        /\ Suspend("SYNCH_RECV", None, "RECEIVING", "SYNCH_RECV", timeout)
        /\ UNCHANGED <<waitVars, mutexVars, todo, linkVars>>
  /\ UNCHANGED app

(***************************************************************************)
(* The extended rendezvous: kSynchMesgCallSyscall.                         *)
(***************************************************************************)
CallBlock(s, timeout) ==
  LET o == CallersOf[s]
  IN  /\ Suspend("SYNCH_MESG_CALL", o, "RECEIVING", "SYNCH_CALL", timeout)
      /\ wqp' = WqpIfTimed(o, timeout)
      /\ waitQ' = [waitQ EXCEPT ![o] = kTCBQEnqByPrio(@, run, prio)]
      /\ receiverOf' = [receiverOf EXCEPT ![run] = s]
      /\ callState' = [callState EXCEPT ![run] = "QUEUED"]
      /\ todo' = <<UpdatePrioOf(s), [op |-> "wakeAcceptor", task |-> s]>>
      /\ UNCHANGED <<mutexVars, pendingSender, activeCaller>>

\* A call cannot be made without waiting (RK_ERR_INVALID_TIMEOUT).
kSynchMesgCall(s, timeout) ==
  /\ Executing /\ timeout # NoWait
  /\ \/ ~Endpoint(s)
        /\ Refused("SYNCH_MESG_CALL", CallersOf[s], "INVALID_OBJ")
     \/ Endpoint(s) /\ ~MaySend
        /\ Refused("SYNCH_MESG_CALL", CallersOf[s], "INVALID_ST")
     \/ Endpoint(s) /\ MaySend /\ CallBlock(s, timeout)
  /\ UNCHANGED app

\* Mutant: the call does not wake a server that waits to accept.
AcceptorSleepsOn ==
  /\ todo # <<>> /\ Head(todo).op = "wakeAcceptor" /\ todo' = Tail(todo)
  /\ UNCHANGED <<schedVars, waitVars, mutexVars, timeVars, callVars, synchVars>>

\* kSynchMesgWakeAcceptor_: the server will accept when it runs again.
WakeAcceptor ==
  /\ todo # <<>> /\ Head(todo).op = "wakeAcceptor"
  /\ LET o == AcceptorsOf[Head(todo).task]
     IN  IF waitQ[o] = <<>>
         THEN todo' = Tail(todo) /\ UNCHANGED <<waitVars, timeVars>>
         ELSE LET w == Head(waitQ[o])
              IN  /\ waitQ' = [waitQ EXCEPT ![o] = Tail(@)]
                  /\ wqp' = [wqp EXCEPT ![w] = None]
                  /\ IF ttype[w] = "BLOCKING" THEN DisarmTimeout(w)
                                              ELSE UNCHANGED timeVars
                  /\ todo' = <<ReadySwtchOf(w)>> \o Tail(todo)
  /\ UNCHANGED <<schedVars, mutexVars, callVars, synchVars>>

(***************************************************************************)
(* kSynchMesgAcceptSyscall, entered again when the server was woken in it. *)
(***************************************************************************)
EntersAccept ==
  \/ Executing
  \/ /\ todo = <<>> /\ ~pendSV /\ status[run] = "RUNNING"
     /\ call[run].number = "SYNCH_MESG_ACCEPT"

AcceptEnds(err) ==
  /\ Returns("SYNCH_MESG_ACCEPT", AcceptorsOf[run], err)
  /\ call' = [call EXCEPT ![run] = NoCall]

AcceptFails(err) ==
  /\ AcceptEnds(err)
  /\ UNCHANGED <<schedVars, waitVars, mutexVars, timeVars, todo, linkVars, copies>>

\* The server takes the request of its first caller, and the priority this
\* caller has now.
AcceptCaller ==
  LET c == Head(waitQ[CallersOf[run]])
  IN  /\ waitQ' = [waitQ EXCEPT ![CallersOf[run]] = Tail(@)]
      /\ callState' = [callState EXCEPT ![c] = "ACTIVE"]
      /\ activeCaller' = [activeCaller EXCEPT ![run] = c]
      /\ mesgPrio' = [mesgPrio EXCEPT ![run].base = prio[c]]
      /\ todo' = <<UpdatePrioOf(run)>>
      /\ AcceptEnds("SUCCESS")
      /\ UNCHANGED <<schedVars, wqp, lock, owner, faulted, owned, waitingFor,
                     timeVars, pendingSender, receiverOf, copies>>

AcceptBlock(timeout) ==
  LET o == AcceptorsOf[run]
  IN  /\ Suspend("SYNCH_MESG_ACCEPT", o, "RECEIVING", "BLOCKING", timeout)
      /\ wqp' = [wqp EXCEPT ![run] = o]
      /\ waitQ' = [waitQ EXCEPT ![o] = kTCBQEnq(@, run)]
      /\ UNCHANGED <<mutexVars, todo, linkVars>>

kSynchMesgAccept(timeout) ==
  LET free == ~OwnsMutex(run) /\ activeCaller[run] = None
      none == waitQ[CallersOf[run]] = <<>>
  IN  /\ EntersAccept
      /\ \/ OwnsMutex(run) /\ AcceptFails("INVALID_ST")
         \/ ~OwnsMutex(run) /\ activeCaller[run] # None /\ AcceptFails("CALL_BUSY")
         \/ free /\ none /\ timeout = NoWait /\ Executing /\ AcceptFails("BUFFER_EMPTY")
         \/ free /\ none /\ AcceptBlock(timeout)
         \/ free /\ ~none /\ AcceptCaller
      /\ UNCHANGED app

(***************************************************************************)
(* kSynchMesgReply, with the call data of the caller c.                    *)
(***************************************************************************)
\* Mutant: the server keeps the priority of the caller it has answered.
CallerPrioKept(c) ==
  /\ activeCaller' = [activeCaller EXCEPT ![run] = None]
  /\ receiverOf' = [receiverOf EXCEPT ![c] = None]
  /\ callState' = [callState EXCEPT ![c] = "IDLE"]
  /\ UNCHANGED <<pendingSender, mesgPrio>>

\* The links between c and its server, the running task, are cleared.
ClearActiveCall(c) ==
  /\ activeCaller' = [activeCaller EXCEPT ![run] = None]
  /\ mesgPrio' = [mesgPrio EXCEPT ![run].base = NominalPrio[run]]
  /\ receiverOf' = [receiverOf EXCEPT ![c] = None]
  /\ callState' = [callState EXCEPT ![c] = "IDLE"]
  /\ UNCHANGED pendingSender

\* Mutant: an abandoned call is answered like an active one.
ReplyToAbandoned(c) ==
  /\ callState[c] \in {"ACTIVE", "ABANDONED"}
  /\ copies' = Copied(copies, c)
  /\ StopTimeout(c, "SYNCH_CALL")
  /\ ClearActiveCall(c)
  /\ todo' = <<UpdatePrioOf(run), ReadySwtchOf(c)>>

ReplyToActive(c) ==
  /\ callState[c] = "ACTIVE"
  /\ copies' = Copied(copies, c)
  /\ StopTimeout(c, "SYNCH_CALL")
  /\ ClearActiveCall(c)
  /\ todo' = <<UpdatePrioOf(run), ReadySwtchOf(c)>>

ReplyReleases(c) ==
  /\ callState[c] = "ABANDONED"
  /\ ClearActiveCall(c)
  /\ todo' = <<UpdatePrioOf(run)>>
  /\ UNCHANGED <<wqp, timeVars, copies>>

kSynchMesgReply(c) ==
  LET active == Endpoint(c) /\ activeCaller[run] = c /\ receiverOf[c] = run
                /\ callState[c] \in {"ACTIVE", "ABANDONED"}
  IN  /\ Executing
      /\ \/ /\ active => OwnsMutex(run)
            /\ Returns("SYNCH_MESG_REPLY", CallersOf[run],
                       CASE ~Endpoint(c) -> "INVALID_OBJ"
                         [] active -> "INVALID_ST"
                         [] OTHER -> "CALL_NOT_ACTIVE")
            /\ UNCHANGED <<wqp, mutexVars, timeVars, todo, linkVars, copies>>
         \/ /\ active /\ ~OwnsMutex(run)
            /\ ReplyToActive(c) \/ ReplyReleases(c)
            /\ Returns("SYNCH_MESG_REPLY", CallersOf[run], "SUCCESS")
            /\ UNCHANGED <<lock, owner, faulted, owned, waitingFor>>
      /\ UNCHANGED <<schedVars, waitQ, call, app>>

(***************************************************************************)
(* A wait is given up: kSynchMesgAbortSend_ and kSynchMesgAbortCall_, with *)
(* what kTimeoutNodeReady and kTaskSignalReady do around them.             *)
(***************************************************************************)
\* Mutant: the next sender is not cached.
AbortSendOnly(t) ==
  LET r == receiverOf[t]
  IN  /\ waitQ' = [waitQ EXCEPT ![SendersOf[r]] = kTCBQRem(@, t)]
      /\ pendingSender' = [pendingSender EXCEPT ![r] = IF @ = t THEN None ELSE @]
      /\ receiverOf' = [receiverOf EXCEPT ![t] = None]
      /\ UNCHANGED <<callState, activeCaller, mesgPrio>>

AbortSend(t) ==
  LET r == receiverOf[t]
      q == kTCBQRem(waitQ[SendersOf[r]], t)
  IN  /\ waitQ' = [waitQ EXCEPT ![SendersOf[r]] = q]
      /\ pendingSender' = [pendingSender EXCEPT ![r] =
                             Promoted(IF @ = t THEN None ELSE @, q)]
      /\ receiverOf' = [receiverOf EXCEPT ![t] = None]
      /\ UNCHANGED <<callState, activeCaller, mesgPrio>>

\* A call that was not accepted leaves nothing behind; an accepted one stays
\* ABANDONED until the server replies, which no longer runs at its priority.
AbortCall(t) ==
  LET s == receiverOf[t]
  IN  \/ /\ callState[t] = "QUEUED"
         /\ waitQ' = [waitQ EXCEPT ![CallersOf[s]] = kTCBQRem(@, t)]
         /\ receiverOf' = [receiverOf EXCEPT ![t] = None]
         /\ callState' = [callState EXCEPT ![t] = "IDLE"]
         /\ UNCHANGED <<pendingSender, activeCaller, mesgPrio>>
      \/ /\ callState[t] = "ACTIVE" /\ activeCaller[s] = t
         /\ callState' = [callState EXCEPT ![t] = "ABANDONED"]
         /\ mesgPrio' = [mesgPrio EXCEPT ![s].base = NominalPrio[s]]
         /\ UNCHANGED <<waitQ, pendingSender, receiverOf, activeCaller>>

\* The wait of t, in the given kind of timeout or system call, is given up; t
\* is made ready by what follows.
AbortWait(t, sends, calls) ==
  \/ sends /\ AbortSend(t)
  \/ calls /\ AbortCall(t)

SynchTimeout == {"SYNCH_SEND", "SYNCH_RECV", "SYNCH_CALL"}

Expiring(types) == tmo # <<>> /\ ttype[Head(tmo)] \in types

SynchTimeoutExpire ==
  /\ todo # <<>> /\ Head(todo).op = "handleTimeouts"
  /\ Expiring(SynchTimeout) /\ left[Head(tmo)] = 0
  /\ LET t == Head(tmo)
         receives == ttype[t] = "SYNCH_RECV"
     IN  /\ tmo' = Tail(tmo)
         /\ \/ AbortWait(t, ttype[t] = "SYNCH_SEND", ttype[t] = "SYNCH_CALL")
            \/ receives /\ UNCHANGED <<waitQ, linkVars, mesgPrio>>
         /\ todo' = (IF receives THEN <<>> ELSE <<UpdatePrioOf(receiverOf[t])>>)
                      \o <<[op |-> "timeoutReady", task |-> t], HandleTimeoutsOf(TRUE)>>
  /\ UNCHANGED <<schedVars, wqp, lock, owner, faulted, owned, waitingFor, left,
                 ttype, callVars, copies, app>>

\* kTaskSignalReady for a task that waits to send or for the reply to a call.
Peering(t) == call[t].number \in {"SYNCH_SEND_WAIT", "SYNCH_MESG_CALL"}
              /\ status[t] \in {"SENDING", "RECEIVING"}

SynchSignalReady(t) ==
  /\ Executing /\ Peering(t)
  /\ AbortWait(t, call[t].number = "SYNCH_SEND_WAIT", call[t].number = "SYNCH_MESG_CALL")
  /\ todo' = <<UpdatePrioOf(receiverOf[t]), [op |-> "signalReady", task |-> t]>>
  /\ Returns("NONE", None, "SUCCESS")
  /\ UNCHANGED <<schedVars, wqp, lock, owner, faulted, owned, waitingFor,
                 timeVars, call, copies, app>>

(***************************************************************************)
(* kSynchMesgTaskCleanup, in kTaskFaultCleanup for t.  A task that faults  *)
(* was running: it is queued on nobody and waits to accept nobody, and of  *)
(* its own calls at most one it has given up is left.                      *)
(***************************************************************************)
CleaningUp(t) == todo # <<>> /\ Head(todo) = FaultDoneOf(t)

\* kSynchMesgReadyWithStatus_: the wait of p ends with an error, and p, whatever
\* it does by now, is made ready.
ReadyWithError(p) ==
  /\ DisarmTimeout(p)
  /\ wqp' = [wqp EXCEPT ![p] = None]
  /\ call' = IF call[p].number \in {"SYNCH_SEND_WAIT", "SYNCH_MESG_CALL"}
             THEN [call EXCEPT ![p].wake = "OBJ_NOT_INIT"] ELSE call
  /\ todo' = <<ReadySwtchOf(p)>> \o todo
  /\ UNCHANGED <<schedVars, lock, owner, faulted, owned, waitingFor, ret,
                 faultVars, copies, app>>

Senders(r) == ToSet(waitQ[SendersOf[r]])
Callers(r) == ToSet(waitQ[CallersOf[r]])

ReleaseSender(t) ==
  LET o == SendersOf[t]
      p == Head(waitQ[o])
  IN  /\ CleaningUp(t) /\ waitQ[o] # <<>>
      /\ waitQ' = [waitQ EXCEPT ![o] = Tail(@)]
      /\ pendingSender' = [pendingSender EXCEPT ![t] = IF @ = p THEN None ELSE @]
      /\ receiverOf' = [receiverOf EXCEPT ![p] = None]
      /\ ReadyWithError(p)
      /\ UNCHANGED <<callState, activeCaller, mesgPrio>>

ReleaseCaller(t) ==
  LET o == CallersOf[t]
      p == Head(waitQ[o])
  IN  /\ CleaningUp(t) /\ Senders(t) = {} /\ waitQ[o] # <<>>
      /\ waitQ' = [waitQ EXCEPT ![o] = Tail(@)]
      /\ receiverOf' = [receiverOf EXCEPT ![p] = None]
      /\ callState' = [callState EXCEPT ![p] = "IDLE"]
      /\ ReadyWithError(p)
      /\ UNCHANGED <<pendingSender, activeCaller, mesgPrio>>

\* The caller t was serving.
ReleaseActive(t) ==
  LET p == activeCaller[t]
  IN  /\ CleaningUp(t) /\ Senders(t) = {} /\ Callers(t) = {} /\ p # None
      /\ activeCaller' = [activeCaller EXCEPT ![t] = None]
      /\ mesgPrio' = [mesgPrio EXCEPT ![t].base = NominalPrio[t]]
      /\ receiverOf' = [receiverOf EXCEPT ![p] = None]
      /\ callState' = [callState EXCEPT ![p] = "IDLE"]
      /\ ReadyWithError(p)
      /\ UNCHANGED <<waitQ, pendingSender>>

\* What t itself had begun is forgotten at the end.
SynchFaultDone ==
  /\ FaultDone
  /\ LET t == Head(todo).task
     IN  /\ Senders(t) = {} /\ Callers(t) = {} /\ activeCaller[t] = None
         /\ receiverOf' = [receiverOf EXCEPT ![t] = None]
         /\ callState' = [callState EXCEPT ![t] = "IDLE"]
  /\ UNCHANGED <<pendingSender, activeCaller, copies, app>>

(***************************************************************************)
(* The system.                                                             *)
(***************************************************************************)
SynchInit ==
  /\ FaultInit /\ app \in App
  /\ pendingSender = [t \in UserTask |-> None]
  /\ receiverOf = [t \in UserTask |-> None]
  /\ callState = [t \in UserTask |-> "IDLE"]
  /\ activeCaller = [t \in UserTask |-> None]
  /\ copies = [t \in UserTask |-> 0]

KernelPart ==
  /\ \/ UpdatePrio \/ ReadySwtch \/ TimeoutReady \/ TickEnd \/ SignalReady \/ kSwtch
     \/ ~Expiring(SynchTimeout) /\ TimeoutExpire
     \/ Tick \/ SchedCall
     \/ run \in app.lock /\ MutexCall
     \/ \E t \in MaySignal : ~Peering(t) /\ kTaskSignalReady(t)
  /\ UNCHANGED <<faultVars, synchVars>>

FaultPart ==
  \/ /\ \/ run \in app.fault /\ kTaskFaultTerminate
        \/ PostProcStep
        \/ \E t \in UserTask : FaultRelease(t)
        \/ FaultWake
     /\ UNCHANGED synchVars
  \/ \E t \in UserTask : ReleaseSender(t) \/ ReleaseCaller(t) \/ ReleaseActive(t)
  \/ SynchFaultDone

\* A call is given up, at a timeout or a signal, where no task faults: with an
\* abandoned call the cleanup goes wrong, of its caller as of its server.
MayGiveUp == app.fault = {} \/ FaultWhileAbandoned

ClientCall == \E r \in UserTask, timeout \in MesgTimeout :
  /\ run \in UserTask /\ r \in app.peers[run]
  /\ \/ kSynchSendWait(r, timeout)
     \/ (timeout = Forever \/ MayGiveUp) /\ kSynchMesgCall(r, timeout)

ServerCall ==
  /\ \E t \in UserTask : run \in app.peers[t]
  /\ \/ \E timeout \in MesgTimeout : kSyncRecv(timeout) \/ kSynchMesgAccept(timeout)
     \/ \E c \in UserTask : run \in app.peers[c] /\ kSynchMesgReply(c)

PeerSignal == \E t \in MaySignal :
  /\ call[t].number = "SYNCH_MESG_CALL" => MayGiveUp
  /\ SynchSignalReady(t)

SynchNext ==
  \/ KernelPart
  \/ FaultPart
  \/ /\ WakeAcceptor \/ SynchTimeoutExpire \/ PeerSignal \/ ClientCall \/ ServerCall
     /\ UNCHANGED faultVars

SynchSpec == SynchInit /\ [][SynchNext]_systemVars

(***************************************************************************)
(* Properties.                                                             *)
(***************************************************************************)
\* Timeout, signal, reply, cleanup and hand-over clear both sides of every link
\* (ksynchmesg.c:25): who points at a receiver is queued there, or is the call
\* its server points back at, and the other way round; the cache names a
\* queued sender as long as there is one.
LinksAgree ==
  Quiet => \A r \in UserTask :
    /\ pendingSender[r] \in IF Senders(r) = {} THEN {None} ELSE Senders(r)
    /\ \A t \in UserTask :
         /\ t \in Senders(r) <=> receiverOf[t] = r /\ callState[t] = "IDLE"
         /\ t \in Callers(r) <=> receiverOf[t] = r /\ callState[t] = "QUEUED"
         /\ activeCaller[r] = t <=>
              receiverOf[t] = r /\ callState[t] \in {"ACTIVE", "ABANDONED"}
         /\ callState[t] \in {"QUEUED", "ACTIVE"} <=>
              call[t].number = "SYNCH_MESG_CALL"

\* What send, receive and call report is true: the payload, or the reply, was
\* copied once if the call succeeded and never if it timed out, was
\* interrupted or refused, however these race with the other side.
RendezvousResultTrue ==
  Quiet => \A t \in UserTask :
    /\ ret[t].number \in {"SYNCH_SEND_WAIT", "SYNCH_RECV", "SYNCH_MESG_CALL"}
    /\ ret[t].err # "RESTART"
    => copies[t] = IF ret[t].err = "SUCCESS" THEN 1 ELSE 0

\* Nobody waits in vain: no sender is queued on a receiver that waits, no
\* caller on a server that waits to accept, and nobody on a task that is gone.
NoStuckRendezvous ==
  Quiet => \A r \in UserTask :
    /\ InReceive(r) => Senders(r) = {}
    /\ waitQ[AcceptorsOf[r]] # <<>> => Callers(r) = {}
    /\ ~Endpoint(r) => \A t \in UserTask : receiverOf[t] # r

\* No server is a client, so that no priority changes while its task is
\* queued: a change goes on along chains of mutexes, not of rendezvous
\* (ksch.c:948).
ClientsAreNotServers ==
  \A t \in UserTask : \A r \in app.peers[t] : app.peers[r] = {}

\* A receiver is as urgent as it must be and no more: at least as urgent as every
\* client queued on it, and so is the owner of a mutex it waits for
\* (ksynchmesg.c:22, ksch.c:808); and more urgent than the call it serves, or its
\* own priority, only while somebody who lends the priority waits for it.
PeersLendExactly ==
  Quiet /\ ClientsAreNotServers => \A r \in UserTask : Endpoint(r) =>
    /\ \A t \in Senders(r) \cup Callers(r) :
         /\ prio[r] <= prio[t]
         /\ waitingFor[r] # None => prio[owner[waitingFor[r]]] <= prio[t]
    /\ \/ prio[r] = IF /\ activeCaller[r] # None
                       /\ callState[activeCaller[r]] = "ACTIVE"
                    THEN mesgPrio[r].base ELSE NominalPrio[r]
       \/ \E t \in Senders(r) \cup Callers(r)
                   \cup UNION {ToSet(waitQ[m]) : m \in owned[r]} : prio[t] = prio[r]

\* The sender cached as pending is the head of the queue (ksynchmesg.c:20).
PendingIsHead ==
  Quiet => \A r \in UserTask :
    pendingSender[r] # None => pendingSender[r] = Head(waitQ[SendersOf[r]])
=============================================================================
