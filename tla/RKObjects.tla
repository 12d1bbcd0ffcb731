------------------------------ MODULE RKObjects ------------------------------
(***************************************************************************)
(* Dynamic objects (kdynobjs.c, kmem.c) and the most-recent messages they  *)
(* carry (kmrm.c).  A handle names a slot of the object pool and its       *)
(* generation.  Any task may create and destroy.  A create allocates,      *)
(* initialises and registers the object in critical regions of their own;  *)
(* a destroy is one.  Privileged tasks resolve a handle before they enter  *)
(* the critical region of the operation, so that anything may happen in    *)
(* between; the system calls of the others, creates among them, are        *)
(* atomic.  MRM buffers are shared by the current value, its               *)
(* readers and the writers; a table of leases says who holds what, also    *)
(* for the cleanup after a task that is terminated.                        *)
(*                                                                         *)
(* The two partitions of an MRM (buffers and their payloads) are taken     *)
(* from and given back to together, and are one here.  Which of the free   *)
(* blocks comes next is left open.                                         *)
(***************************************************************************)
EXTENDS Naturals, FiniteSets

CONSTANTS
  Task,
  Privileged,   \* those that call the kernel directly; the others do so by SVC
  Slot,         \* the blocks of dynMrmPart
  Buf,          \* the blocks of the pool given to kMRMCreate
  Payload,      \* what is published
  LeasesMax,    \* RK_CONF_MRM_LEASES_MAX
  GenBits,      \* the bits of a generation
  MaxObjects,   \* bound: the objects created
  MaxGets,      \* bound: how often a task holds the same buffer
  None

ASSUME ObjectConstants ==
  /\ IsFiniteSet(Task) /\ IsFiniteSet(Buf) /\ IsFiniteSet(Slot)
  /\ Privileged \subseteq Task
  /\ LeasesMax \in Nat \ {0} /\ MaxObjects \in Nat /\ MaxGets \in Nat
  /\ GenBits \in Nat \ {0}
  /\ None \notin Task \cup Slot \cup Buf \cup Payload

VARIABLES
  freeSlots,   \* the free list of dynMrmPart
  registry,    \* the slots with an entry in dynMrmRegistry
  generation,  \* dynMrmGeneration
  init,        \* the objects that are initialised
  object,      \* which object a slot holds or held last, counted from 1
  cell,        \* the handle a task uses, with the object it was made for
  making,      \* the slot a task is making an object in
  calling,     \* a call of a privileged task that has resolved its handle
  curr,        \* currBufPtr
  freeBufs,    \* the free lists of mrmMem and mrmDataMem
  nUsers,      \* nUsers of each buffer
  payload,     \* mrmData of each buffer
  gets,        \* getCount of the lease of a task on a buffer
  reserved     \* the leases that are reserved

poolVars   == <<freeSlots, registry, generation, init, object>>
callVars   == <<cell, making, calling>>
bufVars    == <<curr, freeBufs, nUsers, payload>>
leaseVars  == <<gets, reserved>>
objectVars == <<poolVars, callVars, bufVars, leaseVars>>

Lease == Task \X Slot \X Buf

Init ==
  /\ freeSlots = Slot /\ registry = {} /\ init = {}
  /\ generation = [s \in Slot |-> 0]
  /\ object = [s \in Slot |-> 0]
  /\ cell = [t \in Task |-> None]
  /\ making = [t \in Task |-> None]
  /\ calling = [t \in Task |-> None]
  /\ curr = [s \in Slot |-> None]
  /\ freeBufs = [s \in Slot |-> {}]
  /\ nUsers = [x \in Slot \X Buf |-> 0]
  /\ payload = [x \in Slot \X Buf |-> None]
  /\ gets = [x \in Lease |-> 0]
  /\ reserved = {}

(***************************************************************************)
(* Handles.                                                                *)
(***************************************************************************)
Resolves(h) ==
  h # None /\ h.slot \in registry /\ generation[h.slot] = h.generation

\* Defect: a destroy leaves the generation as it is.
GenerationKept(s) == UNCHANGED generation

kDynObjGenerationBump_(s) ==
  generation' = [generation EXCEPT ![s] =
                   IF (@ + 1) % 2^GenBits = 0 THEN 1 ELSE (@ + 1) % 2^GenBits]

\* t is not in the middle of anything.
Idle(t) == making[t] = None /\ calling[t] = None

\* n counts the next object, which takes the free slot s.
TakesSlot(s, n) ==
  /\ \A r \in Slot : object[r] < n
  /\ \E r \in Slot : object[r] = n - 1
  /\ freeSlots' = freeSlots \ {s}
  /\ object' = [object EXCEPT ![s] = n]

kMRMCreateAlloc(t) ==
  /\ t \in Privileged /\ Idle(t) /\ cell[t] = None
  /\ \E s \in freeSlots, n \in 1 .. MaxObjects :
       /\ TakesSlot(s, n)
       /\ making' = [making EXCEPT ![t] = s]
  /\ UNCHANGED <<registry, generation, init, cell, calling, bufVars, leaseVars>>

kMRMInit(t) ==
  /\ making[t] # None /\ making[t] \notin init
  /\ init' = init \cup {making[t]}
  /\ curr' = [curr EXCEPT ![making[t]] = None]
  /\ freeBufs' = [freeBufs EXCEPT ![making[t]] = Buf]
  /\ UNCHANGED <<freeSlots, registry, generation, object, callVars, nUsers,
                 payload, leaseVars>>

kDynObjPublishHandle(t) ==
  LET s == making[t] IN
  /\ s # None /\ s \in init \ registry
  /\ registry' = registry \cup {s}
  /\ cell' = [cell EXCEPT ![t] = [slot |-> s, generation |-> generation[s],
                                  object |-> object[s]]]
  /\ making' = [making EXCEPT ![t] = None]
  /\ UNCHANGED <<freeSlots, generation, init, object, calling, bufVars, leaseVars>>

\* The three of them in one system call, which no other task interrupts.
kMRMCreateSyscall(t) ==
  /\ t \notin Privileged /\ cell[t] = None
  /\ \E s \in freeSlots, n \in 1 .. MaxObjects :
       /\ TakesSlot(s, n)
       /\ init' = init \cup {s}
       /\ curr' = [curr EXCEPT ![s] = None]
       /\ freeBufs' = [freeBufs EXCEPT ![s] = Buf]
       /\ registry' = registry \cup {s}
       /\ cell' = [cell EXCEPT ![t] = [slot |-> s, generation |-> generation[s],
                                       object |-> n]]
  /\ UNCHANGED <<generation, making, calling, nUsers, payload, leaseVars>>

\* The application hands a handle on, or forgets one.
ShareHandle(t, u) ==
  /\ Idle(t) /\ Idle(u) /\ cell[t] # cell[u]
  /\ cell' = [cell EXCEPT ![u] = cell[t]]
  /\ UNCHANGED <<poolVars, making, calling, bufVars, leaseVars>>

(***************************************************************************)
(* Leases and buffers.                                                     *)
(***************************************************************************)
Reserved(s, b) == \E t \in Task : <<t, s, b>> \in reserved
Leased(x) == x \in reserved \/ gets[x] > 0
kMRMHasActiveLease(s) == \E t \in Task, b \in Buf : Leased(<<t, s, b>>)

MayTrack(x) == Leased(x) \/ Cardinality({y \in Lease : Leased(y)}) < LeasesMax

kMRMDestroy(t) ==
  LET s == cell[t].slot IN
  /\ Idle(t) /\ Resolves(cell[t]) /\ s \in init
  /\ ~kMRMHasActiveLease(s)
  /\ curr[s] # None => nUsers[<<s, curr[s]>>] = 0
  /\ Cardinality(Buf \ freeBufs[s]) = IF curr[s] = None THEN 0 ELSE 1
  /\ registry' = registry \ {s}
  /\ kDynObjGenerationBump_(s)
  /\ init' = init \ {s}
  /\ freeSlots' = freeSlots \cup {s}
  /\ curr' = [curr EXCEPT ![s] = None]
  /\ freeBufs' = [freeBufs EXCEPT ![s] = {}]
  /\ cell' = [cell EXCEPT ![t] = None]
  /\ UNCHANGED <<object, making, calling, nUsers, payload, leaseVars>>

\* Defect: a writer takes the current buffer from under its readers.
ReusesReadBuf(s) == curr[s] # None /\ ~Reserved(s, curr[s])

ReusesCurr(s) ==
  curr[s] # None /\ nUsers[<<s, curr[s]>>] = 0 /\ ~Reserved(s, curr[s])

WriteBuf(s) == IF ReusesCurr(s) THEN {curr[s]} ELSE freeBufs[s]

kMRMReserve(t, s) ==
  \E b \in WriteBuf(s) :
    /\ MayTrack(<<t, s, b>>) /\ ~Reserved(s, b)
    /\ reserved' = reserved \cup {<<t, s, b>>}
    /\ freeBufs' = [freeBufs EXCEPT ![s] = @ \ {b}]
    /\ nUsers' = [nUsers EXCEPT ![<<s, b>>] = 0]
    /\ UNCHANGED <<poolVars, cell, making, curr, payload, gets>>

kMRMPublish(t, s) ==
  \E b \in Buf \ freeBufs[s], v \in Payload :
    /\ nUsers[<<s, b>>] = 0 /\ <<t, s, b>> \in reserved
    /\ reserved' = reserved \ {<<t, s, b>>}
    /\ freeBufs' = [freeBufs EXCEPT ![s] =
                      IF curr[s] # b /\ ReusesCurr(s) THEN @ \cup {curr[s]} ELSE @]
    /\ payload' = [payload EXCEPT ![<<s, b>>] = v]
    /\ curr' = [curr EXCEPT ![s] = b]
    /\ UNCHANGED <<poolVars, cell, making, nUsers, gets>>

kMRMGet(t, s) ==
  LET b == curr[s] x == <<t, s, b>> IN
  /\ b # None /\ ~Reserved(s, b)
  /\ MayTrack(x) /\ gets[x] < MaxGets
  /\ gets' = [gets EXCEPT ![x] = @ + 1]
  /\ nUsers' = [nUsers EXCEPT ![<<s, b>>] = @ + 1]
  /\ UNCHANGED <<poolVars, cell, making, curr, freeBufs, payload, reserved>>

\* Defect: the last reader to give back an old buffer keeps it allocated.
UngetKeepsBuf(t, s) ==
  \E b \in Buf \ freeBufs[s] :
    /\ nUsers[<<s, b>>] > 0 /\ gets[<<t, s, b>>] > 0
    /\ gets' = [gets EXCEPT ![<<t, s, b>>] = @ - 1]
    /\ nUsers' = [nUsers EXCEPT ![<<s, b>>] = @ - 1]
    /\ UNCHANGED <<poolVars, cell, making, curr, freeBufs, payload, reserved>>

kMRMUnget(t, s) ==
  \E b \in Buf \ freeBufs[s] :
    /\ nUsers[<<s, b>>] > 0 /\ gets[<<t, s, b>>] > 0
    /\ gets' = [gets EXCEPT ![<<t, s, b>>] = @ - 1]
    /\ nUsers' = [nUsers EXCEPT ![<<s, b>>] = @ - 1]
    /\ freeBufs' = [freeBufs EXCEPT ![s] =
                      IF nUsers[<<s, b>>] = 1 /\ curr[s] # b THEN @ \cup {b} ELSE @]
    /\ UNCHANGED <<poolVars, cell, making, curr, payload, reserved>>

\* An operation on the object in slot h.slot, of a caller that has resolved h.
Operation(t, h) ==
  /\ h.slot \in init
  /\ kMRMReserve(t, h.slot) \/ kMRMPublish(t, h.slot)
       \/ kMRMGet(t, h.slot) \/ kMRMUnget(t, h.slot)

(***************************************************************************)
(* Calls.                                                                  *)
(***************************************************************************)
\* A system call: the handler is not interrupted by another task.
Syscall(t) ==
  /\ t \notin Privileged /\ Resolves(cell[t])
  /\ Operation(t, cell[t])
  /\ UNCHANGED calling

DirectBegin(t) ==
  /\ t \in Privileged /\ Idle(t) /\ Resolves(cell[t])
  /\ calling' = [calling EXCEPT ![t] = cell[t]]
  /\ UNCHANGED <<poolVars, cell, making, bufVars, leaseVars>>

DirectCall(t) ==
  /\ calling[t] # None
  /\ Operation(t, calling[t])
  /\ calling' = [calling EXCEPT ![t] = None]

\* The object has gone, or the operation is refused.
DirectFails(t) ==
  /\ calling[t] # None
  /\ calling' = [calling EXCEPT ![t] = None]
  /\ UNCHANGED <<poolVars, cell, making, bufVars, leaseVars>>

\* t is terminated, and its successor has its TID.  The creation of an
\* object is not interrupted.
Dropped(t, s) == {b \in Buf : gets[<<t, s, b>>] > 0
                                /\ nUsers[<<s, b>>] = gets[<<t, s, b>>]}
Abandoned(t, s) == {b \in Buf : <<t, s, b>> \in reserved /\ gets[<<t, s, b>>] = 0}

kMRMTaskCleanup(t) ==
  /\ making[t] = None
  /\ \/ cell[t] # None
     \/ \E x \in Lease : x[1] = t /\ Leased(x)
  /\ freeBufs' = [s \in Slot |-> freeBufs[s] \cup
                     ((Dropped(t, s) \cup Abandoned(t, s)) \ {curr[s]})]
  /\ nUsers' = [x \in Slot \X Buf |-> nUsers[x] - gets[<<t, x[1], x[2]>>]]
  /\ gets' = [x \in Lease |-> IF x[1] = t THEN 0 ELSE gets[x]]
  /\ reserved' = {x \in reserved : x[1] # t}
  /\ cell' = [cell EXCEPT ![t] = None]
  /\ calling' = [calling EXCEPT ![t] = None]
  /\ UNCHANGED <<poolVars, making, curr, payload>>

Next ==
  \/ \E t \in Task :
       \/ kMRMCreateAlloc(t) \/ kMRMInit(t) \/ kDynObjPublishHandle(t)
       \/ kMRMCreateSyscall(t)
       \/ kMRMDestroy(t)
       \/ Syscall(t)
       \/ DirectBegin(t) \/ DirectCall(t) \/ DirectFails(t)
       \/ kMRMTaskCleanup(t)
  \/ \E t, u \in Task : ShareHandle(t, u)

ObjectsSpec == Init /\ [][Next]_objectVars

(***************************************************************************)
(* Properties.                                                             *)
(***************************************************************************)
\* The references to a buffer that readers have to give back.
Refs(s, b) == {r \in Task \X (1 .. MaxGets) : r[2] <= gets[<<r[1], s, b>>]}

\* No buffer is lost or given back twice: of an object in use, exactly those
\* are allocated that are current, reserved or held by a reader, nUsers
\* counts the references of the readers, and nobody holds a buffer of an
\* object that is not in use (kmrm.c:15-24, kMRMDestroy).
BuffersAccounted ==
  \A s \in Slot :
    /\ s \in init => Buf \ freeBufs[s] =
         {b \in Buf : b = curr[s] \/ \E t \in Task : Leased(<<t, s, b>>)}
    /\ \A b \in Buf :
         /\ s \in init => nUsers[<<s, b>>] = Cardinality(Refs(s, b))
         /\ \A t \in Task : Leased(<<t, s, b>>) => s \in init

\* A writer has its buffer to itself until it publishes it: no second writer
\* and no reader has it (kMRMLeaseReservedByOther_, kMRMBufferReserved_).
WriterIsAlone ==
  \A s \in Slot, b \in Buf, t, u \in Task :
    <<t, s, b>> \in reserved =>
      gets[<<u, s, b>>] = 0 /\ (<<u, s, b>> \in reserved => u = t)

\* A handle that resolves names the object it was made for, whoever created
\* and destroyed objects in its slot since, and however the handle came to the
\* task (kdynobjs.c:11-14, 22-23); so every system call, and every destroy,
\* acts on its own object.
NoStaleHandle ==
  \A t \in Task : Resolves(cell[t]) => object[cell[t].slot] = cell[t].object

\* The same of direct calls, which resolve their handle before they enter the
\* critical region: what they act on is the object the handle was made for.
NoStaleUse ==
  [][\A t \in Task :
       DirectCall(t) => object[calling[t].slot] = calling[t].object]_objectVars

\* Readers see the value published last and keep it (MRMAbs).
Offered == [s \in Slot |-> IF curr[s] = None THEN None ELSE payload[<<s, curr[s]>>]]
HeldRefs == [x \in Lease |->
               IF gets[x] = 0 THEN [value |-> None, count |-> 0]
               ELSE [value |-> payload[<<x[2], x[3]>>], count |-> gets[x]]]
Latest == INSTANCE MRMAbs WITH Ref <- Buf, latest <- Offered, held <- HeldRefs
ImplementsMRMAbs == Latest!Spec
==============================================================================
