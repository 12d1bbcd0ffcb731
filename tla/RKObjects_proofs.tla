-------------------------- MODULE RKObjects_proofs --------------------------
(***************************************************************************)
(* A handle that resolves names its own object, the buffers of an MRM are *)
(* neither lost nor given back twice, and MRMs implement MRMAbs, for every *)
(* set of tasks, privileged or not, of slots and of buffers, as long as    *)
(* the generations of a slot do not come round (NoWrap below).             *)
(***************************************************************************)
EXTENDS RKObjects, FiniteSetTheorems, TLAPS

\* Fewer objects are made than a slot has generations.
NoWrap == 2^GenBits \in Nat /\ MaxObjects < 2^GenBits

Handle == [slot : Slot, generation : Nat, object : Nat]

(***************************************************************************)
(* The inductive invariant.                                                *)
(***************************************************************************)
PoolTypeOK ==
  /\ freeSlots \subseteq Slot /\ init \subseteq Slot \ freeSlots
  /\ registry \subseteq init
  /\ generation \in [Slot -> Nat] /\ object \in [Slot -> 0 .. MaxObjects]
  /\ cell \in [Task -> Handle \cup {None}]
  /\ calling \in [Task -> Handle \cup {None}]
  /\ making \in [Task -> (Slot \ (freeSlots \cup registry)) \cup {None}]

BufTypeOK ==
  /\ curr \in [Slot -> Buf \cup {None}]
  /\ freeBufs \in [Slot -> SUBSET Buf]
  /\ nUsers \in [Slot \X Buf -> Nat]
  /\ payload \in [Slot \X Buf -> Payload \cup {None}]
  /\ gets \in [Lease -> 0 .. MaxGets] /\ reserved \subseteq Lease

ObjectsTypeOK == PoolTypeOK /\ BufTypeOK

\* No two tasks are making an object in the same slot.
MakerInv == \A t, u \in Task : making[t] # None /\ making[t] = making[u] => t = u

\* A generation is left behind with every object of the slot but the last.
GenerationInv ==
  \A s \in Slot : /\ generation[s] <= object[s]
                  /\ s \notin freeSlots => generation[s] < object[s]

\* A handle that resolves is that of the object in its slot.
OwnObject(h) ==
  /\ h.generation <= generation[h.slot]
  /\ h.generation = generation[h.slot] =>
       h.slot \in registry /\ h.object = object[h.slot]

HandleInv == \A t \in Task : cell[t] # None => OwnObject(cell[t])

PoolInv == MakerInv /\ GenerationInv /\ HandleInv

\* nUsers counts the references, also of objects that are not in use.
RefInv ==
  \A s \in Slot, b \in Buf :
    nUsers[<<s, b>>] = Cardinality(Refs(s, b))

HeldBuf(s, b) == \E t \in Task : Leased(<<t, s, b>>)

BufInv ==
  /\ RefInv /\ WriterIsAlone
  /\ \A s \in init, b \in Buf : b \notin freeBufs[s] <=> b = curr[s] \/ HeldBuf(s, b)
  /\ \A s \in Slot, b \in Buf : HeldBuf(s, b) => s \in init
  /\ \A s \in Slot \ init : curr[s] = None
  /\ \A s \in Slot : curr[s] # None => payload[<<s, curr[s]>>] \in Payload

ObjectsInv == ObjectsTypeOK /\ PoolInv /\ BufInv

(***************************************************************************)
(* References.                                                             *)
(***************************************************************************)
\* How often tasks hold buffer b of slot s is within the bound.
Bounded(s, b) == \A t \in Task : gets[<<t, s, b>>] \in 0 .. MaxGets

LEMMA Bounds ==
  ASSUME ObjectsTypeOK, NEW s \in Slot, NEW b \in Buf
  PROVE  Bounded(s, b) /\ nUsers[<<s, b>>] \in Nat
BY DEF ObjectsTypeOK, BufTypeOK, Lease, Bounded

LEMMA FiniteRefs ==
  ASSUME NEW s, NEW b
  PROVE  IsFiniteSet(Refs(s, b)) /\ Cardinality(Refs(s, b)) \in Nat
<1>1. IsFiniteSet(Task) /\ IsFiniteSet(1 .. MaxGets)
  BY ObjectConstants, FS_Interval
<1>2. IsFiniteSet(Task \X (1 .. MaxGets))
  BY <1>1, FS_Product
<1>3. Refs(s, b) \subseteq Task \X (1 .. MaxGets)
  BY DEF Refs
<1>4. IsFiniteSet(Refs(s, b))
  BY <1>2, <1>3, FS_Subset
<1> QED BY <1>4, FS_CardinalityType

\* Nobody uses a buffer exactly when every count is zero.
LEMMA NoReaders ==
  ASSUME NEW s, NEW b, Bounded(s, b)
  PROVE  Cardinality(Refs(s, b)) = 0 <=> \A t \in Task : gets[<<t, s, b>>] = 0
<1>1. Cardinality(Refs(s, b)) = 0 <=> Refs(s, b) = {}
  BY FiniteRefs, FS_EmptySet
<1>2. MaxGets \in Nat
  BY ObjectConstants
<1>3. ASSUME Refs(s, b) = {}, NEW t \in Task PROVE gets[<<t, s, b>>] = 0
  <2>1. <<t, 1>> \notin Refs(s, b)
    BY <1>3
  <2> QED BY <1>2, <2>1 DEF Refs, Bounded
<1>4. ASSUME Refs(s, b) # {} PROVE \E t \in Task : gets[<<t, s, b>>] # 0
  <2> PICK r \in Refs(s, b) : TRUE
    BY <1>4
  <2> QED BY <1>2 DEF Refs, Bounded
<1> QED BY <1>1, <1>3, <1>4

\* The references of one task, as many as it has taken.
LEMMA OwnRefs ==
  ASSUME NEW t, NEW n \in Nat
  PROVE  IsFiniteSet({t} \X (1 .. n)) /\ Cardinality({t} \X (1 .. n)) = n
<1>1. IsFiniteSet({t}) /\ Cardinality({t}) = 1
  BY FS_Singleton, Zenon
<1>2. IsFiniteSet(1 .. n) /\ Cardinality(1 .. n) = n
  <2>1. n \in Int /\ 1 \in Int /\ ~(1 > n) => n - 1 + 1 = n
    OBVIOUS
  <2>2. Cardinality(1 .. n) = IF 1 > n THEN 0 ELSE n - 1 + 1
    BY FS_Interval
  <2> QED BY <2>2, FS_Interval
<1>3. Cardinality({t} \X (1 .. n)) = Cardinality({t}) * Cardinality(1 .. n)
  BY <1>1, <1>2, FS_Product, Zenon
<1> QED BY <1>1, <1>2, <1>3, FS_Product

\* The last reference is the only one.
LEMMA LastReader ==
  ASSUME NEW s, NEW b, NEW t \in Task, Bounded(s, b), gets[<<t, s, b>>] > 0
  PROVE  /\ gets[<<t, s, b>>] <= Cardinality(Refs(s, b))
         /\ Cardinality(Refs(s, b)) = gets[<<t, s, b>>]
              <=> \A u \in Task \ {t} : gets[<<u, s, b>>] = 0
<1> DEFINE mine == {t} \X (1 .. gets[<<t, s, b>>])
<1>1. MaxGets \in Nat /\ gets[<<t, s, b>>] \in Nat
  BY ObjectConstants DEF Bounded
<1>2. mine \subseteq Refs(s, b)
  BY <1>1 DEF Refs, Bounded
<1>3. Cardinality(mine) = gets[<<t, s, b>>]
  BY <1>1, OwnRefs
<1>4. ASSUME Refs(s, b) = mine, NEW u \in Task \ {t} PROVE gets[<<u, s, b>>] = 0
  <2>1. <<u, 1>> \notin Refs(s, b)
    BY <1>4
  <2> QED BY <1>1, <2>1 DEF Refs, Bounded
<1>5. ASSUME \A u \in Task \ {t} : gets[<<u, s, b>>] = 0 PROVE Refs(s, b) \subseteq mine
  BY <1>1, <1>5 DEF Refs, Bounded
<1> HIDE DEF mine
<1>6. /\ Cardinality(mine) <= Cardinality(Refs(s, b))
      /\ Cardinality(Refs(s, b)) = Cardinality(mine) <=> Refs(s, b) = mine
  BY <1>2, FiniteRefs, FS_Subset
<1> QED BY <1>2, <1>3, <1>4, <1>5, <1>6

\* A task takes a reference, gives one back, or goes away with all it has.
LEMMA RefTaken ==
  ASSUME NEW s, NEW b, NEW t \in Task, Bounded(s, b), gets[<<t, s, b>>] < MaxGets,
         \A u \in Task : gets'[<<u, s, b>>] =
           IF u = t THEN gets[<<u, s, b>>] + 1 ELSE gets[<<u, s, b>>]
  PROVE  Cardinality(Refs(s, b)') = Cardinality(Refs(s, b)) + 1
<1> DEFINE r == <<t, gets[<<t, s, b>>] + 1>>
<1>1. Refs(s, b)' = Refs(s, b) \cup {r}
  BY ObjectConstants DEF Refs, Bounded
<1>2. r \notin Refs(s, b)
  BY DEF Refs, Bounded
<1> HIDE DEF r
<1>3. Cardinality(Refs(s, b) \cup {r}) = Cardinality(Refs(s, b)) + 1
  BY <1>2, FiniteRefs, FS_AddElement
<1> QED BY <1>1, <1>3

LEMMA RefGivenBack ==
  ASSUME NEW s, NEW b, NEW t \in Task, Bounded(s, b), gets[<<t, s, b>>] > 0,
         \A u \in Task : gets'[<<u, s, b>>] =
           IF u = t THEN gets[<<u, s, b>>] - 1 ELSE gets[<<u, s, b>>]
  PROVE  Cardinality(Refs(s, b)') = Cardinality(Refs(s, b)) - 1
<1> DEFINE r == <<t, gets[<<t, s, b>>]>>
<1>1. Refs(s, b)' = Refs(s, b) \ {r}
  BY ObjectConstants DEF Refs, Bounded
<1>2. r \in Refs(s, b)
  BY ObjectConstants DEF Refs, Bounded
<1> HIDE DEF r
<1>3. Cardinality(Refs(s, b) \ {r}) = Cardinality(Refs(s, b)) - 1
  BY <1>2, FiniteRefs, FS_RemoveElement
<1> QED BY <1>1, <1>3

LEMMA RefsDropped ==
  ASSUME NEW s, NEW b, NEW t \in Task, Bounded(s, b),
         \A u \in Task : gets'[<<u, s, b>>] = IF u = t THEN 0 ELSE gets[<<u, s, b>>]
  PROVE  Cardinality(Refs(s, b)') = Cardinality(Refs(s, b)) - gets[<<t, s, b>>]
<1> DEFINE mine == {t} \X (1 .. gets[<<t, s, b>>])
<1>1. Refs(s, b)' = Refs(s, b) \ mine
  BY ObjectConstants DEF Refs, Bounded
<1>2. Refs(s, b) \cap mine = mine
  BY ObjectConstants DEF Refs, Bounded
<1>3. Cardinality(mine) = gets[<<t, s, b>>]
  <2> gets[<<t, s, b>>] \in Nat
    BY ObjectConstants DEF Bounded
  <2> QED BY OwnRefs
<1> HIDE DEF mine
<1>4. Cardinality(Refs(s, b) \ mine) = Cardinality(Refs(s, b)) - Cardinality(Refs(s, b) \cap mine)
  BY FiniteRefs, FS_Difference
<1> QED BY <1>1, <1>2, <1>3, <1>4

LEMMA RefsKept ==
  ASSUME NEW s, NEW b, \A u \in Task : gets'[<<u, s, b>>] = gets[<<u, s, b>>]
  PROVE  Refs(s, b)' = Refs(s, b)
BY DEF Refs

(***************************************************************************)
(* Operations on an object.                                                *)
(***************************************************************************)
BufOperation(t, s) ==
  kMRMReserve(t, s) \/ kMRMPublish(t, s) \/ kMRMGet(t, s) \/ kMRMUnget(t, s)

\* What an operation leaves alone, and the types of what it does not.
LEMMA OperationTypes ==
  ASSUME ObjectsTypeOK, NEW t \in Task, NEW s \in Slot, BufOperation(t, s)
  PROVE  /\ UNCHANGED <<poolVars, cell, making>>
         /\ BufTypeOK'
<1>1. CASE kMRMReserve(t, s)
  <2> PICK b \in WriteBuf(s) :
         /\ reserved' = reserved \cup {<<t, s, b>>}
         /\ freeBufs' = [freeBufs EXCEPT ![s] = @ \ {b}]
         /\ nUsers' = [nUsers EXCEPT ![<<s, b>>] = 0]
         /\ UNCHANGED <<poolVars, cell, making, curr, payload, gets>>
    BY <1>1 DEF kMRMReserve
  <2>1. b \in Buf
    BY DEF WriteBuf, ReusesCurr, ObjectsTypeOK, BufTypeOK
  <2> QED BY <2>1 DEF ObjectsTypeOK, BufTypeOK, Lease
<1>2. CASE kMRMPublish(t, s)
  BY <1>2 DEF kMRMPublish, ReusesCurr, ObjectsTypeOK, BufTypeOK, Lease
<1>3. CASE kMRMGet(t, s)
  <2> DEFINE b == curr[s]
  <2>1. b \in Buf /\ <<t, s, b>> \in Lease /\ <<s, b>> \in Slot \X Buf
    BY <1>3 DEF kMRMGet, ObjectsTypeOK, BufTypeOK, Lease
  <2>2. gets[<<t, s, b>>] \in 0 .. MaxGets /\ gets[<<t, s, b>>] < MaxGets /\ nUsers[<<s, b>>] \in Nat
    BY <1>3, <2>1 DEF kMRMGet, ObjectsTypeOK, BufTypeOK
  <2> QED BY <1>3, <2>1, <2>2, ObjectConstants DEF kMRMGet, ObjectsTypeOK, BufTypeOK
<1>4. CASE kMRMUnget(t, s)
  <2> PICK b \in Buf \ freeBufs[s] :
         /\ nUsers[<<s, b>>] > 0 /\ gets[<<t, s, b>>] > 0
         /\ gets' = [gets EXCEPT ![<<t, s, b>>] = @ - 1]
         /\ nUsers' = [nUsers EXCEPT ![<<s, b>>] = @ - 1]
         /\ freeBufs' = [freeBufs EXCEPT ![s] =
                          IF nUsers[<<s, b>>] = 1 /\ curr[s] # b THEN @ \cup {b} ELSE @]
         /\ UNCHANGED <<poolVars, cell, making, curr, payload, reserved>>
    BY <1>4 DEF kMRMUnget
  <2>1. <<t, s, b>> \in Lease /\ <<s, b>> \in Slot \X Buf
    BY DEF Lease
  <2>2. gets[<<t, s, b>>] - 1 \in 0 .. MaxGets /\ nUsers[<<s, b>>] - 1 \in Nat
    BY <2>1, ObjectConstants DEF ObjectsTypeOK, BufTypeOK
  <2> QED BY <2>1, <2>2 DEF ObjectsTypeOK, BufTypeOK
<1> QED BY <1>1, <1>2, <1>3, <1>4 DEF BufOperation

\* A caller that has resolved its handle finds an object that is initialised;
\* of a direct call it may be a successor.
LEMMA CallFindsAnObject ==
  ASSUME ObjectsTypeOK, NEW t \in Task, NEW h,
         \/ h = cell[t] /\ Resolves(h)
         \/ h = calling[t] /\ h # None /\ h.slot \in init
  PROVE  h \in Handle /\ h.slot \in init
BY DEF ObjectsTypeOK, PoolTypeOK, Resolves

\* Creation, destruction and the handing on of handles keep every handle to
\* its object; the generation of a destroyed object is not used again.
LEMMA PoolStep ==
  ASSUME ObjectsTypeOK, PoolInv, NoWrap, Next
  PROVE  PoolTypeOK' /\ PoolInv'
<1> USE ObjectConstants
<1> USE DEF ObjectsTypeOK, PoolTypeOK, PoolInv, MakerInv, GenerationInv, HandleInv,
            OwnObject, Idle, Handle
<1>1. ASSUME NEW t \in Task, kMRMCreateAlloc(t) PROVE PoolTypeOK' /\ PoolInv'
  <2>1. UNCHANGED <<registry, generation, init, cell, calling>>
    BY <1>1 DEF kMRMCreateAlloc
  <2>2. PICK s \in freeSlots, n \in 1 .. MaxObjects :
          /\ \A r \in Slot : object[r] < n
          /\ freeSlots' = freeSlots \ {s}
          /\ object' = [object EXCEPT ![s] = n]
          /\ making' = [making EXCEPT ![t] = s]
    BY <1>1 DEF kMRMCreateAlloc, TakesSlot
  <2>3. PoolTypeOK'
    BY <2>1, <2>2
  <2>4. MakerInv'
    BY <2>1, <2>2
  <2>5. GenerationInv'
    BY <2>1, <2>2
  <2>6. HandleInv'
    BY <2>1, <2>2
  <2> QED BY <2>3, <2>4, <2>5, <2>6
<1>2. ASSUME NEW t \in Task, kMRMInit(t) PROVE PoolTypeOK' /\ PoolInv'
  BY <1>2 DEF kMRMInit, callVars
<1>3. ASSUME NEW t \in Task, kDynObjPublishHandle(t) PROVE PoolTypeOK' /\ PoolInv'
  <2> DEFINE s == making[t]
             h == [slot |-> s, generation |-> generation[s], object |-> object[s]]
  <2>1. /\ s \in Slot /\ s \in init \ registry /\ s # None
        /\ registry' = registry \cup {s}
        /\ cell' = [cell EXCEPT ![t] = h]
        /\ making' = [making EXCEPT ![t] = None]
        /\ UNCHANGED <<freeSlots, generation, init, object, calling>>
    BY <1>3 DEF kDynObjPublishHandle
  <2>2. \A u \in Task \ {t} : making[u] # s
    BY <2>1
  <2>3. h \in Handle /\ h.slot = s /\ h.generation = generation[s] /\ h.object = object[s]
    BY <2>1
  <2> HIDE DEF s, h
  <2>4. PoolTypeOK'
    BY <2>1, <2>2, <2>3
  <2>5. MakerInv' /\ GenerationInv'
    BY <2>1, <2>2
  <2>6. HandleInv'
    BY <2>1, <2>3
  <2> QED BY <2>4, <2>5, <2>6
<1>4. ASSUME NEW t \in Task, kMRMDestroy(t) PROVE PoolTypeOK' /\ PoolInv'
  <2> DEFINE s == cell[t].slot
  <2>1. /\ s \in Slot /\ s \in registry
        /\ registry' = registry \ {s} /\ init' = init \ {s}
        /\ freeSlots' = freeSlots \cup {s}
        /\ cell' = [cell EXCEPT ![t] = None]
        /\ kDynObjGenerationBump_(s)
        /\ UNCHANGED <<object, making, calling>>
    BY <1>4 DEF kMRMDestroy, Resolves
  <2> HIDE DEF s
  <2>2. /\ generation[s] \in Nat /\ object[s] \in Nat
        /\ generation[s] < object[s] /\ object[s] <= MaxObjects
    BY <2>1
  <2>3. (generation[s] + 1) % 2^GenBits = generation[s] + 1
    <3> MaxObjects \in Nat /\ 2^GenBits \in Nat /\ MaxObjects < 2^GenBits
      BY DEF NoWrap
    <3> HIDE DEF ObjectsTypeOK, PoolTypeOK, PoolInv, MakerInv, GenerationInv, HandleInv
    <3> generation[s] + 1 < 2^GenBits
      BY <2>2
    <3> QED BY <2>2
  <2>4. generation' = [generation EXCEPT ![s] = @ + 1]
    <3>1. generation[s] + 1 # 0
      BY <2>2
    <3>2. generation' = [generation EXCEPT ![s] = generation[s] + 1]
      BY <2>1, <2>3, <3>1, Zenon DEF kDynObjGenerationBump_
    <3> QED BY <3>2
  <2>5. PoolTypeOK'
    BY <2>1, <2>4
  <2>6. MakerInv' /\ GenerationInv'
    BY <2>1, <2>2, <2>4
  <2>7. HandleInv'
    BY <2>1, <2>4
  <2> QED BY <2>5, <2>6, <2>7
<1>5. ASSUME NEW t \in Task, NEW h, Operation(t, h), calling' \in {calling, [calling EXCEPT ![t] = None]},
             \/ h = cell[t] /\ Resolves(h)
             \/ h = calling[t] /\ h # None /\ h.slot \in init
      PROVE  PoolTypeOK' /\ PoolInv'
  <2>1. h.slot \in Slot
    BY <1>5, CallFindsAnObject
  <2>2. UNCHANGED <<poolVars, cell, making>>
    BY <1>5, <2>1, OperationTypes DEF Operation, BufOperation
  <2> QED BY <1>5, <2>2 DEF poolVars
<1>6. ASSUME NEW t \in Task, Syscall(t) \/ DirectCall(t) PROVE PoolTypeOK' /\ PoolInv'
  BY <1>5, <1>6 DEF Syscall, DirectCall, Operation
<1>7. ASSUME NEW t \in Task, DirectBegin(t) PROVE PoolTypeOK' /\ PoolInv'
  BY <1>7 DEF DirectBegin, poolVars, Resolves
<1>8. ASSUME NEW t \in Task, DirectFails(t) \/ kMRMTaskCleanup(t) PROVE PoolTypeOK' /\ PoolInv'
  <2>1. /\ cell' = cell \/ cell' = [cell EXCEPT ![t] = None]
        /\ calling' = [calling EXCEPT ![t] = None]
        /\ UNCHANGED <<freeSlots, registry, generation, init, object, making>>
    BY <1>8 DEF DirectFails, kMRMTaskCleanup, poolVars
  <2>2. PoolTypeOK'
    BY <2>1
  <2>3. MakerInv' /\ GenerationInv'
    BY <2>1
  <2>4. HandleInv'
    BY <2>1
  <2> QED BY <2>2, <2>3, <2>4
<1>9. ASSUME NEW t \in Task, NEW u \in Task, ShareHandle(t, u) PROVE PoolTypeOK' /\ PoolInv'
  BY <1>9 DEF ShareHandle, poolVars
<1>10. ASSUME NEW t \in Task, kMRMCreateSyscall(t) PROVE PoolTypeOK' /\ PoolInv'
  <2>1. UNCHANGED <<generation, making, calling>>
    BY <1>10 DEF kMRMCreateSyscall
  <2>2. PICK s \in freeSlots, n \in 1 .. MaxObjects :
          /\ \A r \in Slot : object[r] < n
          /\ freeSlots' = freeSlots \ {s}
          /\ object' = [object EXCEPT ![s] = n]
          /\ init' = init \cup {s} /\ registry' = registry \cup {s}
          /\ cell' = [cell EXCEPT ![t] = [slot |-> s, generation |-> generation[s],
                                          object |-> n]]
    BY <1>10 DEF kMRMCreateSyscall, TakesSlot
  <2> DEFINE h == [slot |-> s, generation |-> generation[s], object |-> n]
  <2>3. h \in Handle /\ h.slot = s /\ h.generation = generation[s] /\ h.object = n
    BY <2>2
  <2>4. cell' = [cell EXCEPT ![t] = h]
    BY <2>2
  <2> HIDE DEF h
  <2>5. PoolTypeOK'
    BY <2>1, <2>2, <2>3, <2>4
  <2>6. MakerInv' /\ GenerationInv'
    BY <2>1, <2>2
  <2>7. HandleInv'
    BY <2>1, <2>2, <2>3, <2>4
  <2> QED BY <2>5, <2>6, <2>7
<1> QED BY <1>1, <1>2, <1>3, <1>4, <1>6, <1>7, <1>8, <1>9, <1>10 DEF Next
(***************************************************************************)
(* Buffers and leases.                                                     *)
(***************************************************************************)
\* Buffers and leases do not notice what happens to handles.
LEMMA BufFrame ==
  ASSUME ObjectsTypeOK, BufInv, UNCHANGED <<bufVars, leaseVars, init>>
  PROVE  BufTypeOK' /\ BufInv'
<1>1. RefInv'
  BY RefsKept DEF bufVars, leaseVars, BufInv, RefInv
<1> QED BY <1>1 DEF bufVars, leaseVars, ObjectsTypeOK, BufTypeOK, BufInv, WriterIsAlone,
                    HeldBuf, Leased

\* A buffer that is free, or current and used by nobody, is held by nobody.
LEMMA WriteBufUnheld ==
  ASSUME ObjectsTypeOK, BufInv, NEW s \in init, NEW b \in WriteBuf(s), ~Reserved(s, b)
  PROVE  b \in Buf /\ ~HeldBuf(s, b) /\ Cardinality(Refs(s, b)) = 0
<1>1. s \in Slot /\ b \in Buf
  BY DEF WriteBuf, ReusesCurr, ObjectsTypeOK, PoolTypeOK, BufTypeOK
<1>2. Bounded(s, b) /\ nUsers[<<s, b>>] = Cardinality(Refs(s, b))
  BY <1>1, Bounds DEF BufInv, RefInv
<1>3. CASE ReusesCurr(s)
  <2>1. nUsers[<<s, b>>] = 0
    BY <1>3 DEF WriteBuf, ReusesCurr
  <2>2. \A t \in Task : gets[<<t, s, b>>] = 0
    BY <1>2, <2>1, NoReaders
  <2> QED BY <1>1, <1>2, <2>1, <2>2 DEF HeldBuf, Leased, Reserved
<1>4. CASE ~ReusesCurr(s)
  <2>1. b \in freeBufs[s] /\ ~HeldBuf(s, b)
    BY <1>1, <1>4 DEF WriteBuf, BufInv
  <2>2. \A t \in Task : gets[<<t, s, b>>] = 0
    BY <1>2, <2>1 DEF HeldBuf, Leased, Bounded
  <2> QED BY <1>1, <1>2, <2>1, <2>2, NoReaders
<1> QED BY <1>3, <1>4

LEMMA ReserveStep ==
  ASSUME ObjectsTypeOK, BufInv, NEW t \in Task, NEW s \in init, kMRMReserve(t, s)
  PROVE  BufInv'
<1>1. s \in init /\ s \in Slot
  BY DEF ObjectsTypeOK, PoolTypeOK
<1>2. PICK b \in WriteBuf(s) :
        /\ ~Reserved(s, b)
        /\ reserved' = reserved \cup {<<t, s, b>>}
        /\ freeBufs' = [freeBufs EXCEPT ![s] = @ \ {b}]
        /\ nUsers' = [nUsers EXCEPT ![<<s, b>>] = 0]
        /\ UNCHANGED <<poolVars, cell, making, curr, payload, gets>>
  BY DEF kMRMReserve
<1>3. b \in Buf /\ ~HeldBuf(s, b) /\ Cardinality(Refs(s, b)) = 0
  BY <1>1, <1>2, WriteBufUnheld
<1>4. UNCHANGED <<registry, init, curr, payload, gets>>
  BY <1>2 DEF poolVars
<1>5. RefInv'
  <2> SUFFICES ASSUME NEW r \in Slot, NEW c \in Buf
               PROVE  nUsers'[<<r, c>>] = Cardinality(Refs(r, c)')
    BY DEF RefInv
  <2>1. Refs(r, c)' = Refs(r, c)
    BY <1>4, RefsKept
  <2>2. nUsers'[<<r, c>>] = IF r = s /\ c = b THEN 0 ELSE nUsers[<<r, c>>]
    BY <1>1, <1>2, <1>3 DEF ObjectsTypeOK, BufTypeOK
  <2> QED BY <1>3, <2>1, <2>2 DEF BufInv, RefInv
<1>6. \A u \in Task : gets[<<u, s, b>>] = 0 /\ <<u, s, b>> \notin reserved
  <2>1. Bounded(s, b)
    BY <1>1, <1>3, Bounds
  <2> QED BY <1>3, <2>1, ObjectConstants DEF HeldBuf, Leased, Bounded
<1>7. WriterIsAlone'
  <2> SUFFICES ASSUME NEW r \in Slot, NEW c \in Buf, NEW v \in Task, NEW u \in Task,
                      <<v, r, c>> \in reserved'
               PROVE  gets[<<u, r, c>>] = 0 /\ (<<u, r, c>> \in reserved' => u = v)
    BY <1>4 DEF WriterIsAlone
  <2>1. CASE r = s /\ c = b
    BY <1>2, <1>6, <2>1
  <2>2. CASE r # s \/ c # b
    BY <1>2, <2>2 DEF BufInv, WriterIsAlone
  <2> QED BY <2>1, <2>2
<1>8. \A r \in Slot, c \in Buf :
        HeldBuf(r, c)' <=> HeldBuf(r, c) \/ (r = s /\ c = b)
  BY <1>2, <1>4 DEF HeldBuf, Leased
<1>9. freeBufs \in [Slot -> SUBSET Buf] /\ init \subseteq Slot
  BY DEF ObjectsTypeOK, PoolTypeOK, BufTypeOK
<1> QED BY <1>1, <1>2, <1>3, <1>4, <1>5, <1>7, <1>8, <1>9 DEF BufInv

\* Only how often t holds buffer b of slot s changes, and whether it is held.
SetsGets(t, s, b, n) ==
  \A r \in Slot, c \in Buf, u \in Task :
    gets'[<<u, r, c>>] = IF u = t /\ r = s /\ c = b THEN n ELSE gets[<<u, r, c>>]

OthersHeld(s, b) ==
  \A r \in Slot, c \in Buf : r # s \/ c # b => (HeldBuf(r, c)' <=> HeldBuf(r, c))

\* Taking or giving back a reference leaves the leases of the others alone.
LEMMA GetUngetFrame ==
  ASSUME ObjectsTypeOK, BufInv, NEW t \in Task, NEW s \in Slot, NEW b \in Buf, NEW n,
         ~Reserved(s, b), gets' = [gets EXCEPT ![<<t, s, b>>] = n],
         UNCHANGED reserved
  PROVE  WriterIsAlone' /\ OthersHeld(s, b) /\ SetsGets(t, s, b, n)
<1>1. \A r \in Slot, c \in Buf, u \in Task :
        gets'[<<u, r, c>>] = IF u = t /\ r = s /\ c = b THEN n ELSE gets[<<u, r, c>>]
  <2> SUFFICES ASSUME NEW r \in Slot, NEW c \in Buf, NEW u \in Task
               PROVE  gets'[<<u, r, c>>] =
                        IF u = t /\ r = s /\ c = b THEN n ELSE gets[<<u, r, c>>]
    OBVIOUS
  <2>1. <<u, r, c>> \in Lease /\ gets = [x \in Lease |-> gets[x]]
    BY DEF ObjectsTypeOK, BufTypeOK, Lease
  <2> QED BY <2>1
<1>2. \A r \in Slot, c \in Buf : r # s \/ c # b => (HeldBuf(r, c)' <=> HeldBuf(r, c))
  <2> SUFFICES ASSUME NEW r \in Slot, NEW c \in Buf, r # s \/ c # b
               PROVE  HeldBuf(r, c)' <=> HeldBuf(r, c)
    OBVIOUS
  <2>1. \A u \in Task : gets'[<<u, r, c>>] = gets[<<u, r, c>>]
    BY <1>1
  <2> QED BY <2>1 DEF HeldBuf, Leased
<1>3. WriterIsAlone'
  <2> SUFFICES ASSUME NEW r \in Slot, NEW c \in Buf, NEW v \in Task, NEW u \in Task,
                      <<v, r, c>> \in reserved
               PROVE  gets'[<<u, r, c>>] = 0 /\ (<<u, r, c>> \in reserved => u = v)
    BY DEF WriterIsAlone
  <2>1. r # s \/ c # b
    BY DEF Reserved
  <2>2. gets'[<<u, r, c>>] = gets[<<u, r, c>>]
    BY <1>1, <2>1
  <2> QED BY <2>2 DEF BufInv, WriterIsAlone
<1> QED BY <1>1, <1>2, <1>3 DEF OthersHeld, SetsGets

LEMMA GetStep ==
  ASSUME ObjectsTypeOK, BufInv, NEW t \in Task, NEW s \in init, kMRMGet(t, s)
  PROVE  BufInv'
<1>1. PICK b \in Buf : \E n \in Nat :
      /\ s \in init /\ s \in Slot /\ b = curr[s]
      /\ ~Reserved(s, b) /\ gets[<<t, s, b>>] < MaxGets /\ n = gets[<<t, s, b>>] + 1
      /\ gets' = [gets EXCEPT ![<<t, s, b>>] = n]
      /\ nUsers' = [nUsers EXCEPT ![<<s, b>>] = @ + 1]
      /\ UNCHANGED <<registry, init, curr, freeBufs, payload, reserved>>
  <2>1. /\ s \in init /\ s \in Slot /\ curr[s] \in Buf
    BY DEF kMRMGet, ObjectsTypeOK, PoolTypeOK, BufTypeOK
  <2>2. gets[<<t, s, curr[s]>>] \in 0 .. MaxGets
    BY <2>1, Bounds DEF Bounded
  <2>3. gets[<<t, s, curr[s]>>] + 1 \in Nat
    BY <2>2, ObjectConstants
  <2>4. curr[s] \in Buf
    BY <2>1
  <2> WITNESS curr[s] \in Buf
  <2> WITNESS gets[<<t, s, curr[s]>>] + 1 \in Nat
  <2> QED BY <2>1 DEF kMRMGet, poolVars
<1> PICK n \in Nat : /\ n = gets[<<t, s, b>>] + 1
                     /\ gets' = [gets EXCEPT ![<<t, s, b>>] = n]
  BY <1>1
<1>2. n > 0
  BY <1>1, Bounds DEF Bounded
<1>3. WriterIsAlone' /\ OthersHeld(s, b) /\ SetsGets(t, s, b, n)
  <2>1. s \in Slot /\ UNCHANGED reserved /\ ~Reserved(s, b)
    BY <1>1
  <2> QED BY <2>1, GetUngetFrame, Zenon
<1>4. RefInv'
  <2> SUFFICES ASSUME NEW r \in Slot, NEW c \in Buf
               PROVE  nUsers'[<<r, c>>] = Cardinality(Refs(r, c)')
    BY DEF RefInv
  <2>1. nUsers'[<<r, c>>] = IF r = s /\ c = b THEN nUsers[<<r, c>>] + 1 ELSE nUsers[<<r, c>>]
    BY <1>1 DEF ObjectsTypeOK, BufTypeOK
  <2>2. nUsers[<<r, c>>] = Cardinality(Refs(r, c)) /\ Bounded(r, c)
    BY Bounds DEF BufInv, RefInv
  <2>3. CASE r = s /\ c = b
    BY <1>1, <1>3, <2>1, <2>2, <2>3, RefTaken DEF SetsGets
  <2>4. CASE r # s \/ c # b
    BY <1>3, <2>1, <2>2, <2>4, RefsKept DEF SetsGets
  <2> QED BY <2>3, <2>4
<1>5. HeldBuf(s, b)'
  <2>1. gets'[<<t, s, b>>] = n
    BY <1>1, <1>3 DEF SetsGets
  <2>2. Leased(<<t, s, b>>)'
    BY <1>2, <2>1 DEF Leased
  <2> QED BY <2>2 DEF HeldBuf
<1> QED BY <1>1, <1>3, <1>4, <1>5 DEF BufInv, OthersHeld, ObjectsTypeOK, PoolTypeOK

LEMMA UngetStep ==
  ASSUME ObjectsTypeOK, BufInv, NEW t \in Task, NEW s \in init, kMRMUnget(t, s)
  PROVE  BufInv'
<1>1. PICK b \in Buf \ freeBufs[s] : \E n \in Int :
        /\ gets[<<t, s, b>>] > 0 /\ n = gets[<<t, s, b>>] - 1
        /\ gets' = [gets EXCEPT ![<<t, s, b>>] = n]
        /\ nUsers' = [nUsers EXCEPT ![<<s, b>>] = @ - 1]
        /\ freeBufs' = [freeBufs EXCEPT ![s] =
                         IF nUsers[<<s, b>>] = 1 /\ curr[s] # b THEN @ \cup {b} ELSE @]
        /\ UNCHANGED <<registry, init, curr, payload, reserved>>
  <2> PICK b \in Buf \ freeBufs[s] :
         /\ gets[<<t, s, b>>] > 0
         /\ gets' = [gets EXCEPT ![<<t, s, b>>] = @ - 1]
         /\ nUsers' = [nUsers EXCEPT ![<<s, b>>] = @ - 1]
         /\ freeBufs' = [freeBufs EXCEPT ![s] =
                          IF nUsers[<<s, b>>] = 1 /\ curr[s] # b THEN @ \cup {b} ELSE @]
         /\ UNCHANGED <<registry, init, curr, payload, reserved>>
    BY DEF kMRMUnget, poolVars
  <2>1. gets[<<t, s, b>>] - 1 \in Int
    BY ObjectConstants DEF ObjectsTypeOK, PoolTypeOK, BufTypeOK, Lease
  <2> WITNESS b \in Buf \ freeBufs[s]
  <2> WITNESS gets[<<t, s, b>>] - 1 \in Int
  <2> QED OBVIOUS
<1> PICK n \in Int : n = gets[<<t, s, b>>] - 1 /\ gets' = [gets EXCEPT ![<<t, s, b>>] = n]
  BY <1>1
<1>2. s \in init /\ s \in Slot /\ Bounded(s, b)
  BY Bounds DEF ObjectsTypeOK, PoolTypeOK
<1>3. ~Reserved(s, b)
  <2> SUFFICES ASSUME NEW u \in Task, <<u, s, b>> \in reserved PROVE FALSE
    BY DEF Reserved
  <2>1. gets[<<t, s, b>>] = 0
    BY <1>2 DEF BufInv, WriterIsAlone
  <2> QED BY <1>1, <2>1
<1>4. WriterIsAlone' /\ OthersHeld(s, b) /\ SetsGets(t, s, b, n)
  <2>1. gets' = [gets EXCEPT ![<<t, s, b>>] = n] /\ UNCHANGED reserved /\ b \in Buf
    BY <1>1
  <2> QED BY <1>2, <1>3, <2>1, GetUngetFrame, Zenon
<1>5. RefInv'
  <2> SUFFICES ASSUME NEW r \in Slot, NEW c \in Buf
               PROVE  nUsers'[<<r, c>>] = Cardinality(Refs(r, c)')
    BY DEF RefInv
  <2>1. nUsers'[<<r, c>>] = IF r = s /\ c = b THEN nUsers[<<r, c>>] - 1 ELSE nUsers[<<r, c>>]
    BY <1>1, <1>2 DEF ObjectsTypeOK, BufTypeOK
  <2>2. nUsers[<<r, c>>] = Cardinality(Refs(r, c)) /\ Bounded(r, c)
    BY Bounds DEF BufInv, RefInv
  <2>3. CASE r = s /\ c = b
    BY <1>1, <1>2, <1>4, <2>1, <2>2, <2>3, RefGivenBack DEF SetsGets
  <2>4. CASE r # s \/ c # b
    BY <1>4, <2>1, <2>2, <2>4, RefsKept DEF SetsGets
  <2> QED BY <2>3, <2>4
<1>6. HeldBuf(s, b)' <=> nUsers[<<s, b>>] # 1
  <2>1. nUsers[<<s, b>>] = Cardinality(Refs(s, b))
    BY <1>1, <1>2 DEF BufInv, RefInv
  <2>2. HeldBuf(s, b)' <=> \E u \in Task : gets'[<<u, s, b>>] > 0
    BY <1>1, <1>3 DEF HeldBuf, Leased, Reserved
  <2>3. \A u \in Task : gets'[<<u, s, b>>] = IF u = t THEN n ELSE gets[<<u, s, b>>]
    BY <1>1, <1>2, <1>4 DEF SetsGets
  <2>4. CASE gets[<<t, s, b>>] = 1
    <3>1. HeldBuf(s, b)' <=> \E u \in Task \ {t} : gets[<<u, s, b>>] # 0
      BY <1>2, <2>2, <2>3, <2>4, ObjectConstants DEF Bounded
    <3>2. Cardinality(Refs(s, b)) = 1 <=> \A u \in Task \ {t} : gets[<<u, s, b>>] = 0
      BY <1>1, <1>2, <2>4, LastReader
    <3> QED BY <2>1, <3>1, <3>2
  <2>5. CASE gets[<<t, s, b>>] > 1
    <3>1. HeldBuf(s, b)'
      BY <1>2, <2>2, <2>3, <2>5, ObjectConstants DEF Bounded
    <3>2. gets[<<t, s, b>>] <= Cardinality(Refs(s, b)) /\ Cardinality(Refs(s, b)) \in Nat
      BY <1>1, <1>2, LastReader, FiniteRefs
    <3> QED BY <1>1, <1>2, <2>1, <2>5, <3>1, <3>2, ObjectConstants DEF Bounded
  <2> QED BY <1>1, <1>2, <2>4, <2>5, ObjectConstants DEF Bounded
<1>7. HeldBuf(s, b)
  BY <1>1 DEF HeldBuf, Leased
<1>8. \A r \in Slot, c \in Buf :
        c \in freeBufs'[r] <=> \/ c \in freeBufs[r]
                               \/ r = s /\ c = b /\ nUsers[<<s, b>>] = 1 /\ curr[s] # b
  BY <1>1, <1>2 DEF ObjectsTypeOK, BufTypeOK
<1>9. init \subseteq Slot
  BY DEF ObjectsTypeOK, PoolTypeOK
<1> QED BY <1>1, <1>2, <1>4, <1>5, <1>6, <1>7, <1>8, <1>9 DEF BufInv, OthersHeld

LEMMA PublishStep ==
  ASSUME ObjectsTypeOK, BufInv, NEW t \in Task, NEW s \in init, kMRMPublish(t, s)
  PROVE  BufInv'
<1>1. PICK b \in Buf \ freeBufs[s], v \in Payload :
        /\ nUsers[<<s, b>>] = 0 /\ <<t, s, b>> \in reserved
        /\ reserved' = reserved \ {<<t, s, b>>}
        /\ freeBufs' = [freeBufs EXCEPT ![s] =
                          IF curr[s] # b /\ ReusesCurr(s) THEN @ \cup {curr[s]} ELSE @]
        /\ payload' = [payload EXCEPT ![<<s, b>>] = v]
        /\ curr' = [curr EXCEPT ![s] = b]
        /\ UNCHANGED <<registry, init, nUsers, gets>>
  BY DEF kMRMPublish, poolVars
<1>2. s \in init /\ s \in Slot /\ init \subseteq Slot /\ registry \subseteq init
  BY DEF ObjectsTypeOK, PoolTypeOK
<1>3. RefInv'
  BY <1>1, RefsKept DEF BufInv, RefInv
<1>4. WriterIsAlone'
  BY <1>1 DEF BufInv, WriterIsAlone
<1>5. \A r \in Slot, c \in Buf :
        /\ HeldBuf(r, c)' => HeldBuf(r, c)
        /\ r # s \/ c # b => (HeldBuf(r, c)' <=> HeldBuf(r, c))
  BY <1>1 DEF HeldBuf, Leased
<1>6. \A c \in Buf : c = curr[s] => (HeldBuf(s, c) <=> ~ReusesCurr(s))
  <2> SUFFICES ASSUME NEW c \in Buf, c = curr[s]
               PROVE  HeldBuf(s, c) <=> nUsers[<<s, c>>] # 0 \/ Reserved(s, c)
    BY ObjectConstants DEF ReusesCurr
  <2>1. Bounded(s, c) /\ nUsers[<<s, c>>] = Cardinality(Refs(s, c))
    BY <1>2, Bounds DEF BufInv, RefInv
  <2>2. nUsers[<<s, c>>] # 0 <=> \E u \in Task : gets[<<u, s, c>>] # 0
    BY <2>1, NoReaders
  <2>3. \A u \in Task : gets[<<u, s, c>>] # 0 <=> gets[<<u, s, c>>] > 0
    BY <2>1, ObjectConstants DEF Bounded
  <2>4. HeldBuf(s, c) <=> Reserved(s, c) \/ \E u \in Task : gets[<<u, s, c>>] > 0
    BY DEF HeldBuf, Leased, Reserved
  <2> QED BY <2>2, <2>3, <2>4
<1>7. \A c \in Buf : c \notin freeBufs'[s] <=> c = curr'[s] \/ HeldBuf(s, c)'
  <2> SUFFICES ASSUME NEW c \in Buf
               PROVE  c \notin freeBufs'[s] <=> c = b \/ HeldBuf(s, c)'
    BY <1>1, <1>2 DEF ObjectsTypeOK, BufTypeOK
  <2>1. c \in freeBufs'[s] <=> c \in freeBufs[s] \/ (c = curr[s] /\ c # b /\ ReusesCurr(s))
    BY <1>1, <1>2 DEF ObjectsTypeOK, BufTypeOK
  <2>2. c \notin freeBufs[s] <=> c = curr[s] \/ HeldBuf(s, c)
    BY <1>2 DEF BufInv
  <2>3. c # b => (HeldBuf(s, c)' <=> HeldBuf(s, c))
    BY <1>2, <1>5
  <2>4. c = curr[s] => (HeldBuf(s, c) <=> ~ReusesCurr(s))
    BY <1>6
  <2> QED BY <1>1, <2>1, <2>2, <2>3, <2>4
<1>8. \A r \in init \ {s}, c \in Buf : c \notin freeBufs'[r] <=> c = curr'[r] \/ HeldBuf(r, c)'
  BY <1>1, <1>2, <1>5 DEF BufInv, ObjectsTypeOK, BufTypeOK
<1>9. \A r \in Slot : curr'[r] # None => payload'[<<r, curr'[r]>>] \in Payload
  <2> SUFFICES ASSUME NEW r \in Slot, curr'[r] # None
               PROVE  payload'[<<r, curr'[r]>>] \in Payload
    OBVIOUS
  <2>1. CASE r = s
    BY <1>1, <1>2, <2>1 DEF ObjectsTypeOK, BufTypeOK
  <2>2. CASE r # s
    BY <1>1, <1>2, <2>2 DEF BufInv, ObjectsTypeOK, BufTypeOK
  <2> QED BY <2>1, <2>2
<1>10. \A r \in Slot \ init : curr'[r] = None
  BY <1>1, <1>2 DEF BufInv, ObjectsTypeOK, BufTypeOK
<1> QED BY <1>1, <1>2, <1>3, <1>4, <1>5, <1>7, <1>8, <1>9, <1>10 DEF BufInv

\* Slot s is given a new object.
Initialises(s) ==
  /\ init' = init \cup {s}
  /\ curr' = [curr EXCEPT ![s] = None]
  /\ freeBufs' = [freeBufs EXCEPT ![s] = Buf]
  /\ UNCHANGED <<nUsers, payload, gets, reserved>>

LEMMA Creations ==
  ASSUME ObjectsTypeOK, NEW t \in Task, kMRMInit(t) \/ kMRMCreateSyscall(t)
  PROVE  \E s \in Slot \ init : Initialises(s)
<1>1. CASE kMRMInit(t)
  <2>1. making[t] \in Slot \ init
    BY <1>1 DEF kMRMInit, ObjectsTypeOK, PoolTypeOK
  <2> WITNESS making[t] \in Slot \ init
  <2> QED BY <1>1 DEF kMRMInit, leaseVars, Initialises
<1>2. CASE kMRMCreateSyscall(t)
  <2>1. PICK s \in freeSlots : Initialises(s)
    BY <1>2 DEF kMRMCreateSyscall, leaseVars, Initialises
  <2> QED BY <2>1 DEF ObjectsTypeOK, PoolTypeOK
<1> QED BY <1>1, <1>2

\* A new object starts with all buffers free and no value.
LEMMA InitStep ==
  ASSUME ObjectsTypeOK, BufInv, NEW t \in Task, kMRMInit(t) \/ kMRMCreateSyscall(t)
  PROVE  BufTypeOK' /\ BufInv'
<1>1. PICK s \in Slot \ init : Initialises(s)
  BY Creations
<1> USE DEF Initialises
<1>2. RefInv' /\ WriterIsAlone'
  BY <1>1, RefsKept DEF BufInv, RefInv, WriterIsAlone
<1>3. \A r \in Slot, c \in Buf : HeldBuf(r, c)' <=> HeldBuf(r, c)
  BY <1>1 DEF HeldBuf, Leased
<1>4. init \subseteq Slot
  BY DEF ObjectsTypeOK, PoolTypeOK
<1>5. BufTypeOK'
  BY <1>1 DEF ObjectsTypeOK, BufTypeOK
<1>6. \A c \in Buf : ~HeldBuf(s, c)
  BY <1>1, <1>4 DEF BufInv
<1> QED BY <1>1, <1>2, <1>3, <1>4, <1>5, <1>6, ObjectConstants DEF BufInv, ObjectsTypeOK, BufTypeOK

\* An object goes away when nobody holds one of its buffers.
LEMMA DestroyStep ==
  ASSUME ObjectsTypeOK, BufInv, NEW t \in Task, kMRMDestroy(t)
  PROVE  BufTypeOK' /\ BufInv'
<1> DEFINE s == cell[t].slot
<1>1. /\ s \in registry /\ ~kMRMHasActiveLease(s)
      /\ registry' = registry \ {s} /\ init' = init \ {s}
      /\ curr' = [curr EXCEPT ![s] = None]
      /\ freeBufs' = [freeBufs EXCEPT ![s] = {}]
      /\ UNCHANGED <<nUsers, payload, gets, reserved>>
  BY DEF kMRMDestroy, leaseVars, Resolves
<1>2. RefInv' /\ WriterIsAlone'
  BY <1>1, RefsKept DEF BufInv, RefInv, WriterIsAlone
<1>3. \A r \in Slot, c \in Buf : HeldBuf(r, c)' <=> HeldBuf(r, c)
  BY <1>1 DEF HeldBuf, Leased
<1> HIDE DEF s
<1>4. registry \subseteq init /\ init \subseteq Slot
  BY DEF ObjectsTypeOK, PoolTypeOK
<1>5. BufTypeOK'
  BY <1>1 DEF ObjectsTypeOK, BufTypeOK
<1>6. \A c \in Buf : ~HeldBuf(s, c)
  BY <1>1 DEF kMRMHasActiveLease, HeldBuf
<1> QED BY <1>1, <1>2, <1>3, <1>4, <1>5, <1>6, ObjectConstants DEF BufInv, ObjectsTypeOK, BufTypeOK

\* A terminated task leaves nothing behind: what only it held is free again
\* unless it is current.
LEMMA CleanupStep ==
  ASSUME ObjectsTypeOK, BufInv, NEW t \in Task, kMRMTaskCleanup(t)
  PROVE  BufTypeOK' /\ BufInv'
<1>1. /\ freeBufs' = [s \in Slot |-> freeBufs[s] \cup
                         ((Dropped(t, s) \cup Abandoned(t, s)) \ {curr[s]})]
      /\ nUsers' = [x \in Slot \X Buf |-> nUsers[x] - gets[<<t, x[1], x[2]>>]]
      /\ gets' = [x \in Lease |-> IF x[1] = t THEN 0 ELSE gets[x]]
      /\ reserved' = {x \in reserved : x[1] # t}
      /\ UNCHANGED <<registry, init, curr, payload>>
  BY DEF kMRMTaskCleanup, poolVars
<1>2. \A s \in Slot, b \in Buf, u \in Task :
        gets'[<<u, s, b>>] = IF u = t THEN 0 ELSE gets[<<u, s, b>>]
  BY <1>1 DEF Lease
<1>3. ASSUME NEW s \in Slot, NEW b \in Buf
      PROVE  /\ nUsers'[<<s, b>>] = Cardinality(Refs(s, b)')
             /\ nUsers'[<<s, b>>] \in Nat
  <2>1. nUsers'[<<s, b>>] = nUsers[<<s, b>>] - gets[<<t, s, b>>]
    BY <1>1
  <2>2. nUsers[<<s, b>>] = Cardinality(Refs(s, b)) /\ Bounded(s, b)
    BY Bounds DEF BufInv, RefInv
  <2>3. Cardinality(Refs(s, b)') = Cardinality(Refs(s, b)) - gets[<<t, s, b>>]
    BY <1>2, <2>2, RefsDropped
  <2>4. gets[<<t, s, b>>] \in Nat /\ gets[<<t, s, b>>] <= Cardinality(Refs(s, b))
    <3>1. gets[<<t, s, b>>] \in Nat
      BY <2>2, ObjectConstants DEF Bounded
    <3>2. CASE gets[<<t, s, b>>] = 0
      BY <3>1, <3>2, FiniteRefs
    <3>3. CASE gets[<<t, s, b>>] > 0
      BY <2>2, <3>1, <3>3, LastReader
    <3> QED BY <3>1, <3>2, <3>3
  <2>5. Cardinality(Refs(s, b)) \in Nat
    BY FiniteRefs
  <2> QED BY <2>1, <2>2, <2>3, <2>4, <2>5
<1>4. RefInv'
  BY <1>3 DEF RefInv
<1>5. BufTypeOK'
  <2>1. nUsers' \in [Slot \X Buf -> Nat]
    <3>1. \A x \in Slot \X Buf : nUsers'[x] \in Nat
      BY <1>3
    <3>2. nUsers' = [x \in Slot \X Buf |-> nUsers'[x]]
      BY <1>1
    <3> QED BY <3>1, <3>2
  <2>2. gets' \in [Lease -> 0 .. MaxGets]
    BY <1>1, ObjectConstants DEF ObjectsTypeOK, BufTypeOK
  <2>3. freeBufs' \in [Slot -> SUBSET Buf]
    BY <1>1 DEF ObjectsTypeOK, BufTypeOK, Dropped, Abandoned
  <2> QED BY <1>1, <2>1, <2>2, <2>3 DEF ObjectsTypeOK, BufTypeOK
<1>6. \A s \in Slot, b \in Buf, u \in Task :
        <<u, s, b>> \in reserved' <=> u # t /\ <<u, s, b>> \in reserved
  BY <1>1
<1>7. WriterIsAlone'
  BY <1>2, <1>6 DEF BufInv, WriterIsAlone
<1>8. \A s \in Slot, b \in Buf :
        HeldBuf(s, b)' <=> \E u \in Task \ {t} : Leased(<<u, s, b>>)
  <2> SUFFICES ASSUME NEW s \in Slot, NEW b \in Buf
               PROVE  HeldBuf(s, b)' <=> \E u \in Task \ {t} : Leased(<<u, s, b>>)
    OBVIOUS
  <2>1. \A u \in Task : Leased(<<u, s, b>>)' <=> u # t /\ Leased(<<u, s, b>>)
    BY <1>2, <1>6 DEF Leased
  <2> QED BY <2>1 DEF HeldBuf
<1>9. ASSUME NEW s \in init, NEW b \in Buf
      PROVE  b \notin freeBufs'[s] <=> b = curr[s] \/ HeldBuf(s, b)'
  <2>1. s \in Slot /\ Bounded(s, b) /\ nUsers[<<s, b>>] = Cardinality(Refs(s, b))
    BY Bounds DEF ObjectsTypeOK, PoolTypeOK, BufInv, RefInv
  <2>2. b \notin freeBufs[s] <=> b = curr[s] \/ HeldBuf(s, b)
    BY DEF BufInv
  <2>3. b \in freeBufs'[s] <=>
          b \in freeBufs[s] \/ (b # curr[s] /\ (b \in Dropped(t, s) \/ b \in Abandoned(t, s)))
    BY <1>1, <2>1
  <2>4. HeldBuf(s, b)' <=> \E u \in Task \ {t} : Leased(<<u, s, b>>)
    BY <1>8, <2>1
  <2>5. HeldBuf(s, b) <=> Leased(<<t, s, b>>) \/ HeldBuf(s, b)'
    BY <2>4 DEF HeldBuf
  <2>6. CASE gets[<<t, s, b>>] > 0
    <3>1. \A u \in Task : <<u, s, b>> \notin reserved
      BY <2>1, <2>6 DEF BufInv, WriterIsAlone
    <3>2. b \in Dropped(t, s) <=> \A u \in Task \ {t} : gets[<<u, s, b>>] = 0
      BY <2>1, <2>6, LastReader DEF Dropped
    <3>3. HeldBuf(s, b)' <=> \E u \in Task \ {t} : gets[<<u, s, b>>] # 0
      BY <2>1, <2>4, <3>1, ObjectConstants DEF Leased, Bounded
    <3>4. b \notin Abandoned(t, s) /\ Leased(<<t, s, b>>)
      BY <2>6, <3>1 DEF Abandoned, Leased
    <3> QED BY <2>2, <2>3, <2>5, <3>2, <3>3, <3>4
  <2>7. CASE ~(gets[<<t, s, b>>] > 0) /\ <<t, s, b>> \in reserved
    <3>1. \A u \in Task \ {t} : gets[<<u, s, b>>] = 0 /\ <<u, s, b>> \notin reserved
      BY <2>1, <2>7 DEF BufInv, WriterIsAlone
    <3>2. ~HeldBuf(s, b)'
      <4>1. \A u \in Task \ {t} : ~Leased(<<u, s, b>>)
        BY <3>1 DEF Leased
      <4> QED BY <2>4, <4>1
    <3>3. b \in Abandoned(t, s) /\ Leased(<<t, s, b>>)
      BY <2>1, <2>7, ObjectConstants DEF Abandoned, Leased, Bounded
    <3> QED BY <2>2, <2>3, <2>5, <3>2, <3>3
  <2>8. CASE ~Leased(<<t, s, b>>)
    <3>1. b \notin Dropped(t, s) /\ b \notin Abandoned(t, s)
      BY <2>8 DEF Dropped, Abandoned, Leased
    <3> QED BY <2>2, <2>3, <2>5, <2>8, <3>1
  <2> QED BY <2>6, <2>7, <2>8 DEF Leased
<1>10. \A s \in Slot, b \in Buf : HeldBuf(s, b)' => HeldBuf(s, b)
  BY <1>8 DEF HeldBuf
<1> QED BY <1>1, <1>4, <1>5, <1>7, <1>9, <1>10 DEF BufInv

LEMMA BufStep ==
  ASSUME ObjectsInv, Next
  PROVE  BufTypeOK' /\ BufInv'
<1> USE DEF ObjectsInv
<1>1. ASSUME NEW t \in Task, \/ kMRMCreateAlloc(t) \/ kDynObjPublishHandle(t)
                             \/ DirectBegin(t) \/ DirectFails(t)
      PROVE  BufTypeOK' /\ BufInv'
  <2>1. UNCHANGED <<bufVars, leaseVars, init>>
    BY <1>1 DEF kMRMCreateAlloc, kDynObjPublishHandle, DirectBegin, DirectFails, poolVars
  <2> QED BY <2>1, BufFrame
<1>2. ASSUME NEW t \in Task, NEW u \in Task, ShareHandle(t, u)
      PROVE  BufTypeOK' /\ BufInv'
  <2>1. UNCHANGED <<bufVars, leaseVars, init>>
    BY <1>2 DEF ShareHandle, poolVars
  <2> QED BY <2>1, BufFrame
<1>3. ASSUME NEW t \in Task, NEW h, Operation(t, h),
             \/ h = cell[t] /\ Resolves(h)
             \/ h = calling[t] /\ h # None /\ h.slot \in init
      PROVE  BufTypeOK' /\ BufInv'
  <2>1. h.slot \in init /\ h.slot \in Slot
    BY <1>3, CallFindsAnObject DEF Handle
  <2>2. BufOperation(t, h.slot)
    BY <1>3 DEF Operation, BufOperation
  <2>3. BufTypeOK'
    BY <2>1, <2>2, OperationTypes
  <2> QED BY <2>1, <2>2, <2>3, ReserveStep, PublishStep, GetStep, UngetStep DEF BufOperation
<1>4. ASSUME NEW t \in Task, Syscall(t) \/ DirectCall(t) PROVE BufTypeOK' /\ BufInv'
  BY <1>3, <1>4 DEF Syscall, DirectCall, Operation
<1> QED BY <1>1, <1>2, <1>4, InitStep, DestroyStep, CleanupStep DEF Next

LEMMA InitObjectsInv == Init => ObjectsInv
<1> SUFFICES ASSUME Init PROVE ObjectsInv
  OBVIOUS
<1> USE ObjectConstants
<1>1. PoolTypeOK
  BY DEF Init, PoolTypeOK
<1>2. BufTypeOK
  BY DEF Init, BufTypeOK
<1>3. PoolInv
  BY DEF Init, PoolInv, MakerInv, GenerationInv, HandleInv, Idle
<1>4. RefInv
  <2> SUFFICES ASSUME NEW s \in Slot, NEW b \in Buf
               PROVE  nUsers[<<s, b>>] = Cardinality(Refs(s, b))
    BY DEF RefInv
  <2>1. \A t \in Task : gets[<<t, s, b>>] = 0
    BY DEF Init, Lease
  <2>2. Bounded(s, b)
    BY <2>1 DEF Bounded
  <2> QED BY <2>1, <2>2, NoReaders DEF Init
<1>5. \A s \in Slot, b \in Buf : ~HeldBuf(s, b)
  <2>1. \A t \in Task, s \in Slot, b \in Buf : ~Leased(<<t, s, b>>)
    BY DEF Init, Leased, Lease
  <2> QED BY <2>1 DEF HeldBuf
<1> QED BY <1>1, <1>2, <1>3, <1>4, <1>5
    DEF Init, ObjectsInv, ObjectsTypeOK, BufInv, WriterIsAlone

(***************************************************************************)
(* What follows for every behaviour.                                       *)
(***************************************************************************)
THEOREM ObjectsInvariance ==
  ASSUME NoWrap
  PROVE  ObjectsSpec => []ObjectsInv
<1>1. ObjectsInv /\ [Next]_objectVars => ObjectsInv'
  <2> SUFFICES ASSUME ObjectsInv, [Next]_objectVars PROVE ObjectsInv'
    OBVIOUS
  <2>1. CASE Next
    BY <2>1, PoolStep, BufStep DEF ObjectsInv, ObjectsTypeOK
  <2>2. CASE UNCHANGED objectVars
    <3>1. UNCHANGED <<poolVars, callVars, bufVars, leaseVars>>
      BY <2>2 DEF objectVars
    <3>2. BufTypeOK' /\ BufInv'
      BY <3>1, BufFrame DEF ObjectsInv, poolVars
    <3>3. PoolTypeOK' /\ PoolInv'
      BY <3>1 DEF ObjectsInv, ObjectsTypeOK, PoolTypeOK, PoolInv, MakerInv, GenerationInv,
                  HandleInv, OwnObject, Idle, poolVars, callVars
    <3> QED BY <3>2, <3>3 DEF ObjectsInv, ObjectsTypeOK
  <2> QED BY <2>1, <2>2
<1> QED BY <1>1, InitObjectsInv, PTL DEF ObjectsSpec

\* A handle that resolves names the object it was made for: every system call
\* and every destroy acts on its own object, whoever creates and destroys.
THEOREM HandlesNameTheirObject ==
  ASSUME NoWrap
  PROVE  ObjectsSpec => []NoStaleHandle
<1>1. ObjectsInv => NoStaleHandle
  BY DEF ObjectsInv, PoolInv, HandleInv, OwnObject, Resolves, NoStaleHandle
<1> QED BY <1>1, ObjectsInvariance, PTL

\* No buffer is lost or given back twice, and nUsers counts the readers.
THEOREM BuffersNeverLost ==
  ASSUME NoWrap
  PROVE  ObjectsSpec => [](BuffersAccounted /\ WriterIsAlone)
<1>1. ObjectsInv => BuffersAccounted /\ WriterIsAlone
  <2> SUFFICES ASSUME ObjectsInv PROVE BuffersAccounted
    BY DEF ObjectsInv, BufInv
  <2> SUFFICES ASSUME NEW s \in Slot
               PROVE  /\ s \in init => Buf \ freeBufs[s] =
                          {b \in Buf : b = curr[s] \/ \E t \in Task : Leased(<<t, s, b>>)}
                      /\ \A b \in Buf :
                           /\ s \in init => nUsers[<<s, b>>] = Cardinality(Refs(s, b))
                           /\ \A t \in Task : Leased(<<t, s, b>>) => s \in init
    BY DEF BuffersAccounted
  <2>1. s \in init => Buf \ freeBufs[s] =
                        {b \in Buf : b = curr[s] \/ \E t \in Task : Leased(<<t, s, b>>)}
    BY DEF ObjectsInv, BufInv, HeldBuf
  <2>2. \A b \in Buf : s \in init => nUsers[<<s, b>>] = Cardinality(Refs(s, b))
    BY DEF ObjectsInv, BufInv, RefInv
  <2>3. \A b \in Buf, t \in Task : Leased(<<t, s, b>>) => s \in init
    BY DEF ObjectsInv, BufInv, HeldBuf
  <2> QED BY <2>1, <2>2, <2>3
<1> QED BY <1>1, ObjectsInvariance, PTL

(***************************************************************************)
(* MRM objects implement MRMAbs.                                           *)
(***************************************************************************)
\* A step that touches neither values nor references is a stutter.
LEMMA Stutter ==
  ASSUME UNCHANGED <<curr, payload, gets>>
  PROVE  UNCHANGED Latest!absVars
BY DEF Offered, HeldRefs, Latest!absVars

LEMMA PublishImplements ==
  ASSUME ObjectsTypeOK, BufInv, NEW t \in Task, NEW s \in Slot, kMRMPublish(t, s)
  PROVE  Latest!Next
<1>1. PICK b \in Buf, v \in Payload :
        /\ nUsers[<<s, b>>] = 0
        /\ payload' = [payload EXCEPT ![<<s, b>>] = v]
        /\ curr' = [curr EXCEPT ![s] = b]
        /\ UNCHANGED gets
  BY DEF kMRMPublish
<1>2. None \notin Buf /\ curr \in [Slot -> Buf \cup {None}]
      /\ payload \in [Slot \X Buf -> Payload \cup {None}]
  BY ObjectConstants DEF ObjectsTypeOK, BufTypeOK
<1>3. \A u \in Task : gets[<<u, s, b>>] = 0
  BY <1>1, Bounds, NoReaders DEF BufInv, RefInv
<1>4. Offered' = [Offered EXCEPT ![s] = v]
  <2>1. \A r \in Slot : Offered'[r] = IF r = s THEN v ELSE Offered[r]
    BY <1>1, <1>2 DEF Offered
  <2> QED BY <2>1 DEF Offered
<1>5. UNCHANGED HeldRefs
  <2>1. ASSUME NEW x \in Lease PROVE HeldRefs'[x] = HeldRefs[x]
    <3>1. x[1] \in Task /\ x[2] \in Slot /\ x[3] \in Buf /\ x = <<x[1], x[2], x[3]>>
      BY DEF Lease
    <3>2. gets[x] # 0 => ~(x[2] = s /\ x[3] = b)
      BY <1>3, <3>1
    <3> QED BY <1>1, <1>2, <3>1, <3>2 DEF HeldRefs
  <2> QED BY <2>1 DEF HeldRefs
<1>6. Latest!Publish(s, v)
  BY <1>4, <1>5 DEF Latest!Publish
<1> QED BY <1>6 DEF Latest!Next

\* What a reference stands for when it was taken n times.
RefOf(s, b, n) == IF n = 0 THEN [value |-> None, count |-> 0]
                  ELSE [value |-> payload[<<s, b>>], count |-> n]

SetsRef(t, s, b, n) ==
  /\ UNCHANGED Offered
  /\ HeldRefs' = [HeldRefs EXCEPT ![<<t, s, b>>] = RefOf(s, b, n)]
  /\ HeldRefs[<<t, s, b>>] = RefOf(s, b, gets[<<t, s, b>>])

LEMMA SetsRefs ==
  ASSUME ObjectsTypeOK, NEW t \in Task, NEW s \in Slot, NEW b \in Buf, NEW n \in Nat,
         gets' = [gets EXCEPT ![<<t, s, b>>] = n], UNCHANGED <<curr, payload>>
  PROVE  SetsRef(t, s, b, n)
<1>1. <<t, s, b>> \in Lease /\ gets \in [Lease -> 0 .. MaxGets]
  BY DEF Lease, ObjectsTypeOK, BufTypeOK
<1>2. \A x \in Lease : gets'[x] = IF x = <<t, s, b>> THEN n ELSE gets[x]
  BY <1>1
<1>3. \A x \in Lease : HeldRefs'[x] = IF x = <<t, s, b>> THEN RefOf(s, b, n) ELSE HeldRefs[x]
  BY <1>2 DEF HeldRefs, RefOf
<1>4. HeldRefs' = [x \in Lease |-> HeldRefs'[x]] /\ HeldRefs = [x \in Lease |-> HeldRefs[x]]
  BY DEF HeldRefs
<1>5. UNCHANGED Offered
  BY DEF Offered
<1>6. HeldRefs[<<t, s, b>>] = RefOf(s, b, gets[<<t, s, b>>])
  BY <1>1 DEF HeldRefs, RefOf
<1>7. HeldRefs' = [HeldRefs EXCEPT ![<<t, s, b>>] = RefOf(s, b, n)]
  BY <1>1, <1>3, <1>4
<1> QED BY <1>5, <1>6, <1>7 DEF SetsRef

LEMMA GetImplements ==
  ASSUME ObjectsTypeOK, BufInv, NEW t \in Task, NEW s \in Slot, kMRMGet(t, s)
  PROVE  Latest!Next
<1>1. PICK b \in Buf :
        /\ b = curr[s] /\ b # None /\ payload[<<s, b>>] \in Payload
        /\ gets' = [gets EXCEPT ![<<t, s, b>>] = @ + 1]
        /\ UNCHANGED <<curr, payload>>
  <2>1. curr[s] \in Buf
    BY DEF kMRMGet, ObjectsTypeOK, BufTypeOK
  <2> WITNESS curr[s] \in Buf
  <2> QED BY DEF kMRMGet, BufInv
<1>2. gets[<<t, s, b>>] \in Nat
  <2> Bounded(s, b)
    BY Bounds
  <2> QED BY ObjectConstants DEF Bounded
<1>3. PICK n \in Nat : n = gets[<<t, s, b>>] + 1 /\ gets' = [gets EXCEPT ![<<t, s, b>>] = n]
  <2> gets[<<t, s, b>>] + 1 \in Nat
    BY <1>2
  <2> WITNESS gets[<<t, s, b>>] + 1 \in Nat
  <2> QED BY <1>1
<1>4. Offered[s] = payload[<<s, b>>] /\ Offered[s] # None
  BY <1>1, ObjectConstants DEF Offered
<1>5. SetsRef(t, s, b, n)
  <2> UNCHANGED <<curr, payload>>
    BY <1>1
  <2> QED BY <1>3, SetsRefs, Zenon
<1> DEFINE old == RefOf(s, b, gets[<<t, s, b>>])
<1>6. old.value \in {None, Offered[s]} /\ RefOf(s, b, n) = [value |-> Offered[s], count |-> old.count + 1]
  BY <1>2, <1>3, <1>4 DEF RefOf
<1>7. Latest!Get(t, s, b)
  BY <1>4, <1>5, <1>6 DEF Latest!Get, SetsRef
<1> QED BY <1>7 DEF Latest!Next

LEMMA UngetImplements ==
  ASSUME ObjectsTypeOK, BufInv, NEW t \in Task, NEW s \in Slot, kMRMUnget(t, s)
  PROVE  Latest!Next
<1>1. PICK b \in Buf : /\ gets[<<t, s, b>>] > 0
                       /\ gets' = [gets EXCEPT ![<<t, s, b>>] = @ - 1]
                       /\ UNCHANGED <<curr, payload>>
  BY DEF kMRMUnget
<1>2. gets[<<t, s, b>>] \in Nat
  <2> Bounded(s, b)
    BY Bounds
  <2> QED BY ObjectConstants DEF Bounded
<1>3. PICK n \in Nat : n = gets[<<t, s, b>>] - 1 /\ gets' = [gets EXCEPT ![<<t, s, b>>] = n]
  <2> gets[<<t, s, b>>] - 1 \in Nat
    BY <1>1, <1>2
  <2> WITNESS gets[<<t, s, b>>] - 1 \in Nat
  <2> QED BY <1>1
<1>4. SetsRef(t, s, b, n)
  <2> UNCHANGED <<curr, payload>>
    BY <1>1
  <2> QED BY <1>3, SetsRefs, Zenon
<1> DEFINE old == RefOf(s, b, gets[<<t, s, b>>])
<1>5. /\ old.count > 0
      /\ RefOf(s, b, n) = IF old.count = 1 THEN Latest!NotHeld
                          ELSE [value |-> old.value, count |-> old.count - 1]
  BY <1>1, <1>2, <1>3 DEF RefOf, Latest!NotHeld
<1> HIDE DEF old
<1>6. HeldRefs[<<t, s, b>>] = old
  BY <1>4 DEF SetsRef, old
<1>7. Latest!Unget(t, s, b)
  BY <1>4, <1>5, <1>6 DEF Latest!Unget, SetsRef
<1> QED BY <1>7 DEF Latest!Next

LEMMA CleanupImplements ==
  ASSUME ObjectsTypeOK, NEW t \in Task, kMRMTaskCleanup(t)
  PROVE  Latest!Next
<1>1. /\ gets' = [x \in Lease |-> IF x[1] = t THEN 0 ELSE gets[x]]
      /\ UNCHANGED <<curr, payload>>
  BY DEF kMRMTaskCleanup
<1>2. HeldRefs' = [x \in Lease |-> IF x[1] = t THEN Latest!NotHeld ELSE HeldRefs[x]]
  BY <1>1 DEF HeldRefs, Latest!NotHeld
<1>3. Latest!Leave(t)
  BY <1>1, <1>2 DEF Latest!Leave, Offered, Lease
<1> QED BY <1>3 DEF Latest!Next

LEMMA DestroyImplements ==
  ASSUME ObjectsTypeOK, BufInv, NEW t \in Task, kMRMDestroy(t)
  PROVE  Latest!Next
<1> DEFINE s == cell[t].slot
<1>1. /\ s \in Slot /\ ~kMRMHasActiveLease(s)
      /\ curr' = [curr EXCEPT ![s] = None]
      /\ UNCHANGED <<payload, gets>>
  BY DEF kMRMDestroy, leaseVars, Resolves, ObjectsTypeOK, PoolTypeOK
<1>2. PICK r \in Slot : r = s
  BY <1>1
<1>3. \A u \in Task, b \in Buf : HeldRefs[<<u, r, b>>] = Latest!NotHeld
  <2> SUFFICES ASSUME NEW u \in Task, NEW b \in Buf
               PROVE  HeldRefs[<<u, r, b>>] = Latest!NotHeld
    OBVIOUS
  <2>1. <<u, r, b>> \in Lease /\ gets[<<u, r, b>>] \in 0 .. MaxGets /\ ~Leased(<<u, r, b>>)
    BY <1>1, <1>2 DEF kMRMHasActiveLease, Lease, ObjectsTypeOK, BufTypeOK
  <2>2. gets[<<u, r, b>>] = 0
    BY <2>1, ObjectConstants DEF Leased
  <2> QED BY <2>1, <2>2 DEF HeldRefs, Latest!NotHeld
<1>4. Offered' = [Offered EXCEPT ![r] = None]
  <2>1. \A q \in Slot : Offered'[q] = IF q = r THEN None ELSE Offered[q]
    BY <1>1, <1>2 DEF Offered, ObjectsTypeOK, BufTypeOK
  <2> QED BY <2>1 DEF Offered
<1>5. UNCHANGED HeldRefs
  BY <1>1 DEF HeldRefs
<1>6. Latest!Withdraw(r)
  BY <1>3, <1>4, <1>5 DEF Latest!Withdraw
<1> QED BY <1>6 DEF Latest!Next

LEMMA ObjectStepImplements ==
  ASSUME ObjectsInv, [Next]_objectVars
  PROVE  [Latest!Next]_(Latest!absVars)
<1> USE DEF ObjectsInv
<1>1. CASE UNCHANGED <<curr, payload, gets>>
  BY <1>1, Stutter
<1>2. ASSUME NEW t \in Task, kMRMInit(t) \/ kMRMCreateSyscall(t)
      PROVE  UNCHANGED <<curr, payload, gets>>
  <2>1. PICK s \in Slot \ init : Initialises(s)
    BY <1>2, Creations
  <2> QED BY <2>1 DEF Initialises, BufInv, ObjectsTypeOK, BufTypeOK
<1>3. ASSUME NEW t \in Task, NEW h, Operation(t, h),
             \/ h = cell[t] /\ Resolves(h)
             \/ h = calling[t] /\ h # None /\ h.slot \in init
      PROVE  [Latest!Next]_(Latest!absVars)
  <2>1. h.slot \in Slot /\ BufOperation(t, h.slot)
    BY <1>3, CallFindsAnObject DEF Handle, Operation, BufOperation
  <2>2. CASE kMRMReserve(t, h.slot)
    BY <2>2, Stutter DEF kMRMReserve
  <2> QED BY <2>1, <2>2, PublishImplements, GetImplements, UngetImplements DEF BufOperation
<1>4. ASSUME NEW t \in Task, Syscall(t) \/ DirectCall(t)
      PROVE  [Latest!Next]_(Latest!absVars)
  BY <1>3, <1>4 DEF Syscall, DirectCall, Operation
<1>5. CASE \/ UNCHANGED objectVars
           \/ \E t \in Task : \/ kMRMCreateAlloc(t) \/ kDynObjPublishHandle(t)
                              \/ DirectBegin(t) \/ DirectFails(t)
           \/ \E t, u \in Task : ShareHandle(t, u)
  BY <1>1, <1>5 DEF objectVars, bufVars, leaseVars, kMRMCreateAlloc, kDynObjPublishHandle,
                    DirectBegin, DirectFails, ShareHandle
<1> QED BY <1>1, <1>2, <1>4, <1>5, DestroyImplements, CleanupImplements DEF Next

\* Readers of an MRM get the value published last and find it unchanged for as
\* long as they hold it, and an object goes away only when nobody holds one.
THEOREM ObjectsImplementation ==
  ASSUME NoWrap
  PROVE  ObjectsSpec => ImplementsMRMAbs
<1>1. Init => Latest!Init
  BY DEF Init, Latest!Init, Offered, HeldRefs, Latest!NotHeld, Lease
<1>2. ObjectsInv /\ [Next]_objectVars => [Latest!Next]_(Latest!absVars)
  BY ObjectStepImplements
<1> QED BY <1>1, <1>2, ObjectsInvariance, PTL DEF ObjectsSpec, ImplementsMRMAbs, Latest!Spec
=============================================================================
