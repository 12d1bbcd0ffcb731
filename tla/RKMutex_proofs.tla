--------------------------- MODULE RKMutex_proofs ---------------------------
(***************************************************************************)
(* Proofs about the mutex service for every set of tasks and mutexes, and  *)
(* what the other services take from them: what the queue operations of    *)
(* RKQueues preserve, for queues of any length over any set of tasks;      *)
(* from KernelFacts on, what each step of the kernel and of the mutexes    *)
(* does to the waits of the tasks, whatever other objects they wait on;    *)
(* and the inductive invariant of a kernel whose only objects are mutexes. *)
(* A service on the kernel says in an invariant of its own where a task    *)
(* that waits on its objects is, and takes from here that no step of the   *)
(* others changes it.                                                      *)
(***************************************************************************)
EXTENDS RKMutex, TLAPS, SequenceTheorems, WellFoundedInduction,
        FiniteSetTheorems

\* A non-empty set of natural numbers has a least element, so the choices of
\* kCalcNextTaskPrio_, of the scans and of kTaskCalcEffectivePrio_ exist.
LEMMA LeastExists ==
  ASSUME NEW T \in SUBSET Nat, T # {}
  PROVE  \E x \in T : \A y \in T : x <= y
<1> DEFINE F == {0 .. x : x \in T}
<1>1. F \subseteq FiniteSubsetsOf(Nat) /\ F # {}
  <2>1. \A x \in T : 0 .. x \in SUBSET Nat /\ IsFiniteSet(0 .. x)
    BY FS_Interval
  <2> QED BY <2>1, T # {} DEF FiniteSubsetsOf
<1>2. PICK s \in F : \A r \in F : <<r, s>> \notin StrictSubsetOrdering(Nat)
  <2> HIDE DEF F
  <2> QED BY <1>1, FS_StrictSubsetOrderingWellFounded, WFMin
<1>3. PICK x \in T : s = 0 .. x
  OBVIOUS
<1>4. ASSUME NEW y \in T, y < x PROVE FALSE
  <2>1. 0 .. y \subseteq 0 .. x /\ 0 .. y # 0 .. x
    <3>1. x \in 0 .. x /\ x \notin 0 .. y
      BY <1>4
    <3>2. 0 .. y \subseteq 0 .. x
      BY <1>4
    <3> QED BY <3>1, <3>2
  <2>2. 0 .. y \in SUBSET Nat /\ 0 .. x \in SUBSET Nat
    OBVIOUS
  <2>3. <<0 .. y, s>> \in StrictSubsetOrdering(Nat)
    BY <1>3, <2>1, <2>2 DEF StrictSubsetOrdering
  <2> QED BY <1>2, <2>3
<1> QED BY <1>4

\* Inserting into a queue adds one entry and keeps the others in order.
LEMMA InsertAtProperties ==
  ASSUME NEW S, NEW q \in Seq(S), NEW e \in S, NEW i \in 1 .. Len(q) + 1
  PROVE  /\ InsertAt(q, i, e) \in Seq(S)
         /\ Len(InsertAt(q, i, e)) = Len(q) + 1
         /\ \A j \in 1 .. Len(q) + 1 :
              InsertAt(q, i, e)[j] = IF j < i THEN q[j]
                                     ELSE IF j = i THEN e ELSE q[j - 1]
<1> DEFINE a == SubSeq(q, 1, i - 1)
           b == SubSeq(q, i, Len(q))
<1>1. Len(q) \in Nat /\ \A k \in 1 .. Len(q) : q[k] \in S
  BY LenProperties, ElementOfSeq
<1>2. /\ a \in Seq(S) /\ Len(a) = i - 1
      /\ \A k \in 1 .. i - 1 : a[k] = q[k]
  BY <1>1, SubSeqProperties, Z3
<1>3. /\ b \in Seq(S) /\ Len(b) = Len(q) - i + 1
      /\ \A k \in 1 .. Len(q) - i + 1 : b[k] = q[i + k - 1]
  BY <1>1, SubSeqProperties, Z3
<1>4. <<e>> \in Seq(S) /\ Len(<<e>>) = 1 /\ <<e>>[1] = e
  OBVIOUS
<1> DEFINE c == a \o <<e>>
<1>5. /\ c \in Seq(S) /\ Len(c) = i
      /\ \A k \in 1 .. i : c[k] = IF k < i THEN q[k] ELSE e
  BY <1>2, <1>4, ConcatProperties
<1>6. InsertAt(q, i, e) = c \o b
  BY DEF InsertAt
<1>7. /\ c \o b \in Seq(S) /\ Len(c \o b) = Len(q) + 1
      /\ \A k \in 1 .. Len(q) + 1 :
           (c \o b)[k] = IF k <= i THEN c[k] ELSE b[k - i]
  <2> HIDE DEF a, c, b
  <2>1. c \in Seq(S) /\ Len(c) = i /\ b \in Seq(S) /\ Len(b) = Len(q) - i + 1
    BY <1>3, <1>5
  <2>2. /\ c \o b \in Seq(S) /\ Len(c \o b) = Len(c) + Len(b)
        /\ \A k \in 1 .. Len(c) + Len(b) :
             (c \o b)[k] = IF k <= Len(c) THEN c[k] ELSE b[k - Len(c)]
    BY <2>1, ConcatProperties
  <2>3. Len(c) + Len(b) = Len(q) + 1
    BY <1>1, <2>1
  <2> QED BY <2>1, <2>2, <2>3
<1> HIDE DEF a, b, c
<1> QED BY <1>1, <1>3, <1>5, <1>6, <1>7

\* Removing an entry keeps the others in order.
LEMMA RemoveAtProperties ==
  ASSUME NEW S, NEW q \in Seq(S), NEW i \in 1 .. Len(q)
  PROVE  /\ RemoveAt(q, i) \in Seq(S)
         /\ Len(RemoveAt(q, i)) = Len(q) - 1
         /\ \A j \in 1 .. Len(q) - 1 :
              RemoveAt(q, i)[j] = IF j < i THEN q[j] ELSE q[j + 1]
<1> DEFINE a == SubSeq(q, 1, i - 1)
           b == SubSeq(q, i + 1, Len(q))
<1>1. Len(q) \in Nat /\ \A k \in 1 .. Len(q) : q[k] \in S
  BY LenProperties, ElementOfSeq
<1>2. /\ a \in Seq(S) /\ Len(a) = i - 1
      /\ \A k \in 1 .. i - 1 : a[k] = q[k]
  BY <1>1, SubSeqProperties, Z3
<1>3. /\ b \in Seq(S) /\ Len(b) = Len(q) - i
      /\ \A k \in 1 .. Len(q) - i : b[k] = q[i + k]
  BY <1>1, SubSeqProperties, Z3
<1>4. RemoveAt(q, i) = a \o b
  BY DEF RemoveAt
<1>5. /\ a \o b \in Seq(S) /\ Len(a \o b) = Len(q) - 1
      /\ \A k \in 1 .. Len(q) - 1 :
           (a \o b)[k] = IF k <= i - 1 THEN a[k] ELSE b[k - (i - 1)]
  <2> HIDE DEF a, b
  <2>1. Len(a) + Len(b) = Len(q) - 1
    BY <1>1, <1>2, <1>3
  <2>2. /\ a \o b \in Seq(S) /\ Len(a \o b) = Len(a) + Len(b)
        /\ \A k \in 1 .. Len(a) + Len(b) :
             (a \o b)[k] = IF k <= Len(a) THEN a[k] ELSE b[k - Len(a)]
    BY <1>2, <1>3, ConcatProperties
  <2> QED BY <2>1, <2>2, <1>2
<1>6. \A k \in 1 .. Len(q) - 1 : (a \o b)[k] = IF k < i THEN q[k] ELSE q[k + 1]
  <2> HIDE DEF a, b
  <2> SUFFICES ASSUME NEW k \in 1 .. Len(q) - 1
               PROVE  (a \o b)[k] = IF k < i THEN q[k] ELSE q[k + 1]
    OBVIOUS
  <2>1. CASE k < i
    BY <2>1, <1>1, <1>2, <1>5
  <2>2. CASE k >= i
    <3>1. k - (i - 1) \in 1 .. Len(q) - i /\ i + (k - (i - 1)) = k + 1
      BY <2>2, <1>1
    <3> QED BY <3>1, <2>2, <1>1, <1>3, <1>5
  <2>3. k < i \/ k >= i
    BY <1>1
  <2> QED BY <2>1, <2>2, <2>3
<1> HIDE DEF a, b
<1> QED BY <1>4, <1>5, <1>6

\* The entries of a queue after an insertion.
LEMMA InsertAtSet ==
  ASSUME NEW S, NEW q \in Seq(S), NEW e \in S, NEW i \in 1 .. Len(q) + 1
  PROVE  /\ ToSet(InsertAt(q, i, e)) = ToSet(q) \cup {e}
         /\ NoDuplicates(q) /\ e \notin ToSet(q) => NoDuplicates(InsertAt(q, i, e))
<1> DEFINE r == InsertAt(q, i, e)
<1>1. /\ Len(q) \in Nat /\ DOMAIN q = 1 .. Len(q)
      /\ \A k \in 1 .. Len(q) : q[k] \in S
  BY LenProperties, ElementOfSeq
<1>2. /\ r \in Seq(S) /\ Len(r) = Len(q) + 1
      /\ \A j \in 1 .. Len(q) + 1 :
           r[j] = IF j < i THEN q[j] ELSE IF j = i THEN e ELSE q[j - 1]
  BY InsertAtProperties
<1>3. DOMAIN r = 1 .. Len(q) + 1
  BY <1>2, LenProperties
<1> HIDE DEF r
<1>4. ToSet(r) = ToSet(q) \cup {e}
  <2>1. \A j \in 1 .. Len(q) + 1 : r[j] \in ToSet(q) \cup {e}
    <3>1. \A k \in 1 .. Len(q) : q[k] \in ToSet(q)
      BY <1>1 DEF ToSet
    <3>2. ASSUME NEW j \in 1 .. Len(q) + 1 PROVE r[j] \in ToSet(q) \cup {e}
      <4>1. j < i => j \in 1 .. Len(q)
        BY <1>1
      <4>2. j > i => j - 1 \in 1 .. Len(q)
        BY <1>1
      <4>3. j < i \/ j = i \/ (j > i /\ ~(j < i) /\ j # i)
        BY <1>1
      <4> QED BY <3>1, <4>1, <4>2, <4>3, <1>2
    <3> QED BY <3>2
  <2>2. ASSUME NEW j \in 1 .. Len(q) PROVE \E k \in 1 .. Len(q) + 1 : r[k] = q[j]
    <3>1. CASE j < i
      BY <3>1, <1>1, <1>2
    <3>2. CASE j >= i
      <4>1. j + 1 \in 1 .. Len(q) + 1 /\ ~(j + 1 < i) /\ j + 1 # i
            /\ (j + 1) - 1 = j
        BY <3>2, <1>1
      <4> QED BY <4>1, <1>2
    <3> QED BY <3>1, <3>2, <1>1
  <2>3. i \in 1 .. Len(q) + 1 /\ r[i] = e
    BY <1>1, <1>2
  <2> QED BY <2>1, <2>2, <2>3, <1>1, <1>3 DEF ToSet
<1>5. ASSUME NoDuplicates(q), e \notin ToSet(q)
      PROVE  NoDuplicates(r)
  <2> SUFFICES ASSUME NEW j \in 1 .. Len(q) + 1, NEW k \in 1 .. Len(q) + 1,
                      r[j] = r[k]
               PROVE  j = k
    BY <1>3 DEF NoDuplicates
  <2>1. \A n \in 1 .. Len(q) : q[n] # e
    BY <1>5, <1>1 DEF ToSet
  <2>2. \A m, n \in 1 .. Len(q) : q[m] = q[n] => m = n
    BY <1>5, <1>1 DEF NoDuplicates
  <2> QED BY <2>1, <2>2, <1>1, <1>2
<1> QED BY <1>4, <1>5 DEF r

\* kTCBQRem takes out one task and leaves the others where they are.
LEMMA RemProperties ==
  ASSUME NEW S, NEW q \in Seq(S), NEW t
  PROVE  /\ kTCBQRem(q, t) \in Seq(S)
         /\ ToSet(kTCBQRem(q, t)) \subseteq ToSet(q)
         /\ ToSet(q) \ {t} \subseteq ToSet(kTCBQRem(q, t))
         /\ NoDuplicates(q) => /\ NoDuplicates(kTCBQRem(q, t))
                               /\ t \notin ToSet(kTCBQRem(q, t))
<1>1. /\ Len(q) \in Nat /\ DOMAIN q = 1 .. Len(q)
  BY LenProperties
<1>2. CASE t \notin ToSet(q)
  BY <1>2 DEF kTCBQRem
<1>3. CASE t \in ToSet(q)
  <2> DEFINE i == CHOOSE i \in DOMAIN q : q[i] = t
             r == RemoveAt(q, i)
  <2>1. i \in 1 .. Len(q) /\ q[i] = t
    BY <1>1, <1>3 DEF ToSet
  <2>2. kTCBQRem(q, t) = r
    BY <1>3 DEF kTCBQRem
  <2> HIDE DEF i
  <2>3. /\ r \in Seq(S) /\ Len(r) = Len(q) - 1
        /\ \A j \in 1 .. Len(q) - 1 : r[j] = IF j < i THEN q[j] ELSE q[j + 1]
    BY <2>1, RemoveAtProperties
  <2> HIDE DEF r
  <2>4. DOMAIN r = 1 .. Len(q) - 1
    BY <2>3, LenProperties
  <2>5. ToSet(r) \subseteq ToSet(q)
    BY <1>1, <2>1, <2>3, <2>4 DEF ToSet
  <2>6. ASSUME NEW j \in 1 .. Len(q), q[j] # t
        PROVE  \E k \in 1 .. Len(q) - 1 : r[k] = q[j]
    <3>1. CASE j < i
      BY <3>1, <1>1, <2>1, <2>3
    <3>2. CASE j > i
      <4>1. j - 1 \in 1 .. Len(q) - 1 /\ ~(j - 1 < i) /\ (j - 1) + 1 = j
        BY <3>2, <1>1, <2>1
      <4> QED BY <4>1, <2>3
    <3>3. j < i \/ j > i
      BY <2>1, <2>6, <1>1
    <3> QED BY <3>1, <3>2, <3>3
  <2>7. ToSet(q) \ {t} \subseteq ToSet(r)
    BY <2>6, <1>1, <2>4 DEF ToSet
  <2>8. ASSUME NoDuplicates(q) PROVE NoDuplicates(r) /\ t \notin ToSet(r)
    <3>1. \A m, n \in 1 .. Len(q) : q[m] = q[n] => m = n
      BY <2>8, <1>1 DEF NoDuplicates
    <3>2. \A m, n \in 1 .. Len(q) - 1 : r[m] = r[n] => m = n
      BY <3>1, <1>1, <2>1, <2>3
    <3>3. \A m \in 1 .. Len(q) - 1 : r[m] # t
      BY <3>1, <1>1, <2>1, <2>3
    <3> QED BY <3>2, <3>3, <2>4 DEF NoDuplicates, ToSet
  <2> QED BY <2>2, <2>3, <2>5, <2>7, <2>8
<1> QED BY <1>2, <1>3

\* A task put between those that do not come after it and those that do not
\* come before it leaves a queue ordered.
LEMMA InsertKeepsOrder ==
  ASSUME NEW S, NEW q \in Seq(S), NEW t \in S, NEW n \in 1 .. Len(q) + 1,
         NEW f \in [S -> Nat], OrderedBy(q, f),
         \A j \in 1 .. Len(q) : j < n => f[q[j]] <= f[t],
         \A j \in 1 .. Len(q) : j >= n => f[t] <= f[q[j]]
  PROVE  OrderedBy(InsertAt(q, n, t), f)
<1> DEFINE r == InsertAt(q, n, t)
<1>1. /\ Len(q) \in Nat /\ DOMAIN q = 1 .. Len(q)
      /\ \A k \in 1 .. Len(q) : q[k] \in S /\ f[q[k]] \in Nat
  BY LenProperties, ElementOfSeq
<1>2. /\ r \in Seq(S) /\ Len(r) = Len(q) + 1
      /\ \A j \in 1 .. Len(q) + 1 :
           r[j] = IF j < n THEN q[j] ELSE IF j = n THEN t ELSE q[j - 1]
  <2>1. q \in Seq(S) /\ t \in S /\ n \in 1 .. Len(q) + 1
    OBVIOUS
  <2>2. InsertAt(q, n, t) \in Seq(S)
    BY ONLY <2>1, InsertAtProperties
  <2>3. Len(InsertAt(q, n, t)) = Len(q) + 1
    BY ONLY <2>1, InsertAtProperties
  <2>4. ASSUME NEW j \in 1 .. Len(q) + 1
        PROVE  InsertAt(q, n, t)[j] = IF j < n THEN q[j]
                                      ELSE IF j = n THEN t ELSE q[j - 1]
    BY ONLY <2>1, <2>4, InsertAtProperties
  <2> QED BY <2>2, <2>3, <2>4
<1> HIDE DEF r
<1>3. DOMAIN r = 1 .. Len(q) + 1
  BY <1>2, LenProperties
<1>4. \A i, j \in 1 .. Len(q) : i < j => f[q[i]] <= f[q[j]]
  BY <1>1 DEF OrderedBy
<1> SUFFICES ASSUME NEW i \in 1 .. Len(q) + 1, NEW j \in 1 .. Len(q) + 1, i < j
             PROVE  f[r[i]] <= f[r[j]]
  BY <1>3 DEF OrderedBy, r
<1>5. CASE j < n
  <2>1. i \in 1 .. Len(q) /\ j \in 1 .. Len(q) /\ i < n
    BY <1>1, <1>5
  <2> QED BY <2>1, <1>2, <1>4, <1>5
<1>6. CASE j = n
  <2>1. i \in 1 .. Len(q) /\ i < n
    BY <1>1, <1>6
  <2>2. r[i] = q[i] /\ r[j] = t
    BY <1>1, <1>2, <1>6
  <2>3. f[q[i]] <= f[t]
    BY <2>1
  <2> QED BY <2>2, <2>3
<1>7. CASE j > n /\ i < n
  <2>1. i \in 1 .. Len(q) /\ j - 1 \in 1 .. Len(q) /\ j - 1 >= n
    BY <1>1, <1>7
  <2>2. r[i] = q[i] /\ r[j] = q[j - 1]
    BY <1>1, <1>2, <1>7
  <2>3. f[q[i]] <= f[t] /\ f[t] <= f[q[j - 1]]
    BY <2>1, <1>7
  <2> QED BY <2>1, <2>2, <2>3, <1>1
<1>8. CASE j > n /\ i = n
  <2>1. j - 1 \in 1 .. Len(q) /\ j - 1 >= n
    BY <1>1, <1>8
  <2>2. r[i] = t /\ r[j] = q[j - 1]
    BY <1>1, <1>2, <1>8
  <2> QED BY <2>1, <2>2
<1>9. CASE j > n /\ i > n
  <2>1. j - 1 \in 1 .. Len(q) /\ i - 1 \in 1 .. Len(q) /\ i - 1 < j - 1
    BY <1>1, <1>9
  <2>2. r[i] = q[i - 1] /\ r[j] = q[j - 1]
    BY <1>1, <1>2, <1>9
  <2>3. f[q[i - 1]] <= f[q[j - 1]]
    BY <2>1, <1>4
  <2> QED BY <2>2, <2>3
<1>10. \/ j < n
       \/ j = n
       \/ (j > n /\ i < n)
       \/ (j > n /\ i = n)
       \/ (j > n /\ i > n)
  BY <1>1
<1> QED BY <1>5, <1>6, <1>7, <1>8, <1>9, <1>10

\* kTCBQEnqByPrio puts the task after every task at least as urgent.
LEMMA InsertPosProperties ==
  ASSUME NEW S, NEW q \in Seq(S), NEW pr \in [S -> Nat], NEW p \in Nat
  PROVE  /\ InsertPos(q, p, pr) \in 1 .. Len(q) + 1
         /\ \A j \in 1 .. Len(q) : j < InsertPos(q, p, pr) => pr[q[j]] <= p
         /\ InsertPos(q, p, pr) <= Len(q) => pr[q[InsertPos(q, p, pr)]] > p
<1> DEFINE later == {i \in DOMAIN q : pr[q[i]] > p}
<1>1. /\ Len(q) \in Nat /\ DOMAIN q = 1 .. Len(q)
      /\ \A k \in 1 .. Len(q) : q[k] \in S /\ pr[q[k]] \in Nat
  BY LenProperties, ElementOfSeq
<1>2. CASE later = {}
  BY <1>1, <1>2 DEF InsertPos
<1>3. CASE later # {}
  <2> DEFINE n == CHOOSE i \in later : \A j \in later : i <= j
  <2>1. later \in SUBSET Nat
    BY <1>1
  <2>2. \E i \in later : \A j \in later : i <= j
    <3> HIDE DEF later
    <3> QED BY <1>3, <2>1, LeastExists
  <2>3. n \in later /\ \A j \in later : n <= j
    <3> HIDE DEF later
    <3> QED BY <2>2
  <2>4. InsertPos(q, p, pr) = n
    BY <1>3 DEF InsertPos
  <2> HIDE DEF n
  <2>5. n \in 1 .. Len(q) /\ pr[q[n]] > p
    BY <2>3, <1>1
  <2>6. \A j \in 1 .. Len(q) : j < n => pr[q[j]] <= p
    BY <2>3, <1>1
  <2> QED BY <2>4, <2>5, <2>6, <1>1
<1> QED BY <1>2, <1>3

\* Entering by priority keeps a queue ordered.
LEMMA EnqByPrioProperties ==
  ASSUME NEW S, NEW q \in Seq(S), NEW pr \in [S -> Nat], NEW t \in S
  PROVE  /\ kTCBQEnqByPrio(q, t, pr) \in Seq(S)
         /\ ToSet(kTCBQEnqByPrio(q, t, pr)) = ToSet(q) \cup {t}
         /\ NoDuplicates(q) /\ t \notin ToSet(q)
              => NoDuplicates(kTCBQEnqByPrio(q, t, pr))
         /\ OrderedBy(q, pr) => OrderedBy(kTCBQEnqByPrio(q, t, pr), pr)
<1> DEFINE n == InsertPos(q, pr[t], pr)
           r == kTCBQEnqByPrio(q, t, pr)
<1>1. /\ Len(q) \in Nat /\ DOMAIN q = 1 .. Len(q)
      /\ \A k \in 1 .. Len(q) : q[k] \in S /\ pr[q[k]] \in Nat
  BY LenProperties, ElementOfSeq
<1>2. /\ n \in 1 .. Len(q) + 1
      /\ \A j \in 1 .. Len(q) : j < n => pr[q[j]] <= pr[t]
      /\ n <= Len(q) => pr[q[n]] > pr[t]
  BY InsertPosProperties
<1>3. r = InsertAt(q, n, t)
  BY DEF kTCBQEnqByPrio
<1> HIDE DEF n, r
<1>4. /\ r \in Seq(S) /\ Len(r) = Len(q) + 1
      /\ \A j \in 1 .. Len(q) + 1 :
           r[j] = IF j < n THEN q[j] ELSE IF j = n THEN t ELSE q[j - 1]
      /\ ToSet(r) = ToSet(q) \cup {t}
      /\ NoDuplicates(q) /\ t \notin ToSet(q) => NoDuplicates(r)
  <2>1. n \in 1 .. Len(q) + 1
    BY <1>2
  <2>2. /\ r \in Seq(S) /\ Len(r) = Len(q) + 1
        /\ \A j \in 1 .. Len(q) + 1 :
             r[j] = IF j < n THEN q[j] ELSE IF j = n THEN t ELSE q[j - 1]
    <3> DEFINE ins == InsertAt(q, n, t)
    <3>1. /\ ins \in Seq(S) /\ Len(ins) = Len(q) + 1
          /\ \A j \in 1 .. Len(q) + 1 :
               ins[j] = IF j < n THEN q[j] ELSE IF j = n THEN t ELSE q[j - 1]
      BY <2>1, InsertAtProperties
    <3>2. r = ins
      BY <1>3
    <3> HIDE DEF ins
    <3> QED BY <3>1, <3>2
  <2>3. /\ ToSet(r) = ToSet(q) \cup {t}
        /\ NoDuplicates(q) /\ t \notin ToSet(q) => NoDuplicates(r)
    BY <2>1, <1>3, InsertAtSet
  <2> QED BY <2>2, <2>3
<1>5. DOMAIN r = 1 .. Len(q) + 1
  BY <1>4, LenProperties
<1>6. ASSUME OrderedBy(q, pr) PROVE OrderedBy(r, pr)
  <2>1. \A i, j \in 1 .. Len(q) : i < j => pr[q[i]] <= pr[q[j]]
    BY <1>6, <1>1 DEF OrderedBy
  <2>2. \A j \in 1 .. Len(q) : j >= n => pr[t] <= pr[q[j]]
    BY <2>1, <1>1, <1>2
  <2> QED BY <1>2, <1>3, <1>6, <2>2, InsertKeepsOrder
<1> QED BY <1>4, <1>6 DEF r

\* kTCBQDeq: the head leaves, the others stay in their order.
LEMMA TailFacts ==
  ASSUME NEW S, NEW q \in Seq(S), q # <<>>
  PROVE  /\ Head(q) \in S /\ Tail(q) \in Seq(S)
         /\ ToSet(q) = {Head(q)} \cup ToSet(Tail(q))
         /\ NoDuplicates(q) => /\ NoDuplicates(Tail(q))
                               /\ Head(q) \notin ToSet(Tail(q))
         /\ \A f : OrderedBy(q, f) => OrderedBy(Tail(q), f)
<1>1. /\ Len(q) \in Nat /\ Len(q) > 0 /\ DOMAIN q = 1 .. Len(q)
      /\ Head(q) = q[1]
  BY LenProperties, EmptySeq
<1>2. /\ Head(q) \in S /\ Tail(q) \in Seq(S) /\ Len(Tail(q)) = Len(q) - 1
      /\ \A i \in 1 .. Len(Tail(q)) : Tail(q)[i] = q[i + 1]
  BY HeadTailProperties
<1> DEFINE r == Tail(q)
<1> HIDE DEF r
<1>3. /\ DOMAIN r = 1 .. Len(q) - 1
      /\ \A i \in 1 .. Len(q) - 1 : r[i] = q[i + 1] /\ i + 1 \in 1 .. Len(q)
  BY <1>1, <1>2, LenProperties DEF r
<1>4. \A i \in 1 .. Len(q) : i = 1 \/ (i - 1 \in 1 .. Len(q) - 1 /\ r[i - 1] = q[i])
  <2> TAKE i \in 1 .. Len(q)
  <2>1. i = 1 \/ (i - 1 \in 1 .. Len(q) - 1 /\ (i - 1) + 1 = i)
    BY <1>1
  <2> QED BY <2>1, <1>3
<1>5. ToSet(q) = {Head(q)} \cup ToSet(r)
  <2>1. ToSet(q) \subseteq {Head(q)} \cup ToSet(r)
    <3>1. \A j \in 1 .. Len(q) - 1 : r[j] \in ToSet(r)
      BY <1>3 DEF ToSet
    <3>2. \A i \in 1 .. Len(q) : q[i] = Head(q) \/ q[i] \in ToSet(r)
      BY <3>1, <1>1, <1>4
    <3> QED BY <3>2, <1>1 DEF ToSet
  <2>2. ToSet(r) \subseteq ToSet(q)
    BY <1>1, <1>3 DEF ToSet
  <2>3. Head(q) \in ToSet(q)
    BY <1>1 DEF ToSet
  <2> QED BY <2>1, <2>2, <2>3
<1>6. ASSUME NoDuplicates(q) PROVE NoDuplicates(r) /\ Head(q) \notin ToSet(r)
  <2>1. \A m, n \in 1 .. Len(q) : q[m] = q[n] => m = n
    BY <1>6, <1>1 DEF NoDuplicates
  <2>2. \A m, n \in 1 .. Len(q) - 1 : r[m] = r[n] => m = n
    BY <2>1, <1>1, <1>3
  <2>3. \A m \in 1 .. Len(q) - 1 : r[m] # q[1]
    BY <2>1, <1>1, <1>3
  <2> QED BY <2>2, <2>3, <1>1, <1>3 DEF NoDuplicates, ToSet
<1>7. ASSUME NEW f, OrderedBy(q, f) PROVE OrderedBy(r, f)
  <2>1. \A i, j \in 1 .. Len(q) : i < j => f[q[i]] <= f[q[j]]
    BY <1>7, <1>1 DEF OrderedBy
  <2> SUFFICES ASSUME NEW i \in 1 .. Len(q) - 1, NEW j \in 1 .. Len(q) - 1, i < j
               PROVE  f[r[i]] <= f[r[j]]
    BY <1>3 DEF OrderedBy
  <2>2. i + 1 < j + 1
    BY <1>1
  <2>3. r[i] = q[i + 1] /\ r[j] = q[j + 1]
    BY <1>3
  <2>4. f[q[i + 1]] <= f[q[j + 1]]
    BY <2>1, <2>2, <1>3
  <2> QED BY <2>3, <2>4
<1> QED BY <1>2, <1>5, <1>6, <1>7 DEF r

\* Unlinking a task leaves the others in their order.
LEMMA RemKeepsOrder ==
  ASSUME NEW S, NEW q \in Seq(S), NEW t, NEW f, OrderedBy(q, f)
  PROVE  OrderedBy(kTCBQRem(q, t), f)
<1>1. Len(q) \in Nat /\ DOMAIN q = 1 .. Len(q)
  BY LenProperties
<1>2. CASE t \notin ToSet(q)
  BY <1>2 DEF kTCBQRem
<1>3. CASE t \in ToSet(q)
  <2> DEFINE i == CHOOSE i \in DOMAIN q : q[i] = t
             r == RemoveAt(q, i)
  <2>1. i \in 1 .. Len(q)
    BY <1>1, <1>3 DEF ToSet
  <2>2. kTCBQRem(q, t) = r
    BY <1>3 DEF kTCBQRem
  <2> HIDE DEF i
  <2>3. /\ r \in Seq(S) /\ Len(r) = Len(q) - 1
        /\ \A j \in 1 .. Len(q) - 1 : r[j] = IF j < i THEN q[j] ELSE q[j + 1]
    BY <2>1, RemoveAtProperties
  <2> HIDE DEF r
  <2>4. DOMAIN r = 1 .. Len(q) - 1
    BY <2>3, LenProperties
  <2> DEFINE at(j) == IF j < i THEN j ELSE j + 1
  <2>5. \A j \in 1 .. Len(q) - 1 : at(j) \in 1 .. Len(q) /\ r[j] = q[at(j)]
    BY <1>1, <2>1, <2>3
  <2>6. \A j, k \in 1 .. Len(q) - 1 : j < k => at(j) < at(k)
    BY <1>1, <2>1
  <2> HIDE DEF at
  <2>7. \A j, k \in 1 .. Len(q) : j < k => f[q[j]] <= f[q[k]]
    BY <1>1 DEF OrderedBy
  <2>8. \A j, k \in 1 .. Len(q) - 1 : j < k => f[r[j]] <= f[r[k]]
    BY <2>5, <2>6, <2>7
  <2> QED BY <2>2, <2>4, <2>8 DEF OrderedBy
<1> QED BY <1>2, <1>3

\* Only the keys of the tasks on a queue decide whether it is ordered.
LEMMA OrderedByAgree ==
  ASSUME NEW S, NEW q \in Seq(S), NEW f, NEW g,
         \A t \in ToSet(q) : f[t] = g[t],
         OrderedBy(q, f)
  PROVE  OrderedBy(q, g)
BY DEF OrderedBy, ToSet

\* The tasks of two joined sequences.
LEMMA ConcatSet ==
  ASSUME NEW S, NEW a \in Seq(S), NEW b \in Seq(S)
  PROVE  ToSet(a \o b) = ToSet(a) \cup ToSet(b)
<1> DEFINE c == a \o b
<1>1. /\ c \in Seq(S) /\ Len(c) = Len(a) + Len(b)
      /\ \A i \in 1 .. Len(a) + Len(b) :
           c[i] = IF i <= Len(a) THEN a[i] ELSE b[i - Len(a)]
  BY ConcatProperties
<1> HIDE DEF c
<1>2. /\ Len(a) \in Nat /\ Len(b) \in Nat
      /\ DOMAIN a = 1 .. Len(a) /\ DOMAIN b = 1 .. Len(b)
      /\ DOMAIN c = 1 .. Len(a) + Len(b)
  BY <1>1, LenProperties
<1>3. ToSet(c) \subseteq ToSet(a) \cup ToSet(b)
  <2> SUFFICES ASSUME NEW i \in 1 .. Len(a) + Len(b)
               PROVE  c[i] \in ToSet(a) \cup ToSet(b)
    BY <1>2 DEF ToSet
  <2>1. CASE i <= Len(a)
    BY <2>1, <1>1, <1>2 DEF ToSet
  <2>2. CASE ~(i <= Len(a))
    <3>1. i - Len(a) \in 1 .. Len(b)
      BY <2>2, <1>2
    <3> QED BY <3>1, <2>2, <1>1, <1>2 DEF ToSet
  <2> QED BY <2>1, <2>2
<1>4. ToSet(a) \subseteq ToSet(c)
  <2> SUFFICES ASSUME NEW i \in 1 .. Len(a) PROVE a[i] \in ToSet(c)
    BY <1>2 DEF ToSet
  <2>1. i \in 1 .. Len(a) + Len(b) /\ c[i] = a[i]
    BY <1>1, <1>2
  <2> QED BY <2>1, <1>2 DEF ToSet
<1>5. ToSet(b) \subseteq ToSet(c)
  <2> SUFFICES ASSUME NEW i \in 1 .. Len(b) PROVE b[i] \in ToSet(c)
    BY <1>2 DEF ToSet
  <2>1. i + Len(a) \in 1 .. Len(a) + Len(b) /\ ~(i + Len(a) <= Len(a))
        /\ (i + Len(a)) - Len(a) = i
    BY <1>2
  <2>2. c[i + Len(a)] = b[i]
    BY <2>1, <1>1
  <2> QED BY <2>1, <2>2, <1>2 DEF ToSet
<1> QED BY <1>3, <1>4, <1>5 DEF c

\* A queue is empty exactly when no task is on it.
LEMMA EmptySet ==
  ASSUME NEW S, NEW q \in Seq(S)
  PROVE  q = <<>> <=> ToSet(q) = {}
<1>1. Len(q) \in Nat /\ DOMAIN q = 1 .. Len(q)
  BY LenProperties
<1>2. ASSUME q # <<>> PROVE ToSet(q) # {}
  BY <1>2, TailFacts
<1>3. ASSUME q = <<>> PROVE ToSet(q) = {}
  BY <1>3 DEF ToSet
<1> QED BY <1>2, <1>3

\* Sequences written out.
LEMMA SmallSequences ==
  ASSUME NEW S
  PROVE  /\ <<>> \in Seq(S) /\ ToSet(<<>>) = {}
         /\ \A a \in S : <<a>> \in Seq(S) /\ ToSet(<<a>>) = {a}
         /\ \A a, b \in S : <<a, b>> \in Seq(S) /\ ToSet(<<a, b>>) = {a, b}
<1>1. <<>> \in Seq(S) /\ ToSet(<<>>) = {}
  BY DEF ToSet
<1>2. ASSUME NEW a \in S PROVE <<a>> \in Seq(S) /\ ToSet(<<a>>) = {a}
  BY DEF ToSet
<1>3. ASSUME NEW a \in S, NEW b \in S
      PROVE  <<a, b>> \in Seq(S) /\ ToSet(<<a, b>>) = {a, b}
  <2> DEFINE q == <<a, b>>
  <2>1. q \in Seq(S) /\ Len(q) = 2 /\ q[1] = a /\ q[2] = b
    OBVIOUS
  <2> HIDE DEF q
  <2>2. DOMAIN q = {1, 2}
    BY <2>1, LenProperties
  <2>3. ToSet(q) = {a, b}
    BY <2>1, <2>2 DEF ToSet
  <2> QED BY <2>1, <2>3 DEF q
<1> QED BY <1>1, <1>2, <1>3

\* A finite set of tasks can be queued, each task once.
LEMMA SetToSeqProperties ==
  ASSUME NEW S, IsFiniteSet(S)
  PROVE  /\ SetToSeq(S) \in Seq(S) /\ ToSet(SetToSeq(S)) = S
         /\ NoDuplicates(SetToSeq(S))
<1> DEFINE n == Cardinality(S)
           q == SetToSeq(S)
<1>1. n \in Nat /\ ExistsBijection(1 .. n, S)
  BY FS_CardinalityType
<1>2. PICK f \in [1 .. n -> S] : IsInjective(f)
  BY <1>1 DEF ExistsBijection, Bijection, Injection
<1>3. q \in [1 .. n -> S] /\ IsInjective(q)
  BY <1>2 DEF SetToSeq
<1> HIDE DEF q
<1>4. q \in Injection(1 .. n, S)
  BY <1>3 DEF Injection
<1>5. IsFiniteSet(1 .. n) /\ Cardinality(1 .. n) = n
  BY <1>1, FS_Interval
<1>6. q \in Surjection(1 .. n, S)
  BY <1>4, <1>5, FS_Injection
<1>7. ToSet(q) = S
  BY <1>3, <1>6 DEF Surjection, ToSet
<1>8. q \in Seq(S)
  BY <1>1, <1>3, SeqDef
<1>9. NoDuplicates(q)
  BY <1>3 DEF IsInjective, NoDuplicates
<1> QED BY <1>7, <1>8, <1>9 DEF q

\* A task put at the tail.
LEMMA AppendSet ==
  ASSUME NEW S, NEW q \in Seq(S), NEW t \in S
  PROVE  /\ Append(q, t) \in Seq(S) /\ ToSet(Append(q, t)) = ToSet(q) \cup {t}
         /\ NoDuplicates(q) /\ t \notin ToSet(q) => NoDuplicates(Append(q, t))
<1>1. Len(q) \in Nat /\ DOMAIN q = 1 .. Len(q)
  BY LenProperties
<1> DEFINE a == Append(q, t)
<1>2. /\ a \in Seq(S) /\ DOMAIN a = 1 .. Len(q) + 1
      /\ \A i \in 1 .. Len(q) : a[i] = q[i]
      /\ a[Len(q) + 1] = t
  BY <1>1, AppendProperties, LenProperties
<1> HIDE DEF a
<1>3. ToSet(a) = ToSet(q) \cup {t}
  <2>1. ToSet(a) \subseteq ToSet(q) \cup {t}
    BY <1>1, <1>2 DEF ToSet
  <2>2. t \in ToSet(a) /\ ToSet(q) \subseteq ToSet(a)
    BY <1>1, <1>2 DEF ToSet
  <2> QED BY <2>1, <2>2
<1>4. NoDuplicates(q) /\ t \notin ToSet(q) => NoDuplicates(a)
  BY <1>1, <1>2 DEF ToSet, NoDuplicates
<1> QED BY <1>2, <1>3, <1>4 DEF a

\* What Among leaves: a queue of those tasks of q that are in S.
LEMMA AmongProperties ==
  ASSUME NEW T, NEW q \in Seq(T), NEW S
  PROVE  /\ Among(q, S) \in Seq(T)
         /\ ToSet(Among(q, S)) = ToSet(q) \cap S
         /\ NoDuplicates(q) => NoDuplicates(Among(q, S))
<1> DEFINE n == Len(q)
           Step(g, i) == IF i = 0 THEN <<>>
                         ELSE IF q[i] \in S THEN Append(g[i - 1], q[i]) ELSE g[i - 1]
           Solves(g, k) == g = [i \in 0 .. k |-> Step(g, i)]
<1>1. n \in Nat /\ DOMAIN q = 1 .. n /\ \A i \in 1 .. n : q[i] \in T
  BY LenProperties, ElementOfSeq
<1>2. \E g : Solves(g, n)
  <2> DEFINE X == {k \in 0 .. n : ~ \E g : Solves(g, k)}
  <2>1. CASE X # {}
    <3>1. X \in SUBSET Nat
      BY <1>1
    <3>2. PICK k \in X : \A y \in X : k <= y
      <4> HIDE DEF X
      <4> QED BY <2>1, <3>1, LeastExists
    <3>3. k # 0
      <4>1. Solves([i \in 0 .. 0 |-> <<>>], 0)
        BY DEF Step
      <4> QED BY <4>1, <3>2
    <3>4. k \in Nat /\ k - 1 \in 0 .. n /\ k - 1 \notin X
      <4>1. k \in 1 .. n
        BY <1>1, <3>2, <3>3
      <4> HIDE DEF X
      <4> QED BY <1>1, <3>2, <4>1
    <3>5. PICK g : Solves(g, k - 1)
      BY <3>4
    <3> DEFINE h == [i \in 0 .. k |-> IF i < k THEN g[i] ELSE Step(g, k)]
    <3>6. \A i \in 0 .. k : h[i] = Step(h, i)
      <4> TAKE i \in 0 .. k
      <4>1. CASE i = 0
        <5>1. g[0] = <<>> /\ 0 < k
          BY <3>3, <3>4, <3>5
        <5> QED BY <4>1, <5>1, <3>4
      <4>2. CASE i # 0
        <5>1. i - 1 \in 0 .. k /\ i - 1 < k /\ h[i - 1] = g[i - 1]
          BY <4>2, <3>4
        <5>2. i < k => g[i] = Step(g, i)
          <6>1. i < k => i \in 0 .. k - 1
            BY <3>4
          <6> HIDE DEF Step
          <6> QED BY <3>5, <6>1
        <5> QED BY <4>2, <5>1, <5>2, <3>4
      <4> QED BY <4>1, <4>2
    <3>7. Solves(h, k)
      <4>1. h = [i \in 0 .. k |-> h[i]]
        OBVIOUS
      <4> HIDE DEF h, Step
      <4> QED BY <4>1, <3>6
    <3> QED BY <3>2, <3>7
  <2> QED BY <1>1, <2>1
<1> DEFINE f == CHOOSE g : Solves(g, n)
<1>3. Among(q, S) = f[n]
  BY DEF Among
<1>4. Solves(f, n)
  <2> HIDE DEF Solves
  <2> QED BY <1>2
<1> HIDE DEF f
<1>5. f[0] = <<>>
  BY <1>1, <1>4
<1>6. ASSUME NEW i \in 1 .. n
      PROVE  f[i] = IF q[i] \in S THEN Append(f[i - 1], q[i]) ELSE f[i - 1]
  <2>1. i \in 0 .. n /\ i # 0
    BY <1>1
  <2>2. f[i] = Step(f, i)
    <3> HIDE DEF Step
    <3> QED BY <1>4, <2>1
  <2> QED BY <2>1, <2>2
<1> DEFINE Upto(k) == {q[j] : j \in 1 .. k}
           Good(k) == /\ f[k] \in Seq(T) /\ ToSet(f[k]) = Upto(k) \cap S
                      /\ NoDuplicates(q) => NoDuplicates(f[k])
           X == {k \in 0 .. n : ~Good(k)}
<1>7. Good(n)
  <2>1. CASE X # {}
    <3>1. X \in SUBSET Nat
      BY <1>1
    <3>2. PICK k \in X : \A y \in X : k <= y
      <4> HIDE DEF X
      <4> QED BY <2>1, <3>1, LeastExists
    <3>3. k # 0
      <4>1. Good(0)
        BY <1>5, SmallSequences DEF NoDuplicates
      <4> QED BY <4>1, <3>2
    <3>4. k \in 1 .. n /\ k - 1 \in 0 .. n /\ k - 1 \notin X
      <4>1. k \in 1 .. n
        <5> HIDE DEF Good
        <5> QED BY <1>1, <3>2, <3>3
      <4> HIDE DEF X
      <4> QED BY <1>1, <3>2, <4>1
    <3>5. Good(k - 1)
      <4> HIDE DEF Good
      <4> QED BY <3>4
    <3>6. Upto(k) = Upto(k - 1) \cup {q[k]} /\ q[k] \in T
      BY <1>1, <3>4
    <3>7. NoDuplicates(q) => q[k] \notin Upto(k - 1)
      BY <1>1, <3>4 DEF NoDuplicates
    <3>8. CASE q[k] \in S
      <4>1. f[k] = Append(f[k - 1], q[k])
        BY <1>6, <3>4, <3>8
      <4>2. /\ f[k] \in Seq(T) /\ ToSet(f[k]) = ToSet(f[k - 1]) \cup {q[k]}
            /\ NoDuplicates(f[k - 1]) /\ q[k] \notin ToSet(f[k - 1]) => NoDuplicates(f[k])
        <5> HIDE DEF Upto
        <5> QED BY <4>1, <3>5, <3>6, AppendSet
      <4> HIDE DEF Upto
      <4>3. Good(k)
        BY <3>5, <3>6, <3>7, <3>8, <4>2
      <4> QED BY <4>3
    <3>9. CASE q[k] \notin S
      <4>1. f[k] = f[k - 1]
        BY <1>6, <3>4, <3>9
      <4> HIDE DEF Upto
      <4>2. Good(k)
        BY <3>5, <3>6, <3>9, <4>1
      <4> QED BY <4>2
    <3> QED BY <3>8, <3>9
  <2>2. n \in 0 .. n
    BY <1>1
  <2> HIDE DEF Good
  <2> QED BY <2>1, <2>2
<1>8. Upto(n) = ToSet(q)
  BY <1>1 DEF ToSet
<1> QED BY <1>3, <1>7, <1>8

\* The first tasks of a queue.
LEMMA PrefixProperties ==
  ASSUME NEW S, NEW q \in Seq(S), NEW k \in 0 .. Len(q)
  PROVE  /\ SubSeq(q, 1, k) \in Seq(S) /\ ToSet(SubSeq(q, 1, k)) \subseteq ToSet(q)
         /\ NoDuplicates(q) => NoDuplicates(SubSeq(q, 1, k))
<1> DEFINE p == SubSeq(q, 1, k)
<1>1. Len(q) \in Nat /\ DOMAIN q = 1 .. Len(q) /\ \A i \in 1 .. k : q[i] \in S
  BY LenProperties, ElementOfSeq
<1>2. /\ p \in Seq(S) /\ DOMAIN p = 1 .. k
      /\ \A i \in 1 .. k : p[i] = q[i]
  <2>1. /\ p \in Seq(S) /\ Len(p) = IF 1 <= k THEN k - 1 + 1 ELSE 0
        /\ \A i \in 1 .. k - 1 + 1 : p[i] = q[1 + i - 1]
    BY <1>1, SubSeqProperties, Z3
  <2> HIDE DEF p
  <2>2. Len(p) = k /\ DOMAIN p = 1 .. Len(p)
    BY <1>1, <2>1, LenProperties
  <2> QED BY <1>1, <2>1, <2>2
<1> HIDE DEF p
<1>3. ToSet(p) \subseteq ToSet(q)
  BY <1>1, <1>2 DEF ToSet
<1>4. NoDuplicates(q) => NoDuplicates(p)
  BY <1>1, <1>2 DEF NoDuplicates
<1> QED BY <1>2, <1>3, <1>4 DEF p

\* One task alone is there once.
LEMMA SingletonOnce == \A t : NoDuplicates(<<t>>)
BY DEF NoDuplicates

\* Two queues that share no task are joined without duplicates.
LEMMA ConcatOnce ==
  ASSUME NEW S, NEW a \in Seq(S), NEW b \in Seq(S), NoDuplicates(a), NoDuplicates(b),
         ToSet(a) \cap ToSet(b) = {}
  PROVE  NoDuplicates(a \o b)
<1> DEFINE c == a \o b
<1>1. /\ Len(a) \in Nat /\ Len(b) \in Nat
      /\ DOMAIN a = 1 .. Len(a) /\ DOMAIN b = 1 .. Len(b) /\ DOMAIN c = 1 .. Len(a) + Len(b)
      /\ \A i \in 1 .. Len(a) + Len(b) : c[i] = IF i <= Len(a) THEN a[i] ELSE b[i - Len(a)]
  BY ConcatProperties, LenProperties
<1> HIDE DEF c
<1>2. SUFFICES ASSUME NEW i \in 1 .. Len(a) + Len(b), NEW j \in 1 .. Len(a) + Len(b),
                      c[i] = c[j]
               PROVE  i = j
  BY <1>1 DEF NoDuplicates, c
<1>3. \A k \in 1 .. Len(a) + Len(b) :
        IF k <= Len(a) THEN k \in DOMAIN a /\ c[k] = a[k] /\ c[k] \in ToSet(a)
        ELSE k - Len(a) \in DOMAIN b /\ c[k] = b[k - Len(a)] /\ c[k] \in ToSet(b)
  <2> TAKE k \in 1 .. Len(a) + Len(b)
  <2>1. \A x \in DOMAIN a : a[x] \in ToSet(a)
    BY DEF ToSet
  <2>2. \A x \in DOMAIN b : b[x] \in ToSet(b)
    BY DEF ToSet
  <2>3. k <= Len(a) => k \in DOMAIN a
    BY <1>1
  <2>4. ~(k <= Len(a)) => k - Len(a) \in DOMAIN b
    BY <1>1
  <2> QED BY <1>1, <2>1, <2>2, <2>3, <2>4
<1>4. CASE i <= Len(a) /\ j <= Len(a)
  BY <1>2, <1>3, <1>4 DEF NoDuplicates
<1>5. CASE i > Len(a) /\ j > Len(a)
  <2>1. i - Len(a) = j - Len(a)
    BY <1>1, <1>2, <1>3, <1>5 DEF NoDuplicates
  <2> QED BY <1>1, <2>1
<1> QED BY <1>1, <1>2, <1>3, <1>4, <1>5

\* A queue without duplicates is as long as the set of its tasks is large.
LEMMA QueueCardinality ==
  ASSUME NEW S, NEW q \in Seq(S), NoDuplicates(q)
  PROVE  /\ IsFiniteSet(ToSet(q)) /\ Cardinality(ToSet(q)) = Len(q)
<1>1. Len(q) \in Nat /\ DOMAIN q = 1 .. Len(q) /\ q \in [1 .. Len(q) -> S]
  BY LenProperties
<1>2. q \in Bijection(1 .. Len(q), ToSet(q))
  <2>1. /\ q \in [1 .. Len(q) -> ToSet(q)]
        /\ \A x \in ToSet(q) : \E i \in 1 .. Len(q) : q[i] = x
    BY <1>1 DEF ToSet
  <2>2. IsInjective(q)
    BY DEF NoDuplicates, IsInjective
  <2> QED BY <2>1, <2>2 DEF Bijection, Injection, Surjection
<1>3. ExistsBijection(1 .. Len(q), ToSet(q))
  BY <1>2 DEF ExistsBijection
<1>4. IsFiniteSet(1 .. Len(q)) /\ Cardinality(1 .. Len(q)) = Len(q)
  BY <1>1, FS_Interval
<1> QED BY <1>3, <1>4, FS_Bijection

(***************************************************************************)
(* Priorities and the ready queues.                                        *)
(***************************************************************************)
\* Nominal priorities are priorities.
LEMMA NominalPrioType ==
  /\ Prio \subseteq Nat
  /\ NominalPrio[IdleTask] \in Prio
  /\ \A t \in Task : NominalPrio[t] \in Prio
BY KernelConstants DEF Prio

\* kCalcNextTaskPrio_ finds a non-empty queue when there is one.
LEMMA NextPrioProperties ==
  ASSUME NEW rq \in [Prio -> Seq(Task)]
  PROVE  /\ kCalcNextTaskPrio_(rq) \in Prio
         /\ \A p \in Prio : rq[p] # <<>> =>
              rq[kCalcNextTaskPrio_(rq)] # <<>> /\ kCalcNextTaskPrio_(rq) <= p
<1> DEFINE nonEmpty == {p \in Prio : rq[p] # <<>>}
<1>1. CASE nonEmpty = {}
  BY <1>1, NominalPrioType DEF kCalcNextTaskPrio_
<1>2. CASE nonEmpty # {}
  <2> DEFINE n == CHOOSE p \in nonEmpty : \A q \in nonEmpty : p <= q
  <2>1. nonEmpty \in SUBSET Nat
    BY NominalPrioType
  <2>2. \E p \in nonEmpty : \A q \in nonEmpty : p <= q
    <3> HIDE DEF nonEmpty
    <3> QED BY <1>2, <2>1, LeastExists
  <2>3. n \in nonEmpty /\ \A q \in nonEmpty : n <= q
    <3> HIDE DEF nonEmpty
    <3> QED BY <2>2
  <2>4. kCalcNextTaskPrio_(rq) = n
    BY <1>2 DEF kCalcNextTaskPrio_
  <2> HIDE DEF n
  <2> QED BY <2>3, <2>4
<1> QED BY <1>1, <1>2

\* Entering a ready queue at either end keeps the queues typed and every other
\* task where it was.
LEMMA ReadyEnqProperties ==
  ASSUME NEW rq \in [Prio -> Seq(Task)], NEW t \in Task, NEW p \in Prio
  PROVE  /\ kTCBQEnq(rq[p], t) \in Seq(Task)
         /\ kTCBQJam(rq[p], t) \in Seq(Task)
         /\ ToSet(kTCBQEnq(rq[p], t)) = ToSet(rq[p]) \cup {t}
         /\ ToSet(kTCBQJam(rq[p], t)) = ToSet(rq[p]) \cup {t}
<1>1. rq[p] \in Seq(Task) /\ Len(rq[p]) \in Nat /\ DOMAIN rq[p] = 1 .. Len(rq[p])
  BY LenProperties
<1> DEFINE q == rq[p]
           a == Append(q, t)
           j == <<t>> \o q
<1> HIDE DEF q
<1>2. /\ a \in Seq(Task) /\ DOMAIN a = 1 .. Len(q) + 1
      /\ \A i \in 1 .. Len(q) : a[i] = q[i]
      /\ a[Len(q) + 1] = t
  BY <1>1, AppendProperties, LenProperties DEF q
<1>3. /\ j \in Seq(Task) /\ DOMAIN j = 1 .. Len(q) + 1
      /\ j[1] = t
      /\ \A i \in 1 .. Len(q) : j[i + 1] = q[i]
  <2>1. <<t>> \in Seq(Task) /\ Len(<<t>>) = 1 /\ <<t>>[1] = t
    OBVIOUS
  <2>2. /\ j \in Seq(Task) /\ Len(j) = 1 + Len(q)
        /\ \A i \in 1 .. 1 + Len(q) : j[i] = IF i <= 1 THEN <<t>>[i] ELSE q[i - 1]
    BY <2>1, <1>1, ConcatProperties DEF q
  <2>3. DOMAIN j = 1 .. Len(q) + 1
    BY <2>2, <1>1, LenProperties DEF q
  <2> QED BY <2>1, <2>2, <2>3, <1>1 DEF q
<1> HIDE DEF a, j
<1>4. ToSet(a) = ToSet(q) \cup {t}
  <2>1. ToSet(a) \subseteq ToSet(q) \cup {t}
    BY <1>1, <1>2 DEF ToSet, q
  <2>2. t \in ToSet(a) /\ ToSet(q) \subseteq ToSet(a)
    BY <1>1, <1>2 DEF ToSet, q
  <2> QED BY <2>1, <2>2
<1>5. ToSet(j) = ToSet(q) \cup {t}
  <2>1. \A i \in 1 .. Len(q) + 1 : i = 1 \/ (i - 1 \in 1 .. Len(q) /\ (i - 1) + 1 = i)
    BY <1>1 DEF q
  <2>2. \A i \in 1 .. Len(q) : q[i] \in ToSet(q)
    BY <1>1 DEF ToSet, q
  <2>3. \A i \in 1 .. Len(q) + 1 : j[i] = t \/ j[i] = q[i - 1]
    BY <2>1, <1>3
  <2>4. \A i \in 1 .. Len(q) + 1 : j[i] \in ToSet(q) \cup {t}
    BY <2>1, <2>2, <2>3, <1>3
  <2>5. \A i \in 1 .. Len(q) : i + 1 \in 1 .. Len(q) + 1
    BY <1>1 DEF q
  <2>6. 1 \in 1 .. Len(q) + 1
    BY <1>1 DEF q
  <2>7. \A x \in ToSet(q) : \E i \in 1 .. Len(q) : x = j[i + 1]
    BY <1>1, <1>3 DEF ToSet, q
  <2>8. \A x \in ToSet(j) : \E i \in 1 .. Len(q) + 1 : x = j[i]
    BY <1>3 DEF ToSet
  <2>9. \A i \in 1 .. Len(q) + 1 : j[i] \in ToSet(j)
    BY <1>3 DEF ToSet
  <2> QED BY <2>4, <2>5, <2>6, <2>7, <2>8, <2>9, <1>3
<1> QED BY <1>2, <1>3, <1>4, <1>5 DEF a, j, q, kTCBQEnq, kTCBQJam

(***************************************************************************)
(* Dispatching a task.                                                     *)
(***************************************************************************)
\* A task at an end of a queue it was not on is on it once.
LEMMA EnterOnce ==
  ASSUME NEW S, NEW q \in Seq(S), NEW t \in S, NoDuplicates(q), t \notin ToSet(q)
  PROVE  NoDuplicates(kTCBQEnq(q, t)) /\ NoDuplicates(kTCBQJam(q, t))
<1>1. Len(q) \in Nat /\ DOMAIN q = 1 .. Len(q)
  BY LenProperties
<1>2. \A i \in 1 .. Len(q) : q[i] # t
  BY <1>1 DEF ToSet
<1>3. \A i, j \in 1 .. Len(q) : q[i] = q[j] => i = j
  BY <1>1 DEF NoDuplicates
<1>4. NoDuplicates(kTCBQEnq(q, t))
  <2> DEFINE a == Append(q, t)
  <2>1. /\ DOMAIN a = 1 .. Len(q) + 1
        /\ \A i \in 1 .. Len(q) : a[i] = q[i]
        /\ a[Len(q) + 1] = t
    BY <1>1, AppendProperties, LenProperties
  <2> HIDE DEF a
  <2>2. \A i \in 1 .. Len(q) + 1 : i \in 1 .. Len(q) \/ i = Len(q) + 1
    BY <1>1
  <2> QED BY <1>1, <1>2, <1>3, <2>1, <2>2 DEF NoDuplicates, kTCBQEnq, a
<1>5. NoDuplicates(kTCBQJam(q, t))
  <2> DEFINE j == <<t>> \o q
  <2>1. <<t>> \in Seq(S) /\ Len(<<t>>) = 1 /\ <<t>>[1] = t
    OBVIOUS
  <2>2. /\ DOMAIN j = 1 .. 1 + Len(q)
        /\ \A i \in 1 .. 1 + Len(q) : j[i] = IF i <= 1 THEN <<t>>[i] ELSE q[i - 1]
    BY <2>1, <1>1, ConcatProperties, LenProperties
  <2> HIDE DEF j
  <2>3. \A i \in 1 .. 1 + Len(q) : i = 1 \/ (i - 1 \in 1 .. Len(q) /\ ~(i <= 1))
    BY <1>1
  <2>4. j[1] = t /\ \A i \in 1 .. 1 + Len(q) : i # 1 => j[i] = q[i - 1]
    BY <1>1, <2>1, <2>2, <2>3
  <2> QED BY <1>1, <1>2, <1>3, <2>2, <2>3, <2>4 DEF NoDuplicates, kTCBQJam, j
<1> QED BY <1>4, <1>5

\* The ready queues hold the READY tasks, each once and where it belongs, and
\* the task in RK_gRunPtr runs unless it is about to be switched away from.
DispatchInv ==
  /\ run \in Task /\ status \in [Task -> Status] /\ prio \in [Task -> Prio]
  /\ readyQ \in [Prio -> Seq(Task)]
  /\ \A p \in Prio :
       /\ NoDuplicates(readyQ[p])
       /\ ToSet(readyQ[p]) = {t \in Task : status[t] = "READY" /\ prio[t] = p}
  /\ \A t \in Task : status[t] = "RUNNING" => t = run
  /\ status[IdleTask] \in {"READY", "RUNNING"}
  /\ ~pendSV => status[run] = "RUNNING"

\* Every task has a priority, and so a ready queue.
LEMMA DispatchPrio ==
  ASSUME DispatchInv
  PROVE  \A t \in Task : prio[t] \in Prio /\ prio[t] \in Nat
BY NominalPrioType DEF DispatchInv

\* A pended switch stays pended until it is taken.
PendKept == pendSV' = pendSV \/ pendSV' = TRUE

\* Whatever asks for a switch, or for none, keeps one that is pending.
LEMMA PendRequests ==
  ASSUME NEW p, NEW pr, NEW st,
         \/ kReschedTask(p, pr) \/ kPendCtxSwtch(st) \/ NoCtxSwtch
         \/ kPendCtxSwtchNow_ \/ kDeferCtxSwtch_
  PROVE  PendKept
BY DEF kReschedTask, kPendCtxSwtch, NoCtxSwtch, kPendCtxSwtchNow_, kDeferCtxSwtch_, PendKept

\* What touches neither the ready queues nor the running task keeps them right.
LEMMA DispatchFrame ==
  ASSUME DispatchInv, UNCHANGED <<run, status, prio, readyQ>>, PendKept
  PROVE  DispatchInv'
BY DEF DispatchInv, PendKept

\* A suspended task joins the queue of its priority, at either end.
LEMMA DispatchReady ==
  ASSUME DispatchInv, NEW t \in Task, status[t] \notin {"READY", "RUNNING"},
         \/ readyQ' = ReadyEnq(readyQ, t)
         \/ readyQ' = [readyQ EXCEPT ![prio[t]] = kTCBQEnq(@, t)],
         status' = [status EXCEPT ![t] = "READY"],
         UNCHANGED <<run, prio>>, PendKept
  PROVE  DispatchInv'
<1> DEFINE p == prio[t]
           q == readyQ[p]
<1>1. p \in Prio /\ q \in Seq(Task) /\ NoDuplicates(q) /\ t \notin ToSet(q)
  BY DispatchPrio DEF DispatchInv
<1>2. PICK r : readyQ' = [readyQ EXCEPT ![p] = r] /\ r \in {kTCBQEnq(q, t), kTCBQJam(q, t)}
  BY DEF ReadyEnq
<1>3. r \in Seq(Task) /\ NoDuplicates(r) /\ ToSet(r) = ToSet(q) \cup {t}
  <2>1. /\ kTCBQEnq(q, t) \in Seq(Task) /\ kTCBQJam(q, t) \in Seq(Task)
        /\ ToSet(kTCBQEnq(q, t)) = ToSet(q) \cup {t}
        /\ ToSet(kTCBQJam(q, t)) = ToSet(q) \cup {t}
    BY <1>1, ReadyEnqProperties DEF DispatchInv
  <2>2. NoDuplicates(kTCBQEnq(q, t))
    <3> HIDE DEF q
    <3> QED BY <1>1, AppendSet DEF kTCBQEnq
  <2>3. NoDuplicates(kTCBQJam(q, t))
    <3>1. <<t>> \in Seq(Task) /\ ToSet(<<t>>) = {t} /\ NoDuplicates(<<t>>)
      BY SmallSequences, SingletonOnce
    <3> HIDE DEF q
    <3> QED BY <1>1, <3>1, ConcatOnce DEF kTCBQJam
  <2> QED BY <1>2, <2>1, <2>2, <2>3
<1> HIDE DEF p, q
<1>4. readyQ' \in [Prio -> Seq(Task)] /\ status' \in [Task -> Status]
  BY <1>1, <1>2, <1>3 DEF DispatchInv, Status
<1>5. ASSUME NEW i \in Prio
      PROVE  /\ NoDuplicates(readyQ'[i])
             /\ ToSet(readyQ'[i]) = {u \in Task : status'[u] = "READY" /\ prio'[u] = i}
  <2>1. CASE i = p
    <3>1. readyQ'[i] = r
      BY <1>2, <2>1 DEF DispatchInv
    <3>2. ToSet(readyQ'[i]) = {u \in Task : status'[u] = "READY" /\ prio'[u] = i}
      BY <1>3, <2>1, <3>1 DEF DispatchInv, p, q
    <3> QED BY <1>3, <3>1, <3>2
  <2>2. CASE i # p
    <3>1. readyQ'[i] = readyQ[i]
      BY <1>2, <2>2 DEF DispatchInv
    <3> QED BY <2>2, <3>1 DEF DispatchInv, p
  <2> QED BY <2>1, <2>2
<1>6. /\ \A u \in Task : status'[u] = "RUNNING" => u = run'
      /\ status'[IdleTask] \in {"READY", "RUNNING"}
      /\ ~pendSV' => status'[run'] = "RUNNING"
  BY DEF DispatchInv, PendKept
<1> QED BY <1>4, <1>5, <1>6 DEF DispatchInv

\* The running task suspends itself and is about to be switched away from.
LEMMA DispatchSuspend ==
  ASSUME DispatchInv, run # IdleTask, status[run] = "RUNNING",
         NEW st \in Status \ {"READY", "RUNNING"},
         status' = [status EXCEPT ![run] = st], pendSV' = TRUE,
         UNCHANGED <<run, prio, readyQ>>
  PROVE  DispatchInv'
BY DEF DispatchInv

\* It yields.
LEMMA DispatchYield ==
  ASSUME DispatchInv, status[run] = "RUNNING",
         readyQ' = [readyQ EXCEPT ![prio[run]] = kTCBQEnq(@, run)],
         status' = [status EXCEPT ![run] = "READY"], pendSV' = TRUE,
         UNCHANGED <<run, prio>>
  PROVE  DispatchInv'
<1> DEFINE p == prio[run]
           q == readyQ[p]
           r == kTCBQEnq(q, run)
<1>1. p \in Prio /\ q \in Seq(Task) /\ NoDuplicates(q) /\ run \in Task /\ run \notin ToSet(q)
  BY DispatchPrio DEF DispatchInv
<1>2. r \in Seq(Task) /\ NoDuplicates(r) /\ ToSet(r) = ToSet(q) \cup {run}
  <2> HIDE DEF q
  <2> QED BY <1>1, AppendSet DEF kTCBQEnq
<1>3. readyQ' = [readyQ EXCEPT ![p] = r]
  OBVIOUS
<1> HIDE DEF p, q, r
<1>4. readyQ' \in [Prio -> Seq(Task)] /\ status' \in [Task -> Status]
  BY <1>1, <1>2, <1>3 DEF DispatchInv, Status
<1>5. ASSUME NEW i \in Prio
      PROVE  /\ NoDuplicates(readyQ'[i])
             /\ ToSet(readyQ'[i]) = {u \in Task : status'[u] = "READY" /\ prio'[u] = i}
  <2>1. CASE i = p
    <3>1. readyQ'[i] = r
      BY <1>3, <2>1 DEF DispatchInv
    <3>2. ToSet(readyQ'[i]) = {u \in Task : status'[u] = "READY" /\ prio'[u] = i}
      BY <1>1, <1>2, <2>1, <3>1 DEF DispatchInv, p, q
    <3> QED BY <1>2, <3>1, <3>2
  <2>2. CASE i # p
    <3>1. readyQ'[i] = readyQ[i]
      BY <1>3, <2>2 DEF DispatchInv
    <3> QED BY <2>2, <3>1 DEF DispatchInv, p
  <2> QED BY <2>1, <2>2
<1>6. /\ \A u \in Task : status'[u] = "RUNNING" => u = run'
      /\ status'[IdleTask] \in {"READY", "RUNNING"}
  BY DEF DispatchInv
<1> QED BY <1>1, <1>4, <1>5, <1>6 DEF DispatchInv

\* kSwtch always finds a task: the head of the most urgent queue runs, and the
\* one it preempts goes to the head of its own.
LEMMA DispatchSwitch ==
  ASSUME DispatchInv, kSwtch
  PROVE  /\ DispatchInv'
         /\ \A t \in Task : \/ status'[t] = status[t]
                            \/ /\ status[t] \in {"READY", "RUNNING"}
                               /\ status'[t] \in {"READY", "RUNNING"}
<1> DEFINE preempted == status[run] = "RUNNING"
           r == kTCBQJam(readyQ[prio[run]], run)
           rq == IF preempted THEN [readyQ EXCEPT ![prio[run]] = r] ELSE readyQ
           st == IF preempted THEN [status EXCEPT ![run] = "READY"] ELSE status
           p == kCalcNextTaskPrio_(rq)
           next == Head(rq[p])
<1>0. /\ run \in Task /\ status \in [Task -> Status] /\ readyQ \in [Prio -> Seq(Task)]
      /\ prio[run] \in Prio
  BY DispatchPrio DEF DispatchInv
<1>1. /\ rq \in [Prio -> Seq(Task)] /\ st \in [Task -> Status]
      /\ \A i \in Prio : /\ NoDuplicates(rq[i])
                         /\ ToSet(rq[i]) = {u \in Task : st[u] = "READY" /\ prio[u] = i}
      /\ \A u \in Task : st[u] # "RUNNING"
  <2>1. CASE preempted
    <3> DEFINE q == readyQ[prio[run]]
    <3>1. q \in Seq(Task) /\ NoDuplicates(q) /\ run \notin ToSet(q)
      BY <1>0, <2>1 DEF DispatchInv
    <3>2. r \in Seq(Task) /\ ToSet(r) = ToSet(q) \cup {run} /\ NoDuplicates(r)
      <4>1. <<run>> \in Seq(Task) /\ ToSet(<<run>>) = {run} /\ NoDuplicates(<<run>>)
        BY <1>0, SmallSequences, SingletonOnce
      <4>2. r \in Seq(Task) /\ ToSet(r) = ToSet(q) \cup {run}
        BY <1>0, ReadyEnqProperties
      <4>3. r = <<run>> \o q
        BY DEF kTCBQJam
      <4> HIDE DEF q, r
      <4> QED BY <3>1, <4>1, <4>2, <4>3, ConcatOnce
    <3> HIDE DEF q, r
    <3>3. /\ rq = [readyQ EXCEPT ![prio[run]] = r]
          /\ st = [status EXCEPT ![run] = "READY"]
      BY <2>1
    <3> HIDE DEF rq, st
    <3>4. rq \in [Prio -> Seq(Task)] /\ st \in [Task -> Status]
      BY <1>0, <3>2, <3>3 DEF Status
    <3>5. \A u \in Task : st[u] # "RUNNING"
      BY <1>0, <3>3 DEF DispatchInv
    <3>6. ASSUME NEW i \in Prio
          PROVE  /\ NoDuplicates(rq[i])
                 /\ ToSet(rq[i]) = {u \in Task : st[u] = "READY" /\ prio[u] = i}
      <4>1. CASE i = prio[run]
        <5>1. rq[i] = r
          BY <1>0, <3>3, <4>1
        <5>2. ToSet(r) = {u \in Task : st[u] = "READY" /\ prio[u] = i}
          BY <1>0, <2>1, <3>2, <3>3, <4>1 DEF DispatchInv, q
        <5> QED BY <3>2, <5>1, <5>2
      <4>2. CASE i # prio[run]
        <5>1. rq[i] = readyQ[i]
          BY <1>0, <3>3, <4>2
        <5> QED BY <1>0, <3>3, <4>2, <5>1 DEF DispatchInv
      <4> QED BY <4>1, <4>2
    <3> QED BY <3>4, <3>5, <3>6
  <2>2. CASE ~preempted
    <3>1. rq = readyQ /\ st = status
      BY <2>2
    <3>2. \A u \in Task : status[u] # "RUNNING"
      BY <2>2 DEF DispatchInv
    <3> HIDE DEF rq, st
    <3> QED BY <3>1, <3>2 DEF DispatchInv
  <2> QED BY <2>1, <2>2
<1> HIDE DEF rq
<1>2. p \in Prio /\ rq[p] # <<>>
  <2>1. st[IdleTask] = "READY" /\ IdleTask \in Task
    BY <1>0, <1>1, KernelConstants DEF DispatchInv
  <2>2. prio[IdleTask] \in Prio
    BY <2>1, DispatchPrio
  <2>3. IdleTask \in ToSet(rq[prio[IdleTask]])
    BY <1>1, <2>1, <2>2
  <2>4. rq[prio[IdleTask]] # <<>>
    BY <2>3, SmallSequences
  <2> HIDE DEF st
  <2> QED BY <1>1, <2>2, <2>4, NextPrioProperties
<1>3. /\ next \in Task /\ Tail(rq[p]) \in Seq(Task) /\ NoDuplicates(Tail(rq[p]))
      /\ ToSet(rq[p]) = {next} \cup ToSet(Tail(rq[p])) /\ next \notin ToSet(Tail(rq[p]))
  <2> HIDE DEF st, p
  <2> QED BY <1>1, <1>2, TailFacts
<1>4. st[next] = "READY" /\ prio[next] = p
  <2> HIDE DEF st, p, next
  <2> QED BY <1>1, <1>2, <1>3
<1>5. /\ readyQ' = [rq EXCEPT ![p] = Tail(@)] /\ run' = next /\ prio' = prio
      /\ status' = [st EXCEPT ![next] = "RUNNING"]
  <2>1. status' = [status EXCEPT ![run] = IF preempted THEN "READY" ELSE @,
                                 ![next] = "RUNNING"]
    BY DEF kSwtch, rq
  <2>2. status' = [st EXCEPT ![next] = "RUNNING"]
    <3> HIDE DEF next
    <3>1. [status EXCEPT ![run] = IF preempted THEN "READY" ELSE @] = st
      BY <1>0
    <3> QED BY <2>1, <3>1
  <2> QED BY <2>2 DEF kSwtch, rq
<1>6. \A t \in Task : \/ st[t] = status[t]
                      \/ status[t] = "RUNNING" /\ st[t] = "READY"
  BY <1>0
<1> HIDE DEF st, p, next
<1>7. \A t \in Task : status'[t] = IF t = next THEN "RUNNING" ELSE st[t]
  BY <1>1, <1>3, <1>5
<1>8. readyQ' \in [Prio -> Seq(Task)] /\ status' \in [Task -> Status]
  BY <1>1, <1>2, <1>3, <1>5 DEF Status
<1>9. ASSUME NEW i \in Prio
      PROVE  /\ NoDuplicates(readyQ'[i])
             /\ ToSet(readyQ'[i]) = {u \in Task : status'[u] = "READY" /\ prio'[u] = i}
  <2>1. CASE i = p
    <3>1. readyQ'[i] = Tail(rq[p])
      BY <1>1, <1>5, <2>1
    <3>2. ToSet(Tail(rq[p])) = {u \in Task : status'[u] = "READY" /\ prio[u] = p}
      BY <1>1, <1>2, <1>3, <1>7
    <3> QED BY <1>3, <1>5, <2>1, <3>1, <3>2
  <2>2. CASE i # p
    <3>1. readyQ'[i] = rq[i]
      BY <1>1, <1>5, <2>2
    <3>2. {u \in Task : status'[u] = "READY" /\ prio[u] = i}
            = {u \in Task : st[u] = "READY" /\ prio[u] = i}
      BY <1>4, <1>7, <2>2
    <3> QED BY <1>1, <1>5, <3>1, <3>2
  <2> QED BY <2>1, <2>2
<1>10. /\ run' \in Task /\ \A t \in Task : status'[t] = "RUNNING" => t = run'
       /\ status'[run'] = "RUNNING" /\ status'[IdleTask] \in {"READY", "RUNNING"}
  BY <1>1, <1>3, <1>5, <1>6, <1>7, KernelConstants DEF DispatchInv
<1> QED BY <1>4, <1>5, <1>6, <1>7, <1>8, <1>9, <1>10 DEF DispatchInv

(***************************************************************************)
(* What a critical region still does.                                      *)
(***************************************************************************)
\* The calls that make a task ready.
WakeOps == {"ready", "timeoutReady", "signalReady"}

\* Of the calls still to be made only the walks come several at a time: a task
\* is made ready last, or by the tick handler before its next look at the list.
OneWake(calls) ==
  \A i, j \in DOMAIN calls :
    i < j /\ calls[i].op # "updatePrio"
      => calls[i].op = "timeoutReady" /\ calls[j].op = "handleTimeouts"

\* When the call at the head has been made, and was not a walk, only the tick
\* handler's next look may be left, and only after an expiry.
LEMMA OneWakeTail ==
  ASSUME NEW q \in Seq(KernelCall), q # <<>>, OneWake(q)
  PROVE  /\ OneWake(Tail(q))
         /\ Head(q).op # "updatePrio" =>
              \A c \in ToSet(Tail(q)) :
                Head(q).op = "timeoutReady" /\ c.op = "handleTimeouts"
<1> HIDE DEF KernelCall
<1>1. /\ Len(q) \in Nat /\ DOMAIN q = 1 .. Len(q) /\ Len(q) > 0
      /\ Tail(q) \in Seq(KernelCall) /\ Len(Tail(q)) = Len(q) - 1
      /\ DOMAIN Tail(q) = 1 .. Len(q) - 1
      /\ \A i \in 1 .. Len(q) - 1 : Tail(q)[i] = q[i + 1]
      /\ Head(q) = q[1]
  BY LenProperties, EmptySeq, HeadTailProperties
<1>2. \A i \in 1 .. Len(q) - 1 : i + 1 \in 1 .. Len(q)
  BY <1>1
<1>3. OneWake(Tail(q))
  BY <1>1, <1>2 DEF OneWake
<1>4. \A c \in ToSet(Tail(q)) : \E j \in 1 .. Len(q) : 1 < j /\ c = q[j]
  BY <1>1, <1>2 DEF ToSet
<1>5. 1 \in 1 .. Len(q)
  BY <1>1
<1> QED BY <1>1, <1>3, <1>4, <1>5 DEF OneWake

\* Walks before the rest change nothing.
LEMMA OneWakeConcat ==
  ASSUME NEW a \in Seq(KernelCall), \A c \in ToSet(a) : c.op = "updatePrio",
         NEW b \in Seq(KernelCall), OneWake(b)
  PROVE  OneWake(a \o b)
<1> HIDE DEF KernelCall
<1>1. /\ Len(a) \in Nat /\ DOMAIN a = 1 .. Len(a)
      /\ Len(b) \in Nat /\ DOMAIN b = 1 .. Len(b)
  BY LenProperties
<1>2. /\ DOMAIN (a \o b) = 1 .. Len(a) + Len(b)
      /\ \A i \in 1 .. Len(a) + Len(b) :
           (a \o b)[i] = IF i <= Len(a) THEN a[i] ELSE b[i - Len(a)]
  BY ConcatProperties, LenProperties
<1>3. \A i \in 1 .. Len(a) : a[i].op = "updatePrio"
  BY <1>1 DEF ToSet
<1> DEFINE c == a \o b
<1> HIDE DEF c
<1>4. SUFFICES ASSUME NEW i \in 1 .. Len(a) + Len(b), NEW j \in 1 .. Len(a) + Len(b),
                      i < j, c[i].op # "updatePrio"
               PROVE  c[i].op = "timeoutReady" /\ c[j].op = "handleTimeouts"
  BY <1>2 DEF OneWake, c
<1>5. ~(i <= Len(a)) /\ ~(j <= Len(a))
  BY <1>1, <1>2, <1>3, <1>4 DEF c
<1>6. c[i] = b[i - Len(a)] /\ c[j] = b[j - Len(a)]
  BY <1>2, <1>5 DEF c
<1>7. i - Len(a) \in DOMAIN b /\ j - Len(a) \in DOMAIN b /\ i - Len(a) < j - Len(a)
  BY <1>1, <1>4, <1>5
<1> QED BY <1>4, <1>6, <1>7 DEF OneWake

\* One call, or the two an expired node leaves behind.
LEMMA OneWakeShort ==
  /\ OneWake(<<>>)
  /\ \A c : OneWake(<<c>>)
  /\ \A t, b : OneWake(<<[op |-> "timeoutReady", task |-> t], HandleTimeoutsOf(b)>>)
<1>1. OneWake(<<>>) /\ \A c : OneWake(<<c>>)
  BY DEF OneWake
<1>2. ASSUME NEW t, NEW b
      PROVE  OneWake(<<[op |-> "timeoutReady", task |-> t], HandleTimeoutsOf(b)>>)
  BY DEF OneWake, HandleTimeoutsOf
<1> QED BY <1>1, <1>2

\* A waiter that leaves a queue adds only a walk along the chain of owners.
LEMMA WaiterRemovedOps ==
  ASSUME NEW t
  PROVE  \A c \in ToSet(WaiterRemoved(t)) : c.op = "updatePrio"
BY DEF WaiterRemoved, UpdatePrioOf, ToSet

(***************************************************************************)
(* Where tasks wait, on which lists, and what is about to wake them.       *)
(***************************************************************************)
\* The queues a task waits on, whether its timeout node is armed, and what the
\* critical region still does to wake it.
OnQueues(t) == {o \in WaitObj : t \in ToSet(waitQ[o])}
Armed(t)    == t \in ToSet(tmo)
WakesOf(t)  == {c \in ToSet(todo) : c.op \in WakeOps /\ c.task = t}
Awake       == {"READY", "RUNNING"}

\* On each list a task is linked once.
ListInv ==
  /\ waitQ \in [WaitObj -> Seq(Task)] /\ wqp \in [Task -> WaitObj \cup {None}]
  /\ tmo \in Seq(Task) /\ ttype \in [Task -> TimeoutType]
  /\ \A o \in WaitObj : NoDuplicates(waitQ[o])
  /\ NoDuplicates(tmo)

\* Only user tasks are suspended in system calls.
ContinuationInv ==
  /\ call \in [Task -> Suspension] /\ ret \in [Task -> FrameResult]
  /\ \A t \in Task : call[t].number # "NONE" => t \in UserTask

\* A mutex with an owner is locked.
HolderInv ==
  /\ lock \in [Mutex -> BOOLEAN] /\ owner \in [Mutex -> Task \cup {None}]
  /\ mesgPrio \in [Task -> [base : Prio, ceiling : Prio]]
  /\ \A m \in Mutex : owner[m] # None => lock[m]

\* The region's list holds calls of the kernel, and at most one wake-up.
PendingInv == todo \in Seq(KernelCall) /\ OneWake(todo)

\* The scheduler lock is a count.
LockInv == schLock \in Nat /\ savedLock \in [Task -> Nat]

\* What holds of the kernel whichever services run on it.
KernelFacts ==
  DispatchInv /\ ListInv /\ ContinuationInv /\ HolderInv /\ PendingInv /\ LockInv

\* Nothing that matters to the wait of t, or to its being awake, changes.
Undisturbed(t) ==
  /\ status'[t] = status[t] \/ (status[t] \in Awake /\ status'[t] \in Awake)
  /\ call'[t] = call[t] /\ wqp'[t] = wqp[t] /\ ttype'[t] = ttype[t]
  /\ OnQueues(t)' = OnQueues(t) /\ (Armed(t)' <=> Armed(t)) /\ WakesOf(t)' = WakesOf(t)

\* A queue is changed about one task only.
LEMMA QueueChange ==
  ASSUME ListInv, NEW o \in WaitObj, NEW t \in Task, NEW q \in Seq(Task), NoDuplicates(q),
         ToSet(q) \ {t} = ToSet(waitQ[o]) \ {t}, waitQ' = [waitQ EXCEPT ![o] = q]
  PROVE  /\ waitQ' \in [WaitObj -> Seq(Task)] /\ \A p \in WaitObj : NoDuplicates(waitQ'[p])
         /\ \A u \in Task \ {t} : OnQueues(u)' = OnQueues(u)
         /\ OnQueues(t)' = IF t \in ToSet(q) THEN OnQueues(t) \cup {o} ELSE OnQueues(t) \ {o}
<1>1. \A p \in WaitObj : waitQ'[p] = IF p = o THEN q ELSE waitQ[p]
  BY DEF ListInv
<1>2. waitQ' \in [WaitObj -> Seq(Task)] /\ \A p \in WaitObj : NoDuplicates(waitQ'[p])
  BY <1>1 DEF ListInv
<1>3. ASSUME NEW u \in Task \ {t} PROVE OnQueues(u)' = OnQueues(u)
  BY <1>1 DEF OnQueues
<1>4. OnQueues(t)' = IF t \in ToSet(q) THEN OnQueues(t) \cup {o} ELSE OnQueues(t) \ {o}
  BY <1>1 DEF OnQueues
<1> QED BY <1>2, <1>3, <1>4

\* A task is unlinked from a queue, or from none.
LEMMA QueueLoses ==
  ASSUME ListInv, NEW o, NEW t \in Task, waitQ' = [waitQ EXCEPT ![o] = kTCBQRem(@, t)]
  PROVE  /\ waitQ' \in [WaitObj -> Seq(Task)] /\ \A p \in WaitObj : NoDuplicates(waitQ'[p])
         /\ \A u \in Task \ {t} : OnQueues(u)' = OnQueues(u)
         /\ OnQueues(t)' = OnQueues(t) \ {o}
<1>1. CASE o \notin WaitObj
  <2>1. waitQ' = waitQ
    BY <1>1 DEF ListInv
  <2> QED BY <1>1, <2>1 DEF ListInv, OnQueues
<1>2. CASE o \in WaitObj
  <2> DEFINE q == kTCBQRem(waitQ[o], t)
  <2>1. /\ q \in Seq(Task) /\ NoDuplicates(q) /\ t \notin ToSet(q)
        /\ ToSet(q) \subseteq ToSet(waitQ[o]) /\ ToSet(waitQ[o]) \ {t} \subseteq ToSet(q)
    BY <1>2, RemProperties DEF ListInv
  <2>2. waitQ' = [waitQ EXCEPT ![o] = q]
    OBVIOUS
  <2> HIDE DEF q
  <2> QED BY <1>2, <2>1, <2>2, QueueChange
<1> QED BY <1>1, <1>2

\* The head leaves its queue.
LEMMA HeadLeaves ==
  ASSUME ListInv, NEW o \in WaitObj, waitQ[o] # <<>>, NEW t, t = Head(waitQ[o]),
         waitQ' = [waitQ EXCEPT ![o] = Tail(@)]
  PROVE  /\ t \in Task /\ o \in OnQueues(t)
         /\ waitQ' \in [WaitObj -> Seq(Task)] /\ \A p \in WaitObj : NoDuplicates(waitQ'[p])
         /\ \A u \in Task \ {t} : OnQueues(u)' = OnQueues(u)
         /\ OnQueues(t)' = OnQueues(t) \ {o}
<1> DEFINE q == Tail(waitQ[o])
<1>1. /\ q \in Seq(Task) /\ NoDuplicates(q) /\ t \notin ToSet(q) /\ t \in Task
      /\ ToSet(waitQ[o]) = {t} \cup ToSet(q)
  BY TailFacts DEF ListInv
<1>2. waitQ' = [waitQ EXCEPT ![o] = q]
  OBVIOUS
<1> HIDE DEF q
<1>3. o \in OnQueues(t)
  BY <1>1 DEF OnQueues
<1>4. t \in Task /\ q \in Seq(Task) /\ NoDuplicates(q) /\ t \notin ToSet(q)
  BY <1>1
<1>5. ToSet(q) \ {t} = ToSet(waitQ[o]) \ {t}
  BY <1>1
<1>6. /\ waitQ' \in [WaitObj -> Seq(Task)] /\ \A p \in WaitObj : NoDuplicates(waitQ'[p])
      /\ \A u \in Task \ {t} : OnQueues(u)' = OnQueues(u)
      /\ OnQueues(t)' = IF t \in ToSet(q) THEN OnQueues(t) \cup {o} ELSE OnQueues(t) \ {o}
  BY <1>2, <1>4, <1>5, QueueChange
<1> QED BY <1>3, <1>4, <1>6

\* A task that is not on a queue joins it by its priority.
LEMMA QueueGains ==
  ASSUME ListInv, DispatchInv, NEW o \in WaitObj, NEW t \in Task, o \notin OnQueues(t),
         waitQ' = [waitQ EXCEPT ![o] = kTCBQEnqByPrio(@, t, prio)]
  PROVE  /\ waitQ' \in [WaitObj -> Seq(Task)] /\ \A p \in WaitObj : NoDuplicates(waitQ'[p])
         /\ \A u \in Task \ {t} : OnQueues(u)' = OnQueues(u)
         /\ OnQueues(t)' = OnQueues(t) \cup {o}
<1> DEFINE q == kTCBQEnqByPrio(waitQ[o], t, prio)
<1>1. prio \in [Task -> Nat] /\ waitQ[o] \in Seq(Task)
  BY NominalPrioType DEF DispatchInv, ListInv
<1>2. q \in Seq(Task) /\ ToSet(q) = ToSet(waitQ[o]) \cup {t}
  BY <1>1, EnqByPrioProperties
<1>3. NoDuplicates(q)
  <2>1. NoDuplicates(waitQ[o]) /\ t \notin ToSet(waitQ[o])
    BY DEF ListInv, OnQueues
  <2> QED BY <1>1, <2>1, EnqByPrioProperties
<1>4. waitQ' = [waitQ EXCEPT ![o] = q]
  OBVIOUS
<1> HIDE DEF q
<1>5. t \in ToSet(q) /\ ToSet(q) \ {t} = ToSet(waitQ[o]) \ {t}
  BY <1>2
<1> QED BY <1>2, <1>3, <1>4, <1>5, QueueChange

\* A node that is not armed joins the others, or is left alone.
LEMMA NodeArmed ==
  ASSUME ListInv, NEW t \in Task, ~Armed(t), NEW ticks, NEW type \in TimeoutType,
         ArmTimeout(t, type, ticks)
  PROVE  /\ tmo' \in Seq(Task) /\ NoDuplicates(tmo') /\ ttype' \in [Task -> TimeoutType]
         /\ \A u \in Task \ {t} : (Armed(u)' <=> Armed(u)) /\ ttype'[u] = ttype[u]
         /\ Armed(t)' <=> ticks # Forever
         /\ Armed(t)' => ttype'[t] = type
<1>1. CASE ticks = Forever
  BY <1>1 DEF ArmTimeout, timeVars, ListInv, Armed
<1>2. CASE ticks # Forever
  <2> DEFINE notEarlier == {i \in DOMAIN tmo : left[tmo[i]] >= ticks}
             pos == IF notEarlier = {} THEN Len(tmo) + 1
                    ELSE CHOOSE i \in notEarlier : \A j \in notEarlier : i <= j
  <2>1. tmo' = InsertAt(tmo, pos, t) /\ ttype' = [ttype EXCEPT ![t] = type]
    BY <1>2 DEF ArmTimeout, TimeoutInsert
  <2>2. Len(tmo) \in Nat /\ DOMAIN tmo = 1 .. Len(tmo)
    BY LenProperties DEF ListInv
  <2>3. pos \in 1 .. Len(tmo) + 1
    <3>1. CASE notEarlier = {}
      BY <2>2, <3>1
    <3>2. CASE notEarlier # {}
      <4>1. notEarlier \in SUBSET Nat
        BY <2>2
      <4> HIDE DEF notEarlier
      <4>2. \E i \in notEarlier : \A j \in notEarlier : i <= j
        BY <3>2, <4>1, LeastExists
      <4>3. pos \in notEarlier
        BY <3>2, <4>2
      <4> QED BY <2>2, <4>3 DEF notEarlier
    <3> QED BY <3>1, <3>2
  <2> HIDE DEF pos
  <2>4. tmo' \in Seq(Task)
    BY <2>1, <2>3, InsertAtProperties DEF ListInv
  <2>5. ToSet(tmo') = ToSet(tmo) \cup {t} /\ NoDuplicates(tmo')
    BY <2>1, <2>3, InsertAtSet DEF ListInv, Armed
  <2> QED BY <1>2, <2>1, <2>4, <2>5 DEF ListInv, Armed
<1> QED BY <1>1, <1>2

\* A node is disarmed, or was not armed.
LEMMA NodeDisarmed ==
  ASSUME ListInv, NEW t \in Task, DisarmTimeout(t)
  PROVE  /\ tmo' \in Seq(Task) /\ NoDuplicates(tmo') /\ ttype' \in [Task -> TimeoutType]
         /\ \A u \in Task \ {t} : (Armed(u)' <=> Armed(u)) /\ ttype'[u] = ttype[u]
         /\ ~Armed(t)'
<1>1. /\ tmo' \in Seq(Task) /\ NoDuplicates(tmo') /\ t \notin ToSet(tmo')
      /\ ToSet(tmo') \subseteq ToSet(tmo) /\ ToSet(tmo) \ {t} \subseteq ToSet(tmo')
  BY RemProperties DEF ListInv, DisarmTimeout
<1>2. ttype' = [ttype EXCEPT ![t] = "NONE"]
  BY DEF DisarmTimeout
<1> QED BY <1>1, <1>2 DEF ListInv, Armed, TimeoutType

\* The node of a task that was on no list of nodes may be left as it is.
LEMMA NodesSame ==
  ASSUME ListInv, UNCHANGED <<tmo, ttype>>
  PROVE  /\ tmo' \in Seq(Task) /\ NoDuplicates(tmo') /\ ttype' \in [Task -> TimeoutType]
         /\ \A u \in Task : (Armed(u)' <=> Armed(u)) /\ ttype'[u] = ttype[u]
BY DEF ListInv, Armed

(***************************************************************************)
(* What a step leaves to the critical region.                              *)
(***************************************************************************)
WalkList(a) == a \in Seq(KernelCall) /\ \A c \in ToSet(a) : c.op = "updatePrio"

\* The walks that a call leaves behind are such lists.
LEMMA WalkListKinds ==
  ASSUME HolderInv
  PROVE  /\ WalkList(<<>>)
         /\ \A x \in Task : WalkList(<<UpdatePrioOf(x)>>)
         /\ \A x, y \in Task : WalkList(<<UpdatePrioOf(x), UpdatePrioOf(y)>>)
         /\ \A t : WalkList(WaiterRemoved(t))
<1>1. \A x \in Task : UpdatePrioOf(x) \in KernelCall /\ UpdatePrioOf(x).op = "updatePrio"
  BY DEF UpdatePrioOf, KernelCall
<1>2. WalkList(<<>>)
  BY SmallSequences DEF WalkList
<1>3. ASSUME NEW x \in Task PROVE WalkList(<<UpdatePrioOf(x)>>)
  <2> DEFINE c == UpdatePrioOf(x)
  <2>1. c \in KernelCall /\ c.op = "updatePrio"
    BY <1>1
  <2> HIDE DEF c, KernelCall
  <2>2. <<c>> \in Seq(KernelCall) /\ ToSet(<<c>>) = {c}
    BY <2>1, SmallSequences
  <2> QED BY <2>1, <2>2 DEF WalkList, c
<1>4. ASSUME NEW x \in Task, NEW y \in Task PROVE WalkList(<<UpdatePrioOf(x), UpdatePrioOf(y)>>)
  <2> DEFINE c == UpdatePrioOf(x)
             d == UpdatePrioOf(y)
  <2>1. c \in KernelCall /\ c.op = "updatePrio" /\ d \in KernelCall /\ d.op = "updatePrio"
    BY <1>1
  <2> HIDE DEF c, d, KernelCall
  <2>2. <<c, d>> \in Seq(KernelCall) /\ ToSet(<<c, d>>) = {c, d}
    BY <2>1, SmallSequences
  <2> QED BY <2>1, <2>2 DEF WalkList, c, d
<1>5. ASSUME NEW t PROVE WalkList(WaiterRemoved(t))
  <2>1. CASE waitingFor[t] # None /\ waitingFor[t] \in Inherit /\ owner[waitingFor[t]] # None
    <3>1. owner[waitingFor[t]] \in Task
      BY <2>1, KernelConstants DEF HolderInv
    <3>2. WaiterRemoved(t) = <<UpdatePrioOf(owner[waitingFor[t]])>>
      BY <2>1 DEF WaiterRemoved
    <3> QED BY <1>3, <3>1, <3>2
  <2>2. CASE ~(waitingFor[t] # None /\ waitingFor[t] \in Inherit /\ owner[waitingFor[t]] # None)
    BY <1>2, <2>2 DEF WaiterRemoved
  <2> QED BY <2>1, <2>2
<1> QED BY <1>2, <1>3, <1>4, <1>5

\* Nothing is left: nobody is about to be woken.
LEMMA NobodyWoken ==
  ASSUME todo = <<>>
  PROVE  \A t : WakesOf(t) = {}
BY SmallSequences DEF WakesOf

\* A critical region ends with walks.
LEMMA WalksLeft ==
  ASSUME todo = <<>>, WalkList(todo')
  PROVE  PendingInv' /\ \A t : WakesOf(t)' = WakesOf(t)
<1>1. OneWake(<<>>) /\ todo' \o <<>> = todo' /\ <<>> \in Seq(KernelCall)
  <2> HIDE DEF KernelCall
  <2> QED BY OneWakeShort, ConcatEmptySeq, SmallSequences DEF WalkList
<1>2. OneWake(todo')
  <2>1. OneWake(todo' \o <<>>)
    <3> HIDE DEF KernelCall
    <3> QED BY <1>1, OneWakeConcat DEF WalkList
  <2> QED BY <1>1, <2>1
<1>3. \A t : WakesOf(t)' = {}
  BY DEF WakesOf, WalkList, WakeOps
<1> QED BY <1>2, <1>3, NobodyWoken DEF PendingInv, WalkList

\* It ends with walks and a task made ready.
LEMMA WakeLeft ==
  ASSUME todo = <<>>, NEW a, WalkList(a), NEW t \in Task, NEW op \in WakeOps,
         todo' = a \o <<[op |-> op, task |-> t]>>
  PROVE  /\ PendingInv' /\ WakesOf(t)' = {[op |-> op, task |-> t]}
         /\ \A u : WakesOf(u) = {}
         /\ \A u \in Task \ {t} : WakesOf(u)' = WakesOf(u)
<1> DEFINE c == [op |-> op, task |-> t]
<1>1. c \in KernelCall /\ c.op = op /\ c.task = t
  BY DEF KernelCall, WakeOps
<1> HIDE DEF c
<1>2. <<c>> \in Seq(KernelCall) /\ ToSet(<<c>>) = {c} /\ OneWake(<<c>>)
  <2> HIDE DEF KernelCall
  <2> QED BY <1>1, SmallSequences, OneWakeShort
<1>3. todo' \in Seq(KernelCall) /\ ToSet(todo') = ToSet(a) \cup {c} /\ OneWake(todo')
  <2> HIDE DEF KernelCall
  <2>1. todo' = a \o <<c>> /\ a \in Seq(KernelCall) /\ \A d \in ToSet(a) : d.op = "updatePrio"
    BY DEF WalkList, c
  <2>2. todo' \in Seq(KernelCall)
    BY <1>2, <2>1, ConcatProperties
  <2>3. ToSet(todo') = ToSet(a) \cup {c}
    <3> DEFINE b == <<c>>
    <3>1. b \in Seq(KernelCall) /\ ToSet(b) = {c} /\ todo' = a \o b
      BY <1>2, <2>1
    <3> HIDE DEF b
    <3>2. ToSet(a \o b) = ToSet(a) \cup ToSet(b)
      BY <2>1, <3>1, ConcatSet
    <3> QED BY <3>1, <3>2
  <2>4. OneWake(todo')
    BY <1>2, <2>1, OneWakeConcat
  <2> QED BY <2>2, <2>3, <2>4
<1>4. \A d \in ToSet(a) : d.op \notin WakeOps
  BY DEF WalkList, WakeOps
<1>5. WakesOf(t)' = {c} /\ \A u \in Task \ {t} : WakesOf(u)' = {}
  BY <1>1, <1>3, <1>4 DEF WakesOf
<1> QED BY <1>3, <1>5, NobodyWoken DEF PendingInv, c

\* The same without a walk.
LEMMA OnlyWakeLeft ==
  ASSUME todo = <<>>, NEW t \in Task, NEW op \in WakeOps, todo' = <<[op |-> op, task |-> t]>>
  PROVE  /\ PendingInv' /\ WakesOf(t)' = {[op |-> op, task |-> t]}
         /\ \A u : WakesOf(u) = {}
         /\ \A u \in Task \ {t} : WakesOf(u)' = WakesOf(u)
<1> DEFINE c == [op |-> op, task |-> t]
<1>1. c \in KernelCall
  BY DEF KernelCall, WakeOps
<1>2. WalkList(<<>>) /\ <<>> \o <<c>> = <<c>>
  <2> HIDE DEF c
  <2>1. <<>> \in Seq(KernelCall) /\ ToSet(<<>>) = {} /\ <<c>> \in Seq(KernelCall)
    <3> HIDE DEF KernelCall
    <3> QED BY <1>1, SmallSequences
  <2> HIDE DEF KernelCall
  <2> QED BY <2>1, ConcatEmptySeq DEF WalkList
<1> QED BY <1>2, WakeLeft

\* The head of what was left has been done.
LEMMA HeadGone ==
  ASSUME PendingInv, todo # <<>>
  PROVE  /\ Head(todo) \in KernelCall /\ Tail(todo) \in Seq(KernelCall) /\ OneWake(Tail(todo))
         /\ ToSet(todo) = {Head(todo)} \cup ToSet(Tail(todo))
         /\ Head(todo).op # "updatePrio" =>
              \A c \in ToSet(Tail(todo)) :
                Head(todo).op = "timeoutReady" /\ c.op = "handleTimeouts"
<1> HIDE DEF KernelCall
<1> QED BY TailFacts, OneWakeTail DEF PendingInv

(***************************************************************************)
(* The end of a wait, for the call the task is suspended in.               *)
(***************************************************************************)
\* The call of t is over or goes on, and what its frame says is about it; from
\* a wait on a condition variable it returns with success only when it is
\* woken from the wait for the mutex.
CallGoesOn(t, woken) ==
  /\ call'[t].number # "NONE" =>
       call'[t].number = call[t].number /\ call'[t].arg = call[t].arg
  /\ \/ ret'[t] = ret[t]
     \/ /\ ret'[t].number = call[t].number /\ ret'[t].arg = call[t].arg
        /\ ret'[t].number = "CONDVAR_WAIT" /\ ret'[t].err = "SUCCESS"
             => call[t].phase = "RELOCK" /\ woken

\* This is so however the wait ends.
LEMMA CallsEnd ==
  ASSUME ContinuationInv, NEW t \in Task, NEW woken \in BOOLEAN,
         IF woken THEN kSyscallTaskWake(t)
                  ELSE kSyscallTaskTimeout(t) \/ kSyscallTaskSignal(t)
  PROVE  /\ ContinuationInv' /\ CallGoesOn(t, woken)
         /\ \A u \in Task \ {t} : call'[u] = call[u] /\ ret'[u] = ret[u]
<1>1. /\ call[t] \in Suspension /\ call[t].phase \in CallPhase /\ call[t].wake \in Err
      /\ {"SUCCESS", "TIMEOUT", "SIGNAL_INTERRUPTED", "RESTART"} \subseteq Err
      /\ "RELOCK" \in CallPhase /\ CallNumber \subseteq ResultNumber
  BY DEF ContinuationInv, Suspension, CallPhase, Err, ResultNumber
<1>2. \/ UNCHANGED callVars
      \/ \E e \in Err : /\ kSyscallTaskComplete_(t, e)
                        /\ call[t].number = "CONDVAR_WAIT" /\ e = "SUCCESS" =>
                             call[t].phase = "RELOCK" /\ woken
      \/ /\ call[t].number # "NONE"
         /\ \E ph \in CallPhase, w \in Err : RestartWith(t, ph, w)
  <2>1. CASE woken
    <3>1. kSyscallTaskWake(t)
      BY <2>1
    <3> QED BY <1>1, <2>1, <3>1 DEF kSyscallTaskWake, WakeResultCall, RunsAgainCall
  <2>2. CASE ~woken /\ kSyscallTaskTimeout(t)
    BY <1>1, <2>2 DEF kSyscallTaskTimeout, callVars
  <2>3. CASE ~woken /\ kSyscallTaskSignal(t)
    BY <1>1, <2>3 DEF kSyscallTaskSignal, callVars
  <2> QED BY <2>1, <2>2, <2>3
<1>3. CASE UNCHANGED callVars
  BY <1>3 DEF callVars, ContinuationInv, CallGoesOn
<1>4. ASSUME NEW e \in Err, kSyscallTaskComplete_(t, e),
             call[t].number = "CONDVAR_WAIT" /\ e = "SUCCESS" =>
               call[t].phase = "RELOCK" /\ woken
      PROVE  /\ ContinuationInv' /\ CallGoesOn(t, woken)
             /\ \A u \in Task \ {t} : call'[u] = call[u] /\ ret'[u] = ret[u]
  <2> DEFINE r == [number |-> call[t].number, arg |-> call[t].arg, err |-> e]
  <2>1. /\ r \in FrameResult /\ r.number = call[t].number /\ r.arg = call[t].arg /\ r.err = e
        /\ NoCall \in Suspension /\ NoCall.number = "NONE"
    BY <1>1 DEF FrameResult, Suspension, NoCall, CallNumber, CallPhase, Err
  <2>2. ret' = [ret EXCEPT ![t] = r] /\ call' = [call EXCEPT ![t] = NoCall]
    BY <1>4 DEF kSyscallTaskComplete_
  <2> HIDE DEF r
  <2>3. /\ ret'[t] = r /\ call'[t] = NoCall
        /\ \A u \in Task \ {t} : call'[u] = call[u] /\ ret'[u] = ret[u]
    BY <2>2 DEF ContinuationInv
  <2>4. ContinuationInv'
    BY <2>1, <2>2, <2>3 DEF ContinuationInv
  <2> QED BY <1>4, <2>1, <2>3, <2>4 DEF CallGoesOn
<1>5. ASSUME NEW ph \in CallPhase, NEW w \in Err, RestartWith(t, ph, w),
             call[t].number # "NONE"
      PROVE  /\ ContinuationInv' /\ CallGoesOn(t, woken)
             /\ \A u \in Task \ {t} : call'[u] = call[u] /\ ret'[u] = ret[u]
  <2> DEFINE r == [number |-> call[t].number, arg |-> call[t].arg, err |-> "RESTART"]
             c == [call[t] EXCEPT !.phase = ph, !.wake = w]
  <2>1. /\ r \in FrameResult /\ r.number = call[t].number /\ r.arg = call[t].arg
        /\ r.err = "RESTART"
        /\ c \in Suspension /\ c.number = call[t].number /\ c.arg = call[t].arg
    BY <1>1 DEF FrameResult, Suspension
  <2>2. ret' = [ret EXCEPT ![t] = r] /\ call' = [call EXCEPT ![t] = c]
    BY <1>5 DEF RestartWith
  <2> HIDE DEF r, c
  <2>3. /\ ret'[t] = r /\ call'[t] = c
        /\ \A u \in Task \ {t} : call'[u] = call[u] /\ ret'[u] = ret[u]
    BY <2>2 DEF ContinuationInv
  <2>4. ContinuationInv'
    BY <1>5, <2>1, <2>2, <2>3 DEF ContinuationInv
  <2> QED BY <2>1, <2>3, <2>4 DEF CallGoesOn
<1> QED BY <1>2, <1>3, <1>4, <1>5

\* A call of the running task is answered.
LEMMA CallAnswered ==
  ASSUME ContinuationInv, run \in Task, NEW number \in ResultNumber,
         NEW arg \in WaitObj \cup {None}, NEW err \in Err, Returns(number, arg, err)
  PROVE  /\ ret' \in [Task -> FrameResult]
         /\ ret'[run].number = number /\ ret'[run].arg = arg /\ ret'[run].err = err
         /\ \A u \in Task \ {run} : ret'[u] = ret[u]
<1> DEFINE r == [number |-> number, arg |-> arg, err |-> err]
<1>1. r \in FrameResult /\ ret' = [ret EXCEPT ![run] = r]
  BY DEF Returns, FrameResult
<1> HIDE DEF r
<1> QED BY <1>1 DEF ContinuationInv, r

(***************************************************************************)
(* What the kernel does on its own account.                                *)
(***************************************************************************)
\* The effective priority is a priority.
LEMMA EffectivePrio ==
  ASSUME KernelFacts, NEW t \in Task
  PROVE  kTaskCalcEffectivePrio_(t) \in Prio
<1> DEFINE lending == LendingMutexes(t) \cup LendingPeers(t)
           candidates == {mesgPrio[t].base, mesgPrio[t].ceiling}
                           \cup {prio[Head(waitQ[o])] : o \in lending}
           n == CHOOSE p \in candidates : \A q \in candidates : p <= q
<1>1. \A o \in lending : prio[Head(waitQ[o])] \in Prio
  <2> TAKE o \in lending
  <2>1. PeerQueue[t] \subseteq OtherObj /\ Inherit \subseteq Mutex
    BY KernelConstants
  <2>2. o \in WaitObj /\ waitQ[o] # <<>>
    BY <2>1 DEF LendingMutexes, LendingPeers, WaitObj
  <2>3. Head(waitQ[o]) \in Task
    BY <2>2, TailFacts DEF KernelFacts, ListInv
  <2> QED BY <2>3 DEF KernelFacts, DispatchInv
<1>2. mesgPrio[t].base \in Prio /\ mesgPrio[t].ceiling \in Prio
  BY DEF KernelFacts, HolderInv
<1>3. candidates \in SUBSET Nat /\ candidates \subseteq Prio /\ candidates # {}
  <2> HIDE DEF lending
  <2> QED BY <1>1, <1>2, NominalPrioType
<1>4. \E p \in candidates : \A q \in candidates : p <= q
  <2> HIDE DEF candidates
  <2> QED BY <1>3, LeastExists
<1>5. n \in candidates
  <2> HIDE DEF candidates
  <2> QED BY <1>4
<1>6. kTaskCalcEffectivePrio_(t) = n
  BY DEF kTaskCalcEffectivePrio_
<1> HIDE DEF n
<1> QED BY <1>3, <1>5, <1>6

\* A waiter whose priority changes stays on the queue it is on.
LEMMA WaiterRequeued ==
  ASSUME ListInv, NEW t \in Task, ~StaleWait(t), NEW pr \in [Task -> Nat],
         waitQ' = kTaskRequeueWaiterByPrio_(t, pr)
  PROVE  /\ waitQ' \in [WaitObj -> Seq(Task)] /\ \A p \in WaitObj : NoDuplicates(waitQ'[p])
         /\ \A u \in Task : OnQueues(u)' = OnQueues(u)
<1> DEFINE o == wqp[t]
           rem == kTCBQRem(waitQ[o], t)
           new == kTCBQEnqByPrio(rem, t, pr)
<1>1. CASE o = None \/ t \notin ToSet(waitQ[o]) \/ Len(waitQ[o]) <= 1
  <2>1. waitQ' = waitQ
    BY <1>1 DEF kTaskRequeueWaiterByPrio_
  <2> QED BY <2>1 DEF ListInv, OnQueues
<1>2. CASE ~(o = None \/ t \notin ToSet(waitQ[o]) \/ Len(waitQ[o]) <= 1)
  <2>1. waitQ' = [waitQ EXCEPT ![o] = new]
    BY <1>2 DEF kTaskRequeueWaiterByPrio_
  <2>2. o \in WaitObj /\ waitQ[o] \in Seq(Task) /\ t \in ToSet(waitQ[o])
    BY <1>2 DEF ListInv
  <2>3. /\ rem \in Seq(Task) /\ ToSet(rem) \cup {t} = ToSet(waitQ[o])
        /\ NoDuplicates(rem) /\ t \notin ToSet(rem)
    BY <2>2, RemProperties DEF ListInv
  <2> HIDE DEF rem
  <2>4. new \in Seq(Task) /\ ToSet(new) = ToSet(rem) \cup {t}
    BY <2>3, EnqByPrioProperties
  <2>5. NoDuplicates(new)
    BY <2>3, EnqByPrioProperties
  <2> HIDE DEF new
  <2>6. t \in ToSet(new) /\ ToSet(new) \ {t} = ToSet(waitQ[o]) \ {t}
    BY <2>3, <2>4
  <2>7. /\ waitQ' \in [WaitObj -> Seq(Task)] /\ \A p \in WaitObj : NoDuplicates(waitQ'[p])
        /\ \A u \in Task \ {t} : OnQueues(u)' = OnQueues(u)
        /\ OnQueues(t)' = OnQueues(t) \cup {o}
    <3> HIDE DEF o
    <3> QED BY <2>1, <2>2, <2>4, <2>5, <2>6, QueueChange
  <2>8. OnQueues(t)' = OnQueues(t)
    BY <2>2, <2>7 DEF OnQueues
  <2> QED BY <2>7, <2>8
<1> QED BY <1>1, <1>2

\* A READY task whose priority changes moves to the ready queue of the new one.
LEMMA DispatchWalk ==
  ASSUME DispatchInv, NEW t \in Task, NEW new \in Prio, new # prio[t],
         prio' = [prio EXCEPT ![t] = new],
         readyQ' = IF status[t] = "READY"
                   THEN [readyQ EXCEPT ![prio[t]] = kTCBQRem(@, t), ![new] = kTCBQEnq(@, t)]
                   ELSE readyQ,
         UNCHANGED <<run, status>>, PendKept
  PROVE  DispatchInv'
<1>1. /\ run \in Task /\ status \in [Task -> Status] /\ prio \in [Task -> Prio]
      /\ readyQ \in [Prio -> Seq(Task)] /\ prio[t] \in Prio
      /\ \A p \in Prio :
           NoDuplicates(readyQ[p]) /\ ToSet(readyQ[p]) = {u \in Task : status[u] = "READY" /\ prio[u] = p}
  BY DEF DispatchInv
<1>2. /\ prio' \in [Task -> Prio] /\ prio'[t] = new
      /\ \A u \in Task \ {t} : prio'[u] = prio[u]
  BY <1>1
<1>3. ASSUME NEW p \in Prio
      PROVE  /\ readyQ'[p] \in Seq(Task) /\ NoDuplicates(readyQ'[p])
             /\ ToSet(readyQ'[p]) = {u \in Task : status'[u] = "READY" /\ prio'[u] = p}
  <2>1. CASE status[t] # "READY"
    BY <1>1, <1>2, <2>1
  <2>2. CASE status[t] = "READY" /\ p = prio[t]
    <3> DEFINE q == kTCBQRem(readyQ[p], t)
    <3>1. readyQ'[p] = q
      BY <1>1, <2>2
    <3>2. /\ q \in Seq(Task) /\ NoDuplicates(q) /\ t \notin ToSet(q)
          /\ ToSet(q) \subseteq ToSet(readyQ[p]) /\ ToSet(readyQ[p]) \ {t} \subseteq ToSet(q)
      BY <1>1, RemProperties
    <3> HIDE DEF q
    <3>3. ToSet(q) = {u \in Task : status'[u] = "READY" /\ prio'[u] = p}
      BY <1>1, <1>2, <2>2, <3>2
    <3> QED BY <3>1, <3>2, <3>3
  <2>3. CASE status[t] = "READY" /\ p = new
    <3> DEFINE q == kTCBQEnq(readyQ[p], t)
    <3>1. readyQ'[p] = q
      BY <1>1, <2>3
    <3>2. t \notin ToSet(readyQ[p]) /\ readyQ[p] \in Seq(Task) /\ NoDuplicates(readyQ[p])
      BY <1>1, <2>3
    <3>3. q \in Seq(Task) /\ ToSet(q) = ToSet(readyQ[p]) \cup {t}
      BY <3>2, AppendSet DEF kTCBQEnq
    <3>4. NoDuplicates(q)
      BY <3>2, EnterOnce
    <3> HIDE DEF q
    <3>5. ToSet(q) = {u \in Task : status'[u] = "READY" /\ prio'[u] = p}
      BY <1>1, <1>2, <2>3, <3>3
    <3> QED BY <3>1, <3>3, <3>4, <3>5
  <2>4. CASE p # prio[t] /\ p # new
    <3>1. readyQ'[p] = readyQ[p]
      BY <1>1, <2>4
    <3>2. ToSet(readyQ[p]) = {u \in Task : status'[u] = "READY" /\ prio'[u] = p}
      BY <1>1, <1>2, <2>4
    <3> QED BY <1>1, <3>1, <3>2
  <2> QED BY <2>1, <2>2, <2>3, <2>4
<1>4. readyQ' \in [Prio -> Seq(Task)]
  <2>1. readyQ' = [p \in Prio |-> readyQ'[p]]
    BY <1>1
  <2> QED BY <1>3, <2>1
<1> QED BY <1>2, <1>3, <1>4 DEF DispatchInv, PendKept

\* A READY task is put to sleep where it stands.
LEMMA DispatchUnready ==
  ASSUME DispatchInv, NEW t \in Task \ {run, IdleTask}, status[t] = "READY",
         NEW st \in Status \ Awake,
         readyQ' = [readyQ EXCEPT ![prio[t]] = kTCBQRem(@, t)],
         status' = [status EXCEPT ![t] = st], UNCHANGED <<run, prio, pendSV>>
  PROVE  DispatchInv'
<1> DEFINE q == kTCBQRem(readyQ[prio[t]], t)
<1>1. /\ run \in Task /\ status \in [Task -> Status] /\ prio \in [Task -> Prio]
      /\ readyQ \in [Prio -> Seq(Task)] /\ prio[t] \in Prio
      /\ \A p \in Prio :
           NoDuplicates(readyQ[p]) /\ ToSet(readyQ[p]) = {u \in Task : status[u] = "READY" /\ prio[u] = p}
  BY DEF DispatchInv
<1>2. /\ q \in Seq(Task) /\ NoDuplicates(q) /\ t \notin ToSet(q)
      /\ ToSet(q) \subseteq ToSet(readyQ[prio[t]]) /\ ToSet(readyQ[prio[t]]) \ {t} \subseteq ToSet(q)
  BY <1>1, RemProperties
<1>3. readyQ' = [readyQ EXCEPT ![prio[t]] = q]
  OBVIOUS
<1> HIDE DEF q
<1>4. /\ status' \in [Task -> Status] /\ status'[t] \notin Awake
      /\ \A u \in Task \ {t} : status'[u] = status[u]
  BY <1>1
<1>5. ASSUME NEW p \in Prio
      PROVE  /\ NoDuplicates(readyQ'[p])
             /\ ToSet(readyQ'[p]) = {u \in Task : status'[u] = "READY" /\ prio'[u] = p}
  <2>1. CASE p = prio[t]
    <3>1. readyQ'[p] = q
      BY <1>1, <1>3, <2>1
    <3>2. ToSet(q) = {u \in Task : status'[u] = "READY" /\ prio[u] = p}
      BY <1>1, <1>2, <1>4, <2>1 DEF Awake
    <3> QED BY <1>2, <3>1, <3>2
  <2>2. CASE p # prio[t]
    <3>1. readyQ'[p] = readyQ[p]
      BY <1>1, <1>3, <2>2
    <3>2. ToSet(readyQ[p]) = {u \in Task : status'[u] = "READY" /\ prio[u] = p}
      BY <1>1, <1>4, <2>2
    <3> QED BY <1>1, <3>1, <3>2
  <2> QED BY <2>1, <2>2
<1>6. readyQ' \in [Prio -> Seq(Task)]
  BY <1>1, <1>2, <1>3
<1> QED BY <1>1, <1>4, <1>5, <1>6, KernelConstants DEF DispatchInv, Awake

\* One round of a walk along the owners disturbs no wait: a waiter that moves
\* stays on its queue, and a READY task stays in the ready queues.
LEMMA WalkStep ==
  ASSUME KernelFacts, ~StaleWait(Head(todo).task), UpdatePrio
  PROVE  /\ KernelFacts' /\ \A t \in Task : Undisturbed(t)
         /\ UNCHANGED <<run, status, owner, ret>>
<1> DEFINE t == Head(todo).task
           new == kTaskCalcEffectivePrio_(t)
           pr == [prio EXCEPT ![t] = new]
           next == waitingFor[t]
           more == status[t] = "BLOCKED" /\ next # None /\ next \in Inherit /\ owner[next] # None
           walks == IF new # prio[t] /\ more THEN <<UpdatePrioOf(owner[next])>> ELSE <<>>
<1>1. /\ todo # <<>> /\ Head(todo).op = "updatePrio"
      /\ UNCHANGED <<wqp, lock, owner, mesgPrio, tmo, ttype, call, ret>>
  BY DEF UpdatePrio, mutexVars, timeVars, callVars
<1>2. Head(todo) \in KernelCall
  BY <1>1, HeadGone DEF KernelFacts
<1>3. t \in Task
  BY <1>1, <1>2 DEF KernelCall
<1>4. new \in Prio
  BY <1>3, EffectivePrio
<1>5. /\ prio \in [Task -> Prio] /\ pr \in [Task -> Nat] /\ ~StaleWait(t)
  BY <1>3, <1>4, NominalPrioType DEF KernelFacts, DispatchInv
<1> HIDE DEF t, new
<1>6. /\ run' = run /\ status' = status /\ schLock' = schLock /\ savedLock' = savedLock
      /\ DispatchInv'
      /\ waitQ' \in [WaitObj -> Seq(Task)] /\ \A p \in WaitObj : NoDuplicates(waitQ'[p])
      /\ \A u \in Task : OnQueues(u)' = OnQueues(u)
  <2>1. CASE new = prio[t]
    <3>1. UNCHANGED <<schedVars, waitQ>>
      BY <2>1 DEF UpdatePrio, t, new
    <3>2. UNCHANGED <<run, status, prio, readyQ, schLock, savedLock, pendSV, waitQ>>
      BY <3>1 DEF schedVars
    <3>3. DispatchInv'
      BY <3>2, DispatchFrame DEF KernelFacts, PendKept
    <3> QED BY <3>2, <3>3 DEF KernelFacts, ListInv, OnQueues
  <2>2. CASE new # prio[t]
    <3>1. /\ prio' = pr /\ waitQ' = kTaskRequeueWaiterByPrio_(t, pr)
          /\ UNCHANGED <<run, status, schLock, savedLock>>
      BY <2>2 DEF UpdatePrio, t, new
    <3>2. readyQ' = IF status[t] = "READY"
                    THEN [readyQ EXCEPT ![prio[t]] = kTCBQRem(@, t), ![new] = kTCBQEnq(@, t)]
                    ELSE readyQ
      BY <2>2, <1>5 DEF UpdatePrio, t, new
    <3>3. kReschedTask(new, pr) \/ kReschedRunning(new) \/ NoCtxSwtch
      BY <2>2 DEF UpdatePrio, t, new
    <3>4. PendKept
      BY <3>3 DEF kReschedTask, kReschedRunning, kPendCtxSwtch, NoCtxSwtch, kPendCtxSwtchNow_,
                  kDeferCtxSwtch_, PendKept
    <3>5. DispatchInv'
      BY <1>3, <1>4, <2>2, <3>1, <3>2, <3>4, DispatchWalk DEF KernelFacts
    <3>6. /\ waitQ' \in [WaitObj -> Seq(Task)] /\ \A p \in WaitObj : NoDuplicates(waitQ'[p])
          /\ \A u \in Task : OnQueues(u)' = OnQueues(u)
      <4> HIDE DEF pr
      <4> QED BY <1>3, <1>5, <3>1, WaiterRequeued DEF KernelFacts
    <3> QED BY <3>1, <3>5, <3>6
  <2> QED BY <2>1, <2>2
<1>7. WalkList(walks)
  <2>1. CASE new # prio[t] /\ more
    <3>1. owner[next] \in Task
      BY <2>1, KernelConstants DEF KernelFacts, HolderInv
    <3>2. WalkList(<<UpdatePrioOf(owner[next])>>)
      BY <3>1, WalkListKinds DEF KernelFacts
    <3> QED BY <2>1, <3>2
  <2>2. CASE ~(new # prio[t] /\ more)
    BY <2>2, WalkListKinds DEF KernelFacts
  <2> QED BY <2>1, <2>2
<1>8. todo' = walks \o Tail(todo)
  <2>1. Tail(todo) \in Seq(KernelCall)
    BY <1>1, HeadGone DEF KernelFacts
  <2>2. CASE new = prio[t]
    <3>1. todo' = Tail(todo)
      BY <2>2 DEF UpdatePrio, t, new
    <3>2. walks = <<>>
      BY <2>2
    <3> HIDE DEF KernelCall
    <3> QED BY <2>1, <3>1, <3>2, ConcatEmptySeq
  <2>3. CASE new # prio[t]
    BY <2>3 DEF UpdatePrio, t, new
  <2> QED BY <2>2, <2>3
<1> HIDE DEF walks
<1>9. PendingInv' /\ \A u \in Task : WakesOf(u)' = WakesOf(u)
  <2>1. /\ Tail(todo) \in Seq(KernelCall) /\ OneWake(Tail(todo))
        /\ ToSet(todo) = {Head(todo)} \cup ToSet(Tail(todo))
    BY <1>1, HeadGone DEF KernelFacts
  <2>2. /\ todo' \in Seq(KernelCall) /\ OneWake(todo')
        /\ ToSet(todo') = ToSet(walks) \cup ToSet(Tail(todo))
    <3> DEFINE b == Tail(todo)
    <3>1. b \in Seq(KernelCall) /\ OneWake(b) /\ todo' = walks \o b
      BY <1>8, <2>1
    <3> HIDE DEF b, KernelCall
    <3>2. todo' \in Seq(KernelCall)
      BY <1>7, <3>1, ConcatProperties DEF WalkList
    <3>3. OneWake(todo')
      BY <1>7, <3>1, OneWakeConcat DEF WalkList
    <3>4. ToSet(walks \o b) = ToSet(walks) \cup ToSet(b)
      BY <1>7, <3>1, ConcatSet DEF WalkList
    <3> QED BY <3>1, <3>2, <3>3, <3>4 DEF b
  <2>3. \A c \in ToSet(walks) \cup {Head(todo)} : c.op \notin WakeOps
    BY <1>1, <1>7 DEF WalkList, WakeOps
  <2> QED BY <2>1, <2>2, <2>3 DEF WakesOf, PendingInv
<1>10. KernelFacts'
  BY <1>1, <1>6, <1>9 DEF KernelFacts, ListInv, ContinuationInv, HolderInv, LockInv
<1> QED BY <1>1, <1>6, <1>9, <1>10 DEF Undisturbed, Armed

\* The task at the head of what was left is made ready, and nobody else.
LEMMA AwakenStep ==
  ASSUME KernelFacts, ReadySwtch \/ TimeoutReady \/ SignalReady, NEW t, t = Head(todo).task,
         status[t] \notin Awake
  PROVE  /\ KernelFacts' /\ t \in Task /\ Head(todo).op \in WakeOps
         /\ WakesOf(t) = {[op |-> Head(todo).op, task |-> t]} /\ WakesOf(t)' = {}
         /\ status'[t] = "READY" /\ OnQueues(t)' = OnQueues(t)
         /\ Head(todo).op = "ready" => (Armed(t)' <=> Armed(t)) /\ wqp'[t] = wqp[t]
         /\ Head(todo).op = "timeoutReady" => (Armed(t)' <=> Armed(t)) /\ wqp'[t] = None
         /\ Head(todo).op = "signalReady" => ~Armed(t)' /\ wqp'[t] = None
         /\ CallGoesOn(t, Head(todo).op = "ready")
         /\ \A u \in Task \ {t} : Undisturbed(u) /\ ret'[u] = ret[u] /\ status'[u] = status[u]
         /\ UNCHANGED <<run, owner>>
<1>1. todo # <<>> /\ Head(todo).op \in WakeOps /\ todo' = Tail(todo)
  BY DEF ReadySwtch, TimeoutReady, SignalReady, WakeOps
<1>2. /\ Head(todo) \in KernelCall /\ Tail(todo) \in Seq(KernelCall) /\ OneWake(Tail(todo))
      /\ ToSet(todo) = {Head(todo)} \cup ToSet(Tail(todo))
      /\ \A c \in ToSet(Tail(todo)) : c.op = "handleTimeouts"
  <2> HIDE DEF KernelCall
  <2> QED BY <1>1, HeadGone DEF KernelFacts, WakeOps
<1>3. t \in Task /\ Head(todo) = [op |-> Head(todo).op, task |-> t]
  BY <1>1, <1>2 DEF KernelCall, WakeOps
<1>4. PendingInv' /\ WakesOf(t) = {[op |-> Head(todo).op, task |-> t]} /\ \A u : WakesOf(u)' = {}
  BY <1>1, <1>2, <1>3 DEF PendingInv, WakesOf, WakeOps
<1>5. \A u \in Task \ {t} : WakesOf(u) = {}
  BY <1>1, <1>2 DEF WakesOf, WakeOps
<1>6. /\ UNCHANGED <<run, prio, schLock, savedLock, waitQ, lock, owner, mesgPrio>>
      /\ status' = [status EXCEPT ![t] = "READY"]
      /\ readyQ' = ReadyEnq(readyQ, t) \/ readyQ' = [readyQ EXCEPT ![prio[t]] = kTCBQEnq(@, t)]
      /\ PendKept
  <2>1. CASE ReadySwtch
    <3>1. PendKept
      BY <2>1, PendRequests DEF ReadySwtch
    <3> QED BY <2>1, <3>1 DEF ReadySwtch, waitVars, mutexVars
  <2>2. CASE TimeoutReady
    BY <2>2 DEF TimeoutReady, PendKept
  <2>3. CASE SignalReady
    <3>1. PendKept
      BY <2>3, PendRequests DEF SignalReady
    <3> QED BY <2>3, <3>1 DEF SignalReady
  <2> QED BY <2>1, <2>2, <2>3
<1>7. DispatchInv' /\ status'[t] = "READY" /\ \A u \in Task \ {t} : status'[u] = status[u]
  <2>1. DispatchInv'
    BY <1>3, <1>6, DispatchReady DEF KernelFacts, Awake
  <2> QED BY <1>3, <1>6, <2>1 DEF KernelFacts, DispatchInv
<1>8. /\ ContinuationInv' /\ CallGoesOn(t, Head(todo).op = "ready")
      /\ \A u \in Task \ {t} : call'[u] = call[u] /\ ret'[u] = ret[u]
  <2>1. CASE ReadySwtch
    <3>1. Head(todo).op = "ready" /\ kSyscallTaskWake(t)
      BY <2>1 DEF ReadySwtch
    <3> DEFINE woken == TRUE
    <3>2. woken \in BOOLEAN /\ (woken <=> Head(todo).op = "ready") /\ kSyscallTaskWake(t)
      BY <3>1
    <3> HIDE DEF woken
    <3>3. woken
      BY DEF woken
    <3>4. /\ ContinuationInv' /\ CallGoesOn(t, woken)
          /\ \A u \in Task \ {t} : call'[u] = call[u] /\ ret'[u] = ret[u]
      BY <1>3, <3>2, <3>3, CallsEnd DEF KernelFacts
    <3> QED BY <3>2, <3>4 DEF CallGoesOn
  <2>2. CASE TimeoutReady \/ SignalReady
    <3>1. Head(todo).op # "ready" /\ (kSyscallTaskTimeout(t) \/ kSyscallTaskSignal(t))
      BY <2>2 DEF TimeoutReady, SignalReady
    <3> DEFINE woken == FALSE
    <3>2. woken \in BOOLEAN /\ (woken <=> Head(todo).op = "ready")
      BY <3>1
    <3> HIDE DEF woken
    <3>3. ~woken
      BY DEF woken
    <3>4. /\ ContinuationInv' /\ CallGoesOn(t, woken)
          /\ \A u \in Task \ {t} : call'[u] = call[u] /\ ret'[u] = ret[u]
      BY <1>3, <3>1, <3>2, <3>3, CallsEnd DEF KernelFacts
    <3> QED BY <3>2, <3>4 DEF CallGoesOn
  <2> QED BY <2>1, <2>2
<1>9. /\ tmo' \in Seq(Task) /\ NoDuplicates(tmo') /\ ttype' \in [Task -> TimeoutType]
      /\ wqp' \in [Task -> WaitObj \cup {None}]
      /\ \A u \in Task \ {t} :
           (Armed(u)' <=> Armed(u)) /\ ttype'[u] = ttype[u] /\ wqp'[u] = wqp[u]
      /\ Head(todo).op = "ready" => (Armed(t)' <=> Armed(t)) /\ wqp'[t] = wqp[t]
      /\ Head(todo).op = "timeoutReady" => (Armed(t)' <=> Armed(t)) /\ wqp'[t] = None
      /\ Head(todo).op = "signalReady" => ~Armed(t)' /\ wqp'[t] = None
  <2>1. CASE ReadySwtch
    <3>1. Head(todo).op = "ready" /\ UNCHANGED <<tmo, ttype, wqp>>
      BY <2>1 DEF ReadySwtch, timeVars, waitVars
    <3> QED BY <3>1 DEF KernelFacts, ListInv, Armed
  <2>2. CASE TimeoutReady
    <3>1. /\ Head(todo).op = "timeoutReady" /\ tmo' = tmo
          /\ ttype' = [ttype EXCEPT ![t] = "NONE"] /\ wqp' = [wqp EXCEPT ![t] = None]
      BY <2>2 DEF TimeoutReady
    <3> QED BY <1>3, <3>1 DEF KernelFacts, ListInv, Armed, TimeoutType
  <2>3. CASE SignalReady
    <3>1. /\ Head(todo).op = "signalReady" /\ DisarmTimeout(t) /\ wqp' = [wqp EXCEPT ![t] = None]
      BY <2>3 DEF SignalReady
    <3>2. /\ tmo' \in Seq(Task) /\ NoDuplicates(tmo') /\ ttype' \in [Task -> TimeoutType]
          /\ \A u \in Task \ {t} : (Armed(u)' <=> Armed(u)) /\ ttype'[u] = ttype[u]
          /\ ~Armed(t)'
      BY <1>3, <3>1, NodeDisarmed DEF KernelFacts
    <3> QED BY <1>3, <3>1, <3>2 DEF KernelFacts, ListInv
  <2> QED BY <2>1, <2>2, <2>3
<1>10. \A u \in Task : OnQueues(u)' = OnQueues(u)
  BY <1>6 DEF OnQueues
<1>11. KernelFacts'
  BY <1>4, <1>6, <1>7, <1>8, <1>9 DEF KernelFacts, ListInv, HolderInv, LockInv
<1> QED BY <1>1, <1>3, <1>4, <1>5, <1>6, <1>7, <1>8, <1>9, <1>10, <1>11 DEF Undisturbed

\* A node expires: its task leaves the queue it names, about to be made ready.
LEMMA ExpiryStep ==
  ASSUME KernelFacts, TimeoutExpire, NEW t, t = Head(tmo)
  PROVE  /\ KernelFacts' /\ t \in Task /\ Armed(t) /\ ~Armed(t)'
         /\ \A u \in Task : WakesOf(u) = {}
         /\ \A u \in Task \ {t} : Undisturbed(u)
         /\ WakesOf(t)' = {[op |-> "timeoutReady", task |-> t]}
         /\ OnQueues(t)' = IF ttype[t] = "BLOCKING" THEN OnQueues(t) \ {wqp[t]} ELSE OnQueues(t)
         /\ UNCHANGED <<run, status, owner, call, ret, wqp, ttype>>
<1>1. /\ todo # <<>> /\ Head(todo).op = "handleTimeouts" /\ tmo # <<>> /\ tmo' = Tail(tmo)
      /\ UNCHANGED <<run, status, prio, readyQ, schLock, savedLock, pendSV, wqp, lock, owner,
                     mesgPrio, ttype, call, ret>>
  BY DEF TimeoutExpire, schedVars, mutexVars, callVars
<1>2. /\ t \in Task /\ tmo' \in Seq(Task) /\ NoDuplicates(tmo') /\ t \notin ToSet(tmo')
      /\ ToSet(tmo) = {t} \cup ToSet(tmo')
  BY <1>1, TailFacts DEF KernelFacts, ListInv
<1>3. \A u \in Task : WakesOf(u) = {}
  <2>1. ToSet(todo) = {Head(todo)} \cup ToSet(Tail(todo)) /\ \A c \in ToSet(Tail(todo)) : FALSE
    BY <1>1, HeadGone DEF KernelFacts
  <2> QED BY <1>1, <2>1 DEF WakesOf, WakeOps
<1>4. /\ waitQ' \in [WaitObj -> Seq(Task)] /\ \A p \in WaitObj : NoDuplicates(waitQ'[p])
      /\ \A u \in Task \ {t} : OnQueues(u)' = OnQueues(u)
      /\ OnQueues(t)' = IF ttype[t] = "BLOCKING" THEN OnQueues(t) \ {wqp[t]} ELSE OnQueues(t)
  <2>1. CASE ttype[t] = "BLOCKING"
    <3>1. waitQ' = [waitQ EXCEPT ![wqp[t]] = kTCBQRem(@, t)]
      BY <2>1 DEF TimeoutExpire
    <3> QED BY <1>2, <2>1, <3>1, QueueLoses DEF KernelFacts
  <2>2. CASE ttype[t] # "BLOCKING"
    <3>1. waitQ' = waitQ
      BY <2>2 DEF TimeoutExpire
    <3> QED BY <2>2, <3>1 DEF KernelFacts, ListInv, OnQueues
  <2> QED BY <2>1, <2>2
<1> DEFINE walks == IF ttype[t] = "BLOCKING" THEN WaiterRemoved(t) ELSE <<>>
           c == [op |-> "timeoutReady", task |-> t]
           d == HandleTimeoutsOf(TRUE)
<1>5. todo' = walks \o <<c, d>> /\ WalkList(walks) /\ OneWake(<<c, d>>)
  <2>1. WalkList(<<>>) /\ WalkList(WaiterRemoved(t))
    BY WalkListKinds DEF KernelFacts
  <2>2. todo' = walks \o <<c, d>>
    BY DEF TimeoutExpire
  <2> QED BY <2>1, <2>2, OneWakeShort
<1>6. c \in KernelCall /\ d \in KernelCall /\ d.op = "handleTimeouts" /\ c.op = "timeoutReady"
      /\ c.task = t
  BY <1>2 DEF KernelCall, HandleTimeoutsOf
<1> HIDE DEF walks, c, d
<1>7. /\ todo' \in Seq(KernelCall) /\ OneWake(todo') /\ ToSet(todo') = ToSet(walks) \cup {c, d}
  <2> DEFINE b == <<c, d>>
  <2> HIDE DEF KernelCall
  <2>1. b \in Seq(KernelCall) /\ ToSet(b) = {c, d} /\ todo' = walks \o b /\ OneWake(b)
    BY <1>5, <1>6, SmallSequences
  <2> HIDE DEF b
  <2>2. todo' \in Seq(KernelCall)
    BY <1>5, <2>1, ConcatProperties DEF WalkList
  <2>3. OneWake(todo')
    BY <1>5, <2>1, OneWakeConcat DEF WalkList
  <2>4. ToSet(walks \o b) = ToSet(walks) \cup ToSet(b)
    BY <1>5, <2>1, ConcatSet DEF WalkList
  <2> QED BY <2>1, <2>2, <2>3, <2>4
<1>8. PendingInv' /\ WakesOf(t)' = {c} /\ \A u \in Task \ {t} : WakesOf(u)' = {}
  <2>1. \A e \in ToSet(walks) \cup {d} : e.op \notin WakeOps
    BY <1>5, <1>6 DEF WalkList, WakeOps
  <2> QED BY <1>6, <1>7, <2>1 DEF WakesOf, WakeOps, PendingInv
<1>9. DispatchInv'
  BY <1>1, DispatchFrame DEF KernelFacts, PendKept
<1>10. KernelFacts'
  BY <1>1, <1>2, <1>4, <1>8, <1>9 DEF KernelFacts, ListInv, ContinuationInv, HolderInv, LockInv
<1> QED BY <1>1, <1>2, <1>3, <1>4, <1>8, <1>10 DEF Undisturbed, Armed, c

\* A tick, its end and a context switch disturb nobody.
LEMMA QuietStep ==
  ASSUME KernelFacts, Tick \/ TickEnd \/ kSwtch
  PROVE  /\ KernelFacts' /\ \A t \in Task : Undisturbed(t)
         /\ UNCHANGED <<owner, ret>> /\ (kSwtch \/ UNCHANGED <<run, status>>)
<1>1. UNCHANGED <<waitQ, wqp, tmo, ttype, call, ret, lock, owner, mesgPrio, prio>>
  BY DEF Tick, TickEnd, kSwtch, schedVars, waitVars, timeVars, callVars, mutexVars
<1>2. /\ DispatchInv' /\ (kSwtch \/ UNCHANGED <<run, status>>)
      /\ \A t \in Task : \/ status'[t] = status[t]
                         \/ status[t] \in Awake /\ status'[t] \in Awake
  <2>1. CASE kSwtch
    <3>1. DispatchInv' /\ \A t \in Task : \/ status'[t] = status[t]
                                \/ /\ status[t] \in {"READY", "RUNNING"}
                                   /\ status'[t] \in {"READY", "RUNNING"}
      BY <2>1, DispatchSwitch DEF KernelFacts
    <3> QED BY <2>1, <3>1 DEF Awake
  <2>2. CASE Tick \/ TickEnd
    <3>1. UNCHANGED <<run, status, prio, readyQ>>
      BY <2>2 DEF Tick, TickEnd, schedVars
    <3>2. PendKept
      BY <2>2 DEF Tick, TickEnd, schedVars, PendKept, NoCtxSwtch, kDeferCtxSwtch_,
                  kPendCtxSwtchNow_
    <3>3. DispatchInv'
      BY <3>1, <3>2, DispatchFrame DEF KernelFacts
    <3> QED BY <3>1, <3>3
  <2> QED BY <2>1, <2>2
<1>3. LockInv'
  <2>1. CASE kSwtch
    <3>1. savedLock' = [savedLock EXCEPT ![run] = schLock] /\ schLock' = savedLock'[run']
      BY <2>1 DEF kSwtch
    <3> QED BY <1>2, <3>1 DEF KernelFacts, LockInv, DispatchInv
  <2>2. CASE Tick \/ TickEnd
    BY <2>2 DEF Tick, TickEnd, schedVars, KernelFacts, LockInv
  <2> QED BY <2>1, <2>2
<1>4. PendingInv' /\ \A t \in Task : WakesOf(t)' = WakesOf(t)
  <2>1. CASE kSwtch
    <3>1. todo' = todo
      BY <2>1 DEF kSwtch
    <3> QED BY <3>1 DEF KernelFacts, PendingInv, WakesOf
  <2>2. CASE TickEnd
    <3>1. todo # <<>> /\ Head(todo).op = "handleTimeouts" /\ todo' = Tail(todo)
      BY <2>2 DEF TickEnd
    <3>2. /\ Tail(todo) \in Seq(KernelCall) /\ OneWake(Tail(todo))
          /\ ToSet(todo) = {Head(todo)} \cup ToSet(Tail(todo))
      BY <3>1, HeadGone DEF KernelFacts
    <3> QED BY <3>1, <3>2 DEF PendingInv, WakesOf, WakeOps
  <2>3. CASE Tick
    <3> DEFINE c == HandleTimeoutsOf(FALSE)
    <3>1. todo = <<>> /\ todo' = <<c>> /\ c \in KernelCall /\ c.op = "handleTimeouts"
      BY <2>3 DEF Tick, HandleTimeoutsOf, KernelCall
    <3> HIDE DEF c
    <3>2. <<c>> \in Seq(KernelCall) /\ ToSet(<<c>>) = {c} /\ OneWake(<<c>>)
      <4> HIDE DEF KernelCall
      <4> QED BY <3>1, SmallSequences, OneWakeShort
    <3>3. \A t \in Task : WakesOf(t) = {}
      BY <3>1, NobodyWoken
    <3> QED BY <3>1, <3>2, <3>3 DEF PendingInv, WakesOf, WakeOps
  <2> QED BY <2>1, <2>2, <2>3
<1>5. KernelFacts'
  BY <1>1, <1>2, <1>3, <1>4 DEF KernelFacts, ListInv, ContinuationInv, HolderInv
<1> QED BY <1>1, <1>2, <1>4, <1>5 DEF Undisturbed, OnQueues, Armed

(***************************************************************************)
(* What the running task does.                                             *)
(***************************************************************************)
\* The task is READY or RUNNING, and neither waits nor is about to be woken.
AtLarge(t) ==
  status[t] \in Awake /\ OnQueues(t) = {} /\ ~Armed(t) /\ WakesOf(t) = {}

\* The running task leaves the mutexes of others alone.
OwnersKept == \A m \in Mutex : owner'[m] = owner[m] \/ owner[m] \in {run, None}

\* A user task that executes is RUNNING, in no call, and nothing is pending.
LEMMA ExecutingTask ==
  ASSUME KernelFacts, Executing
  PROVE  /\ run \in UserTask /\ run \in Task /\ run # IdleTask /\ status[run] = "RUNNING"
         /\ call[run] = NoCall /\ todo = <<>> /\ \A t : WakesOf(t) = {}
BY NobodyWoken DEF KernelFacts, DispatchInv, Executing, UserTask

\* A step that moves no task and changes no wait.
LEMMA LocalStep ==
  ASSUME KernelFacts, todo = <<>>, WalkList(todo'), PendKept, LockInv', HolderInv',
         UNCHANGED <<run, status, prio, readyQ, waitVars, tmo, ttype, call>>,
         ret' \in [Task -> FrameResult]
  PROVE  KernelFacts' /\ \A t \in Task : Undisturbed(t)
<1>1. DispatchInv'
  BY DispatchFrame DEF KernelFacts
<1>2. PendingInv' /\ \A t : WakesOf(t)' = WakesOf(t)
  BY WalksLeft
<1>3. KernelFacts'
  BY <1>1, <1>2 DEF KernelFacts, ListInv, ContinuationInv, waitVars
<1> QED BY <1>2, <1>3 DEF Undisturbed, OnQueues, Armed, waitVars

\* Mutexes that are left alone keep their owners.
LEMMA HolderSame ==
  ASSUME KernelFacts, UNCHANGED mutexVars
  PROVE  HolderInv' /\ UNCHANGED <<lock, owner, mesgPrio>>
BY DEF KernelFacts, HolderInv, mutexVars

\* A region that leaves the tasks, their waits and the scheduler lock alone.
LEMMA IdleStep ==
  ASSUME KernelFacts, todo = <<>>, ret' \in [Task -> FrameResult], PendKept, LockInv',
         UNCHANGED <<run, status, prio, readyQ, waitVars, mutexVars, timeVars, call, todo>>
  PROVE  /\ KernelFacts' /\ \A u \in Task : Undisturbed(u)
         /\ UNCHANGED <<run, status, owner, call>>
<1>1. HolderInv' /\ WalkList(todo') /\ UNCHANGED <<tmo, ttype, owner>>
  BY HolderSame, WalkListKinds DEF KernelFacts, timeVars
<1>2. KernelFacts' /\ \A u \in Task : Undisturbed(u)
  BY <1>1, LocalStep
<1> QED BY <1>1, <1>2

\* The same, when the scheduler is left alone as well.
LEMMA StillStep ==
  ASSUME KernelFacts, todo = <<>>, ret' \in [Task -> FrameResult],
         UNCHANGED <<schedVars, waitVars, mutexVars, timeVars, call, todo>>
  PROVE  /\ KernelFacts' /\ \A u \in Task : Undisturbed(u)
         /\ UNCHANGED <<run, status, owner, call>>
<1>1. PendKept /\ LockInv' /\ UNCHANGED <<run, status, prio, readyQ>>
  BY DEF schedVars, PendKept, KernelFacts, LockInv
<1> QED BY <1>1, IdleStep

\* Nothing of the kernel changes.
LEMMA KernelSame ==
  ASSUME KernelFacts, todo = <<>>, UNCHANGED kernelVars
  PROVE  /\ KernelFacts' /\ \A u \in Task : Undisturbed(u)
         /\ UNCHANGED <<run, status, owner, call, ret>>
<1>1. /\ UNCHANGED <<schedVars, waitVars, mutexVars, timeVars, call, todo>>
      /\ UNCHANGED ret /\ ret' \in [Task -> FrameResult]
  BY DEF kernelVars, callVars, KernelFacts, ContinuationInv
<1> QED BY <1>1, StillStep

\* The running task is suspended: on the queue of o, or on none.
LEMMA RunSuspends ==
  ASSUME KernelFacts, run \in UserTask, status[run] = "RUNNING", todo = <<>>, AtLarge(run),
         NEW st \in Status \ Awake, status' = [status EXCEPT ![run] = st], kPendCtxSwtch(st),
         NEW c \in Suspension, call' = [call EXCEPT ![run] = c],
         ret' \in [Task -> FrameResult],
         NEW type \in TimeoutType, NEW ticks, ArmTimeout(run, type, ticks),
         NEW o \in WaitObj \cup {None},
         IF o = None THEN waitQ' = waitQ
                     ELSE waitQ' = [waitQ EXCEPT ![o] = kTCBQEnqByPrio(@, run, prio)],
         wqp' = wqp \/ wqp' = [wqp EXCEPT ![run] = o],
         WalkList(todo'), HolderInv',
         UNCHANGED <<run, prio, readyQ, schLock, savedLock>>
  PROVE  /\ KernelFacts' /\ \A u \in Task \ {run} : Undisturbed(u)
         /\ status'[run] = st /\ call'[run] = c /\ WakesOf(run)' = {}
         /\ OnQueues(run)' = (IF o = None THEN {} ELSE {o})
         /\ Armed(run)' <=> ticks # Forever
         /\ Armed(run)' => ttype'[run] = type
<1>1. /\ run \in Task /\ run # IdleTask /\ status \in [Task -> Status] /\ call \in [Task -> Suspension]
      /\ wqp \in [Task -> WaitObj \cup {None}]
  BY DEF KernelFacts, DispatchInv, ContinuationInv, ListInv, UserTask
<1>2. DispatchInv'
  <2>1. pendSV' = TRUE
    BY DEF kPendCtxSwtch, kPendCtxSwtchNow_, Awake
  <2> QED BY <1>1, <2>1, DispatchSuspend DEF KernelFacts, Awake
<1>3. PendingInv' /\ \A t : WakesOf(t) = {} /\ WakesOf(t)' = {}
  BY WalksLeft, NobodyWoken
<1>4. /\ tmo' \in Seq(Task) /\ NoDuplicates(tmo') /\ ttype' \in [Task -> TimeoutType]
      /\ \A u \in Task \ {run} : (Armed(u)' <=> Armed(u)) /\ ttype'[u] = ttype[u]
      /\ Armed(run)' <=> ticks # Forever
      /\ Armed(run)' => ttype'[run] = type
  BY <1>1, NodeArmed DEF KernelFacts, AtLarge
<1>5. /\ waitQ' \in [WaitObj -> Seq(Task)] /\ \A p \in WaitObj : NoDuplicates(waitQ'[p])
      /\ \A u \in Task \ {run} : OnQueues(u)' = OnQueues(u)
      /\ OnQueues(run)' = (IF o = None THEN {} ELSE {o})
  <2>1. CASE o = None
    BY <2>1 DEF KernelFacts, ListInv, OnQueues, AtLarge
  <2>2. CASE o # None
    <3>1. o \in WaitObj /\ o \notin OnQueues(run) /\ OnQueues(run) = {}
      BY <2>2 DEF AtLarge
    <3>2. waitQ' = [waitQ EXCEPT ![o] = kTCBQEnqByPrio(@, run, prio)]
      BY <2>2
    <3>3. /\ waitQ' \in [WaitObj -> Seq(Task)] /\ \A p \in WaitObj : NoDuplicates(waitQ'[p])
          /\ \A u \in Task \ {run} : OnQueues(u)' = OnQueues(u)
          /\ OnQueues(run)' = OnQueues(run) \cup {o}
      BY <1>1, <3>1, <3>2, QueueGains DEF KernelFacts
    <3> QED BY <2>2, <3>1, <3>3
  <2> QED BY <2>1, <2>2
<1>6. /\ wqp' \in [Task -> WaitObj \cup {None}]
      /\ \A u \in Task \ {run} : wqp'[u] = wqp[u] /\ status'[u] = status[u] /\ call'[u] = call[u]
      /\ status'[run] = st /\ call'[run] = c
  BY <1>1
<1>7. ContinuationInv'
  BY <1>1, <1>6 DEF KernelFacts, ContinuationInv
<1>8. KernelFacts'
  BY <1>2, <1>3, <1>4, <1>5, <1>6, <1>7 DEF KernelFacts, ListInv, LockInv
<1> QED BY <1>3, <1>4, <1>5, <1>6, <1>8 DEF Undisturbed

\* A task is about to be woken: it has left its queue, and with a timed wait the
\* list of nodes.
LEMMA WakeBegins ==
  ASSUME KernelFacts, todo = <<>>, NEW t \in Task, NEW op \in WakeOps,
         \/ todo' = <<[op |-> op, task |-> t]>>
         \/ \E a : WalkList(a) /\ todo' = a \o <<[op |-> op, task |-> t]>>,
         waitQ' \in [WaitObj -> Seq(Task)], \A p \in WaitObj : NoDuplicates(waitQ'[p]),
         \A u \in Task \ {t} : OnQueues(u)' = OnQueues(u),
         DisarmTimeout(t) \/ UNCHANGED timeVars,
         wqp' = wqp \/ wqp' = [wqp EXCEPT ![t] = None],
         UNCHANGED <<schedVars, call>>, ret' \in [Task -> FrameResult], HolderInv'
  PROVE  /\ KernelFacts' /\ \A u \in Task \ {t} : Undisturbed(u)
         /\ WakesOf(t) = {} /\ WakesOf(t)' = {[op |-> op, task |-> t]}
         /\ DisarmTimeout(t) => ~Armed(t)'
         /\ UNCHANGED timeVars => (Armed(t)' <=> Armed(t))
<1>1. UNCHANGED <<run, status, prio, readyQ, schLock, savedLock, pendSV>>
  BY DEF schedVars
<1>2. DispatchInv'
  BY <1>1, DispatchFrame DEF KernelFacts, PendKept
<1>3. /\ PendingInv' /\ WakesOf(t)' = {[op |-> op, task |-> t]} /\ WakesOf(t) = {}
      /\ \A u \in Task \ {t} : WakesOf(u)' = WakesOf(u)
  BY WakeLeft, OnlyWakeLeft
<1>4. /\ tmo' \in Seq(Task) /\ NoDuplicates(tmo') /\ ttype' \in [Task -> TimeoutType]
      /\ \A u \in Task \ {t} : (Armed(u)' <=> Armed(u)) /\ ttype'[u] = ttype[u]
      /\ DisarmTimeout(t) => ~Armed(t)'
      /\ UNCHANGED timeVars => (Armed(t)' <=> Armed(t))
  <2>1. CASE DisarmTimeout(t)
    BY <2>1, NodeDisarmed DEF KernelFacts, Armed, timeVars
  <2>2. CASE UNCHANGED timeVars
    <3>1. UNCHANGED <<tmo, ttype>> /\ (DisarmTimeout(t) => ~Armed(t)')
      BY <2>2, NodeDisarmed DEF KernelFacts, timeVars
    <3> QED BY <3>1, NodesSame DEF KernelFacts
  <2> QED BY <2>1, <2>2
<1>5. wqp' \in [Task -> WaitObj \cup {None}] /\ \A u \in Task \ {t} : wqp'[u] = wqp[u]
  BY DEF KernelFacts, ListInv
<1>6. KernelFacts'
  BY <1>1, <1>2, <1>3, <1>4, <1>5 DEF KernelFacts, ListInv, ContinuationInv, LockInv
<1> QED BY <1>1, <1>3, <1>4, <1>5, <1>6 DEF Undisturbed

\* The scheduler lock, and a yield without it.
LEMMA LockCountStep ==
  ASSUME KernelFacts, kSchLock \/ kSchUnlock \/ (kYield /\ schLock = 0)
  PROVE  /\ KernelFacts' /\ \A t \in Task : Undisturbed(t)
         /\ ret'[run].number = "NONE" /\ \A u \in Task \ {run} : ret'[u] = ret[u]
         /\ UNCHANGED <<run, owner, call>>
<1>1. Executing /\ Returns("NONE", None, "SUCCESS")
  BY DEF kSchLock, kSchUnlock, kYield
<1>2. run \in Task /\ status[run] = "RUNNING" /\ todo = <<>>
  BY <1>1, ExecutingTask
<1>3. /\ ret' \in [Task -> FrameResult] /\ ret'[run].number = "NONE"
      /\ \A u \in Task \ {run} : ret'[u] = ret[u]
  <2>1. "NONE" \in ResultNumber /\ None \in WaitObj \cup {None} /\ "SUCCESS" \in Err
    BY DEF ResultNumber, CallNumber, Err
  <2> QED BY <1>1, <1>2, <2>1, CallAnswered DEF KernelFacts
<1>4. UNCHANGED <<run, prio, waitVars, lock, owner, mesgPrio, tmo, ttype, call, todo>>
  BY DEF kSchLock, kSchUnlock, kYield, mutexVars, timeVars
<1>5. HolderInv' /\ WalkList(todo')
  BY <1>2, <1>4, WalkListKinds DEF KernelFacts, HolderInv
<1>6. CASE kSchLock \/ kSchUnlock
  <2>1. UNCHANGED <<status, readyQ>> /\ PendKept
    BY <1>6 DEF kSchLock, kSchUnlock, PendKept, NoCtxSwtch, kPendCtxSwtchNow_
  <2>2. LockInv'
    <3>1. schLock' \in Nat /\ savedLock' = [savedLock EXCEPT ![run] = schLock']
      BY <1>6 DEF kSchLock, kSchUnlock, KernelFacts, LockInv
    <3> QED BY <1>2, <3>1 DEF KernelFacts, LockInv
  <2> QED BY <1>2, <1>3, <1>4, <1>5, <2>1, <2>2, LocalStep
<1>7. CASE kYield /\ schLock = 0
  <2>1. /\ readyQ' = [readyQ EXCEPT ![prio[run]] = kTCBQEnq(@, run)]
        /\ status' = [status EXCEPT ![run] = "READY"] /\ pendSV' = TRUE
        /\ UNCHANGED <<schLock, savedLock>>
    BY <1>7 DEF kYield, kPendCtxSwtchNow_
  <2>2. DispatchInv'
    BY <1>2, <1>4, <2>1, DispatchYield DEF KernelFacts
  <2>3. \A t \in Task : \/ status'[t] = status[t]
                        \/ status[t] \in Awake /\ status'[t] \in Awake
    BY <1>2, <2>1 DEF KernelFacts, DispatchInv, Awake
  <2>4. PendingInv' /\ \A t : WakesOf(t)' = WakesOf(t)
    BY <1>2, <1>5, WalksLeft
  <2>5. KernelFacts'
    BY <1>3, <1>4, <1>5, <2>1, <2>2, <2>4 DEF KernelFacts, ListInv, ContinuationInv, LockInv, waitVars
  <2> QED BY <1>3, <1>4, <2>3, <2>4, <2>5 DEF Undisturbed, OnQueues, Armed, waitVars
<1> QED BY <1>3, <1>4, <1>6, <1>7

\* A task sleeps for some ticks, or suspends itself.
LEMMA RestStep ==
  ASSUME KernelFacts, AtLarge(run), NEW ticks, kSleepDelay(ticks) \/ kTaskSelfSuspend
  PROVE  /\ KernelFacts' /\ \A u \in Task \ {run} : Undisturbed(u) /\ ret'[u] = ret[u]
         /\ OnQueues(run)' = {} /\ WakesOf(run)' = {} /\ wqp'[run] = wqp[run]
         /\ \/ status'[run] = "SLEEPING_DELAY" /\ (Armed(run)' => ttype'[run] = "TIME_EVENT")
            \/ status'[run] = "SELF_SUSPENDED" /\ ~Armed(run)'
         /\ call'[run].number \in {"SLEEP_DELAY", "TASK_SELF_SUSPEND"}
         /\ ret'[run].number \in {"SLEEP_DELAY", "TASK_SELF_SUSPEND"}
         /\ UNCHANGED <<run, owner>>
<1> DEFINE delay == kSleepDelay(ticks)
           st == IF delay THEN "SLEEPING_DELAY" ELSE "SELF_SUSPENDED"
           num == IF delay THEN "SLEEP_DELAY" ELSE "TASK_SELF_SUSPEND"
           type == IF delay THEN "TIME_EVENT" ELSE "NONE"
           time == IF delay THEN ticks ELSE Forever
           c == [NoCall EXCEPT !.number = num, !.phase = "WAIT"]
<1>1. Executing
  BY DEF kSleepDelay, kTaskSelfSuspend
<1>2. /\ run \in UserTask /\ run \in Task /\ status[run] = "RUNNING" /\ todo = <<>>
      /\ call[run] = NoCall
  BY <1>1, ExecutingTask
<1>3. /\ st \in Status \ Awake /\ num \in CallNumber /\ num \in ResultNumber
      /\ num \in {"SLEEP_DELAY", "TASK_SELF_SUSPEND"} /\ type \in TimeoutType
      /\ None \in WaitObj \cup {None} /\ "RESTART" \in Err
  BY DEF Status, Awake, CallNumber, ResultNumber, TimeoutType, Err
<1>4. /\ status' = [status EXCEPT ![run] = st] /\ kPendCtxSwtch(st)
      /\ ArmTimeout(run, type, time) /\ Returns(num, None, "RESTART")
      /\ UNCHANGED <<run, prio, readyQ, schLock, savedLock, waitVars, lock, owner, mesgPrio, todo>>
  <2>1. CASE delay
    BY <2>1 DEF kSleepDelay, mutexVars
  <2>2. CASE ~delay
    BY <2>2 DEF kTaskSelfSuspend, mutexVars, ArmTimeout
  <2> QED BY <2>1, <2>2
<1>5. call' = [call EXCEPT ![run] = c]
  <2>1. call' = [call EXCEPT ![run].number = num, ![run].phase = "WAIT"]
    BY DEF kSleepDelay, kTaskSelfSuspend
  <2>2. call \in [Task -> Suspension]
    BY DEF KernelFacts, ContinuationInv
  <2> QED BY <1>2, <2>1, <2>2
<1>6. c \in Suspension /\ c.number = num
  <2> HIDE DEF num
  <2> QED BY <1>3 DEF NoCall, Suspension, CallPhase, Err
<1>7. \/ st = "SLEEPING_DELAY" /\ type = "TIME_EVENT"
      \/ st = "SELF_SUSPENDED" /\ time = Forever
  <2>1. CASE delay
    BY <2>1
  <2>2. CASE ~delay
    BY <2>2
  <2> QED BY <2>1, <2>2
<1> HIDE DEF st, num, type, time, c, delay
<1>8. /\ ret' \in [Task -> FrameResult] /\ ret'[run].number = num
      /\ \A u \in Task \ {run} : ret'[u] = ret[u]
  BY <1>2, <1>3, <1>4, CallAnswered DEF KernelFacts
<1>9. HolderInv' /\ WalkList(todo') /\ wqp' = wqp /\ waitQ' = waitQ
  BY <1>2, <1>4, WalkListKinds DEF KernelFacts, HolderInv, waitVars
<1> DEFINE o == None
<1>10. /\ o \in WaitObj \cup {None}
       /\ IF o = None THEN waitQ' = waitQ
                      ELSE waitQ' = [waitQ EXCEPT ![o] = kTCBQEnqByPrio(@, run, prio)]
  BY <1>9
<1>11. o = None
  OBVIOUS
<1> HIDE DEF o
<1>12. /\ KernelFacts' /\ \A u \in Task \ {run} : Undisturbed(u)
       /\ status'[run] = st /\ call'[run] = c /\ WakesOf(run)' = {}
       /\ OnQueues(run)' = (IF o = None THEN {} ELSE {o})
       /\ Armed(run)' <=> time # Forever
       /\ Armed(run)' => ttype'[run] = type
  BY <1>2, <1>3, <1>4, <1>5, <1>6, <1>8, <1>9, <1>10, RunSuspends
<1> QED BY <1>3, <1>4, <1>6, <1>7, <1>8, <1>9, <1>11, <1>12 DEF AtLarge

\* A suspended task is resumed.
LEMMA ResumeStep ==
  ASSUME KernelFacts, NEW t \in Task, kTaskResume(t)
  PROVE  /\ KernelFacts' /\ \A u \in Task \ {t} : Undisturbed(u)
         /\ WakesOf(t) = {} /\ WakesOf(t)' = {[op |-> "ready", task |-> t]}
         /\ status[t] = "SELF_SUSPENDED" /\ t # run
         /\ OnQueues(t)' = OnQueues(t) /\ (Armed(t)' <=> Armed(t))
         /\ ret'[run].number = "NONE" /\ \A u \in Task \ {run} : ret'[u] = ret[u]
         /\ UNCHANGED <<run, status, owner, call, wqp, ttype>>
<1>1. Executing /\ Returns("NONE", None, "SUCCESS") /\ t # run /\ status[t] = "SELF_SUSPENDED"
  BY DEF kTaskResume
<1>2. run \in Task /\ todo = <<>>
  BY <1>1, ExecutingTask
<1>3. /\ ret' \in [Task -> FrameResult] /\ ret'[run].number = "NONE"
      /\ \A u \in Task \ {run} : ret'[u] = ret[u]
  <2>1. "NONE" \in ResultNumber /\ None \in WaitObj \cup {None} /\ "SUCCESS" \in Err
    BY DEF ResultNumber, CallNumber, Err
  <2> QED BY <1>1, <1>2, <2>1, CallAnswered DEF KernelFacts
<1>4. todo' = <<[op |-> "ready", task |-> t]>> /\ "ready" \in WakeOps
  BY DEF kTaskResume, ReadySwtchOf, WakeOps
<1>5. UNCHANGED <<schedVars, run, status, waitQ, wqp, lock, owner, mesgPrio, timeVars, ttype, call>>
  BY DEF kTaskResume, schedVars, waitVars, mutexVars, timeVars
<1>6. /\ HolderInv' /\ waitQ' \in [WaitObj -> Seq(Task)] /\ \A p \in WaitObj : NoDuplicates(waitQ'[p])
      /\ \A u \in Task : OnQueues(u)' = OnQueues(u)
  BY <1>5 DEF KernelFacts, HolderInv, ListInv, OnQueues
<1>7. /\ KernelFacts' /\ \A u \in Task \ {t} : Undisturbed(u)
      /\ WakesOf(t) = {} /\ WakesOf(t)' = {[op |-> "ready", task |-> t]}
      /\ UNCHANGED timeVars => (Armed(t)' <=> Armed(t))
  BY <1>2, <1>3, <1>4, <1>5, <1>6, WakeBegins
<1> QED BY <1>1, <1>3, <1>5, <1>6, <1>7

\* A signal takes a task off the queue its node names.
LEMMA SignalledStep ==
  ASSUME KernelFacts, NEW t \in Task, kTaskSignalReady(t)
  PROVE  /\ KernelFacts' /\ \A u \in Task \ {t} : Undisturbed(u)
         /\ WakesOf(t) = {} /\ WakesOf(t)' = {[op |-> "signalReady", task |-> t]}
         /\ status[t] \in Interruptible /\ t # run
         /\ OnQueues(t)' = OnQueues(t) \ {wqp[t]}
         /\ ret'[run].number = "NONE" /\ \A u \in Task \ {run} : ret'[u] = ret[u]
         /\ UNCHANGED <<run, status, owner, call, wqp, ttype>>
<1>1. Executing /\ Returns("NONE", None, "SUCCESS") /\ status[t] \in Interruptible
  BY DEF kTaskSignalReady
<1>2. run \in Task /\ todo = <<>> /\ status[run] = "RUNNING"
  BY <1>1, ExecutingTask
<1>3. /\ ret' \in [Task -> FrameResult] /\ ret'[run].number = "NONE"
      /\ \A u \in Task \ {run} : ret'[u] = ret[u]
  <2>1. "NONE" \in ResultNumber /\ None \in WaitObj \cup {None} /\ "SUCCESS" \in Err
    BY DEF ResultNumber, CallNumber, Err
  <2> QED BY <1>1, <1>2, <2>1, CallAnswered DEF KernelFacts
<1> DEFINE a == IF wqp[t] # None THEN WaiterRemoved(t) ELSE <<>>
<1>4. todo' = a \o <<[op |-> "signalReady", task |-> t]>> /\ WalkList(a) /\ "signalReady" \in WakeOps
  <2>1. WalkList(<<>>) /\ WalkList(WaiterRemoved(t))
    BY WalkListKinds DEF KernelFacts
  <2>2. todo' = a \o <<[op |-> "signalReady", task |-> t]>>
    BY DEF kTaskSignalReady
  <2> QED BY <2>1, <2>2 DEF WakeOps
<1> HIDE DEF a
<1>5. UNCHANGED <<schedVars, run, status, wqp, lock, owner, mesgPrio, timeVars, ttype, call>>
  BY DEF kTaskSignalReady, schedVars, mutexVars, timeVars
<1>6. /\ waitQ' \in [WaitObj -> Seq(Task)] /\ \A p \in WaitObj : NoDuplicates(waitQ'[p])
      /\ \A u \in Task \ {t} : OnQueues(u)' = OnQueues(u)
      /\ OnQueues(t)' = OnQueues(t) \ {wqp[t]}
  <2>1. CASE wqp[t] # None
    <3>1. waitQ' = [waitQ EXCEPT ![wqp[t]] = kTCBQRem(@, t)]
      BY <2>1 DEF kTaskSignalReady
    <3> QED BY <3>1, QueueLoses DEF KernelFacts
  <2>2. CASE wqp[t] = None
    <3>1. waitQ' = waitQ /\ None \notin WaitObj
      BY <2>2, KernelConstants DEF kTaskSignalReady, WaitObj
    <3> QED BY <2>2, <3>1 DEF KernelFacts, ListInv, OnQueues
  <2> QED BY <2>1, <2>2
<1>7. HolderInv'
  BY <1>5 DEF KernelFacts, HolderInv
<1>8. /\ KernelFacts' /\ \A u \in Task \ {t} : Undisturbed(u)
      /\ WakesOf(t) = {} /\ WakesOf(t)' = {[op |-> "signalReady", task |-> t]}
  BY <1>2, <1>3, <1>4, <1>5, <1>6, <1>7, WakeBegins
<1>9. t # run
  BY <1>1, <1>2 DEF Interruptible
<1> QED BY <1>1, <1>3, <1>5, <1>6, <1>8, <1>9

\* The running task takes a mutex nobody has.
LEMMA MutexTaken ==
  ASSUME HolderInv, run \in Task, NEW m \in Mutex, ~lock[m], OwnMutex(m)
  PROVE  HolderInv' /\ OwnersKept /\ owner'[m] = run
<1>1. /\ lock' = [lock EXCEPT ![m] = TRUE] /\ owner' = [owner EXCEPT ![m] = run]
      /\ mesgPrio' = mesgPrio
  BY DEF OwnMutex
<1>2. owner[m] = None
  BY DEF HolderInv
<1> QED BY <1>1, <1>2 DEF HolderInv, OwnersKept

\* The running task waits for a mutex.
LEMMA MutexWaitStep ==
  ASSUME KernelFacts, run \in UserTask, status[run] = "RUNNING", todo = <<>>, AtLarge(run),
         NEW m \in Mutex, NEW timeout, NEW c \in Suspension, WaitForMutex(m, timeout, c)
  PROVE  /\ KernelFacts' /\ \A u \in Task \ {run} : Undisturbed(u) /\ ret'[u] = ret[u]
         /\ status'[run] = "BLOCKED" /\ OnQueues(run)' = {m} /\ WakesOf(run)' = {}
         /\ wqp'[run] = m /\ call'[run] = c
         /\ Armed(run)' => ttype'[run] = "BLOCKING"
         /\ ret'[run].number = c.number /\ ret'[run].err = "RESTART"
         /\ UNCHANGED <<run, owner>>
<1>1. /\ run \in Task /\ m \in WaitObj /\ m # None
      /\ wqp \in [Task -> WaitObj \cup {None}]
  BY KernelConstants DEF UserTask, WaitObj, KernelFacts, ListInv
<1>2. /\ lock[m] /\ owner[m] \notin {run, None} /\ ArmTimeout(run, "BLOCKING", timeout)
      /\ wqp' = [wqp EXCEPT ![run] = m]
      /\ waitQ' = [waitQ EXCEPT ![m] = kTCBQEnqByPrio(@, run, prio)]
      /\ status' = [status EXCEPT ![run] = "BLOCKED"]
      /\ todo' = IF m \in Inherit THEN <<UpdatePrioOf(owner[m])>> ELSE <<>>
      /\ call' = [call EXCEPT ![run] = c]
      /\ Returns(c.number, c.arg, "RESTART")
      /\ kPendCtxSwtch("BLOCKED")
      /\ UNCHANGED <<run, prio, readyQ, schLock, savedLock, lock, owner, mesgPrio>>
  BY DEF WaitForMutex
<1>3. /\ "BLOCKED" \in Status \ Awake /\ "BLOCKING" \in TimeoutType /\ "RESTART" \in Err
      /\ c.number \in ResultNumber /\ c.arg \in WaitObj \cup {None}
  BY DEF Status, Awake, TimeoutType, Err, Suspension, ResultNumber
<1>4. /\ ret' \in [Task -> FrameResult] /\ ret'[run].number = c.number
      /\ ret'[run].err = "RESTART" /\ \A u \in Task \ {run} : ret'[u] = ret[u]
  BY <1>1, <1>2, <1>3, CallAnswered DEF KernelFacts
<1>5. WalkList(todo')
  <2>1. owner[m] \in Task
    BY <1>2 DEF KernelFacts, HolderInv
  <2>2. WalkList(<<UpdatePrioOf(owner[m])>>) /\ WalkList(<<>>)
    BY <2>1, WalkListKinds DEF KernelFacts
  <2> QED BY <1>2, <2>2
<1>6. HolderInv'
  BY <1>2 DEF KernelFacts, HolderInv
<1>7. IF m = None THEN waitQ' = waitQ
                  ELSE waitQ' = [waitQ EXCEPT ![m] = kTCBQEnqByPrio(@, run, prio)]
  BY <1>1, <1>2
<1>8. /\ KernelFacts' /\ \A u \in Task \ {run} : Undisturbed(u)
      /\ status'[run] = "BLOCKED" /\ call'[run] = c /\ WakesOf(run)' = {}
      /\ OnQueues(run)' = (IF m = None THEN {} ELSE {m})
      /\ Armed(run)' <=> timeout # Forever
      /\ Armed(run)' => ttype'[run] = "BLOCKING"
  BY <1>1, <1>2, <1>3, <1>4, <1>5, <1>6, <1>7, RunSuspends
<1> QED BY <1>1, <1>2, <1>4, <1>8

\* A call to lock a mutex.
LEMMA MutexLockStep ==
  ASSUME KernelFacts, AtLarge(run), NEW m \in Mutex, NEW timeout, kMutexLock(m, timeout)
  PROVE  /\ KernelFacts' /\ \A u \in Task \ {run} : Undisturbed(u) /\ ret'[u] = ret[u]
         /\ ret'[run].number = "MUTEX_LOCK" /\ OwnersKept /\ run' = run
         /\ \/ Undisturbed(run)
            \/ /\ status'[run] = "BLOCKED" /\ OnQueues(run)' = {m} /\ WakesOf(run)' = {}
               /\ wqp'[run] = m /\ call'[run].number = "MUTEX_LOCK"
               /\ Armed(run)' => ttype'[run] = "BLOCKING"
<1>1. /\ run \in UserTask /\ run \in Task /\ status[run] = "RUNNING" /\ todo = <<>>
  BY ExecutingTask DEF kMutexLock
<1>2. CASE LockBlock(m, timeout)
  <2> DEFINE c == [number |-> "MUTEX_LOCK", arg |-> m, phase |-> "WAIT", wake |-> "SUCCESS"]
  <2>1. WaitForMutex(m, timeout, c)
    BY <1>2 DEF LockBlock
  <2>2. c \in Suspension /\ c.number = "MUTEX_LOCK"
    BY DEF Suspension, CallNumber, WakeResultCall, CallPhase, Err, WaitObj
  <2> HIDE DEF c
  <2>3. /\ KernelFacts' /\ \A u \in Task \ {run} : Undisturbed(u) /\ ret'[u] = ret[u]
        /\ status'[run] = "BLOCKED" /\ OnQueues(run)' = {m} /\ WakesOf(run)' = {}
        /\ wqp'[run] = m /\ call'[run] = c
        /\ Armed(run)' => ttype'[run] = "BLOCKING"
        /\ ret'[run].number = c.number
        /\ UNCHANGED <<run, owner>>
    BY <1>1, <2>1, <2>2, MutexWaitStep
  <2> QED BY <2>2, <2>3 DEF OwnersKept
<1>3. CASE LockFaulted(m) \/ LockFree(m) \/ LockNoWait(m, timeout)
  <2>1. /\ UNCHANGED <<run, status, prio, readyQ, schLock, savedLock, pendSV, waitVars, tmo, ttype,
                       call, todo, mesgPrio>>
        /\ LockReturns(m, "OWNER_FAULTED") \/ LockReturns(m, "SUCCESS") \/ LockReturns(m, "NOWAIT")
    BY <1>3 DEF LockFaulted, LockFree, LockNoWait, TakeMutex, OwnMutex, schedVars, mutexVars, timeVars
  <2>2. /\ ret' \in [Task -> FrameResult] /\ ret'[run].number = "MUTEX_LOCK"
        /\ \A u \in Task \ {run} : ret'[u] = ret[u]
    <3>1. /\ "MUTEX_LOCK" \in ResultNumber /\ m \in WaitObj \cup {None}
          /\ {"OWNER_FAULTED", "SUCCESS", "NOWAIT"} \subseteq Err
      BY DEF ResultNumber, CallNumber, WakeResultCall, Err, WaitObj
    <3>2. PICK e \in Err : Returns("MUTEX_LOCK", m, e)
      BY <2>1, <3>1 DEF LockReturns
    <3> QED BY <1>1, <3>1, <3>2, CallAnswered DEF KernelFacts
  <2>3. HolderInv' /\ OwnersKept
    <3>1. CASE LockFree(m)
      BY <1>1, <3>1, MutexTaken DEF LockFree, TakeMutex, KernelFacts
    <3>2. CASE LockFaulted(m) \/ LockNoWait(m, timeout)
      <4>1. UNCHANGED <<lock, owner, mesgPrio>>
        BY <3>2 DEF LockFaulted, LockNoWait, mutexVars
      <4> QED BY <4>1 DEF KernelFacts, HolderInv, OwnersKept
    <3> QED BY <1>3, <3>1, <3>2
  <2>4. LockInv' /\ PendKept /\ WalkList(todo')
    BY <1>1, <2>1, WalkListKinds DEF KernelFacts, LockInv, PendKept
  <2>5. KernelFacts' /\ \A u \in Task : Undisturbed(u)
    BY <1>1, <2>1, <2>2, <2>3, <2>4, LocalStep
  <2> QED BY <1>1, <2>1, <2>2, <2>3, <2>5
<1> QED BY <1>2, <1>3 DEF kMutexLock

\* The task t is taken off the queue of o to be made ready; its node is reset
\* when its wait was timed.
Released(t, o) ==
  /\ t \in Task /\ o \in OnQueues(t) /\ OnQueues(t)' = OnQueues(t) \ {o}
  /\ WakesOf(t) = {} /\ WakesOf(t)' = {[op |-> "ready", task |-> t]}
  /\ ttype[t] = "BLOCKING" => ~Armed(t)' /\ wqp'[t] = None
  /\ ttype[t] # "BLOCKING" => (Armed(t)' <=> Armed(t))
  /\ wqp'[t] \in {wqp[t], None}
  /\ status'[t] = status[t] /\ call'[t] = call[t]
  /\ \A u \in Task \ {t} : Undisturbed(u)

\* The owner gives up a mutex: to nobody, or to a waiter.
LEMMA UnlockStep ==
  ASSUME KernelFacts, run \in Task, todo = <<>>, NEW m \in Mutex, owner[m] = run,
         UnlockFree(m) \/ UnlockHandOff(m), UNCHANGED <<schedVars, mesgPrio, call>>,
         ret' \in [Task -> FrameResult]
  PROVE  /\ KernelFacts' /\ OwnersKept
         /\ \/ \A u \in Task : Undisturbed(u)
            \/ \E w \in Task : Released(w, m) /\ wqp'[w] = None /\ owner'[m] = w
<1>1. UNCHANGED <<run, status, prio, readyQ, schLock, savedLock, pendSV>>
  BY DEF schedVars
<1>2. CASE UnlockFree(m)
  <2>1. /\ lock' = [lock EXCEPT ![m] = FALSE] /\ owner' = [owner EXCEPT ![m] = None]
        /\ todo' = IF m \in Inherit THEN <<UpdatePrioOf(run)>> ELSE <<>>
        /\ UNCHANGED <<waitVars, tmo, ttype>>
    BY <1>2 DEF UnlockFree, FreeMutex, timeVars
  <2>2. HolderInv' /\ OwnersKept
    BY <2>1 DEF KernelFacts, HolderInv, OwnersKept
  <2>3. WalkList(todo')
    BY <2>1, WalkListKinds DEF KernelFacts
  <2>4. LockInv' /\ PendKept
    BY <1>1 DEF KernelFacts, LockInv, PendKept
  <2>5. KernelFacts' /\ \A u \in Task : Undisturbed(u)
    BY <1>1, <2>1, <2>2, <2>3, <2>4, LocalStep
  <2> QED BY <2>2, <2>5
<1>3. CASE UnlockHandOff(m)
  <2>0. PICK w \in Task : w = Head(waitQ[m])
    <3>1. waitQ[m] # <<>> /\ waitQ[m] \in Seq(Task)
      BY <1>3 DEF UnlockHandOff, KernelFacts, ListInv, WaitObj
    <3> QED BY <3>1, TailFacts
  <2> DEFINE a == IF m \in Inherit THEN <<UpdatePrioOf(run), UpdatePrioOf(w)>> ELSE <<>>
  <2>1. /\ waitQ[m] # <<>> /\ waitQ' = [waitQ EXCEPT ![m] = Tail(@)]
        /\ IF ttype[w] = "BLOCKING" THEN DisarmTimeout(w) ELSE UNCHANGED timeVars
        /\ wqp' = [wqp EXCEPT ![w] = None] /\ owner' = [owner EXCEPT ![m] = w]
        /\ lock' = [lock EXCEPT ![m] = TRUE]
        /\ todo' = a \o <<[op |-> "ready", task |-> w]>>
    BY <1>3, <2>0 DEF UnlockHandOff, ReadySwtchOf
  <2>2. /\ w \in Task /\ m \in OnQueues(w)
        /\ waitQ' \in [WaitObj -> Seq(Task)] /\ \A p \in WaitObj : NoDuplicates(waitQ'[p])
        /\ \A u \in Task \ {w} : OnQueues(u)' = OnQueues(u)
        /\ OnQueues(w)' = OnQueues(w) \ {m}
    <3>1. m \in WaitObj
      BY DEF WaitObj
    <3> HIDE DEF a
    <3> QED BY <2>0, <2>1, <3>1, HeadLeaves DEF KernelFacts
  <2>3. HolderInv' /\ OwnersKept
    <3> HIDE DEF a
    <3> QED BY <2>1, <2>2 DEF KernelFacts, HolderInv, OwnersKept
  <2>4. WalkList(a) /\ "ready" \in WakeOps
    BY <2>2, WalkListKinds DEF KernelFacts, WakeOps
  <2> HIDE DEF a
  <2>5. /\ KernelFacts' /\ \A u \in Task \ {w} : Undisturbed(u)
        /\ WakesOf(w) = {} /\ WakesOf(w)' = {[op |-> "ready", task |-> w]}
        /\ DisarmTimeout(w) => ~Armed(w)'
        /\ UNCHANGED timeVars => (Armed(w)' <=> Armed(w))
    <3>1. DisarmTimeout(w) \/ UNCHANGED timeVars
      BY <2>1
    <3> QED BY <2>1, <2>2, <2>3, <2>4, <3>1, WakeBegins
  <2>6. wqp'[w] = None /\ owner'[m] = w
    BY <2>1, <2>2 DEF KernelFacts, ListInv, HolderInv
  <2>7. Released(w, m)
    BY <1>1, <2>1, <2>2, <2>5, <2>6 DEF Released
  <2> QED BY <2>2, <2>3, <2>5, <2>6, <2>7
<1> QED BY <1>2, <1>3

\* The head of a queue is woken.
LEMMA WakeHeadStep ==
  ASSUME KernelFacts, todo = <<>>, NEW o \in WaitObj, waitQ[o] # <<>>, WakeHead(o),
         UNCHANGED <<schedVars, lock, owner, mesgPrio, call>>, ret' \in [Task -> FrameResult]
  PROVE  KernelFacts' /\ \E w \in Task : Released(w, o)
<1>0. PICK w \in Task : w = Head(waitQ[o])
  BY TailFacts DEF KernelFacts, ListInv
<1>1. /\ waitQ' = [waitQ EXCEPT ![o] = Tail(@)]
      /\ IF ttype[w] = "BLOCKING"
         THEN DisarmTimeout(w) /\ wqp' = [wqp EXCEPT ![w] = None]
         ELSE UNCHANGED <<timeVars, wqp>>
      /\ todo' = <<[op |-> "ready", task |-> w]>> /\ "ready" \in WakeOps
  BY <1>0 DEF WakeHead, ReadySwtchOf, WakeOps
<1>2. /\ w \in Task /\ o \in OnQueues(w)
      /\ waitQ' \in [WaitObj -> Seq(Task)] /\ \A p \in WaitObj : NoDuplicates(waitQ'[p])
      /\ \A u \in Task \ {w} : OnQueues(u)' = OnQueues(u)
      /\ OnQueues(w)' = OnQueues(w) \ {o}
  BY <1>0, <1>1, HeadLeaves DEF KernelFacts
<1>3. HolderInv'
  BY DEF KernelFacts, HolderInv
<1>4. /\ KernelFacts' /\ \A u \in Task \ {w} : Undisturbed(u)
      /\ WakesOf(w) = {} /\ WakesOf(w)' = {[op |-> "ready", task |-> w]}
      /\ DisarmTimeout(w) => ~Armed(w)'
      /\ UNCHANGED timeVars => (Armed(w)' <=> Armed(w))
  <2>1. DisarmTimeout(w) \/ UNCHANGED timeVars
    BY <1>1 DEF timeVars
  <2>2. wqp' = wqp \/ wqp' = [wqp EXCEPT ![w] = None]
    BY <1>1
  <2> QED BY <1>1, <1>2, <1>3, <2>1, <2>2, WakeBegins
<1>5. /\ ttype[w] = "BLOCKING" => ~Armed(w)' /\ wqp'[w] = None
      /\ ttype[w] # "BLOCKING" => (Armed(w)' <=> Armed(w))
      /\ wqp'[w] \in {wqp[w], None} /\ status'[w] = status[w] /\ call'[w] = call[w]
  <2>1. wqp \in [Task -> WaitObj \cup {None}] /\ status' = status
    BY DEF KernelFacts, ListInv, schedVars
  <2> QED BY <1>1, <1>2, <1>4, <2>1 DEF timeVars
<1> QED BY <1>2, <1>4, <1>5 DEF Released

(***************************************************************************)
(* The initial state.                                                      *)
(***************************************************************************)
\* The most urgent user task exists.
LEMMA FirstRunType ==
  /\ FirstRun \in UserTask
  /\ \A u \in UserTask : NominalPrio[FirstRun] <= NominalPrio[u]
<1> DEFINE P == {NominalPrio[t] : t \in UserTask}
<1>1. P \in SUBSET Nat /\ P # {}
  BY KernelConstants DEF UserTask
<1>2. \E p \in P : \A q \in P : p <= q
  <2> HIDE DEF P
  <2> QED BY <1>1, LeastExists
<1>3. \E t \in UserTask : \A u \in UserTask : NominalPrio[t] <= NominalPrio[u]
  BY <1>2
<1> QED BY <1>3 DEF FirstRun

\* kInit leaves every task but the running one in its ready queue.
LEMMA InitDispatch ==
  ASSUME Init
  PROVE  DispatchInv
<1>1. /\ run = FirstRun /\ prio = NominalPrio /\ ~pendSV
      /\ status = [t \in Task |-> CASE t = FirstRun -> "RUNNING"
                                    [] t = PostProc -> "SLEEPING_EV_FLAG"
                                    [] OTHER -> "READY"]
      /\ readyQ = [p \in Prio |-> InitReady(p)]
  BY DEF Init, KernelInit
<1>2. FirstRun \in Task \ {IdleTask, PostProc} /\ NominalPrio \in [Task -> Prio]
  BY FirstRunType, NominalPrioType, KernelConstants DEF UserTask
<1>3. ASSUME NEW p \in Prio
      PROVE  /\ readyQ[p] \in Seq(Task) /\ NoDuplicates(readyQ[p])
             /\ ToSet(readyQ[p]) = {t \in Task \ {FirstRun, PostProc} : NominalPrio[t] = p}
  <2> DEFINE S == {t \in Task \ {FirstRun, PostProc} : NominalPrio[t] = p}
  <2>1. IsFiniteSet(S) /\ S \subseteq Task
    BY KernelConstants, FS_Subset
  <2>2. readyQ[p] = SetToSeq(S)
    BY <1>1 DEF InitReady
  <2> HIDE DEF S
  <2>3. SetToSeq(S) \in Seq(S) /\ ToSet(SetToSeq(S)) = S /\ NoDuplicates(SetToSeq(S))
    BY <2>1, SetToSeqProperties
  <2>4. SetToSeq(S) \in Seq(Task)
    BY <2>1, <2>3, SeqMonotonic
  <2> QED BY <2>2, <2>3, <2>4 DEF S
<1>4. readyQ \in [Prio -> Seq(Task)]
  <2>1. readyQ = [p \in Prio |-> readyQ[p]]
    BY <1>1
  <2> QED BY <1>3, <2>1
<1>5. \A t \in Task : status[t] = "READY" <=> t \notin {FirstRun, PostProc}
  BY <1>1
<1>6. \A p \in Prio : ToSet(readyQ[p]) = {t \in Task : status[t] = "READY" /\ prio[t] = p}
  BY <1>1, <1>3, <1>5
<1>7. status \in [Task -> Status]
  BY <1>1 DEF Status
<1>8. \A t \in Task : status[t] = "RUNNING" => t = FirstRun
  BY <1>1
<1>9. status[IdleTask] = "READY" /\ status[FirstRun] = "RUNNING" /\ FirstRun \in Task
  BY <1>1, <1>2, <1>5, KernelConstants
<1> QED BY <1>1, <1>2, <1>3, <1>4, <1>6, <1>7, <1>8, <1>9 DEF DispatchInv

\* Nobody waits yet, and no call is under way.
LEMMA InitKernelFacts ==
  ASSUME Init
  PROVE  /\ KernelFacts
         /\ \A t \in Task : /\ OnQueues(t) = {} /\ ~Armed(t) /\ wqp[t] = None /\ WakesOf(t) = {}
                            /\ call[t] = NoCall /\ ret[t] = NoRet
                            /\ (status[t] = "SLEEPING_EV_FLAG" \/ status[t] \in Awake)
                            /\ status[t] = "SLEEPING_EV_FLAG" => t = PostProc
<1>1. /\ schLock = 0 /\ savedLock = [t \in Task |-> 0]
      /\ waitQ = [o \in WaitObj |-> <<>>] /\ wqp = [t \in Task |-> None]
      /\ lock = [m \in Mutex |-> FALSE] /\ owner = [m \in Mutex |-> None]
      /\ mesgPrio = [t \in Task |-> [base |-> NominalPrio[t], ceiling |-> NominalPrio[IdleTask]]]
      /\ tmo = <<>> /\ ttype = [t \in Task |-> "NONE"]
      /\ call = [t \in Task |-> NoCall] /\ ret = [t \in Task |-> NoRet] /\ todo = <<>>
      /\ status = [t \in Task |-> CASE t = FirstRun -> "RUNNING"
                                    [] t = PostProc -> "SLEEPING_EV_FLAG"
                                    [] OTHER -> "READY"]
  BY DEF Init, KernelInit
<1>2. <<>> \in Seq(Task) /\ NoDuplicates(<<>>) /\ ToSet(<<>>) = {}
  BY SmallSequences DEF NoDuplicates
<1>3. ListInv
  BY <1>1, <1>2 DEF ListInv, TimeoutType
<1>4. ContinuationInv
  <2>1. NoCall \in Suspension /\ NoCall.number = "NONE" /\ NoRet \in FrameResult
    BY DEF NoCall, NoRet, Suspension, FrameResult, CallNumber, ResultNumber, CallPhase, Err
  <2> HIDE DEF NoCall, NoRet
  <2> QED BY <1>1, <2>1 DEF ContinuationInv
<1>5. HolderInv
  BY <1>1, NominalPrioType DEF HolderInv
<1>6. PendingInv
  <2> HIDE DEF KernelCall
  <2> QED BY <1>1, SmallSequences, OneWakeShort DEF PendingInv
<1>7. LockInv
  BY <1>1 DEF LockInv
<1>8. KernelFacts
  BY <1>3, <1>4, <1>5, <1>6, <1>7, InitDispatch DEF KernelFacts
<1>9. ASSUME NEW t \in Task
      PROVE  /\ OnQueues(t) = {} /\ ~Armed(t) /\ wqp[t] = None /\ WakesOf(t) = {}
             /\ call[t] = NoCall /\ ret[t] = NoRet
  <2> HIDE DEF NoCall, NoRet
  <2> QED BY <1>1, <1>2 DEF OnQueues, Armed, WakesOf
<1>10. ASSUME NEW t \in Task
       PROVE  /\ (status[t] = "SLEEPING_EV_FLAG" \/ status[t] \in Awake)
              /\ status[t] = "SLEEPING_EV_FLAG" => t = PostProc
  BY <1>1 DEF Awake
<1> QED BY <1>8, <1>9, <1>10

(***************************************************************************)
(* The inductive invariant.                                                *)
(***************************************************************************)
\* A READY task is in the queue of its priority, only the task in RK_gRunPtr
\* runs, and the idle task never waits: kSwtch always finds a task.
ReadyInv ==
  /\ \A t \in Task : status[t] = "READY" => t \in ToSet(readyQ[prio[t]])
  /\ \A t \in Task : status[t] = "RUNNING" => t = run
  /\ status[IdleTask] \in {"READY", "RUNNING"}

\* The tick handler has no node left to look at.
NoTick(calls) == \A c \in ToSet(calls) : c.op # "handleTimeouts"

\* The timeout list is ordered, without duplicates, and holds only tasks
\* suspended in a call; no armed node is due except while the tick handler
\* is at work.
TimeInv ==
  /\ NoDuplicates(tmo) /\ OrderedBy(tmo, left)
  /\ \A t \in ToSet(tmo) : call[t].number \in {"MUTEX_LOCK", "SLEEP_DELAY"}
  /\ NoTick(todo) => \A t \in ToSet(tmo) : left[t] > 0

\* A queued task is suspended in a lock call of that mutex, and its timeout
\* node, when armed, names the queue.
QueueInv ==
  /\ \A o \in WaitObj : NoDuplicates(waitQ[o])
  /\ \A o \in WaitObj : \A t \in ToSet(waitQ[o]) :
       /\ wqp[t] = o /\ call[t].number = "MUTEX_LOCK"
       /\ t \in ToSet(tmo) => ttype[t] = "BLOCKING"
  /\ \A t \in Task : status[t] = "SELF_SUSPENDED"
                       => call[t].number = "TASK_SELF_SUSPEND"

\* A task that the critical region still has to make ready is unlinked by then.
TodoInv ==
  \A c \in ToSet(todo) :
    /\ c.op \in {"ready", "timeoutReady"} => c.task \notin ToSet(tmo)
    /\ c.op \in {"ready", "timeoutReady", "signalReady"} =>
         \A o \in WaitObj : c.task \notin ToSet(waitQ[o])

\* The three records of ownership agree, a free mutex has no waiters, and the
\* owner is not one of them.
OwnerInv ==
  \A m \in Mutex :
    /\ lock[m] <=> owner[m] # None
    /\ \A t \in Task : m \in owned[t] <=> owner[m] = t
    /\ owner[m] = None => waitQ[m] = <<>>
    /\ owner[m] \notin ToSet(waitQ[m])
    /\ ~faulted[m]

\* No timeout node names a queue that is not a mutex's, so that the walk finds
\* every task it requeues where its node says.
StaleInv == \A t \in Task : wqp[t] \notin OtherObj

\* What holds of the kernel, whoever owns the mutexes.
KernelInv == TypeOK /\ ReadyInv /\ TimeInv /\ QueueInv /\ TodoInv /\ StaleInv

IInv == KernelInv /\ OwnerInv

(***************************************************************************)
(* Facts about the operators of RKKernel.                                  *)
(***************************************************************************)
\* The effective priority is a priority, no less urgent than its base or than
\* the head of a queue through which waiters or peers lend theirs, and is one
\* of these or the ceiling.
LEMMA CalcEffectiveProperties ==
  ASSUME TypeOK, NEW t \in Task
  PROVE  /\ kTaskCalcEffectivePrio_(t) \in Prio
         /\ kTaskCalcEffectivePrio_(t) <= mesgPrio[t].base
         /\ \A o \in LendingMutexes(t) \cup LendingPeers(t) :
              kTaskCalcEffectivePrio_(t) <= prio[Head(waitQ[o])]
         /\ \/ kTaskCalcEffectivePrio_(t) \in {mesgPrio[t].base, mesgPrio[t].ceiling}
            \/ \E o \in LendingMutexes(t) \cup LendingPeers(t) :
                 kTaskCalcEffectivePrio_(t) = prio[Head(waitQ[o])]
<1> DEFINE lending == LendingMutexes(t) \cup LendingPeers(t)
           candidates == {mesgPrio[t].base, mesgPrio[t].ceiling}
                           \cup {prio[Head(waitQ[o])] : o \in lending}
           n == CHOOSE p \in candidates : \A q \in candidates : p <= q
<1>1. \A o \in lending : prio[Head(waitQ[o])] \in Prio
  <2> TAKE o \in lending
  <2>1. PeerQueue[t] \subseteq OtherObj
    BY KernelConstants
  <2>2. o \in WaitObj /\ waitQ[o] # <<>>
    BY <2>1 DEF LendingMutexes, LendingPeers, TypeOK, MutexTypeOK, WaitObj
  <2>3. Head(waitQ[o]) \in Task
    BY <2>2, HeadTailProperties DEF TypeOK, WaitTypeOK
  <2> QED BY <2>3 DEF TypeOK, SchedTypeOK
<1>2. mesgPrio[t].base \in Prio /\ mesgPrio[t].ceiling \in Prio
  BY DEF TypeOK, MutexTypeOK
<1>3. candidates \in SUBSET Nat /\ candidates \subseteq Prio /\ candidates # {}
  <2> HIDE DEF lending
  <2> QED BY <1>1, <1>2, NominalPrioType
<1>4. \E p \in candidates : \A q \in candidates : p <= q
  <2> HIDE DEF candidates
  <2> QED BY <1>3, LeastExists
<1>5. n \in candidates /\ \A q \in candidates : n <= q
  <2> HIDE DEF candidates
  <2> QED BY <1>4
<1>6. kTaskCalcEffectivePrio_(t) = n
  BY DEF kTaskCalcEffectivePrio_
<1> HIDE DEF n
<1> QED BY <1>3, <1>5, <1>6

(***************************************************************************)
(* Type correctness.                                                       *)
(***************************************************************************)
\* What every action does to the calls still to be made has their type.
LEMMA TodoTypes ==
  ASSUME TypeOK
  PROVE  /\ \A t \in Task : <<UpdatePrioOf(t)>> \in Seq(KernelCall)
         /\ \A t \in Task : <<ReadySwtchOf(t)>> \in Seq(KernelCall)
         /\ \A b \in BOOLEAN : <<HandleTimeoutsOf(b)>> \in Seq(KernelCall)
         /\ \A t \in Task : WaiterRemoved(t) \in Seq(KernelCall)
         /\ todo # <<>> => Head(todo) \in KernelCall /\ Tail(todo) \in Seq(KernelCall)
<1>1. /\ \A t \in Task : UpdatePrioOf(t) \in KernelCall
      /\ \A t \in Task : ReadySwtchOf(t) \in KernelCall
      /\ \A b \in BOOLEAN : HandleTimeoutsOf(b) \in KernelCall
  BY DEF UpdatePrioOf, ReadySwtchOf, HandleTimeoutsOf, KernelCall
<1>2. todo # <<>> => Head(todo) \in KernelCall /\ Tail(todo) \in Seq(KernelCall)
  BY HeadTailProperties DEF TypeOK
<1>3. \A t \in Task : WaiterRemoved(t) \in Seq(KernelCall)
  <2> TAKE t \in Task
  <2>1. /\ waitingFor[t] \in Mutex \cup {None}
        /\ waitingFor[t] # None => owner[waitingFor[t]] \in Task \cup {None}
    BY DEF TypeOK, MutexTypeOK
  <2> HIDE DEF KernelCall
  <2> QED BY <1>1, <2>1 DEF WaiterRemoved
<1> HIDE DEF KernelCall
<1> QED BY <1>1, <1>2, <1>3

\* The call at the head of the list names a task.
LEMMA HeadTask ==
  ASSUME TypeOK, todo # <<>>,
         Head(todo).op \in {"updatePrio", "ready", "timeoutReady", "signalReady"}
  PROVE  Head(todo).task \in Task
<1>1. Head(todo) \in KernelCall
  BY TodoTypes
<1> QED BY <1>1 DEF KernelCall

\* Completing or restarting a call keeps the frames and continuations typed.
LEMMA CompleteTypes ==
  ASSUME TypeOK, NEW t \in Task, NEW e \in Err, kSyscallTaskComplete_(t, e)
  PROVE  CallTypeOK'
<1>1. call[t] \in Suspension
  BY DEF TypeOK, CallTypeOK, MutexTypeOK, TimeTypeOK
<1>2. NoCall \in Suspension
  BY DEF NoCall, Suspension, CallNumber, CallPhase, Err
<1>3. [number |-> call[t].number, arg |-> call[t].arg, err |-> e] \in FrameResult
  BY <1>1 DEF FrameResult, Suspension, ResultNumber
<1> QED BY <1>2, <1>3 DEF kSyscallTaskComplete_, TypeOK, CallTypeOK, MutexTypeOK, TimeTypeOK

\* So does sending it back into its call.
LEMMA RestartTypes ==
  ASSUME TypeOK, NEW t \in Task, NEW ph \in CallPhase,
         NEW e \in Err, RestartWith(t, ph, e)
  PROVE  CallTypeOK'
<1>1. call[t] \in Suspension
  BY DEF TypeOK, CallTypeOK, MutexTypeOK, TimeTypeOK
<1>2. "RESTART" \in Err
  BY DEF Err
<1>3. [number |-> call[t].number, arg |-> call[t].arg, err |-> "RESTART"]
        \in FrameResult
  BY <1>1, <1>2 DEF FrameResult, Suspension, ResultNumber
<1>4. call' = [call EXCEPT ![t] = [@ EXCEPT !.phase = ph, !.wake = e]]
  BY DEF RestartWith
<1>5. [call[t] EXCEPT !.phase = ph, !.wake = e] \in Suspension
  BY <1>1 DEF Suspension
<1> QED BY <1>3, <1>4, <1>5 DEF RestartWith, TypeOK, CallTypeOK, MutexTypeOK, TimeTypeOK

\* Whatever kSyscallTaskWake does with the call keeps the types.
LEMMA WakeTypes ==
  ASSUME TypeOK, NEW t \in Task, kSyscallTaskWake(t)
  PROVE  CallTypeOK'
<1>1. /\ call[t].wake \in Err /\ call[t].phase \in CallPhase
      /\ "SUCCESS" \in Err /\ "RELOCK" \in CallPhase
  BY DEF TypeOK, CallTypeOK, MutexTypeOK, TimeTypeOK, Suspension, CallPhase, Err
<1>2. CASE UNCHANGED callVars
  BY <1>2 DEF TypeOK, CallTypeOK, MutexTypeOK, TimeTypeOK, callVars
<1>3. CASE \E e \in Err : kSyscallTaskComplete_(t, e)
  BY <1>3, CompleteTypes
<1>4. CASE \E ph \in CallPhase, e \in Err : RestartWith(t, ph, e)
  BY <1>4, RestartTypes
<1> QED BY <1>1, <1>2, <1>3, <1>4 DEF kSyscallTaskWake

\* So does kSyscallTaskTimeout, which may clear waitingForMutexPtr.
LEMMA TimeoutTypes ==
  ASSUME TypeOK, NEW t \in Task, kSyscallTaskTimeout(t)
  PROVE  /\ CallTypeOK'
         /\ waitingFor' \in [Task -> Mutex \cup {None}]
<1>1. {"SUCCESS", "TIMEOUT"} \subseteq Err /\ "RELOCK" \in CallPhase
  BY DEF Err, CallPhase
<1>2. \/ UNCHANGED callVars
      \/ \E e \in Err : kSyscallTaskComplete_(t, e)
      \/ \E ph \in CallPhase, e \in Err : RestartWith(t, ph, e)
  BY <1>1 DEF kSyscallTaskTimeout
<1>3. CallTypeOK'
  BY <1>2, CompleteTypes, RestartTypes DEF TypeOK, CallTypeOK, MutexTypeOK, TimeTypeOK, callVars
<1>4. waitingFor' \in [Task -> Mutex \cup {None}]
  BY DEF kSyscallTaskTimeout, TypeOK, CallTypeOK, MutexTypeOK, TimeTypeOK
<1> QED BY <1>3, <1>4

\* So does kSyscallTaskSignal.
LEMMA SignalTypes ==
  ASSUME TypeOK, NEW t \in Task, kSyscallTaskSignal(t)
  PROVE  /\ CallTypeOK'
         /\ waitingFor' \in [Task -> Mutex \cup {None}]
<1>1. "SIGNAL_INTERRUPTED" \in Err
  BY DEF Err
<1>2. \/ UNCHANGED callVars
      \/ \E e \in Err : kSyscallTaskComplete_(t, e)
  BY <1>1 DEF kSyscallTaskSignal
<1>3. CallTypeOK'
  BY <1>2, CompleteTypes DEF TypeOK, CallTypeOK, MutexTypeOK, TimeTypeOK, callVars
<1>4. waitingFor' \in [Task -> Mutex \cup {None}]
  BY DEF kSyscallTaskSignal, TypeOK, CallTypeOK, MutexTypeOK, TimeTypeOK
<1> QED BY <1>3, <1>4

\* Timeout insertion: the list stays a list of tasks, gains the node, and
\* stays ordered by the ticks that remain.
LEMMA ArmTypes ==
  ASSUME TypeOK, NEW t \in Task, NEW ticks \in Timeout \ {NoWait},
         NEW type \in {"BLOCKING", "TIME_EVENT"},
         ArmTimeout(t, type, ticks)
  PROVE  TimeTypeOK'
<1>1. CASE ticks = Forever
  BY <1>1 DEF ArmTimeout, timeVars, TypeOK, CallTypeOK, MutexTypeOK, TimeTypeOK
<1>2. CASE ticks # Forever
  <2>1. ticks \in Nat
    BY <1>2, KernelConstants DEF Timeout, NoWait
  <2> DEFINE notEarlier == {i \in DOMAIN tmo : left[tmo[i]] >= ticks}
             pos == IF notEarlier = {} THEN Len(tmo) + 1
                    ELSE CHOOSE i \in notEarlier : \A j \in notEarlier : i <= j
  <2>2. Len(tmo) \in Nat /\ DOMAIN tmo = 1 .. Len(tmo)
    BY LenProperties DEF TypeOK, CallTypeOK, MutexTypeOK, TimeTypeOK
  <2>3. pos \in 1 .. Len(tmo) + 1
    <3>1. CASE notEarlier = {}
      BY <3>1, <2>2
    <3>2. CASE notEarlier # {}
      <4>1. notEarlier \in SUBSET Nat /\ notEarlier \subseteq 1 .. Len(tmo)
        BY <2>2
      <4>2. \E i \in notEarlier : \A j \in notEarlier : i <= j
        <5> HIDE DEF notEarlier
        <5> QED BY <3>2, <4>1, LeastExists
      <4>3. pos \in notEarlier
        <5> HIDE DEF notEarlier
        <5> QED BY <3>2, <4>2
      <4> HIDE DEF notEarlier, pos
      <4> QED BY <4>1, <4>3, <2>2
    <3> QED BY <3>1, <3>2
  <2>4. tmo' = InsertAt(tmo, pos, t)
    BY <1>2 DEF ArmTimeout, TimeoutInsert
  <2> HIDE DEF pos
  <2>5. tmo' \in Seq(Task)
    BY <2>3, <2>4, InsertAtProperties DEF TypeOK, CallTypeOK, MutexTypeOK, TimeTypeOK
  <2> QED BY <1>2, <2>1, <2>5 DEF ArmTimeout, TypeOK, TimeTypeOK, TimeoutType
<1> QED BY <1>1, <1>2

\* However a switch is requested, the two flags stay Booleans.
LEMMA SwitchTypes ==
  ASSUME TypeOK, NEW p, NEW pr, NEW st,
         \/ kReschedTask(p, pr) \/ kReschedRunning(p)
         \/ kPendCtxSwtch(st) \/ NoCtxSwtch
         \/ kPendCtxSwtchNow_ \/ kDeferCtxSwtch_
  PROVE  pendingSw' \in BOOLEAN /\ pendSV' \in BOOLEAN
BY DEF kReschedTask, kReschedRunning, kPendCtxSwtch, NoCtxSwtch,
       kPendCtxSwtchNow_, kDeferCtxSwtch_, TypeOK, SchedTypeOK

\* Disarming a node keeps the list typed.
LEMMA DisarmTypes ==
  ASSUME TypeOK, NEW t \in Task, DisarmTimeout(t)
  PROVE  TimeTypeOK'
BY RemProperties DEF DisarmTimeout, TypeOK, TimeTypeOK, TimeoutType

\* The frame of the running task takes the result of its call.
LEMMA ReturnsTypes ==
  ASSUME TypeOK
  PROVE  /\ Returns("NONE", None, "SUCCESS") => ret' \in [Task -> FrameResult]
         /\ \A n \in {"SLEEP_DELAY", "TASK_SELF_SUSPEND"} :
              Returns(n, None, "RESTART") => ret' \in [Task -> FrameResult]
         /\ \A m \in Mutex : Returns("MUTEX_UNLOCK", m, "SUCCESS")
                              => ret' \in [Task -> FrameResult]
         /\ \A m \in Mutex, e \in Err : Returns("MUTEX_LOCK", m, e)
                              => ret' \in [Task -> FrameResult]
         /\ {"SUCCESS", "OWNER_FAULTED", "NOWAIT", "RESTART"} \subseteq Err
<1>1. \A n \in ResultNumber, a \in WaitObj \cup {None}, e \in Err :
        Returns(n, a, e) => ret' \in [Task -> FrameResult]
  <2> TAKE n \in ResultNumber, a \in WaitObj \cup {None}, e \in Err
  <2>1. [number |-> n, arg |-> a, err |-> e] \in FrameResult
    BY DEF FrameResult
  <2> QED BY <2>1 DEF Returns, TypeOK, CallTypeOK
<1>2. Mutex \subseteq WaitObj
  BY DEF WaitObj
<1>3. {"SUCCESS", "OWNER_FAULTED", "NOWAIT", "RESTART"} \subseteq Err
  BY DEF Err
<1>4. {"NONE", "SLEEP_DELAY", "TASK_SELF_SUSPEND", "MUTEX_LOCK", "MUTEX_UNLOCK"}
        \subseteq ResultNumber
  BY DEF ResultNumber, CallNumber, WakeResultCall
<1> QED BY <1>1, <1>2, <1>3, <1>4

\* So does the record of the call it is suspended in.
LEMMA SuspendTypes ==
  ASSUME TypeOK, NEW n \in CallNumber,
         call' = [call EXCEPT ![run].number = n, ![run].phase = "WAIT"]
  PROVE  call' \in [Task -> Suspension]
<1>1. call' = [call EXCEPT ![run] = [@ EXCEPT !.number = n, !.phase = "WAIT"]]
  OBVIOUS
<1>2. run \in Task /\ call[run] \in Suspension
  BY DEF TypeOK, SchedTypeOK, CallTypeOK
<1>3. [call[run] EXCEPT !.number = n, !.phase = "WAIT"] \in Suspension
  BY <1>2 DEF Suspension, CallPhase
<1> QED BY <1>1, <1>2, <1>3 DEF TypeOK, CallTypeOK

(***************************************************************************)
(* What the actions do to the sets the invariant speaks of.                *)
(***************************************************************************)
\* The calls that remain when the one at the head is made.
LEMMA TodoSets ==
  ASSUME TypeOK, todo # <<>>
  PROVE  ToSet(todo) = {Head(todo)} \cup ToSet(Tail(todo))
<1> HIDE DEF KernelCall
<1> QED BY TailFacts DEF TypeOK

\* So does one round of the walk: at most another round.
LEMMA UpdatePrioOps ==
  ASSUME TypeOK, UpdatePrio
  PROVE  /\ ToSet(Tail(todo)) \subseteq ToSet(todo')
         /\ \A c \in ToSet(todo') : c \in ToSet(Tail(todo)) \/ c.op = "updatePrio"
         /\ ToSet(todo) = {Head(todo)} \cup ToSet(Tail(todo))
         /\ Head(todo).op = "updatePrio"
<1>1. /\ todo # <<>> /\ Head(todo).op = "updatePrio"
      /\ Head(todo).task \in Task /\ Tail(todo) \in Seq(KernelCall)
  BY HeadTask, TodoTypes DEF UpdatePrio
<1>2. CASE todo' = Tail(todo)
  BY <1>1, <1>2, TodoSets
<1>3. CASE \E u \in Task : todo' = <<UpdatePrioOf(u)>> \o Tail(todo)
  <2> PICK u \in Task : todo' = <<UpdatePrioOf(u)>> \o Tail(todo)
    BY <1>3
  <2>1. <<UpdatePrioOf(u)>> \in Seq(KernelCall)
    BY TodoTypes
  <2>2. ToSet(todo') = ToSet(<<UpdatePrioOf(u)>>) \cup ToSet(Tail(todo))
    <3> HIDE DEF KernelCall
    <3> QED BY <1>1, <2>1, ConcatSet
  <2>3. \A c \in ToSet(<<UpdatePrioOf(u)>>) : c.op = "updatePrio"
    BY DEF ToSet, UpdatePrioOf
  <2> QED BY <1>1, <2>2, <2>3, TodoSets
<1>4. CASE todo' = <<>> \o Tail(todo)
  <2>1. todo' = Tail(todo)
    <3> HIDE DEF KernelCall
    <3> QED BY <1>1, <1>4, ConcatEmptySeq
  <2> QED BY <2>1, <1>2
<1> DEFINE next == waitingFor[Head(todo).task]
<1>5. next # None => next \in Mutex
  BY <1>1 DEF TypeOK, MutexTypeOK
<1>6. next # None /\ owner[next] # None => owner[next] \in Task
  BY <1>5 DEF TypeOK, MutexTypeOK
<1> QED BY <1>2, <1>3, <1>4, <1>6 DEF UpdatePrio

\* An expired node leaves behind the walk for its owner, the call that readies
\* its task, and the tick handler's next look at the list.
LEMMA ExpireTodo ==
  ASSUME TypeOK, TimeoutExpire
  PROVE  /\ Head(tmo) \in Task /\ todo' \in Seq(KernelCall)
         /\ HandleTimeoutsOf(TRUE) \in ToSet(todo')
         /\ \A c \in ToSet(todo') :
              \/ c.op = "updatePrio"
              \/ c = [op |-> "timeoutReady", task |-> Head(tmo)]
              \/ c = HandleTimeoutsOf(TRUE)
<1> DEFINE t == Head(tmo)
           x == [op |-> "timeoutReady", task |-> t]
           y == HandleTimeoutsOf(TRUE)
           last == <<x, y>>
           first == IF ttype[t] = "BLOCKING" THEN WaiterRemoved(t) ELSE <<>>
<1>1. t \in Task
  BY TailFacts DEF TimeoutExpire, TypeOK, TimeTypeOK
<1>2. x \in KernelCall /\ y \in KernelCall
  BY <1>1 DEF KernelCall, HandleTimeoutsOf
<1>3. first \in Seq(KernelCall) /\ \A c \in ToSet(first) : c.op = "updatePrio"
  <2>1. \A c \in ToSet(<<>>) : c.op = "updatePrio"
    BY DEF ToSet
  <2> QED BY <1>1, <2>1, TodoTypes, WaiterRemovedOps
<1>4. todo' = first \o last
  BY DEF TimeoutExpire
<1> HIDE DEF first, x, y, KernelCall
<1>5. last \in Seq(KernelCall) /\ ToSet(last) = {x, y}
  BY <1>2, SmallSequences
<1> HIDE DEF last
<1>6. todo' \in Seq(KernelCall) /\ ToSet(todo') = ToSet(first) \cup {x, y}
  BY <1>3, <1>4, <1>5, ConcatProperties, ConcatSet
<1> QED BY <1>1, <1>3, <1>6 DEF x, y

\* Handing a mutex over leaves behind walks, and the call that readies the heir.
LEMMA HandOffTodo ==
  ASSUME TypeOK, NEW m \in Mutex, UnlockHandOff(m)
  PROVE  /\ Head(waitQ[m]) \in Task /\ todo' \in Seq(KernelCall)
         /\ \A c \in ToSet(todo') :
              c.op = "updatePrio" \/ c = ReadySwtchOf(Head(waitQ[m]))
<1> DEFINE w == Head(waitQ[m])
           a == UpdatePrioOf(run)
           b == UpdatePrioOf(w)
           x == ReadySwtchOf(w)
           last == <<x>>
           first == IF m \in Inherit THEN <<a, b>> ELSE <<>>
<1>1. w \in Task /\ run \in Task
  BY TailFacts DEF UnlockHandOff, TypeOK, WaitTypeOK, SchedTypeOK, WaitObj
<1>2. /\ a \in KernelCall /\ b \in KernelCall /\ x \in KernelCall
      /\ a.op = "updatePrio" /\ b.op = "updatePrio"
  BY <1>1 DEF KernelCall, UpdatePrioOf, ReadySwtchOf
<1>3. todo' = first \o last
  BY DEF UnlockHandOff
<1> HIDE DEF a, b, x, KernelCall
<1>4. first \in Seq(KernelCall) /\ ToSet(first) \subseteq {a, b}
  BY <1>2, SmallSequences
<1> HIDE DEF first
<1>5. last \in Seq(KernelCall) /\ ToSet(last) = {x}
  BY <1>2, SmallSequences
<1> HIDE DEF last
<1>6. todo' \in Seq(KernelCall) /\ ToSet(todo') = ToSet(first) \cup {x}
  BY <1>3, <1>4, <1>5, ConcatProperties, ConcatSet
<1> QED BY <1>1, <1>2, <1>4, <1>6 DEF x

\* So does a signal, for the task it interrupts.
LEMMA SignalTodo ==
  ASSUME TypeOK, NEW t \in Task, kTaskSignalReady(t)
  PROVE  /\ todo' \in Seq(KernelCall)
         /\ \A c \in ToSet(todo') :
              c.op = "updatePrio" \/ c = [op |-> "signalReady", task |-> t]
<1> DEFINE x == [op |-> "signalReady", task |-> t]
           last == <<x>>
           first == IF wqp[t] # None THEN WaiterRemoved(t) ELSE <<>>
<1>1. x \in KernelCall
  BY DEF KernelCall
<1>2. first \in Seq(KernelCall) /\ \A c \in ToSet(first) : c.op = "updatePrio"
  <2>1. \A c \in ToSet(<<>>) : c.op = "updatePrio"
    BY DEF ToSet
  <2> QED BY <2>1, TodoTypes, WaiterRemovedOps
<1>3. todo' = first \o last
  BY DEF kTaskSignalReady
<1> HIDE DEF first, x, KernelCall
<1>4. last \in Seq(KernelCall) /\ ToSet(last) = {x}
  BY <1>1, SmallSequences
<1> HIDE DEF last
<1>5. todo' \in Seq(KernelCall) /\ ToSet(todo') = ToSet(first) \cup {x}
  BY <1>2, <1>3, <1>4, ConcatProperties, ConcatSet
<1> QED BY <1>2, <1>5 DEF x

\* Completing, restarting or leaving alone the call of a task touches no other.
LEMMA CallEffects ==
  ASSUME TypeOK, NEW t \in Task,
         \/ kSyscallTaskWake(t) \/ kSyscallTaskTimeout(t) \/ kSyscallTaskSignal(t)
  PROVE  \A u \in Task \ {t} : call'[u] = call[u]
<1>1. \/ UNCHANGED callVars
      \/ \E e : kSyscallTaskComplete_(t, e)
      \/ \E ph, e : RestartWith(t, ph, e)
  BY DEF kSyscallTaskWake, kSyscallTaskTimeout, kSyscallTaskSignal
<1>2. CASE UNCHANGED callVars
  BY <1>2 DEF callVars
<1>3. CASE \E e : kSyscallTaskComplete_(t, e)
  BY <1>3 DEF kSyscallTaskComplete_, TypeOK, CallTypeOK
<1>4. CASE \E ph, e : RestartWith(t, ph, e)
  BY <1>4 DEF RestartWith, TypeOK, CallTypeOK
<1> QED BY <1>1, <1>2, <1>3, <1>4

\* Requeueing a waiter whose priority changed moves nobody to another queue.
LEMMA RequeueSets ==
  ASSUME TypeOK, StaleInv,
         NEW t \in Task, NEW pr \in [Task -> Nat], NEW o \in WaitObj
  PROVE  /\ ToSet(kTaskRequeueWaiterByPrio_(t, pr)[o]) = ToSet(waitQ[o])
         /\ NoDuplicates(waitQ[o])
              => NoDuplicates(kTaskRequeueWaiterByPrio_(t, pr)[o])
<1> DEFINE q == waitQ[wqp[t]]
           rem == kTCBQRem(q, t)
           new == kTCBQEnqByPrio(rem, t, pr)
<1>0. ~StaleWait(t)
  BY DEF StaleInv, StaleWait
<1>1. CASE wqp[t] = None \/ t \notin ToSet(waitQ[wqp[t]]) \/ Len(waitQ[wqp[t]]) <= 1
  BY <1>0, <1>1 DEF kTaskRequeueWaiterByPrio_
<1>2. CASE ~(wqp[t] = None \/ t \notin ToSet(waitQ[wqp[t]]) \/ Len(waitQ[wqp[t]]) <= 1)
  <2>1. kTaskRequeueWaiterByPrio_(t, pr) = [waitQ EXCEPT ![wqp[t]] = new]
    BY <1>0, <1>2 DEF kTaskRequeueWaiterByPrio_
  <2>2. wqp[t] \in WaitObj /\ q \in Seq(Task) /\ t \in ToSet(q)
    BY <1>2 DEF TypeOK, WaitTypeOK
  <2> HIDE DEF q
  <2>3. /\ rem \in Seq(Task)
        /\ ToSet(rem) \cup {t} = ToSet(q)
        /\ NoDuplicates(q) => NoDuplicates(rem) /\ t \notin ToSet(rem)
    BY <2>2, RemProperties
  <2> HIDE DEF rem
  <2>4. ToSet(new) = ToSet(q) /\ (NoDuplicates(q) => NoDuplicates(new))
    <3>1. ToSet(new) = ToSet(rem) \cup {t}
      BY <2>3, EnqByPrioProperties
    <3>2. NoDuplicates(rem) /\ t \notin ToSet(rem) => NoDuplicates(new)
      BY <2>3, EnqByPrioProperties
    <3> HIDE DEF new
    <3> QED BY <3>1, <3>2, <2>3
  <2> HIDE DEF new
  <2>5. CASE o = wqp[t]
    <3>1. kTaskRequeueWaiterByPrio_(t, pr)[o] = new
      BY <2>1, <2>2, <2>5 DEF TypeOK, WaitTypeOK
    <3> QED BY <3>1, <2>4, <2>5 DEF q
  <2>6. CASE o # wqp[t]
    <3>1. kTaskRequeueWaiterByPrio_(t, pr)[o] = waitQ[o]
      BY <2>1, <2>6 DEF TypeOK, WaitTypeOK
    <3> QED BY <3>1
  <2> QED BY <2>5, <2>6
<1> QED BY <1>1, <1>2

\* Lists of tasks hold tasks.
LEMMA ListedTasks ==
  ASSUME TypeOK
  PROVE  /\ ToSet(tmo) \subseteq Task
         /\ \A o \in WaitObj : ToSet(waitQ[o]) \subseteq Task
<1>1. ASSUME NEW q \in Seq(Task) PROVE ToSet(q) \subseteq Task
  BY LenProperties, ElementOfSeq DEF ToSet
<1> QED BY <1>1 DEF TypeOK, WaitTypeOK, TimeTypeOK

\* Every step of the system keeps the types.
LEMMA TypeStep ==
  ASSUME KernelInv, [Next]_kernelVars
  PROVE  TypeOK'
<1> USE DEF KernelInv
<1>1. CASE UpdatePrio
  <2> DEFINE t == Head(todo).task
             new == kTaskCalcEffectivePrio_(t)
             pr == [prio EXCEPT ![t] = new]
  <2>1. t \in Task
    BY <1>1, HeadTask DEF UpdatePrio
  <2>2. new \in Prio
    BY <2>1, CalcEffectiveProperties
  <2>3. CASE new = prio[t]
    BY <1>1, <2>3, TodoTypes
    DEF UpdatePrio, TypeOK, SchedTypeOK, WaitTypeOK, MutexTypeOK, TimeTypeOK,
        CallTypeOK, schedVars, mutexVars, timeVars, callVars
  <2>4. CASE new # prio[t]
    <3> HIDE DEF new
    <3>1. pr \in [Task -> Prio] /\ prio' = pr
      BY <1>1, <2>2, <2>4 DEF UpdatePrio, TypeOK, SchedTypeOK, new
    <3>2. waitQ' \in [WaitObj -> Seq(Task)]
      <4>1. waitQ' = kTaskRequeueWaiterByPrio_(t, pr)
        BY <1>1, <2>4 DEF UpdatePrio, new
      <4>2. pr \in [Task -> Nat]
        BY <3>1, NominalPrioType
      <4>3. \A o \in WaitObj :
              kTCBQEnqByPrio(kTCBQRem(waitQ[o], t), t, pr) \in Seq(Task)
        BY <2>1, <4>2, RemProperties, EnqByPrioProperties DEF TypeOK, WaitTypeOK
      <4> QED BY <4>1, <4>3 DEF kTaskRequeueWaiterByPrio_, TypeOK, WaitTypeOK
    <3>3. readyQ' \in [Prio -> Seq(Task)]
      <4>1. CASE status[t] = "READY"
        <5>0. ~StaleWait(t)
          BY <2>1 DEF StaleInv, StaleWait
        <5>1. readyQ' = [readyQ EXCEPT ![prio[t]] = kTCBQRem(@, t),
                                       ![new] = kTCBQEnq(@, t)]
          BY <1>1, <2>4, <4>1, <5>0 DEF UpdatePrio, new
        <5>2. kTCBQRem(readyQ[prio[t]], t) \in Seq(Task)
          BY <2>1, RemProperties DEF TypeOK, SchedTypeOK
        <5>3. kTCBQEnq(readyQ[new], t) \in Seq(Task)
          BY <2>1, <2>2, ReadyEnqProperties DEF TypeOK, SchedTypeOK
        <5> QED BY <2>2, <2>4, <5>1, <5>2, <5>3 DEF TypeOK, SchedTypeOK
      <4>2. CASE status[t] # "READY"
        BY <1>1, <2>4, <4>2 DEF UpdatePrio, TypeOK, SchedTypeOK, new
      <4> QED BY <4>1, <4>2
    <3>4. pendingSw' \in BOOLEAN /\ pendSV' \in BOOLEAN
      BY <1>1, <2>4, SwitchTypes DEF UpdatePrio, new
    <3>5. todo' \in Seq(KernelCall)
      <4> DEFINE next == waitingFor[t]
                 more == /\ status[t] = "BLOCKED"
                         /\ next # None
                         /\ next \in Inherit
                         /\ owner[next] # None
                 up == IF more THEN <<UpdatePrioOf(owner[next])>> ELSE <<>>
      <4>1. todo' = up \o Tail(todo)
        BY <1>1, <2>4 DEF UpdatePrio, new
      <4>2. up \in Seq(KernelCall)
        <5>1. CASE more
          <6>1. next \in Mutex /\ owner[next] \in Task
            BY <5>1, <2>1 DEF TypeOK, MutexTypeOK
          <6> QED BY <5>1, <6>1, TodoTypes
        <5>2. CASE ~more
          BY <5>2
        <5> QED BY <5>1, <5>2
      <4>3. Tail(todo) \in Seq(KernelCall)
        BY <1>1, TodoTypes DEF UpdatePrio
      <4> HIDE DEF up
      <4> QED BY <4>1, <4>2, <4>3, ConcatProperties
    <3> QED BY <1>1, <2>4, <3>1, <3>2, <3>3, <3>4, <3>5
        DEF UpdatePrio, TypeOK, SchedTypeOK, WaitTypeOK, MutexTypeOK, TimeTypeOK,
            CallTypeOK, mutexVars, timeVars, callVars, new
  <2> QED BY <2>3, <2>4
<1>2. CASE ReadySwtch
  <2> DEFINE t == Head(todo).task
  <2>1. t \in Task
    BY <1>2, HeadTask DEF ReadySwtch
  <2>2. readyQ' \in [Prio -> Seq(Task)]
    <3>1. prio[t] \in Prio
      BY <2>1 DEF TypeOK, SchedTypeOK
    <3> QED BY <1>2, <2>1, <3>1, ReadyEnqProperties
        DEF ReadySwtch, ReadyEnq, TypeOK, SchedTypeOK
  <2>3. CallTypeOK'
    BY <1>2, <2>1, WakeTypes DEF ReadySwtch
  <2>4. pendingSw' \in BOOLEAN /\ pendSV' \in BOOLEAN
    BY <1>2, SwitchTypes DEF ReadySwtch
  <2>5. todo' \in Seq(KernelCall)
    BY <1>2, TodoTypes DEF ReadySwtch
  <2> QED BY <1>2, <2>1, <2>2, <2>3, <2>4, <2>5
      DEF ReadySwtch, TypeOK, SchedTypeOK, WaitTypeOK, MutexTypeOK, TimeTypeOK,
          waitVars, mutexVars, timeVars, Status
<1>3. CASE TimeoutExpire
  <2> DEFINE t == Head(tmo)
  <2>1. t \in Task /\ Tail(tmo) \in Seq(Task)
    BY <1>3, HeadTailProperties DEF TimeoutExpire, TypeOK, TimeTypeOK
  <2>2. waitQ' \in [WaitObj -> Seq(Task)]
    <3>1. \A o \in WaitObj : kTCBQRem(waitQ[o], t) \in Seq(Task)
      BY RemProperties DEF TypeOK, WaitTypeOK
    <3> QED BY <1>3, <3>1 DEF TimeoutExpire, TypeOK, WaitTypeOK
  <2>3. todo' \in Seq(KernelCall)
    BY <1>3, ExpireTodo
  <2> QED BY <1>3, <2>1, <2>2, <2>3
      DEF TimeoutExpire, TypeOK, SchedTypeOK, WaitTypeOK, MutexTypeOK, TimeTypeOK,
          CallTypeOK, schedVars, mutexVars, callVars
<1>4. CASE TimeoutReady
  <2> DEFINE t == Head(todo).task
  <2>1. t \in Task /\ prio[t] \in Prio
    BY <1>4, HeadTask DEF TimeoutReady, TypeOK, SchedTypeOK
  <2>2. readyQ' \in [Prio -> Seq(Task)]
    BY <1>4, <2>1, ReadyEnqProperties DEF TimeoutReady, TypeOK, SchedTypeOK
  <2>3. CallTypeOK' /\ waitingFor' \in [Task -> Mutex \cup {None}]
    BY <1>4, <2>1, TimeoutTypes DEF TimeoutReady
  <2>4. todo' \in Seq(KernelCall)
    BY <1>4, TodoTypes DEF TimeoutReady
  <2> QED BY <1>4, <2>1, <2>2, <2>3, <2>4
      DEF TimeoutReady, TypeOK, SchedTypeOK, WaitTypeOK, MutexTypeOK, TimeTypeOK, TimeoutType,
          Status
<1>5. CASE TickEnd
  BY <1>5, TodoTypes DEF TickEnd, TypeOK, SchedTypeOK, WaitTypeOK, MutexTypeOK,
     TimeTypeOK, CallTypeOK, waitVars, mutexVars, timeVars, callVars,
     NoCtxSwtch, kDeferCtxSwtch_, kPendCtxSwtchNow_
<1>6. CASE SignalReady
  <2> DEFINE t == Head(todo).task
  <2>1. t \in Task /\ prio[t] \in Prio
    BY <1>6, HeadTask DEF SignalReady, TypeOK, SchedTypeOK
  <2>2. readyQ' \in [Prio -> Seq(Task)]
    BY <1>6, <2>1, ReadyEnqProperties
    DEF SignalReady, ReadyEnq, TypeOK, SchedTypeOK
  <2>3. CallTypeOK' /\ waitingFor' \in [Task -> Mutex \cup {None}]
    BY <1>6, <2>1, SignalTypes DEF SignalReady
  <2>4. TimeTypeOK'
    BY <1>6, <2>1, DisarmTypes DEF SignalReady
  <2>5. pendingSw' \in BOOLEAN /\ pendSV' \in BOOLEAN
    BY <1>6, SwitchTypes DEF SignalReady
  <2>6. todo' \in Seq(KernelCall)
    BY <1>6, TodoTypes DEF SignalReady
  <2> QED BY <1>6, <2>1, <2>2, <2>3, <2>4, <2>5, <2>6
      DEF SignalReady, TypeOK, SchedTypeOK, WaitTypeOK, MutexTypeOK, Status
<1>7. CASE kSwtch
  <2> DEFINE preempted == status[run] = "RUNNING"
             rq == IF preempted THEN [readyQ EXCEPT ![prio[run]] = kTCBQJam(@, run)]
                                ELSE readyQ
             p == kCalcNextTaskPrio_(rq)
             next == Head(rq[p])
  <2>1. rq \in [Prio -> Seq(Task)]
    BY ReadyEnqProperties DEF TypeOK, SchedTypeOK
  <2>2. p \in Prio /\ rq[p] # <<>>
    <3>1. \E q \in Prio : rq[q] # <<>>
      <4>1. CASE preempted
        <5>1. prio[run] \in Prio /\ rq[prio[run]] = kTCBQJam(readyQ[prio[run]], run)
          BY <4>1 DEF TypeOK, SchedTypeOK
        <5>2. run \in ToSet(kTCBQJam(readyQ[prio[run]], run))
          <6>1. run \in Task /\ readyQ \in [Prio -> Seq(Task)]
            BY DEF TypeOK, SchedTypeOK
          <6>2. ToSet(kTCBQJam(readyQ[prio[run]], run))
                  = ToSet(readyQ[prio[run]]) \cup {run}
            BY <5>1, <6>1, ReadyEnqProperties
          <6> QED BY <6>2
        <5> HIDE DEF rq
        <5> QED BY <5>1, <5>2 DEF ToSet
      <4>2. CASE ~preempted
        <5>1. status[IdleTask] = "READY"
          BY <4>2, KernelConstants DEF ReadyInv
        <5>2. prio[IdleTask] \in Prio
          BY KernelConstants DEF TypeOK, SchedTypeOK
        <5>3. IdleTask \in ToSet(readyQ[prio[IdleTask]])
          BY <5>1, KernelConstants DEF ReadyInv
        <5> QED BY <4>2, <5>2, <5>3 DEF ToSet
      <4> QED BY <4>1, <4>2
    <3> HIDE DEF rq
    <3> QED BY <2>1, <3>1, NextPrioProperties
  <2>3. next \in Task /\ Tail(rq[p]) \in Seq(Task)
    <3> HIDE DEF rq, p
    <3> QED BY <2>1, <2>2, HeadTailProperties
  <2>4. /\ readyQ' = [rq EXCEPT ![p] = Tail(@)]
        /\ status' = [status EXCEPT ![run] = IF preempted THEN "READY" ELSE @,
                                    ![next] = "RUNNING"]
        /\ savedLock' = [savedLock EXCEPT ![run] = schLock]
        /\ run' = next
        /\ schLock' = savedLock'[next]
        /\ pendSV' = FALSE
        /\ UNCHANGED <<prio, pendingSw, waitVars, mutexVars, timeVars, callVars, todo>>
    BY <1>7 DEF kSwtch
  <2> HIDE DEF rq, p, next
  <2>5. readyQ' \in [Prio -> Seq(Task)]
    BY <2>1, <2>2, <2>3, <2>4
  <2>6. status' \in [Task -> Status] /\ run' \in Task
    BY <2>3, <2>4 DEF TypeOK, SchedTypeOK, Status
  <2>7. savedLock' \in [Task -> Nat] /\ schLock' \in Nat
    BY <2>3, <2>4 DEF TypeOK, SchedTypeOK
  <2> QED BY <2>4, <2>5, <2>6, <2>7
      DEF TypeOK, SchedTypeOK, WaitTypeOK, MutexTypeOK, TimeTypeOK, CallTypeOK,
          waitVars, mutexVars, timeVars, callVars
<1>8. CASE Tick
  <2>1. \A t \in ToSet(tmo) : left[t] \in Nat /\ left[t] > 0
    <3>1. \A t \in ToSet(tmo) : t \in Task
      <4> QED BY LenProperties, ElementOfSeq DEF ToSet, TypeOK, TimeTypeOK
    <3>2. NoTick(todo)
      BY <1>8 DEF Tick, NoTick, ToSet
    <3> QED BY <3>1, <3>2 DEF TimeInv, TypeOK, TimeTypeOK
  <2>2. left' \in [Task -> Nat]
    BY <1>8, <2>1 DEF Tick, TypeOK, TimeTypeOK
  <2>3. todo' \in Seq(KernelCall)
    BY <1>8, TodoTypes DEF Tick
  <2> QED BY <1>8, <2>2, <2>3
      DEF Tick, TypeOK, SchedTypeOK, WaitTypeOK, MutexTypeOK, TimeTypeOK,
          CallTypeOK, schedVars, waitVars, mutexVars, callVars
<1>9. CASE SchedCall
  <2>1. CASE kSchLock
    <3>1. ret' \in [Task -> FrameResult]
      BY <2>1, ReturnsTypes DEF kSchLock
    <3>2. schLock' \in Nat /\ savedLock' \in [Task -> Nat]
      BY <2>1 DEF kSchLock, TypeOK, SchedTypeOK
    <3>3. UNCHANGED <<run, status, prio, readyQ, pendingSw, pendSV, waitVars,
                      mutexVars, timeVars, call, todo>>
      BY <2>1 DEF kSchLock
    <3>4. SchedTypeOK'
      BY <3>2, <3>3 DEF TypeOK, SchedTypeOK
    <3>5. WaitTypeOK' /\ MutexTypeOK' /\ TimeTypeOK'
      BY <3>3 DEF TypeOK, WaitTypeOK, MutexTypeOK, TimeTypeOK,
                  waitVars, mutexVars, timeVars
    <3>6. CallTypeOK'
      BY <3>1, <3>3 DEF TypeOK, CallTypeOK
    <3>7. (todo \in Seq(KernelCall))'
      BY <3>3 DEF TypeOK
    <3> QED BY <3>4, <3>5, <3>6, <3>7
        DEF TypeOK, SchedTypeOK, WaitTypeOK, MutexTypeOK, TimeTypeOK, CallTypeOK
  <2>2. CASE kSchUnlock
    <3>1. pendingSw' \in BOOLEAN /\ pendSV' \in BOOLEAN
      BY <2>2, SwitchTypes DEF kSchUnlock
    <3>2. ret' \in [Task -> FrameResult]
      BY <2>2, ReturnsTypes DEF kSchUnlock
    <3>3. schLock' \in Nat /\ savedLock' \in [Task -> Nat]
      BY <2>2 DEF kSchUnlock, TypeOK, SchedTypeOK
    <3>4. UNCHANGED <<run, status, prio, readyQ, waitVars, mutexVars, timeVars,
                      call, todo>>
      BY <2>2 DEF kSchUnlock
    <3>5. SchedTypeOK'
      BY <3>1, <3>3, <3>4 DEF TypeOK, SchedTypeOK
    <3>6. WaitTypeOK' /\ MutexTypeOK' /\ TimeTypeOK'
      BY <3>4 DEF TypeOK, WaitTypeOK, MutexTypeOK, TimeTypeOK,
                  waitVars, mutexVars, timeVars
    <3>7. CallTypeOK' /\ (todo \in Seq(KernelCall))'
      BY <3>2, <3>4 DEF TypeOK, CallTypeOK
    <3> QED BY <3>5, <3>6, <3>7 DEF TypeOK
  <2>3. CASE kYield
    <3>1. pendingSw' \in BOOLEAN /\ pendSV' \in BOOLEAN
      BY <2>3, SwitchTypes DEF kYield
    <3>2. readyQ' \in [Prio -> Seq(Task)]
      BY <2>3, ReadyEnqProperties DEF kYield, TypeOK, SchedTypeOK
    <3> QED BY <2>3, <3>1, <3>2, ReturnsTypes
        DEF kYield, TypeOK, SchedTypeOK, WaitTypeOK, MutexTypeOK, TimeTypeOK,
            CallTypeOK, waitVars, mutexVars, timeVars, Status
  <2>4. ASSUME NEW ticks \in Timeout, kSleepDelay(ticks) PROVE TypeOK'
    <3>1. TimeTypeOK'
      <4>1. ticks \in Timeout \ {NoWait}
        BY <2>4, KernelConstants DEF kSleepDelay, Timeout, NoWait
      <4>2. run \in Task /\ ArmTimeout(run, "TIME_EVENT", ticks)
        BY <2>4 DEF kSleepDelay, TypeOK, SchedTypeOK
      <4> QED BY <4>1, <4>2, ArmTypes
    <3>2. pendingSw' \in BOOLEAN /\ pendSV' \in BOOLEAN
      BY <2>4, SwitchTypes DEF kSleepDelay
    <3>3. call' \in [Task -> Suspension]
      <4>1. "SLEEP_DELAY" \in CallNumber
        BY DEF CallNumber
      <4>2. call' = [call EXCEPT ![run].number = "SLEEP_DELAY", ![run].phase = "WAIT"]
        BY <2>4 DEF kSleepDelay
      <4> QED BY <4>1, <4>2, SuspendTypes
    <3> QED BY <2>4, <3>1, <3>2, <3>3, ReturnsTypes
        DEF kSleepDelay, TypeOK, SchedTypeOK, WaitTypeOK, MutexTypeOK, CallTypeOK,
            waitVars, mutexVars, Status
  <2>5. CASE kTaskSelfSuspend
    <3>1. pendingSw' \in BOOLEAN /\ pendSV' \in BOOLEAN
      BY <2>5, SwitchTypes DEF kTaskSelfSuspend
    <3>2. call' \in [Task -> Suspension]
      <4>1. "TASK_SELF_SUSPEND" \in CallNumber
        BY DEF CallNumber
      <4>2. call' = [call EXCEPT ![run].number = "TASK_SELF_SUSPEND", ![run].phase = "WAIT"]
        BY <2>5 DEF kTaskSelfSuspend
      <4> QED BY <4>1, <4>2, SuspendTypes
    <3> QED BY <2>5, <3>1, <3>2, ReturnsTypes
        DEF kTaskSelfSuspend, TypeOK, SchedTypeOK, WaitTypeOK, MutexTypeOK,
            TimeTypeOK, CallTypeOK, waitVars, mutexVars, timeVars, Status
  <2>6. ASSUME NEW t \in MaySuspend, kTaskResume(t) PROVE TypeOK'
    <3>1. todo' \in Seq(KernelCall)
      BY <2>6, TodoTypes, MutexConstants DEF kTaskResume, UserTask
    <3> QED BY <2>6, <3>1, ReturnsTypes
        DEF kTaskResume, TypeOK, SchedTypeOK, WaitTypeOK, MutexTypeOK, TimeTypeOK,
            CallTypeOK, schedVars, waitVars, mutexVars, timeVars
  <2> QED BY <1>9, <2>1, <2>2, <2>3, <2>4, <2>5, <2>6 DEF SchedCall
<1>10. CASE MutexCall
  <2> SUFFICES ASSUME NEW m \in Mutex,
                      \/ \E timeout \in Timeout : kMutexLock(m, timeout)
                      \/ kMutexUnlock(m)
               PROVE  TypeOK'
    BY <1>10 DEF MutexCall
  <2>1. ASSUME NEW timeout \in Timeout, kMutexLock(m, timeout) PROVE TypeOK'
    <3>1. CASE LockFaulted(m) \/ LockNoWait(m, timeout)
      BY <3>1, ReturnsTypes
      DEF LockFaulted, LockNoWait, LockReturns, TypeOK, SchedTypeOK, WaitTypeOK,
          MutexTypeOK, TimeTypeOK, CallTypeOK, schedVars, waitVars, mutexVars, timeVars
    <3>2. CASE LockFree(m)
      BY <3>2, ReturnsTypes
      DEF LockFree, TakeMutex, OwnMutex, LockReturns, TypeOK, SchedTypeOK, WaitTypeOK,
          MutexTypeOK, TimeTypeOK, CallTypeOK, schedVars, waitVars, timeVars
    <3>3. CASE LockBlock(m, timeout)
      <4>1. run \in Task /\ timeout \in Timeout \ {NoWait} /\ m \in WaitObj
        BY <3>3 DEF LockBlock, WaitForMutex, LockReturns, TypeOK, SchedTypeOK, WaitObj
      <4>2. TimeTypeOK'
        <5>1. ArmTimeout(run, "BLOCKING", timeout)
          BY <3>3 DEF LockBlock, WaitForMutex, LockReturns
        <5> QED BY <4>1, <5>1, ArmTypes
      <4>3. waitQ' \in [WaitObj -> Seq(Task)]
        <5>1. prio \in [Task -> Nat]
          BY NominalPrioType DEF TypeOK, SchedTypeOK
        <5>2. kTCBQEnqByPrio(waitQ[m], run, prio) \in Seq(Task)
          BY <4>1, <5>1, EnqByPrioProperties DEF TypeOK, WaitTypeOK
        <5> QED BY <3>3, <4>1, <5>2 DEF LockBlock, WaitForMutex, LockReturns, TypeOK, WaitTypeOK
      <4>4. pendingSw' \in BOOLEAN /\ pendSV' \in BOOLEAN
        BY <3>3, SwitchTypes DEF LockBlock, WaitForMutex, LockReturns
      <4>5. call' \in [Task -> Suspension]
        <5>1. [number |-> "MUTEX_LOCK", arg |-> m, phase |-> "WAIT",
               wake |-> "SUCCESS"] \in Suspension
          BY <4>1 DEF Suspension, CallNumber, WakeResultCall, CallPhase, Err
        <5> QED BY <3>3, <5>1 DEF LockBlock, WaitForMutex, LockReturns, TypeOK, CallTypeOK
      <4>6. todo' \in Seq(KernelCall)
        <5>1. owner[m] \in Task
          BY <3>3 DEF LockBlock, WaitForMutex, LockReturns, TypeOK, MutexTypeOK
        <5> HIDE DEF KernelCall
        <5> QED BY <3>3, <5>1, TodoTypes DEF LockBlock, WaitForMutex, LockReturns
      <4> QED BY <3>3, <4>1, <4>2, <4>3, <4>4, <4>5, <4>6, ReturnsTypes
          DEF LockBlock, WaitForMutex, LockReturns, TypeOK, SchedTypeOK, WaitTypeOK, MutexTypeOK,
              CallTypeOK, Status
    <3> QED BY <2>1, <3>1, <3>2, <3>3 DEF kMutexLock
  <2>2. ASSUME kMutexUnlock(m) PROVE TypeOK'
    <3>1. CASE UnlockFree(m)
      <4>1. todo' \in Seq(KernelCall)
        <5>1. run \in Task
          BY DEF TypeOK, SchedTypeOK
        <5> HIDE DEF KernelCall
        <5> QED BY <3>1, <5>1, TodoTypes DEF UnlockFree, FreeMutex
      <4> QED BY <2>2, <3>1, <4>1, ReturnsTypes
          DEF kMutexUnlock, UnlockFree, FreeMutex, TypeOK, SchedTypeOK, WaitTypeOK, MutexTypeOK,
              TimeTypeOK, CallTypeOK, schedVars, waitVars, timeVars
    <3>2. CASE UnlockHandOff(m)
      <4> DEFINE w == Head(waitQ[m])
      <4>1. /\ run \in Task /\ m \in WaitObj
            /\ w \in Task /\ Tail(waitQ[m]) \in Seq(Task)
        BY <3>2, HeadTailProperties
        DEF UnlockHandOff, TypeOK, SchedTypeOK, WaitTypeOK, WaitObj
      <4>2. TimeTypeOK'
        <5>1. DisarmTimeout(w) \/ UNCHANGED timeVars
          BY <3>2 DEF UnlockHandOff
        <5> QED BY <4>1, <5>1, DisarmTypes DEF timeVars, TypeOK, TimeTypeOK
      <4>3. todo' \in Seq(KernelCall)
        BY <3>2, HandOffTodo
      <4> HIDE DEF w
      <4>4. /\ waitQ' = [waitQ EXCEPT ![m] = Tail(@)]
            /\ wqp' = [wqp EXCEPT ![w] = None]
            /\ owner' = [owner EXCEPT ![m] = w]
            /\ owned' = [owned EXCEPT ![run] = @ \ {m}, ![w] = @ \cup {m}]
            /\ lock' = [lock EXCEPT ![m] = TRUE]
            /\ waitingFor' = [waitingFor EXCEPT ![w] = None]
        BY <3>2 DEF UnlockHandOff, w
      <4>5. WaitTypeOK'
        BY <4>1, <4>4 DEF TypeOK, WaitTypeOK
      <4>6. MutexTypeOK'
        BY <2>2, <4>1, <4>4 DEF kMutexUnlock, TypeOK, MutexTypeOK
      <4> QED BY <2>2, <4>2, <4>3, <4>5, <4>6, ReturnsTypes
          DEF kMutexUnlock, TypeOK, SchedTypeOK, CallTypeOK, schedVars
    <3> QED BY <2>2, <3>1, <3>2 DEF kMutexUnlock
  <2> QED BY <2>1, <2>2
<1>11. CASE SignalCall
  <2> SUFFICES ASSUME NEW t \in MaySignal, kTaskSignalReady(t) PROVE TypeOK'
    BY <1>11 DEF SignalCall
  <2>1. t \in Task
    BY MutexConstants DEF UserTask
  <2>2. waitQ' \in [WaitObj -> Seq(Task)]
    <3>1. \A o \in WaitObj : kTCBQRem(waitQ[o], t) \in Seq(Task)
      BY RemProperties DEF TypeOK, WaitTypeOK
    <3> QED BY <3>1 DEF kTaskSignalReady, TypeOK, WaitTypeOK
  <2>3. todo' \in Seq(KernelCall)
    BY <2>1, SignalTodo
  <2> QED BY <2>2, <2>3, ReturnsTypes
      DEF kTaskSignalReady, TypeOK, SchedTypeOK, WaitTypeOK, MutexTypeOK, TimeTypeOK,
          CallTypeOK, schedVars, mutexVars, timeVars
<1>12. CASE UNCHANGED kernelVars
  BY <1>12 DEF TypeOK, SchedTypeOK, WaitTypeOK, MutexTypeOK, TimeTypeOK, CallTypeOK,
     kernelVars, schedVars, waitVars, mutexVars, timeVars, callVars
<1> QED BY <1>1, <1>2, <1>3, <1>4, <1>5, <1>6, <1>7, <1>8, <1>9, <1>10, <1>11,
           <1>12 DEF Next, KernelStep

(***************************************************************************)
(* The timeout list.                                                       *)
(***************************************************************************)
\* Arming a node that is not armed: the list stays ordered and without
\* duplicates, and no other node changes.
LEMMA ArmEffects ==
  ASSUME TypeOK, TimeInv, NEW t \in Task, t \notin ToSet(tmo),
         NEW ticks \in Timeout \ {NoWait}, NEW type \in {"BLOCKING", "TIME_EVENT"},
         ArmTimeout(t, type, ticks)
  PROVE  /\ NoDuplicates(tmo') /\ OrderedBy(tmo', left')
         /\ ToSet(tmo') \subseteq ToSet(tmo) \cup {t}
         /\ t \in ToSet(tmo') => ttype'[t] = type
         /\ \A u \in Task \ {t} : ttype'[u] = ttype[u]
         /\ (\A u \in ToSet(tmo) : left[u] > 0) => \A u \in ToSet(tmo') : left'[u] > 0
<1>1. CASE ticks = Forever
  BY <1>1 DEF ArmTimeout, timeVars, TimeInv
<1>2. CASE ticks # Forever
  <2>1. ticks \in Nat /\ ticks > 0
    BY <1>2, KernelConstants DEF Timeout, NoWait
  <2> DEFINE notEarlier == {i \in DOMAIN tmo : left[tmo[i]] >= ticks}
             pos == IF notEarlier = {} THEN Len(tmo) + 1
                    ELSE CHOOSE i \in notEarlier : \A j \in notEarlier : i <= j
  <2>2. /\ Len(tmo) \in Nat /\ DOMAIN tmo = 1 .. Len(tmo) /\ tmo \in Seq(Task)
        /\ \A i \in 1 .. Len(tmo) : tmo[i] \in Task /\ left[tmo[i]] \in Nat
                                    /\ tmo[i] \in ToSet(tmo)
    BY LenProperties, ElementOfSeq DEF TypeOK, TimeTypeOK, ToSet
  <2>3. /\ pos \in 1 .. Len(tmo) + 1
        /\ \A j \in 1 .. Len(tmo) : j < pos => left[tmo[j]] < ticks
        /\ pos <= Len(tmo) => left[tmo[pos]] >= ticks
    <3>1. CASE notEarlier = {}
      BY <3>1, <2>1, <2>2
    <3>2. CASE notEarlier # {}
      <4>1. notEarlier \in SUBSET Nat /\ notEarlier \subseteq 1 .. Len(tmo)
        BY <2>2
      <4>2. \E i \in notEarlier : \A j \in notEarlier : i <= j
        <5> HIDE DEF notEarlier
        <5> QED BY <3>2, <4>1, LeastExists
      <4>3. pos \in notEarlier /\ \A j \in notEarlier : pos <= j
        <5> HIDE DEF notEarlier
        <5> QED BY <3>2, <4>2
      <4> HIDE DEF pos
      <4> QED BY <4>3, <2>1, <2>2
    <3> QED BY <3>1, <3>2
  <2>4. /\ tmo' = InsertAt(tmo, pos, t)
        /\ left' = [left EXCEPT ![t] = ticks]
        /\ ttype' = [ttype EXCEPT ![t] = type]
    BY <1>2 DEF ArmTimeout, TimeoutInsert
  <2> HIDE DEF pos, notEarlier
  <2>5. ToSet(tmo') = ToSet(tmo) \cup {t} /\ NoDuplicates(tmo')
    BY <2>2, <2>3, <2>4, InsertAtSet DEF TimeInv
  <2>6. /\ left' \in [Task -> Nat] /\ left'[t] = ticks
        /\ \A u \in ToSet(tmo) : left'[u] = left[u]
    BY <2>1, <2>4, ListedTasks DEF TypeOK, TimeTypeOK
  <2>7. OrderedBy(tmo, left')
    BY <2>2, <2>6, OrderedByAgree DEF TimeInv
  <2>8. \A i, j \in 1 .. Len(tmo) : i < j => left'[tmo[i]] <= left'[tmo[j]]
    BY <2>7, <2>2 DEF OrderedBy
  <2>9. \A j \in 1 .. Len(tmo) : j < pos => left'[tmo[j]] <= left'[t]
    BY <2>1, <2>2, <2>3, <2>6
  <2>10. \A j \in 1 .. Len(tmo) : j >= pos => left'[t] <= left'[tmo[j]]
    <3> SUFFICES ASSUME NEW j \in 1 .. Len(tmo), j >= pos
                 PROVE  ticks <= left'[tmo[j]]
      BY <2>6
    <3>1. pos \in 1 .. Len(tmo) /\ ticks <= left'[tmo[pos]]
      BY <2>1, <2>2, <2>3, <2>6
    <3>2. left'[tmo[pos]] <= left'[tmo[j]]
      BY <3>1, <2>2, <2>3, <2>6, <2>8
    <3> QED BY <3>1, <3>2, <2>1, <2>2, <2>6
  <2>11. OrderedBy(tmo', left')
    BY <2>2, <2>3, <2>4, <2>6, <2>7, <2>9, <2>10, InsertKeepsOrder
  <2>12. ttype'[t] = type /\ \A u \in Task \ {t} : ttype'[u] = ttype[u]
    BY <2>4 DEF TypeOK, TimeTypeOK
  <2>13. (\A u \in ToSet(tmo) : left[u] > 0) => \A u \in ToSet(tmo') : left'[u] > 0
    BY <2>1, <2>5, <2>6
  <2> QED BY <2>5, <2>11, <2>12, <2>13
<1> QED BY <1>1, <1>2

\* Disarming a node takes it from the list and touches no other.
LEMMA DisarmEffects ==
  ASSUME TypeOK, TimeInv, NEW t \in Task, DisarmTimeout(t)
  PROVE  /\ NoDuplicates(tmo') /\ OrderedBy(tmo', left')
         /\ ToSet(tmo') \subseteq ToSet(tmo) \ {t}
         /\ \A u \in Task \ {t} : left'[u] = left[u] /\ ttype'[u] = ttype[u]
<1>1. /\ tmo \in Seq(Task) /\ tmo' = kTCBQRem(tmo, t)
      /\ left' = [left EXCEPT ![t] = 0] /\ ttype' = [ttype EXCEPT ![t] = "NONE"]
  BY DEF DisarmTimeout, TypeOK, TimeTypeOK
<1>2. /\ tmo' \in Seq(Task) /\ NoDuplicates(tmo')
      /\ ToSet(tmo') \subseteq ToSet(tmo) \ {t}
  BY <1>1, RemProperties DEF TimeInv
<1>3. OrderedBy(tmo', left)
  BY <1>1, RemKeepsOrder DEF TimeInv
<1>4. \A u \in Task \ {t} : left'[u] = left[u] /\ ttype'[u] = ttype[u]
  BY <1>1 DEF TypeOK, TimeTypeOK
<1>5. \A u \in ToSet(tmo') : left[u] = left'[u]
  BY <1>2, <1>4, ListedTasks
<1>6. OrderedBy(tmo', left')
  BY <1>2, <1>3, <1>5, OrderedByAgree
<1> QED BY <1>2, <1>4, <1>6

\* The part of the invariant on time survives a step that leaves the list
\* alone, the calls of its tasks too, and the tick handler at work if it is.
LEMMA TimeFrame ==
  ASSUME TimeInv, UNCHANGED <<tmo, left>>,
         \A t \in ToSet(tmo) : call'[t].number = call[t].number,
         NoTick(todo') => NoTick(todo)
  PROVE  TimeInv'
BY DEF TimeInv

\* A task that executes is suspended nowhere, and no tick is at work.
LEMMA ExecutingFacts ==
  ASSUME KernelInv, Executing
  PROVE  /\ run \in Task /\ run # IdleTask /\ todo = <<>> /\ NoTick(todo)
         /\ call[run].number = "NONE" /\ run \notin ToSet(tmo)
         /\ \A o \in WaitObj : run \notin ToSet(waitQ[o])
         /\ \A t \in ToSet(tmo) : left[t] > 0
<1>1. /\ run \in Task /\ run # IdleTask /\ todo = <<>>
      /\ call[run].number = "NONE"
  BY DEF Executing, UserTask, NoCall
<1>2. NoTick(todo)
  BY <1>1 DEF NoTick, ToSet
<1> QED BY <1>1, <1>2 DEF KernelInv, TimeInv, QueueInv

\* No step disorders the timeout list or leaves a due node on it.
LEMMA TimeStep ==
  ASSUME KernelInv, [Next]_kernelVars
  PROVE  TimeInv'
<1>1. TypeOK /\ TimeInv /\ QueueInv /\ TodoInv
  BY DEF KernelInv
<1>2. CASE UpdatePrio
  <2>1. NoTick(todo') => NoTick(todo)
    BY <1>1, <1>2, UpdatePrioOps DEF NoTick
  <2>2. UNCHANGED <<tmo, left, call>>
    BY <1>2 DEF UpdatePrio, timeVars, callVars
  <2> QED BY <1>1, <2>1, <2>2, TimeFrame
<1>3. CASE ReadySwtch
  <2> DEFINE t == Head(todo).task
  <2>1. /\ t \in Task /\ todo # <<>> /\ Head(todo).op = "ready"
        /\ todo' = Tail(todo) /\ kSyscallTaskWake(t) /\ UNCHANGED <<tmo, left>>
    BY <1>1, <1>3, HeadTask DEF ReadySwtch, timeVars
  <2>2. Head(todo) \in ToSet(todo) /\ (NoTick(todo') => NoTick(todo))
    BY <1>1, <2>1, TodoSets DEF NoTick
  <2>3. t \notin ToSet(tmo)
    BY <1>1, <2>1, <2>2 DEF TodoInv
  <2>4. \A u \in ToSet(tmo) : call'[u] = call[u]
    BY <1>1, <2>1, <2>3, CallEffects, ListedTasks
  <2> QED BY <1>1, <2>1, <2>2, <2>4, TimeFrame
<1>4. CASE TimeoutExpire
  <2>1. /\ tmo \in Seq(Task) /\ tmo # <<>> /\ tmo' = Tail(tmo)
        /\ UNCHANGED <<left, call>>
    BY <1>1, <1>4 DEF TimeoutExpire, TypeOK, TimeTypeOK, timeVars, callVars
  <2>2. /\ NoDuplicates(tmo') /\ OrderedBy(tmo', left')
        /\ ToSet(tmo') \subseteq ToSet(tmo)
    BY <1>1, <2>1, TailFacts DEF TimeInv
  <2>3. ~NoTick(todo')
    BY <1>1, <1>4, ExpireTodo DEF NoTick, HandleTimeoutsOf
  <2> QED BY <1>1, <2>1, <2>2, <2>3 DEF TimeInv
<1>5. CASE TimeoutReady
  <2> DEFINE t == Head(todo).task
  <2>1. /\ t \in Task /\ todo # <<>> /\ Head(todo).op = "timeoutReady"
        /\ todo' = Tail(todo) /\ kSyscallTaskTimeout(t) /\ UNCHANGED <<tmo, left>>
    BY <1>1, <1>5, HeadTask DEF TimeoutReady
  <2>2. Head(todo) \in ToSet(todo) /\ (NoTick(todo') => NoTick(todo))
    BY <1>1, <2>1, TodoSets DEF NoTick
  <2>3. t \notin ToSet(tmo)
    BY <1>1, <2>1, <2>2 DEF TodoInv
  <2>4. \A u \in ToSet(tmo) : call'[u] = call[u]
    BY <1>1, <2>1, <2>3, CallEffects, ListedTasks
  <2> QED BY <1>1, <2>1, <2>2, <2>4, TimeFrame
<1>6. CASE TickEnd
  <2>1. /\ tmo \in Seq(Task) /\ UNCHANGED <<tmo, left, call>>
        /\ tmo # <<>> => left[Head(tmo)] # 0
    BY <1>1, <1>6 DEF TickEnd, timeVars, callVars, TypeOK, TimeTypeOK
  <2>2. \A u \in ToSet(tmo) : left[u] > 0
    <3> SUFFICES ASSUME NEW u \in ToSet(tmo) PROVE left[u] > 0
      OBVIOUS
    <3>1. /\ Len(tmo) \in Nat /\ DOMAIN tmo = 1 .. Len(tmo)
          /\ \A i \in 1 .. Len(tmo) : tmo[i] \in Task /\ left[tmo[i]] \in Nat
      BY <1>1, <2>1, LenProperties, ElementOfSeq DEF TypeOK, TimeTypeOK
    <3>2. PICK i \in 1 .. Len(tmo) : u = tmo[i]
      BY <3>1 DEF ToSet
    <3>3. Head(tmo) = tmo[1] /\ tmo # <<>> /\ 1 \in 1 .. Len(tmo)
      BY <2>1, <3>1, <3>2, EmptySeq
    <3>4. left[tmo[1]] > 0
      BY <2>1, <3>1, <3>3
    <3>5. CASE i = 1
      BY <3>2, <3>4, <3>5
    <3>6. CASE 1 < i
      <4>1. left[tmo[1]] <= left[tmo[i]]
        BY <1>1, <3>1, <3>3, <3>6 DEF TimeInv, OrderedBy
      <4> QED BY <4>1, <3>1, <3>2, <3>3, <3>4
    <3> QED BY <3>1, <3>2, <3>5, <3>6
  <2> QED BY <1>1, <2>1, <2>2 DEF TimeInv
<1>7. CASE SignalReady
  <2> DEFINE t == Head(todo).task
  <2>1. /\ t \in Task /\ todo # <<>> /\ Head(todo).op = "signalReady"
        /\ todo' = Tail(todo) /\ kSyscallTaskSignal(t) /\ DisarmTimeout(t)
    BY <1>1, <1>7, HeadTask DEF SignalReady
  <2>2. NoTick(todo') => NoTick(todo)
    BY <1>1, <2>1, TodoSets DEF NoTick
  <2>3. /\ NoDuplicates(tmo') /\ OrderedBy(tmo', left')
        /\ ToSet(tmo') \subseteq ToSet(tmo) \ {t}
        /\ \A u \in Task \ {t} : left'[u] = left[u]
    BY <1>1, <2>1, DisarmEffects
  <2>4. \A u \in ToSet(tmo') : u \in ToSet(tmo) /\ call'[u] = call[u] /\ left'[u] = left[u]
    BY <1>1, <2>1, <2>3, CallEffects, ListedTasks
  <2> QED BY <1>1, <2>2, <2>3, <2>4 DEF TimeInv
<1>8. CASE kSwtch
  <2>1. UNCHANGED <<tmo, left, call, todo>>
    BY <1>8 DEF kSwtch, timeVars, callVars
  <2> QED BY <1>1, <2>1, TimeFrame
<1>9. CASE Tick
  <2>1. /\ NoTick(todo) /\ UNCHANGED <<tmo, call>>
        /\ left' = [t \in Task |-> IF t \in ToSet(tmo) THEN left[t] - 1 ELSE left[t]]
    BY <1>9 DEF Tick, NoTick, ToSet, callVars
  <2>2. OrderedBy(tmo, left')
    <3>1. \A i \in DOMAIN tmo : tmo[i] \in ToSet(tmo)
      BY DEF ToSet
    <3>2. \A t \in ToSet(tmo) : left'[t] = left[t] - 1 /\ left[t] \in Nat
      BY <1>1, <2>1, ListedTasks DEF TypeOK, TimeTypeOK
    <3> QED BY <1>1, <3>1, <3>2 DEF TimeInv, OrderedBy
  <2>3. ~NoTick(todo')
    BY <1>9 DEF Tick, NoTick, HandleTimeoutsOf, ToSet
  <2> QED BY <1>1, <2>1, <2>2, <2>3 DEF TimeInv<1>10. CASE SchedCall
  <2> SUFFICES ASSUME Executing PROVE TimeInv'
    BY <1>10 DEF SchedCall, kSchLock, kSchUnlock, kYield, kSleepDelay,
                 kTaskSelfSuspend, kTaskResume
  <2>1. CASE kSchLock \/ kSchUnlock \/ kYield
    <3>1. UNCHANGED <<tmo, left, call, todo>>
      BY <2>1 DEF kSchLock, kSchUnlock, kYield, timeVars
    <3> QED BY <1>1, <3>1, TimeFrame
  <2>2. ASSUME NEW ticks \in Timeout, kSleepDelay(ticks) PROVE TimeInv'
    <3>1. /\ ticks \in Timeout \ {NoWait} /\ ArmTimeout(run, "TIME_EVENT", ticks)
          /\ call' = [call EXCEPT ![run].number = "SLEEP_DELAY", ![run].phase = "WAIT"]
          /\ todo' = todo
      BY <2>2, KernelConstants DEF kSleepDelay, Timeout, NoWait
    <3>2. /\ NoDuplicates(tmo') /\ OrderedBy(tmo', left')
          /\ ToSet(tmo') \subseteq ToSet(tmo) \cup {run}
          /\ \A u \in ToSet(tmo') : left'[u] > 0
      BY <1>1, <3>1, ExecutingFacts, ArmEffects
    <3>3. /\ call'[run].number = "SLEEP_DELAY"
          /\ \A u \in Task \ {run} : call'[u] = call[u]
      BY <1>1, <3>1, ExecutingFacts DEF TypeOK, CallTypeOK, Suspension
    <3> QED BY <1>1, <3>2, <3>3, ExecutingFacts, ListedTasks DEF TimeInv
  <2>3. CASE kTaskSelfSuspend
    <3>1. /\ UNCHANGED <<tmo, left, todo>>
          /\ call' = [call EXCEPT ![run].number = "TASK_SELF_SUSPEND",
                                  ![run].phase = "WAIT"]
      BY <2>3 DEF kTaskSelfSuspend, timeVars
    <3>2. \A u \in ToSet(tmo) : call'[u] = call[u]
      BY <1>1, <3>1, ExecutingFacts, ListedTasks DEF TypeOK, CallTypeOK
    <3> QED BY <1>1, <3>1, <3>2, TimeFrame
  <2>4. ASSUME NEW t \in MaySuspend, kTaskResume(t) PROVE TimeInv'
    <3>1. UNCHANGED <<tmo, left, call>>
      BY <2>4 DEF kTaskResume, timeVars
    <3> QED BY <1>1, <3>1, ExecutingFacts, TimeFrame
  <2> QED BY <1>10, <2>1, <2>2, <2>3, <2>4 DEF SchedCall
<1>11. CASE MutexCall
  <2> SUFFICES ASSUME NEW m \in Mutex, Executing,
                      \/ \E timeout \in Timeout : kMutexLock(m, timeout)
                      \/ kMutexUnlock(m)
               PROVE  TimeInv'
    BY <1>11 DEF MutexCall, kMutexLock, kMutexUnlock
  <2>1. ASSUME NEW timeout \in Timeout,
               LockFaulted(m) \/ LockFree(m) \/ LockNoWait(m, timeout)
        PROVE  TimeInv'
    <3>1. UNCHANGED <<tmo, left, call, todo>>
      BY <2>1 DEF LockFaulted, LockFree, TakeMutex, OwnMutex, LockNoWait, timeVars
    <3> QED BY <1>1, <3>1, TimeFrame
  <2>2. ASSUME NEW timeout \in Timeout, LockBlock(m, timeout) PROVE TimeInv'
    <3>1. /\ timeout \in Timeout \ {NoWait} /\ ArmTimeout(run, "BLOCKING", timeout)
          /\ call' = [call EXCEPT ![run] = [number |-> "MUTEX_LOCK", arg |-> m,
                                            phase |-> "WAIT", wake |-> "SUCCESS"]]
      BY <2>2 DEF LockBlock, WaitForMutex, LockReturns
    <3>2. /\ NoDuplicates(tmo') /\ OrderedBy(tmo', left')
          /\ ToSet(tmo') \subseteq ToSet(tmo) \cup {run}
          /\ \A u \in ToSet(tmo') : left'[u] > 0
      BY <1>1, <3>1, ExecutingFacts, ArmEffects
    <3>3. /\ call'[run].number = "MUTEX_LOCK"
          /\ \A u \in Task \ {run} : call'[u] = call[u]
      BY <1>1, <3>1, ExecutingFacts DEF TypeOK, CallTypeOK
    <3> QED BY <1>1, <3>2, <3>3, ExecutingFacts, ListedTasks DEF TimeInv
  <2>3. CASE kMutexUnlock(m)
    <3>1. CASE UnlockFree(m)
      <4>1. UNCHANGED <<tmo, left, call>>
        BY <2>3, <3>1 DEF kMutexUnlock, UnlockFree, FreeMutex, timeVars
      <4> QED BY <1>1, <4>1, ExecutingFacts, TimeFrame
    <3>2. CASE UnlockHandOff(m)
      <4> DEFINE w == Head(waitQ[m])
      <4>1. w \in Task
        BY <1>1, <3>2, TailFacts DEF UnlockHandOff, TypeOK, WaitTypeOK, WaitObj
      <4>2. UNCHANGED call
        BY <2>3 DEF kMutexUnlock
      <4>3. CASE DisarmTimeout(w)
        <5>1. /\ NoDuplicates(tmo') /\ OrderedBy(tmo', left')
              /\ ToSet(tmo') \subseteq ToSet(tmo) \ {w}
              /\ \A u \in Task \ {w} : left'[u] = left[u]
          BY <1>1, <4>1, <4>3, DisarmEffects
        <5> QED BY <1>1, <4>2, <5>1, ExecutingFacts, ListedTasks DEF TimeInv
      <4>4. CASE UNCHANGED timeVars
        BY <1>1, <4>2, <4>4, ExecutingFacts, TimeFrame DEF timeVars
      <4> QED BY <3>2, <4>3, <4>4 DEF UnlockHandOff
    <3> QED BY <2>3, <3>1, <3>2 DEF kMutexUnlock
  <2> QED BY <2>1, <2>2, <2>3 DEF kMutexLock
<1>12. CASE SignalCall
  <2>1. Executing /\ UNCHANGED <<tmo, left, call>>
    BY <1>12 DEF SignalCall, kTaskSignalReady, timeVars
  <2> QED BY <1>1, <2>1, ExecutingFacts, TimeFrame
<1>13. CASE UNCHANGED kernelVars
  <2>1. UNCHANGED <<tmo, left, call, todo>>
    BY <1>13 DEF kernelVars, timeVars, callVars
  <2> QED BY <1>1, <2>1, TimeFrame
<1> QED BY <1>2, <1>3, <1>4, <1>5, <1>6, <1>7, <1>8, <1>9, <1>10, <1>11, <1>12,
           <1>13 DEF Next, KernelStep

(***************************************************************************)
(* The wait queues.                                                        *)
(***************************************************************************)
\* A round of the walk reorders a queue and moves nobody in or out.
LEMMA WalkQueues ==
  ASSUME TypeOK, StaleInv, UpdatePrio
  PROVE  \A o \in WaitObj : /\ ToSet(waitQ'[o]) = ToSet(waitQ[o])
                            /\ NoDuplicates(waitQ[o]) => NoDuplicates(waitQ'[o])
<1> DEFINE t == Head(todo).task
           pr == [prio EXCEPT ![t] = kTaskCalcEffectivePrio_(t)]
<1>1. t \in Task
  BY HeadTask DEF UpdatePrio
<1>2. pr \in [Task -> Nat]
  BY <1>1, CalcEffectiveProperties, NominalPrioType DEF TypeOK, SchedTypeOK
<1>3. waitQ' = waitQ \/ waitQ' = kTaskRequeueWaiterByPrio_(t, pr)
  BY DEF UpdatePrio
<1> HIDE DEF pr, t
<1>4. CASE waitQ' = waitQ
  BY <1>4
<1>5. CASE waitQ' = kTaskRequeueWaiterByPrio_(t, pr)
  BY <1>1, <1>2, <1>5, RequeueSets
<1> QED BY <1>3, <1>4, <1>5

\* A waiter taken from the queue its timeout node names is in no queue.
LEMMA UnlinkQueues ==
  ASSUME TypeOK, QueueInv, NEW t \in Task,
         \/ waitQ' = [waitQ EXCEPT ![wqp[t]] = kTCBQRem(@, t)]
         \/ waitQ' = waitQ /\ \A o \in WaitObj : t \notin ToSet(waitQ[o])
  PROVE  \A o \in WaitObj : /\ NoDuplicates(waitQ'[o])
                            /\ ToSet(waitQ'[o]) \subseteq ToSet(waitQ[o]) \ {t}
<1>1. CASE waitQ' = waitQ /\ \A o \in WaitObj : t \notin ToSet(waitQ[o])
  BY <1>1 DEF QueueInv
<1>2. CASE waitQ' = [waitQ EXCEPT ![wqp[t]] = kTCBQRem(@, t)]
  <2> TAKE o \in WaitObj
  <2>1. waitQ[o] \in Seq(Task) /\ NoDuplicates(waitQ[o])
    BY DEF TypeOK, WaitTypeOK, QueueInv
  <2>2. CASE o = wqp[t]
    <3>1. waitQ'[o] = kTCBQRem(waitQ[o], t)
      BY <1>2, <2>2 DEF TypeOK, WaitTypeOK
    <3> QED BY <2>1, <3>1, RemProperties
  <2>3. CASE o # wqp[t]
    <3>1. waitQ'[o] = waitQ[o]
      BY <1>2, <2>3 DEF TypeOK, WaitTypeOK
    <3>2. t \notin ToSet(waitQ[o])
      BY <2>3 DEF QueueInv
    <3> QED BY <2>1, <3>1, <3>2
  <2> QED BY <2>2, <2>3
<1> QED BY <1>1, <1>2

\* The heir of a mutex is in no queue.
LEMMA HandOffQueues ==
  ASSUME TypeOK, QueueInv, NEW m \in Mutex, UnlockHandOff(m)
  PROVE  /\ Head(waitQ[m]) \in ToSet(waitQ[m])
         /\ \A o \in WaitObj :
              /\ NoDuplicates(waitQ'[o])
              /\ ToSet(waitQ'[o]) \subseteq ToSet(waitQ[o]) \ {Head(waitQ[m])}
         /\ \A o \in WaitObj \ {m} : waitQ'[o] = waitQ[o]
<1> DEFINE w == Head(waitQ[m])
<1>1. /\ waitQ[m] \in Seq(Task) /\ waitQ[m] # <<>> /\ m \in WaitObj
      /\ waitQ' = [waitQ EXCEPT ![m] = Tail(@)]
  BY DEF UnlockHandOff, TypeOK, WaitTypeOK, WaitObj
<1>2. /\ w \in ToSet(waitQ[m]) /\ NoDuplicates(Tail(waitQ[m]))
      /\ ToSet(Tail(waitQ[m])) \subseteq ToSet(waitQ[m]) \ {w}
  BY <1>1, TailFacts DEF QueueInv
<1>3. \A o \in WaitObj \ {m} : waitQ'[o] = waitQ[o]
  BY <1>1 DEF TypeOK, WaitTypeOK
<1>4. waitQ'[m] = Tail(waitQ[m])
  BY <1>1 DEF TypeOK, WaitTypeOK
<1>5. \A o \in WaitObj \ {m} : w \notin ToSet(waitQ[o])
  <2> HIDE DEF w
  <2>1. wqp[w] = m
    BY <1>1, <1>2 DEF QueueInv
  <2> QED BY <2>1 DEF QueueInv
<1> QED BY <1>2, <1>3, <1>4, <1>5 DEF QueueInv

\* A task that blocks enters one queue.
LEMMA BlockQueues ==
  ASSUME KernelInv, Executing, NEW m \in Mutex, NEW timeout, LockBlock(m, timeout)
  PROVE  /\ \A o \in WaitObj : NoDuplicates(waitQ'[o])
         /\ ToSet(waitQ'[m]) = ToSet(waitQ[m]) \cup {run}
         /\ \A o \in WaitObj \ {m} : waitQ'[o] = waitQ[o]
<1>1. /\ waitQ[m] \in Seq(Task) /\ NoDuplicates(waitQ[m]) /\ m \in WaitObj
      /\ waitQ' = [waitQ EXCEPT ![m] = kTCBQEnqByPrio(@, run, prio)]
      /\ run \in Task /\ run \notin ToSet(waitQ[m]) /\ prio \in [Task -> Nat]
  BY ExecutingFacts, NominalPrioType
  DEF LockBlock, WaitForMutex, LockReturns, KernelInv, QueueInv, TypeOK, SchedTypeOK, WaitTypeOK, WaitObj
<1> DEFINE q == kTCBQEnqByPrio(waitQ[m], run, prio)
<1>2. ToSet(q) = ToSet(waitQ[m]) \cup {run}
  BY <1>1, EnqByPrioProperties
<1>3. NoDuplicates(q)
  BY <1>1, EnqByPrioProperties
<1> HIDE DEF q
<1>4. waitQ'[m] = q /\ \A o \in WaitObj \ {m} : waitQ'[o] = waitQ[o]
  BY <1>1 DEF KernelInv, TypeOK, WaitTypeOK, q
<1> QED BY <1>2, <1>3, <1>4 DEF KernelInv, QueueInv

\* No step loses track of where a waiter is queued.
LEMMA QueueStep ==
  ASSUME KernelInv, [Next]_kernelVars
  PROVE  QueueInv'
<1>1. TypeOK /\ TimeInv /\ QueueInv /\ TodoInv /\ StaleInv
  BY DEF KernelInv
<1>2. CASE UpdatePrio
  <2>1. UNCHANGED <<wqp, call, tmo, ttype, status>>
    BY <1>2 DEF UpdatePrio, schedVars, timeVars, callVars
  <2> QED BY <1>1, <1>2, <2>1, WalkQueues DEF QueueInv
<1>3. CASE ReadySwtch
  <2> DEFINE t == Head(todo).task
  <2>1. /\ t \in Task /\ todo # <<>> /\ Head(todo).op = "ready"
        /\ kSyscallTaskWake(t) /\ status' = [status EXCEPT ![t] = "READY"]
        /\ UNCHANGED <<tmo, ttype, waitQ, wqp>>
    BY <1>1, <1>3, HeadTask DEF ReadySwtch, timeVars, waitVars
  <2>2. Head(todo) \in ToSet(todo)
    BY <1>1, <2>1, TodoSets
  <2>3. \A o \in WaitObj : t \notin ToSet(waitQ[o])
    BY <1>1, <2>1, <2>2 DEF TodoInv
  <2>4. \A u \in Task \ {t} : call'[u] = call[u] /\ status'[u] = status[u]
    BY <1>1, <2>1, CallEffects DEF TypeOK, SchedTypeOK
  <2>5. status'[t] = "READY"
    BY <1>1, <2>1 DEF TypeOK, SchedTypeOK
  <2> HIDE DEF t
  <2>6. \A o \in WaitObj : \A u \in ToSet(waitQ[o]) : u \in Task \ {t}
    BY <1>1, <2>3, ListedTasks
  <2> QED BY <1>1, <2>1, <2>4, <2>5, <2>6 DEF QueueInv
<1>4. CASE TimeoutExpire
  <2> DEFINE t == Head(tmo)
  <2>1. /\ tmo \in Seq(Task) /\ tmo # <<>> /\ tmo' = Tail(tmo) /\ t \in Task
        /\ waitQ' = IF ttype[t] = "BLOCKING"
                      THEN [waitQ EXCEPT ![wqp[t]] = kTCBQRem(@, t)] ELSE waitQ
        /\ UNCHANGED <<wqp, ttype, call, status>>
    BY <1>1, <1>4, ExpireTodo
    DEF TimeoutExpire, TypeOK, TimeTypeOK, schedVars, callVars
  <2>2. t \in ToSet(tmo) /\ ToSet(tmo') \subseteq ToSet(tmo)
    BY <2>1, TailFacts
  <2>3. ttype[t] # "BLOCKING" => \A o \in WaitObj : t \notin ToSet(waitQ[o])
    BY <1>1, <2>2 DEF QueueInv
  <2> HIDE DEF t
  <2>4. \A o \in WaitObj : /\ NoDuplicates(waitQ'[o])
                           /\ ToSet(waitQ'[o]) \subseteq ToSet(waitQ[o]) \ {t}
    BY <1>1, <2>1, <2>3, UnlinkQueues
  <2> QED BY <1>1, <2>1, <2>2, <2>4 DEF QueueInv
<1>5. CASE TimeoutReady
  <2> DEFINE t == Head(todo).task
  <2>1. /\ t \in Task /\ todo # <<>> /\ Head(todo).op = "timeoutReady"
        /\ kSyscallTaskTimeout(t) /\ status' = [status EXCEPT ![t] = "READY"]
        /\ ttype' = [ttype EXCEPT ![t] = "NONE"]
        /\ wqp' = [wqp EXCEPT ![t] = None]
        /\ UNCHANGED <<tmo, waitQ>>
    BY <1>1, <1>5, HeadTask DEF TimeoutReady
  <2>2. Head(todo) \in ToSet(todo)
    BY <1>1, <2>1, TodoSets
  <2>3. \A o \in WaitObj : t \notin ToSet(waitQ[o])
    BY <1>1, <2>1, <2>2 DEF TodoInv
  <2>4. \A u \in Task \ {t} : /\ call'[u] = call[u] /\ status'[u] = status[u]
                              /\ ttype'[u] = ttype[u] /\ wqp'[u] = wqp[u]
    BY <1>1, <2>1, CallEffects DEF TypeOK, SchedTypeOK, TimeTypeOK, WaitTypeOK
  <2>5. status'[t] = "READY"
    BY <1>1, <2>1 DEF TypeOK, SchedTypeOK
  <2> HIDE DEF t
  <2>6. \A o \in WaitObj : \A u \in ToSet(waitQ[o]) : u \in Task \ {t}
    BY <1>1, <2>3, ListedTasks
  <2> QED BY <1>1, <2>1, <2>4, <2>5, <2>6 DEF QueueInv
<1>6. CASE TickEnd
  <2>1. UNCHANGED <<waitQ, wqp, tmo, ttype, call, status>>
    BY <1>6 DEF TickEnd, waitVars, timeVars, callVars
  <2> QED BY <1>1, <2>1 DEF QueueInv
<1>7. CASE SignalReady
  <2> DEFINE t == Head(todo).task
  <2>1. /\ t \in Task /\ todo # <<>> /\ Head(todo).op = "signalReady"
        /\ kSyscallTaskSignal(t) /\ status' = [status EXCEPT ![t] = "READY"]
        /\ DisarmTimeout(t) /\ wqp' = [wqp EXCEPT ![t] = None]
        /\ UNCHANGED waitQ
    BY <1>1, <1>7, HeadTask DEF SignalReady
  <2>2. Head(todo) \in ToSet(todo)
    BY <1>1, <2>1, TodoSets
  <2>3. \A o \in WaitObj : t \notin ToSet(waitQ[o])
    BY <1>1, <2>1, <2>2 DEF TodoInv
  <2>4. /\ \A u \in Task \ {t} : /\ call'[u] = call[u] /\ status'[u] = status[u]
                                 /\ ttype'[u] = ttype[u] /\ wqp'[u] = wqp[u]
        /\ ToSet(tmo') \subseteq ToSet(tmo)
    BY <1>1, <2>1, CallEffects, DisarmEffects DEF TypeOK, SchedTypeOK, WaitTypeOK
  <2>5. status'[t] = "READY"
    BY <1>1, <2>1 DEF TypeOK, SchedTypeOK
  <2> HIDE DEF t
  <2>6. \A o \in WaitObj : \A u \in ToSet(waitQ[o]) : u \in Task \ {t}
    BY <1>1, <2>3, ListedTasks
  <2> QED BY <1>1, <2>1, <2>4, <2>5, <2>6 DEF QueueInv
<1>8. CASE kSwtch
  <2>1. /\ UNCHANGED <<waitQ, wqp, tmo, ttype, call>>
        /\ \A t \in Task : status'[t] \in {status[t], "READY", "RUNNING"}
    BY <1>1, <1>8 DEF kSwtch, waitVars, timeVars, callVars, TypeOK, SchedTypeOK
  <2> QED BY <1>1, <2>1 DEF QueueInv
<1>9. CASE Tick
  <2>1. UNCHANGED <<waitQ, wqp, tmo, ttype, call, status>>
    BY <1>9 DEF Tick, schedVars, waitVars, callVars
  <2> QED BY <1>1, <2>1 DEF QueueInv
<1>10. CASE SchedCall
  <2> SUFFICES ASSUME Executing PROVE QueueInv'
    BY <1>10 DEF SchedCall, kSchLock, kSchUnlock, kYield, kSleepDelay,
                 kTaskSelfSuspend, kTaskResume
  <2>1. CASE kSchLock \/ kSchUnlock \/ kYield
    <3>1. /\ UNCHANGED <<waitQ, wqp, tmo, ttype, call>>
          /\ \A t \in Task : status'[t] \in {status[t], "READY"}
      BY <1>1, <2>1
      DEF kSchLock, kSchUnlock, kYield, waitVars, timeVars, TypeOK, SchedTypeOK
    <3> QED BY <1>1, <3>1 DEF QueueInv
  <2>2. ASSUME NEW ticks \in Timeout, kSleepDelay(ticks) PROVE QueueInv'
    <3>1. /\ ticks \in Timeout \ {NoWait} /\ ArmTimeout(run, "TIME_EVENT", ticks)
          /\ call' = [call EXCEPT ![run].number = "SLEEP_DELAY", ![run].phase = "WAIT"]
          /\ status' = [status EXCEPT ![run] = "SLEEPING_DELAY"]
          /\ UNCHANGED <<waitQ, wqp>>
      BY <2>2, KernelConstants DEF kSleepDelay, Timeout, NoWait, waitVars
    <3>2. /\ ToSet(tmo') \subseteq ToSet(tmo) \cup {run}
          /\ \A u \in Task \ {run} : ttype'[u] = ttype[u]
      BY <1>1, <3>1, ExecutingFacts, ArmEffects
    <3>3. /\ \A u \in Task \ {run} : call'[u] = call[u] /\ status'[u] = status[u]
          /\ status'[run] = "SLEEPING_DELAY"
      BY <1>1, <3>1, ExecutingFacts DEF TypeOK, CallTypeOK, SchedTypeOK
    <3>4. \A o \in WaitObj : \A u \in ToSet(waitQ[o]) : u \in Task \ {run}
      BY <1>1, ExecutingFacts, ListedTasks
    <3>5. \A u \in Task : status'[u] = "SELF_SUSPENDED"
                            => call'[u].number = "TASK_SELF_SUSPEND"
      BY <1>1, <3>3 DEF QueueInv
    <3>6. ASSUME NEW o \in WaitObj, NEW u \in ToSet(waitQ'[o])
          PROVE  /\ wqp'[u] = o /\ call'[u].number = "MUTEX_LOCK"
                 /\ u \in ToSet(tmo') => ttype'[u] = "BLOCKING"
      <4>1. u \in ToSet(waitQ[o])
        BY <3>1
      <4>2. /\ wqp[u] = o /\ call[u].number = "MUTEX_LOCK"
            /\ u \in ToSet(tmo) => ttype[u] = "BLOCKING"
        BY <1>1, <4>1 DEF QueueInv
      <4>3. u \in Task \ {run}
        BY <3>4, <4>1
      <4> QED BY <3>1, <3>2, <3>3, <4>2, <4>3
    <3> QED BY <1>1, <3>1, <3>5, <3>6 DEF QueueInv
  <2>3. CASE kTaskSelfSuspend
    <3>1. /\ UNCHANGED <<waitQ, wqp, tmo, ttype>>
          /\ status' = [status EXCEPT ![run] = "SELF_SUSPENDED"]
          /\ call' = [call EXCEPT ![run].number = "TASK_SELF_SUSPEND",
                                  ![run].phase = "WAIT"]
      BY <2>3 DEF kTaskSelfSuspend, timeVars, waitVars
    <3>2. /\ \A u \in Task \ {run} : call'[u] = call[u] /\ status'[u] = status[u]
          /\ call'[run].number = "TASK_SELF_SUSPEND"
      BY <1>1, <3>1, ExecutingFacts DEF TypeOK, CallTypeOK, SchedTypeOK, Suspension
    <3>3. \A o \in WaitObj : \A u \in ToSet(waitQ[o]) : u \in Task \ {run}
      BY <1>1, ExecutingFacts, ListedTasks
    <3>4. \A u \in Task : status'[u] = "SELF_SUSPENDED"
                            => call'[u].number = "TASK_SELF_SUSPEND"
      BY <1>1, <3>2 DEF QueueInv
    <3>5. ASSUME NEW o \in WaitObj, NEW u \in ToSet(waitQ'[o])
          PROVE  /\ wqp'[u] = o /\ call'[u].number = "MUTEX_LOCK"
                 /\ u \in ToSet(tmo') => ttype'[u] = "BLOCKING"
      <4>1. u \in ToSet(waitQ[o])
        BY <3>1
      <4>2. /\ wqp[u] = o /\ call[u].number = "MUTEX_LOCK"
            /\ u \in ToSet(tmo) => ttype[u] = "BLOCKING"
        BY <1>1, <4>1 DEF QueueInv
      <4>3. u \in Task \ {run}
        BY <3>3, <4>1
      <4> QED BY <3>1, <3>2, <4>2, <4>3
    <3> QED BY <1>1, <3>1, <3>4, <3>5 DEF QueueInv
  <2>4. ASSUME NEW t \in MaySuspend, kTaskResume(t) PROVE QueueInv'
    <3>1. UNCHANGED <<waitQ, wqp, tmo, ttype, call, status>>
      BY <2>4 DEF kTaskResume, schedVars, waitVars, timeVars
    <3> QED BY <1>1, <3>1 DEF QueueInv
  <2> QED BY <1>10, <2>1, <2>2, <2>3, <2>4 DEF SchedCall
<1>11. CASE MutexCall
  <2> SUFFICES ASSUME NEW m \in Mutex, Executing,
                      \/ \E timeout \in Timeout : kMutexLock(m, timeout)
                      \/ kMutexUnlock(m)
               PROVE  QueueInv'
    BY <1>11 DEF MutexCall, kMutexLock, kMutexUnlock
  <2>1. ASSUME NEW timeout \in Timeout,
               LockFaulted(m) \/ LockFree(m) \/ LockNoWait(m, timeout)
        PROVE  QueueInv'
    <3>1. UNCHANGED <<waitQ, wqp, tmo, ttype, call, status>>
      BY <2>1 DEF LockFaulted, LockFree, TakeMutex, OwnMutex, LockNoWait, schedVars, waitVars, timeVars
    <3> QED BY <1>1, <3>1 DEF QueueInv
  <2>2. ASSUME NEW timeout \in Timeout, LockBlock(m, timeout) PROVE QueueInv'
    <3>1. /\ timeout \in Timeout \ {NoWait} /\ ArmTimeout(run, "BLOCKING", timeout)
          /\ call' = [call EXCEPT ![run] = [number |-> "MUTEX_LOCK", arg |-> m,
                                            phase |-> "WAIT", wake |-> "SUCCESS"]]
          /\ wqp' = [wqp EXCEPT ![run] = m]
          /\ status' = [status EXCEPT ![run] = "BLOCKED"]
      BY <2>2 DEF LockBlock, WaitForMutex, LockReturns
    <3>2. /\ ToSet(tmo') \subseteq ToSet(tmo) \cup {run}
          /\ run \in ToSet(tmo') => ttype'[run] = "BLOCKING"
          /\ \A u \in Task \ {run} : ttype'[u] = ttype[u]
      BY <1>1, <3>1, ExecutingFacts, ArmEffects
    <3>3. /\ \A u \in Task \ {run} : /\ call'[u] = call[u] /\ status'[u] = status[u]
                                     /\ wqp'[u] = wqp[u]
          /\ call'[run].number = "MUTEX_LOCK" /\ wqp'[run] = m
          /\ status'[run] = "BLOCKED"
      BY <1>1, <3>1, ExecutingFacts DEF TypeOK, CallTypeOK, SchedTypeOK, WaitTypeOK
    <3>4. /\ \A o \in WaitObj : NoDuplicates(waitQ'[o])
          /\ ToSet(waitQ'[m]) = ToSet(waitQ[m]) \cup {run}
          /\ \A o \in WaitObj \ {m} : waitQ'[o] = waitQ[o]
      BY <2>2, BlockQueues
    <3>5. ASSUME NEW o \in WaitObj, NEW u \in ToSet(waitQ'[o])
          PROVE  /\ wqp'[u] = o /\ call'[u].number = "MUTEX_LOCK"
                 /\ u \in ToSet(tmo') => ttype'[u] = "BLOCKING"
      <4>1. CASE u = run
        <5>1. o = m
          BY <3>4, <3>5, <4>1, ExecutingFacts
        <5> QED BY <3>2, <3>3, <4>1, <5>1
      <4>2. CASE u # run
        <5>1. u \in ToSet(waitQ[o])
          BY <3>4, <3>5, <4>2
        <5>2. u \in Task \ {run}
          BY <1>1, <4>2, <5>1, ListedTasks
        <5> QED BY <1>1, <3>2, <3>3, <5>1, <5>2 DEF QueueInv
      <4> QED BY <4>1, <4>2
    <3> QED BY <1>1, <3>3, <3>4, <3>5 DEF QueueInv
  <2>3. CASE kMutexUnlock(m)
    <3>1. CASE UnlockFree(m)
      <4>1. UNCHANGED <<waitQ, wqp, tmo, ttype, call, status>>
        BY <2>3, <3>1 DEF kMutexUnlock, UnlockFree, FreeMutex, schedVars, waitVars, timeVars
      <4> QED BY <1>1, <4>1 DEF QueueInv
    <3>2. CASE UnlockHandOff(m)
      <4> DEFINE w == Head(waitQ[m])
      <4>1. /\ w \in Task /\ wqp' = [wqp EXCEPT ![w] = None]
            /\ DisarmTimeout(w) \/ UNCHANGED timeVars
            /\ UNCHANGED <<call, status>>
        BY <1>1, <2>3, <3>2, HandOffTodo DEF UnlockHandOff, kMutexUnlock, schedVars
      <4>2. \A o \in WaitObj : /\ NoDuplicates(waitQ'[o])
                               /\ ToSet(waitQ'[o]) \subseteq ToSet(waitQ[o]) \ {w}
        BY <1>1, <3>2, HandOffQueues
      <4> HIDE DEF w
      <4>3. /\ ToSet(tmo') \subseteq ToSet(tmo)
            /\ \A u \in Task \ {w} : ttype'[u] = ttype[u] /\ wqp'[u] = wqp[u]
        <5>1. CASE DisarmTimeout(w)
          BY <1>1, <4>1, <5>1, DisarmEffects DEF TypeOK, WaitTypeOK
        <5>2. CASE UNCHANGED timeVars
          BY <1>1, <4>1, <5>2 DEF timeVars, TypeOK, WaitTypeOK
        <5> QED BY <4>1, <5>1, <5>2
      <4> QED BY <1>1, <4>1, <4>2, <4>3, ListedTasks DEF QueueInv
    <3> QED BY <2>3, <3>1, <3>2 DEF kMutexUnlock
  <2> QED BY <2>1, <2>2, <2>3 DEF kMutexLock
<1>12. CASE SignalCall
  <2> PICK t \in MaySignal : kTaskSignalReady(t)
    BY <1>12 DEF SignalCall
  <2>1. /\ t \in Task /\ UNCHANGED <<wqp, tmo, ttype, call, status>>
        /\ waitQ' = IF wqp[t] # None THEN [waitQ EXCEPT ![wqp[t]] = kTCBQRem(@, t)]
                                     ELSE waitQ
    BY MutexConstants DEF kTaskSignalReady, UserTask, timeVars, schedVars
  <2>2. wqp[t] = None => \A o \in WaitObj : t \notin ToSet(waitQ[o])
    BY <1>1, KernelConstants DEF QueueInv, WaitObj
  <2>3. \A o \in WaitObj : /\ NoDuplicates(waitQ'[o])
                           /\ ToSet(waitQ'[o]) \subseteq ToSet(waitQ[o]) \ {t}
    BY <1>1, <2>1, <2>2, UnlinkQueues
  <2> QED BY <1>1, <2>1, <2>3 DEF QueueInv
<1>13. CASE UNCHANGED kernelVars
  <2>1. UNCHANGED <<waitQ, wqp, tmo, ttype, call, status>>
    BY <1>13 DEF kernelVars, schedVars, waitVars, timeVars, callVars
  <2> QED BY <1>1, <2>1 DEF QueueInv
<1> QED BY <1>2, <1>3, <1>4, <1>5, <1>6, <1>7, <1>8, <1>9, <1>10, <1>11, <1>12,
           <1>13 DEF Next, KernelStep

(***************************************************************************)
(* The calls still to be made.                                             *)
(***************************************************************************)
\* That part of the invariant survives a step that lists no task anew and
\* promises to ready none.
LEMMA TodoFrame ==
  ASSUME TodoInv,
         ToSet(tmo') \subseteq ToSet(tmo),
         \A o \in WaitObj : ToSet(waitQ'[o]) \subseteq ToSet(waitQ[o]),
         \A c \in ToSet(todo') :
           c \in ToSet(todo) \/ c.op \notin {"ready", "timeoutReady", "signalReady"}
  PROVE  TodoInv'
BY DEF TodoInv

\* Nothing is queued that readies a task still linked or armed.
LEMMA TodoStep ==
  ASSUME KernelInv, [Next]_kernelVars
  PROVE  TodoInv'
<1>1. TypeOK /\ TimeInv /\ QueueInv /\ TodoInv /\ StaleInv
  BY DEF KernelInv
<1>2. CASE UpdatePrio
  <2>1. UNCHANGED tmo
    BY <1>2 DEF UpdatePrio, timeVars
  <2>2. \A c \in ToSet(todo') : c \in ToSet(todo) \/ c.op = "updatePrio"
    BY <1>1, <1>2, UpdatePrioOps
  <2>3. \A o \in WaitObj : ToSet(waitQ'[o]) \subseteq ToSet(waitQ[o])
    BY <1>1, <1>2, WalkQueues
  <2> QED BY <1>1, <2>1, <2>2, <2>3, TodoFrame
<1>3. CASE ReadySwtch \/ TimeoutReady \/ TickEnd \/ SignalReady
  <2>1. todo # <<>> /\ todo' = Tail(todo) /\ UNCHANGED waitQ
    BY <1>3 DEF ReadySwtch, TimeoutReady, TickEnd, SignalReady, waitVars
  <2>2. ToSet(todo') \subseteq ToSet(todo)
    BY <1>1, <2>1, TodoSets
  <2>3. ToSet(tmo') \subseteq ToSet(tmo)
    <3>1. CASE UNCHANGED tmo
      BY <3>1
    <3>2. CASE SignalReady
      <4>1. Head(todo).task \in Task /\ DisarmTimeout(Head(todo).task)
        BY <1>1, <3>2, HeadTask DEF SignalReady
      <4> QED BY <1>1, <4>1, DisarmEffects
    <3> QED BY <1>3, <3>1, <3>2 DEF ReadySwtch, TimeoutReady, TickEnd, timeVars
  <2> QED BY <1>1, <2>1, <2>2, <2>3, TodoFrame
<1>4. CASE TimeoutExpire
  <2> DEFINE t == Head(tmo)
  <2>1. /\ tmo \in Seq(Task) /\ tmo # <<>> /\ tmo' = Tail(tmo) /\ t \in Task
        /\ waitQ' = IF ttype[t] = "BLOCKING"
                      THEN [waitQ EXCEPT ![wqp[t]] = kTCBQRem(@, t)] ELSE waitQ
    BY <1>1, <1>4, ExpireTodo DEF TimeoutExpire, TypeOK, TimeTypeOK
  <2>2. t \in ToSet(tmo) /\ t \notin ToSet(tmo')
    BY <1>1, <2>1, TailFacts DEF TimeInv
  <2>3. \A c \in ToSet(todo') :
          \/ c.op \notin {"ready", "timeoutReady", "signalReady"}
          \/ c.op = "timeoutReady" /\ c.task = t
    BY <1>1, <1>4, ExpireTodo DEF HandleTimeoutsOf
  <2>4. ttype[t] # "BLOCKING" => \A o \in WaitObj : t \notin ToSet(waitQ[o])
    BY <1>1, <2>2 DEF QueueInv
  <2> HIDE DEF t
  <2>5. \A o \in WaitObj : t \notin ToSet(waitQ'[o])
    BY <1>1, <2>1, <2>4, UnlinkQueues
  <2> QED BY <2>2, <2>3, <2>5 DEF TodoInv
<1>5. CASE kSwtch \/ Tick \/ UNCHANGED kernelVars
  <2>1. UNCHANGED <<tmo, waitQ>>
    BY <1>5 DEF kSwtch, Tick, kernelVars, waitVars, timeVars
  <2>2. todo' = todo \/ todo' = <<HandleTimeoutsOf(FALSE)>>
    BY <1>5 DEF kSwtch, Tick, kernelVars
  <2>3. \A c \in ToSet(<<HandleTimeoutsOf(FALSE)>>) : c.op = "handleTimeouts"
    BY DEF HandleTimeoutsOf, ToSet
  <2> QED BY <1>1, <2>1, <2>2, <2>3, TodoFrame
<1>6. CASE SchedCall
  <2> SUFFICES ASSUME Executing PROVE TodoInv'
    BY <1>6 DEF SchedCall, kSchLock, kSchUnlock, kYield, kSleepDelay,
                kTaskSelfSuspend, kTaskResume
  <2>1. CASE UNCHANGED todo
    <3>1. ToSet(todo') = {}
      BY <2>1, ExecutingFacts DEF ToSet
    <3> QED BY <3>1 DEF TodoInv
  <2>2. ASSUME NEW t \in MaySuspend, kTaskResume(t) PROVE TodoInv'
    <3>1. /\ t \in Task /\ status[t] = "SELF_SUSPENDED"
          /\ todo' = <<ReadySwtchOf(t)>> /\ UNCHANGED <<tmo, waitQ>>
      BY <2>2, MutexConstants DEF kTaskResume, UserTask, timeVars, waitVars
    <3>2. call[t].number = "TASK_SELF_SUSPEND"
      BY <1>1, <3>1 DEF QueueInv
    <3>3. /\ t \notin ToSet(tmo)
          /\ \A o \in WaitObj : t \notin ToSet(waitQ[o])
      BY <1>1, <3>2 DEF QueueInv, TimeInv
    <3>4. \A c \in ToSet(todo') : c.op = "ready" /\ c.task = t
      BY <3>1 DEF ReadySwtchOf, ToSet
    <3> QED BY <3>1, <3>3, <3>4 DEF TodoInv
  <2> QED BY <1>6, <2>1, <2>2 DEF SchedCall, kSchLock, kSchUnlock, kYield,
                                  kSleepDelay, kTaskSelfSuspend
<1>7. CASE MutexCall
  <2> SUFFICES ASSUME NEW m \in Mutex, Executing,
                      \/ \E timeout \in Timeout : kMutexLock(m, timeout)
                      \/ kMutexUnlock(m)
               PROVE  TodoInv'
    BY <1>7 DEF MutexCall, kMutexLock, kMutexUnlock
  <2>1. CASE \/ UNCHANGED todo
             \/ \E u : todo' = <<UpdatePrioOf(u)>>
             \/ todo' = <<>>
    <3>1. \A c \in ToSet(todo') : c.op = "updatePrio"
      BY <2>1, ExecutingFacts DEF UpdatePrioOf, ToSet
    <3> QED BY <3>1 DEF TodoInv
  <2>2. CASE UnlockHandOff(m)
    <3> DEFINE w == Head(waitQ[m])
    <3>1. /\ w \in Task
          /\ \A c \in ToSet(todo') : c.op = "updatePrio" \/ c = ReadySwtchOf(w)
      BY <1>1, <2>2, HandOffTodo
    <3>2. /\ m \in WaitObj /\ w \in ToSet(waitQ[m])
          /\ \A o \in WaitObj : w \notin ToSet(waitQ'[o])
      BY <1>1, <2>2, HandOffQueues DEF WaitObj
    <3>3. IF ttype[w] = "BLOCKING" THEN DisarmTimeout(w) ELSE UNCHANGED timeVars
      BY <2>2 DEF UnlockHandOff
    <3> HIDE DEF w
    <3>4. w \notin ToSet(tmo')
      <4>1. CASE ttype[w] = "BLOCKING"
        BY <1>1, <3>1, <3>3, <4>1, DisarmEffects
      <4>2. CASE ttype[w] # "BLOCKING"
        <5>1. w \notin ToSet(tmo)
          BY <1>1, <3>2, <4>2 DEF QueueInv
        <5> QED BY <3>3, <4>2, <5>1 DEF timeVars
      <4> QED BY <4>1, <4>2
    <3>5. \A c \in ToSet(todo') :
            c.op = "updatePrio" \/ (c.op = "ready" /\ c.task = w)
      BY <3>1 DEF ReadySwtchOf
    <3> QED BY <3>2, <3>4, <3>5 DEF TodoInv
  <2> QED BY <2>1, <2>2
      DEF kMutexLock, kMutexUnlock, LockFaulted, LockFree, TakeMutex, OwnMutex, LockNoWait, LockBlock, WaitForMutex, LockReturns,
          UnlockFree, FreeMutex
<1>8. CASE SignalCall
  <2> PICK t \in MaySignal : kTaskSignalReady(t)
    BY <1>8 DEF SignalCall
  <2>1. /\ t \in Task
        /\ waitQ' = IF wqp[t] # None THEN [waitQ EXCEPT ![wqp[t]] = kTCBQRem(@, t)]
                                     ELSE waitQ
    BY MutexConstants DEF kTaskSignalReady, UserTask
  <2>2. wqp[t] = None => \A o \in WaitObj : t \notin ToSet(waitQ[o])
    BY <1>1, KernelConstants DEF QueueInv, WaitObj
  <2>3. \A o \in WaitObj : t \notin ToSet(waitQ'[o])
    BY <1>1, <2>1, <2>2, UnlinkQueues
  <2>4. \A c \in ToSet(todo') :
          c.op = "updatePrio" \/ (c.op = "signalReady" /\ c.task = t)
    BY <1>1, <2>1, SignalTodo
  <2> QED BY <2>3, <2>4 DEF TodoInv
<1> QED BY <1>2, <1>3, <1>4, <1>5, <1>6, <1>7, <1>8 DEF Next, KernelStep

(***************************************************************************)
(* Ownership.                                                              *)
(***************************************************************************)
\* That part of the invariant survives a step that changes no record of
\* ownership and adds nobody to a queue.
LEMMA OwnerFrame ==
  ASSUME IInv, TypeOK',
         UNCHANGED <<lock, owner, owned, faulted>>,
         \A o \in WaitObj : ToSet(waitQ'[o]) \subseteq ToSet(waitQ[o])
  PROVE  OwnerInv'
<1>1. \A m \in Mutex : /\ m \in WaitObj
                       /\ waitQ[m] \in Seq(Task) /\ waitQ'[m] \in Seq(Task)
  BY DEF WaitObj, IInv, KernelInv, TypeOK, WaitTypeOK
<1>2. \A m \in Mutex : waitQ[m] = <<>> => waitQ'[m] = <<>>
  <2> TAKE m \in Mutex
  <2>1. ToSet(waitQ'[m]) \subseteq ToSet(waitQ[m])
    BY <1>1
  <2>2. waitQ[m] = <<>> => ToSet(waitQ[m]) = {}
    BY <1>1, EmptySet
  <2>3. ToSet(waitQ'[m]) = {} => waitQ'[m] = <<>>
    BY <1>1, EmptySet
  <2> QED BY <2>1, <2>2, <2>3
<1>3. \A m \in Mutex : owner[m] \notin ToSet(waitQ'[m])
  BY <1>1 DEF IInv, KernelInv, OwnerInv
<1> QED BY <1>2, <1>3 DEF IInv, KernelInv, OwnerInv

\* Every step keeps the three records of ownership in agreement.
LEMMA OwnerStep ==
  ASSUME IInv, [Next]_kernelVars
  PROVE  OwnerInv'
<1>1. TypeOK /\ TimeInv /\ QueueInv /\ OwnerInv /\ TypeOK' /\ StaleInv
  BY TypeStep DEF IInv, KernelInv
<1>2. CASE UpdatePrio
  <2>1. UNCHANGED <<lock, owner, owned, faulted>>
    BY <1>2 DEF UpdatePrio, mutexVars
  <2> QED BY <1>1, <1>2, <2>1, WalkQueues, OwnerFrame
<1>3. CASE ReadySwtch \/ TimeoutReady \/ TickEnd \/ SignalReady \/ kSwtch \/ Tick
           \/ SchedCall \/ UNCHANGED kernelVars
  <2>1. UNCHANGED <<lock, owner, owned, faulted, waitQ>>
    BY <1>3
    DEF ReadySwtch, TimeoutReady, TickEnd, SignalReady, kSwtch, Tick, SchedCall,
        kSchLock, kSchUnlock, kYield, kSleepDelay, kTaskSelfSuspend, kTaskResume,
        kernelVars, waitVars, mutexVars
  <2> QED BY <2>1, <1>1, OwnerFrame
<1>4. CASE TimeoutExpire
  <2> DEFINE t == Head(tmo)
  <2>1. /\ t \in Task /\ tmo \in Seq(Task) /\ tmo # <<>>
        /\ waitQ' = IF ttype[t] = "BLOCKING"
                      THEN [waitQ EXCEPT ![wqp[t]] = kTCBQRem(@, t)] ELSE waitQ
        /\ UNCHANGED <<lock, owner, owned, faulted>>
    BY <1>1, <1>4, ExpireTodo DEF TimeoutExpire, mutexVars, TypeOK, TimeTypeOK
  <2>2. ttype[t] # "BLOCKING" => \A o \in WaitObj : t \notin ToSet(waitQ[o])
    <3>1. t \in ToSet(tmo)
      BY <2>1, TailFacts
    <3> QED BY <1>1, <3>1 DEF QueueInv
  <2> HIDE DEF t
  <2>3. \A o \in WaitObj : ToSet(waitQ'[o]) \subseteq ToSet(waitQ[o])
    BY <1>1, <2>1, <2>2, UnlinkQueues
  <2> QED BY <1>1, <2>1, <2>3, OwnerFrame
<1>5. CASE SignalCall
  <2> PICK t \in MaySignal : kTaskSignalReady(t)
    BY <1>5 DEF SignalCall
  <2>1. /\ t \in Task /\ UNCHANGED <<lock, owner, owned, faulted>>
        /\ waitQ' = IF wqp[t] # None THEN [waitQ EXCEPT ![wqp[t]] = kTCBQRem(@, t)]
                                     ELSE waitQ
    BY MutexConstants DEF kTaskSignalReady, UserTask, mutexVars
  <2>2. wqp[t] = None => \A o \in WaitObj : t \notin ToSet(waitQ[o])
    BY <1>1, KernelConstants DEF QueueInv, WaitObj
  <2>3. \A o \in WaitObj : ToSet(waitQ'[o]) \subseteq ToSet(waitQ[o])
    BY <1>1, <2>1, <2>2, UnlinkQueues
  <2> QED BY <1>1, <2>1, <2>3, OwnerFrame
<1>6. CASE MutexCall
  <2> SUFFICES ASSUME NEW m \in Mutex, Executing,
                      \/ \E timeout \in Timeout : kMutexLock(m, timeout)
                      \/ kMutexUnlock(m)
               PROVE  OwnerInv'
    BY <1>6 DEF MutexCall, kMutexLock, kMutexUnlock
  <2>0. /\ run \in Task /\ m \in WaitObj /\ None \notin Task
        /\ lock \in [Mutex -> BOOLEAN] /\ owner \in [Mutex -> Task \cup {None}]
        /\ owned \in [Task -> SUBSET Mutex]
    BY <1>1, ExecutingFacts, KernelConstants DEF IInv, WaitObj, TypeOK, MutexTypeOK
  <2>1. ASSUME NEW timeout \in Timeout, LockFaulted(m) \/ LockNoWait(m, timeout)
        PROVE  OwnerInv'
    <3>1. UNCHANGED <<lock, owner, owned, faulted, waitQ>>
      BY <2>1 DEF LockFaulted, LockNoWait, mutexVars, waitVars
    <3> QED BY <3>1, <1>1, OwnerFrame
  <2>2. CASE LockFree(m)
    <3>1. /\ ~lock[m] /\ lock' = [lock EXCEPT ![m] = TRUE]
          /\ owner' = [owner EXCEPT ![m] = run]
          /\ owned' = [owned EXCEPT ![run] = @ \cup {m}]
          /\ UNCHANGED <<waitQ, faulted>>
      BY <2>2 DEF LockFree, TakeMutex, OwnMutex, waitVars
    <3>2. owner[m] = None /\ waitQ[m] = <<>>
      BY <1>1, <3>1 DEF OwnerInv
    <3>3. run \notin ToSet(waitQ[m])
      BY <2>0, ExecutingFacts DEF IInv
    <3>4. /\ lock'[m] /\ owner'[m] = run
          /\ \A n \in Mutex \ {m} : lock'[n] = lock[n] /\ owner'[n] = owner[n]
          /\ \A t \in Task, n \in Mutex :
               n \in owned'[t] <=> (n \in owned[t] \/ (t = run /\ n = m))
      BY <2>0, <3>1
    <3>5. ASSUME NEW n \in Mutex, n # m
          PROVE  /\ lock'[n] <=> owner'[n] # None
                 /\ \A t \in Task : n \in owned'[t] <=> owner'[n] = t
                 /\ owner'[n] = None => waitQ'[n] = <<>>
                 /\ owner'[n] \notin ToSet(waitQ'[n])
                 /\ ~faulted'[n]
      BY <1>1, <3>1, <3>4, <3>5 DEF OwnerInv
    <3>6. /\ lock'[m] <=> owner'[m] # None
          /\ \A t \in Task : m \in owned'[t] <=> owner'[m] = t
          /\ owner'[m] = None => waitQ'[m] = <<>>
          /\ owner'[m] \notin ToSet(waitQ'[m])
          /\ ~faulted'[m]
      <4>1. \A t \in Task : m \notin owned[t]
        BY <1>1, <2>0, <3>2 DEF OwnerInv
      <4> QED BY <1>1, <2>0, <3>1, <3>2, <3>3, <3>4, <4>1 DEF OwnerInv
    <3> QED BY <3>5, <3>6 DEF OwnerInv
  <2>3. ASSUME NEW timeout \in Timeout, LockBlock(m, timeout) PROVE OwnerInv'
    <3>1. UNCHANGED <<lock, owner, owned, faulted>> /\ owner[m] \notin {run, None}
      BY <2>3 DEF LockBlock, WaitForMutex, LockReturns
    <3>2. /\ ToSet(waitQ'[m]) = ToSet(waitQ[m]) \cup {run}
          /\ \A o \in WaitObj \ {m} : waitQ'[o] = waitQ[o]
      BY <2>3, BlockQueues DEF IInv
    <3>3. owner[m] # None /\ owner[m] \notin ToSet(waitQ'[m])
      BY <1>1, <3>1, <3>2 DEF OwnerInv
    <3>4. \A n \in Mutex \ {m} : waitQ'[n] = waitQ[n]
      BY <3>2 DEF WaitObj
    <3> QED BY <1>1, <3>1, <3>3, <3>4 DEF OwnerInv
  <2>4. CASE kMutexUnlock(m)
    <3>0. owner[m] = run /\ lock[m] /\ UNCHANGED faulted
      BY <2>4 DEF kMutexUnlock
    <3>1. CASE UnlockFree(m)
      <4>1. /\ waitQ[m] = <<>> /\ lock' = [lock EXCEPT ![m] = FALSE]
            /\ owner' = [owner EXCEPT ![m] = None]
            /\ owned' = [owned EXCEPT ![run] = @ \ {m}]
            /\ UNCHANGED waitQ
        BY <3>1 DEF UnlockFree, FreeMutex, waitVars
      <4>2. /\ ~lock'[m] /\ owner'[m] = None
            /\ \A n \in Mutex \ {m} : lock'[n] = lock[n] /\ owner'[n] = owner[n]
            /\ \A t \in Task, n \in Mutex :
                 n \in owned'[t] <=> (n \in owned[t] /\ ~(t = run /\ n = m))
        BY <2>0, <4>1
      <4>3. ASSUME NEW n \in Mutex, n # m
            PROVE  /\ lock'[n] <=> owner'[n] # None
                   /\ \A t \in Task : n \in owned'[t] <=> owner'[n] = t
                   /\ owner'[n] = None => waitQ'[n] = <<>>
                   /\ owner'[n] \notin ToSet(waitQ'[n])
                   /\ ~faulted'[n]
        BY <1>1, <3>0, <4>1, <4>2, <4>3 DEF OwnerInv
      <4>4. /\ lock'[m] <=> owner'[m] # None
            /\ \A t \in Task : m \in owned'[t] <=> owner'[m] = t
            /\ owner'[m] = None => waitQ'[m] = <<>>
            /\ owner'[m] \notin ToSet(waitQ'[m])
            /\ ~faulted'[m]
        <5>1. \A t \in Task : m \in owned[t] => t = run
          BY <1>1, <3>0 DEF OwnerInv
        <5>2. None \notin ToSet(waitQ[m])
          BY <1>1, <2>0, ListedTasks
        <5> QED BY <1>1, <2>0, <3>0, <4>1, <4>2, <5>1, <5>2 DEF OwnerInv
      <4> QED BY <4>3, <4>4 DEF OwnerInv
    <3>2. CASE UnlockHandOff(m)
      <4> DEFINE w == Head(waitQ[m])
      <4>1. /\ lock' = [lock EXCEPT ![m] = TRUE]
            /\ owner' = [owner EXCEPT ![m] = w]
            /\ owned' = [owned EXCEPT ![run] = @ \ {m}, ![w] = @ \cup {m}]
        BY <3>2 DEF UnlockHandOff
      <4>2. /\ w \in Task /\ w \in ToSet(waitQ[m])
            /\ \A o \in WaitObj : ToSet(waitQ'[o]) \subseteq ToSet(waitQ[o]) \ {w}
            /\ \A o \in WaitObj \ {m} : waitQ'[o] = waitQ[o]
        BY <1>1, <3>2, HandOffTodo, HandOffQueues
      <4>3. w # run
        BY <1>1, <3>0, <4>2 DEF OwnerInv
      <4> HIDE DEF w
      <4>4. /\ lock'[m] /\ owner'[m] = w
            /\ \A n \in Mutex \ {m} : lock'[n] = lock[n] /\ owner'[n] = owner[n]
            /\ \A t \in Task, n \in Mutex \ {m} : n \in owned'[t] <=> n \in owned[t]
            /\ \A t \in Task : m \in owned'[t] <=> (t = w \/ (m \in owned[t] /\ t # run))
        <5>1. owned' = [t \in Task |-> IF t = w THEN owned[t] \cup {m}
                                       ELSE IF t = run THEN owned[t] \ {m}
                                       ELSE owned[t]]
          BY <2>0, <4>1, <4>2, <4>3
        <5>2. \A t \in Task : owned'[t] = IF t = w THEN owned[t] \cup {m}
                                          ELSE IF t = run THEN owned[t] \ {m}
                                          ELSE owned[t]
          BY <5>1
        <5> QED BY <2>0, <4>1, <4>2, <4>3, <5>2
      <4>5. ASSUME NEW n \in Mutex, n # m
            PROVE  /\ lock'[n] <=> owner'[n] # None
                   /\ \A t \in Task : n \in owned'[t] <=> owner'[n] = t
                   /\ owner'[n] = None => waitQ'[n] = <<>>
                   /\ owner'[n] \notin ToSet(waitQ'[n])
                   /\ ~faulted'[n]
        <5>1. waitQ'[n] = waitQ[n]
          BY <4>2, <4>5 DEF WaitObj
        <5> QED BY <1>1, <3>0, <4>4, <4>5, <5>1 DEF OwnerInv
      <4>6. /\ lock'[m] <=> owner'[m] # None
            /\ \A t \in Task : m \in owned'[t] <=> owner'[m] = t
            /\ owner'[m] = None => waitQ'[m] = <<>>
            /\ owner'[m] \notin ToSet(waitQ'[m])
            /\ ~faulted'[m]
        <5>1. \A t \in Task : m \in owned[t] => t = run
          BY <1>1, <3>0 DEF OwnerInv
        <5> QED BY <1>1, <2>0, <3>0, <4>2, <4>4, <5>1 DEF OwnerInv
      <4> QED BY <4>5, <4>6 DEF OwnerInv
    <3> QED BY <2>4, <3>1, <3>2 DEF kMutexUnlock
  <2> QED BY <2>1, <2>2, <2>3, <2>4 DEF kMutexLock
<1> QED BY <1>2, <1>3, <1>4, <1>5, <1>6 DEF Next, KernelStep

(***************************************************************************)
(* The ready queues.                                                       *)
(***************************************************************************)
\* That part of the invariant survives a step that makes at most one task
\* READY and puts it in its queue, and takes no other from a queue.
LEMMA ReadyFrame ==
  ASSUME KernelInv, UNCHANGED run, NEW t \in Task,
         \A u \in Task \ {t} :
           /\ status'[u] = status[u] /\ prio'[u] = prio[u]
           /\ status[u] = "READY" /\ u \in ToSet(readyQ[prio[u]])
                => u \in ToSet(readyQ'[prio[u]]),
         status'[t] = "READY" => t \in ToSet(readyQ'[prio'[t]]),
         status'[t] = "RUNNING" => t = run,
         t = IdleTask => status'[t] \in {"READY", "RUNNING"}
  PROVE  ReadyInv'
BY KernelConstants DEF KernelInv, ReadyInv

\* A task at an end of a queue is on it, and so are all that were.
LEMMA EnterQueues ==
  ASSUME TypeOK, NEW t \in Task,
         \/ readyQ' = [readyQ EXCEPT ![prio[t]] = kTCBQEnq(@, t)]
         \/ readyQ' = [readyQ EXCEPT ![prio[t]] = kTCBQJam(@, t)]
  PROVE  /\ t \in ToSet(readyQ'[prio[t]])
         /\ \A p \in Prio : ToSet(readyQ[p]) \subseteq ToSet(readyQ'[p])
<1>1. prio[t] \in Prio /\ readyQ \in [Prio -> Seq(Task)]
  BY DEF TypeOK, SchedTypeOK
<1>2. /\ ToSet(kTCBQEnq(readyQ[prio[t]], t)) = ToSet(readyQ[prio[t]]) \cup {t}
      /\ ToSet(kTCBQJam(readyQ[prio[t]], t)) = ToSet(readyQ[prio[t]]) \cup {t}
  BY <1>1, ReadyEnqProperties
<1>3. \A p \in Prio \ {prio[t]} : readyQ'[p] = readyQ[p]
  BY <1>1
<1>4. \/ readyQ'[prio[t]] = kTCBQEnq(readyQ[prio[t]], t)
      \/ readyQ'[prio[t]] = kTCBQJam(readyQ[prio[t]], t)
  BY <1>1
<1> QED BY <1>1, <1>2, <1>3, <1>4

\* No step leaves a READY task out of the queue of its priority.
LEMMA ReadyStep ==
  ASSUME KernelInv, [Next]_kernelVars
  PROVE  ReadyInv'
<1>1. /\ TypeOK /\ ReadyInv /\ IdleTask \in Task
      /\ \A u \in Task : prio[u] \in Prio
  BY KernelConstants DEF KernelInv, TypeOK, SchedTypeOK
<1>2. CASE UpdatePrio
  <2> DEFINE t == Head(todo).task
             new == kTaskCalcEffectivePrio_(t)
             pr == [prio EXCEPT ![t] = new]
  <2>1. t \in Task /\ new \in Prio
    BY <1>1, <1>2, HeadTask, CalcEffectiveProperties DEF UpdatePrio
  <2>2. CASE new = prio[t]
    <3>1. UNCHANGED schedVars
      BY <1>2, <2>2 DEF UpdatePrio
    <3> QED BY <1>1, <3>1 DEF ReadyInv, schedVars
  <2>3. CASE new # prio[t]
    <3>0. ~StaleWait(t)
      BY <2>1 DEF KernelInv, StaleInv, StaleWait
    <3>1. /\ prio' = pr /\ UNCHANGED <<run, status>>
          /\ readyQ' = IF status[t] = "READY"
                       THEN [readyQ EXCEPT ![prio[t]] = kTCBQRem(@, t),
                                           ![new] = kTCBQEnq(@, t)]
                       ELSE readyQ
      BY <1>2, <2>3, <3>0 DEF UpdatePrio
    <3> HIDE DEF t, new
    <3>2. prio'[t] = new /\ \A u \in Task \ {t} : prio'[u] = prio[u]
      BY <1>1, <2>1, <3>1 DEF TypeOK, SchedTypeOK
    <3>3. CASE status[t] = "READY"
      <4>1. /\ readyQ \in [Prio -> Seq(Task)] /\ prio[t] \in Prio
            /\ readyQ' = [readyQ EXCEPT ![prio[t]] = kTCBQRem(@, t),
                                        ![new] = kTCBQEnq(@, t)]
        BY <1>1, <2>1, <3>1, <3>3 DEF TypeOK, SchedTypeOK
      <4>2. /\ readyQ'[prio[t]] = kTCBQRem(readyQ[prio[t]], t)
            /\ readyQ'[new] = kTCBQEnq(readyQ[new], t)
            /\ \A p \in Prio \ {prio[t], new} : readyQ'[p] = readyQ[p]
        BY <2>1, <2>3, <4>1
      <4>3. /\ ToSet(readyQ'[new]) = ToSet(readyQ[new]) \cup {t}
            /\ ToSet(readyQ[prio[t]]) \ {t} \subseteq ToSet(readyQ'[prio[t]])
        <5>1. ToSet(readyQ'[new]) = ToSet(readyQ[new]) \cup {t}
          <6>1. ToSet(kTCBQEnq(readyQ[new], t)) = ToSet(readyQ[new]) \cup {t}
            BY <2>1, <4>1, ReadyEnqProperties
          <6> QED BY <4>2, <6>1
        <5>2. readyQ[prio[t]] \in Seq(Task)
          BY <4>1
        <5>3. ToSet(readyQ[prio[t]]) \ {t}
                \subseteq ToSet(kTCBQRem(readyQ[prio[t]], t))
          BY <5>2, RemProperties
        <5> QED BY <4>2, <5>1, <5>3
      <4>4. \A p \in Prio : ToSet(readyQ[p]) \ {t} \subseteq ToSet(readyQ'[p])
        BY <4>2, <4>3
      <4>5. t \in ToSet(readyQ'[prio'[t]])
        BY <3>2, <4>3
      <4>6. \A u \in Task \ {t} :
              u \in ToSet(readyQ[prio[u]]) => u \in ToSet(readyQ'[prio[u]])
        BY <1>1, <4>4
      <4> QED BY <1>1, <2>1, <3>1, <3>2, <3>3, <4>5, <4>6, ReadyFrame
              DEF ReadyInv
    <3>4. CASE status[t] # "READY"
      BY <1>1, <2>1, <3>1, <3>2, <3>4, ReadyFrame DEF ReadyInv
    <3> QED BY <3>3, <3>4
  <2> QED BY <2>2, <2>3
<1>3. CASE ReadySwtch \/ TimeoutReady \/ SignalReady
  <2> DEFINE t == Head(todo).task
  <2>1. /\ t \in Task /\ status' = [status EXCEPT ![t] = "READY"]
        /\ \/ readyQ' = [readyQ EXCEPT ![prio[t]] = kTCBQEnq(@, t)]
           \/ readyQ' = [readyQ EXCEPT ![prio[t]] = kTCBQJam(@, t)]
        /\ UNCHANGED <<run, prio>>
    BY <1>1, <1>3, HeadTask DEF ReadySwtch, TimeoutReady, SignalReady, ReadyEnq
  <2> HIDE DEF t
  <2>2. /\ t \in ToSet(readyQ'[prio[t]])
        /\ \A p \in Prio : ToSet(readyQ[p]) \subseteq ToSet(readyQ'[p])
    BY <1>1, <2>1, EnterQueues
  <2>3. status'[t] = "READY" /\ \A u \in Task \ {t} : status'[u] = status[u]
    BY <1>1, <2>1 DEF TypeOK, SchedTypeOK
  <2> QED BY <1>1, <2>1, <2>2, <2>3, ReadyFrame
<1>4. CASE kSwtch
  <2> DEFINE preempted == status[run] = "RUNNING"
             rq == IF preempted THEN [readyQ EXCEPT ![prio[run]] = kTCBQJam(@, run)]
                                ELSE readyQ
             p == kCalcNextTaskPrio_(rq)
             next == Head(rq[p])
  <2>1. /\ run \in Task /\ readyQ \in [Prio -> Seq(Task)]
        /\ status \in [Task -> Status]
        /\ readyQ' = [rq EXCEPT ![p] = Tail(@)]
        /\ status' = [status EXCEPT ![run] = IF preempted THEN "READY" ELSE @,
                                    ![next] = "RUNNING"]
        /\ run' = next /\ UNCHANGED prio
    BY <1>1, <1>4 DEF kSwtch, TypeOK, SchedTypeOK
  <2>2. /\ rq \in [Prio -> Seq(Task)]
        /\ \A q \in Prio : ToSet(readyQ[q]) \subseteq ToSet(rq[q])
        /\ preempted => run \in ToSet(rq[prio[run]])
    <3>1. CASE preempted
      <4> DEFINE j == kTCBQJam(readyQ[prio[run]], run)
      <4>1. j \in Seq(Task) /\ ToSet(j) = ToSet(readyQ[prio[run]]) \cup {run}
        BY <1>1, <2>1, ReadyEnqProperties
      <4>2. rq = [readyQ EXCEPT ![prio[run]] = j]
        BY <3>1
      <4> HIDE DEF j, rq
      <4> QED BY <1>1, <2>1, <4>1, <4>2
    <3>2. CASE ~preempted
      BY <2>1, <3>2
    <3> QED BY <3>1, <3>2
  <2>3. p \in Prio /\ rq[p] # <<>>
    <3>1. \E q \in Prio : rq[q] # <<>>
      <4>1. IdleTask \in ToSet(rq[prio[IdleTask]])
        <5> HIDE DEF rq
        <5>1. CASE status[IdleTask] = "RUNNING"
          BY <1>1, <2>2, <5>1 DEF ReadyInv
        <5>2. CASE status[IdleTask] = "READY"
          BY <1>1, <2>2, <5>2 DEF ReadyInv
        <5> QED BY <1>1, <5>1, <5>2 DEF ReadyInv
      <4> HIDE DEF rq
      <4>2. rq[prio[IdleTask]] # <<>>
        BY <1>1, <2>2, <4>1, EmptySet
      <4> QED BY <1>1, <4>2
    <3> HIDE DEF rq
    <3> QED BY <2>2, <3>1, NextPrioProperties
  <2> HIDE DEF rq, p
  <2>4. /\ next \in Task /\ Tail(rq[p]) \in Seq(Task)
        /\ ToSet(rq[p]) = {next} \cup ToSet(Tail(rq[p]))
    BY <2>2, <2>3, TailFacts
  <2> HIDE DEF next
  <2>5. readyQ'[p] = Tail(rq[p]) /\ \A q \in Prio \ {p} : readyQ'[q] = rq[q]
    BY <2>1, <2>2, <2>3
  <2>6. \A q \in Prio : ToSet(rq[q]) \ {next} \subseteq ToSet(readyQ'[q])
    BY <2>4, <2>5
  <2>7. /\ status'[next] = "RUNNING"
        /\ \A u \in Task \ {next, run} : status'[u] = status[u]
        /\ run # next => status'[run] = IF preempted THEN "READY" ELSE status[run]
    BY <2>1, <2>4
  <2>8. \A u \in Task : status'[u] = "READY" => u \in ToSet(readyQ'[prio'[u]])
    <3> SUFFICES ASSUME NEW u \in Task, status'[u] = "READY"
                 PROVE  u \in ToSet(readyQ'[prio[u]])
      BY <2>1
    <3>1. u # next
      BY <2>7
    <3>2. u \in ToSet(rq[prio[u]])
      <4>1. CASE u = run /\ preempted
        BY <2>2, <4>1
      <4>2. CASE u = run /\ ~preempted
        BY <1>1, <2>2, <2>7, <3>1, <4>2 DEF ReadyInv
      <4>3. CASE u # run
        BY <1>1, <2>2, <2>7, <3>1, <4>3 DEF ReadyInv
      <4> QED BY <4>1, <4>2, <4>3
    <3> QED BY <1>1, <2>6, <3>1, <3>2
  <2>9. \A u \in Task : status'[u] = "RUNNING" => u = run'
    BY <1>1, <2>1, <2>7 DEF ReadyInv
  <2>10. status'[IdleTask] \in {"READY", "RUNNING"}
    BY <1>1, <2>1, <2>7 DEF ReadyInv
  <2> QED BY <2>8, <2>9, <2>10 DEF ReadyInv
<1>5. CASE TimeoutExpire \/ Tick \/ SignalCall \/ TickEnd \/ UNCHANGED kernelVars
  <2>1. UNCHANGED <<run, status, prio, readyQ>>
    BY <1>5 DEF TimeoutExpire, Tick, SignalCall, kTaskSignalReady, TickEnd,
                kernelVars, schedVars
  <2> QED BY <1>1, <2>1 DEF ReadyInv
<1>6. CASE SchedCall
  <2> SUFFICES ASSUME Executing PROVE ReadyInv'
    BY <1>6 DEF SchedCall, kSchLock, kSchUnlock, kYield, kSleepDelay,
                kTaskSelfSuspend, kTaskResume
  <2>1. CASE UNCHANGED <<run, status, prio, readyQ>>
    BY <1>1, <2>1 DEF ReadyInv
  <2>2. CASE kYield
    <3>1. /\ readyQ' = [readyQ EXCEPT ![prio[run]] = kTCBQEnq(@, run)]
          /\ status' = [status EXCEPT ![run] = "READY"]
          /\ UNCHANGED <<run, prio>>
      BY <2>2 DEF kYield
    <3>2. /\ run \in ToSet(readyQ'[prio[run]])
          /\ \A p \in Prio : ToSet(readyQ[p]) \subseteq ToSet(readyQ'[p])
      BY <1>1, <3>1, ExecutingFacts, EnterQueues
    <3>3. /\ status'[run] = "READY"
          /\ \A u \in Task \ {run} : status'[u] = status[u]
      BY <1>1, <3>1, ExecutingFacts DEF TypeOK, SchedTypeOK
    <3> QED BY <1>1, <3>1, <3>2, <3>3, ExecutingFacts, ReadyFrame
  <2>3. CASE \E st \in {"SLEEPING_DELAY", "SELF_SUSPENDED"} :
               /\ status' = [status EXCEPT ![run] = st]
               /\ UNCHANGED <<run, prio, readyQ>>
    <3>1. /\ status'[run] \in {"SLEEPING_DELAY", "SELF_SUSPENDED"}
          /\ \A u \in Task \ {run} : status'[u] = status[u]
      BY <1>1, <2>3, ExecutingFacts DEF TypeOK, SchedTypeOK
    <3> QED BY <1>1, <2>3, <3>1, ExecutingFacts, ReadyFrame
  <2> QED BY <1>6, <2>1, <2>2, <2>3
      DEF SchedCall, kSchLock, kSchUnlock, kSleepDelay, kTaskSelfSuspend,
          kTaskResume, schedVars
<1>7. CASE MutexCall
  <2> SUFFICES ASSUME NEW m \in Mutex, Executing,
                      \/ \E timeout \in Timeout : kMutexLock(m, timeout)
                      \/ kMutexUnlock(m)
               PROVE  ReadyInv'
    BY <1>7 DEF MutexCall, kMutexLock, kMutexUnlock
  <2>1. CASE UNCHANGED <<run, status, prio, readyQ>>
    BY <1>1, <2>1 DEF ReadyInv
  <2>2. ASSUME NEW timeout \in Timeout, LockBlock(m, timeout) PROVE ReadyInv'
    <3>1. status' = [status EXCEPT ![run] = "BLOCKED"] /\ UNCHANGED <<run, prio, readyQ>>
      BY <2>2 DEF LockBlock, WaitForMutex, LockReturns
    <3>2. /\ status'[run] = "BLOCKED"
          /\ \A u \in Task \ {run} : status'[u] = status[u]
      BY <1>1, <3>1, ExecutingFacts DEF TypeOK, SchedTypeOK
    <3> QED BY <1>1, <3>1, <3>2, ExecutingFacts, ReadyFrame
  <2> QED BY <2>1, <2>2
      DEF kMutexLock, LockFaulted, LockFree, TakeMutex, OwnMutex, LockNoWait, kMutexUnlock, schedVars
<1> QED BY <1>2, <1>3, <1>4, <1>5, <1>6, <1>7 DEF Next, KernelStep

(***************************************************************************)
(* The queues timeout nodes name.                                          *)
(***************************************************************************)
\* Only a wait for a mutex makes a timeout node name a queue.
LEMMA StaleStep ==
  ASSUME KernelInv, [Next]_kernelVars
  PROVE  StaleInv'
<1>1. /\ wqp \in [Task -> WaitObj \cup {None}]
      /\ \A t \in Task : wqp[t] \notin OtherObj
      /\ None \notin OtherObj /\ Mutex \cap OtherObj = {}
  BY KernelConstants DEF KernelInv, TypeOK, WaitTypeOK, StaleInv
<1>2. CASE UNCHANGED wqp
  BY <1>1, <1>2 DEF StaleInv
<1>3. CASE \E t, o : (o = None \/ o \in Mutex) /\ wqp' = [wqp EXCEPT ![t] = o]
  BY <1>1, <1>3 DEF StaleInv
<1>4. UpdatePrio \/ ReadySwtch \/ TimeoutExpire \/ TickEnd \/ kSwtch \/ Tick
        => UNCHANGED wqp
  BY DEF UpdatePrio, ReadySwtch, TimeoutExpire, TickEnd, kSwtch, Tick, waitVars
<1>5. TimeoutReady \/ SignalReady
        => \E t : wqp' = [wqp EXCEPT ![t] = None]
  BY DEF TimeoutReady, SignalReady
<1>6. SchedCall => UNCHANGED wqp
  BY DEF SchedCall, kSchLock, kSchUnlock, kYield, kSleepDelay, kTaskSelfSuspend,
         kTaskResume, waitVars
<1>7. SignalCall => UNCHANGED wqp
  BY DEF SignalCall, kTaskSignalReady
<1>8. ASSUME MutexCall
      PROVE  \/ UNCHANGED wqp
             \/ \E t, o : (o = None \/ o \in Mutex) /\ wqp' = [wqp EXCEPT ![t] = o]
  <2>1. PICK m \in Mutex : \/ \E timeout \in Timeout : kMutexLock(m, timeout)
                           \/ kMutexUnlock(m)
    BY <1>8 DEF MutexCall
  <2>2. ASSUME NEW timeout \in Timeout, kMutexLock(m, timeout)
        PROVE  UNCHANGED wqp \/ wqp' = [wqp EXCEPT ![run] = m]
    BY <2>2 DEF kMutexLock, LockFaulted, LockFree, TakeMutex, OwnMutex, LockNoWait, LockBlock, WaitForMutex, LockReturns,
                waitVars
  <2>3. ASSUME kMutexUnlock(m)
        PROVE  UNCHANGED wqp \/ wqp' = [wqp EXCEPT ![Head(waitQ[m])] = None]
    BY <2>3 DEF kMutexUnlock, UnlockFree, FreeMutex, UnlockHandOff, waitVars
  <2> QED BY <2>1, <2>2, <2>3
<1>9. UNCHANGED kernelVars => UNCHANGED wqp
  BY DEF kernelVars, waitVars
<1> QED BY <1>2, <1>3, <1>4, <1>5, <1>6, <1>7, <1>8, <1>9 DEF Next, KernelStep

(***************************************************************************)
(* The theorems.                                                           *)
(***************************************************************************)
\* The state kInit leaves satisfies the invariant.
LEMMA InitIInv ==
  ASSUME Init
  PROVE  IInv
<1>1. FirstRun \in Task \ {IdleTask, PostProc}
  BY FirstRunType DEF UserTask
<1>2. ASSUME NEW p \in Prio
      PROVE  /\ readyQ[p] \in Seq(Task)
             /\ ToSet(readyQ[p]) = {t \in Task \ {FirstRun, PostProc} : NominalPrio[t] = p}
  <2> DEFINE S == {t \in Task \ {FirstRun, PostProc} : NominalPrio[t] = p}
  <2>1. IsFiniteSet(S) /\ S \subseteq Task
    BY KernelConstants, FS_Subset
  <2>2. readyQ[p] = SetToSeq(S)
    BY DEF Init, KernelInit, InitReady
  <2> HIDE DEF S
  <2>3. SetToSeq(S) \in Seq(S) /\ ToSet(SetToSeq(S)) = S
    BY <2>1, SetToSeqProperties
  <2>4. SetToSeq(S) \in Seq(Task)
    BY <2>1, <2>3, SeqMonotonic
  <2> QED BY <2>2, <2>3, <2>4 DEF S
<1>3. TypeOK
  <2>1. NoCall \in Suspension /\ NoRet \in FrameResult
    BY DEF NoCall, NoRet, Suspension, FrameResult, CallNumber, ResultNumber, CallPhase, Err
  <2>2. readyQ \in [Prio -> Seq(Task)]
    <3>1. readyQ = [p \in Prio |-> readyQ[p]]
      BY DEF Init, KernelInit
    <3> QED BY <1>2, <3>1
  <2>3. SchedTypeOK
    BY <1>1, <2>2, NominalPrioType, KernelConstants
    DEF Init, KernelInit, SchedTypeOK, Status
  <2>4. WaitTypeOK /\ MutexTypeOK /\ TimeTypeOK
    BY NominalPrioType DEF Init, KernelInit, WaitTypeOK, MutexTypeOK, TimeTypeOK, TimeoutType
  <2>5. CallTypeOK
    BY <2>1 DEF Init, KernelInit, CallTypeOK
  <2>6. todo \in Seq(KernelCall)
    <3> HIDE DEF KernelCall
    <3> QED BY SmallSequences DEF Init, KernelInit
  <2> QED BY <2>3, <2>4, <2>5, <2>6 DEF TypeOK
<1>4. ReadyInv
  <2>1. /\ run = FirstRun /\ prio = NominalPrio
        /\ \A t \in Task : status[t] = CASE t = FirstRun -> "RUNNING"
                                         [] t = PostProc -> "SLEEPING_EV_FLAG"
                                         [] OTHER -> "READY"
    BY DEF Init, KernelInit
  <2>2. \A t \in Task : NominalPrio[t] \in Prio
    BY NominalPrioType
  <2>3. ASSUME NEW t \in Task, status[t] = "READY"
        PROVE  t \in ToSet(readyQ[prio[t]])
    <3>1. t # FirstRun /\ t # PostProc
      BY <2>1, <2>3
    <3> QED BY <1>2, <2>1, <2>2, <3>1
  <2>4. ASSUME NEW t \in Task, status[t] = "RUNNING"
        PROVE  t = run
    BY <2>1, <2>4
  <2>5. status[IdleTask] = "READY"
    BY <1>1, <2>1, KernelConstants
  <2> QED BY <2>3, <2>4, <2>5 DEF ReadyInv
<1>5. ToSet(<<>>) = {} /\ NoDuplicates(<<>>) /\ \A f : OrderedBy(<<>>, f)
  BY DEF ToSet, NoDuplicates, OrderedBy
<1>6. /\ tmo = <<>> /\ todo = <<>> /\ \A o \in WaitObj : waitQ[o] = <<>>
      /\ \A m \in Mutex : ~lock[m] /\ owner[m] = None /\ ~faulted[m] /\ m \in WaitObj
      /\ \A t \in Task : owned[t] = {} /\ status[t] # "SELF_SUSPENDED"
  BY DEF Init, KernelInit, WaitObj
<1>7. TimeInv /\ QueueInv /\ TodoInv
  BY <1>5, <1>6 DEF TimeInv, QueueInv, TodoInv
<1>8. OwnerInv
  BY <1>5, <1>6, KernelConstants DEF OwnerInv
<1>9. StaleInv
  BY KernelConstants DEF Init, KernelInit, StaleInv
<1> QED BY <1>3, <1>4, <1>7, <1>8, <1>9 DEF IInv, KernelInv

\* The invariant holds in every state the system reaches, for every set of
\* tasks, priorities, mutexes and timeouts.
THEOREM Invariance == Spec => []IInv
<1>1. Init => IInv
  BY InitIInv
<1>2. IInv /\ [Next]_kernelVars => IInv'
  BY TypeStep, ReadyStep, TimeStep, QueueStep, TodoStep, OwnerStep,
     StaleStep DEF IInv, KernelInv
<1> QED BY <1>1, <1>2, PTL DEF Spec

\* Type correctness: among other things kSwtch always finds a task to run and
\* the tick handler never counts a node below zero.
THEOREM TypeCorrect == Spec => []TypeOK
<1>1. IInv => TypeOK
  BY DEF IInv, KernelInv
<1> QED BY <1>1, Invariance, PTL

\* The lock flag, the owner pointer and the owned lists of the tasks agree in
\* every state, a free mutex has no waiters, and no owner waits for its own.
THEOREM OwnershipCorrect == Spec => []OwnershipAgrees
<1>1. IInv => OwnershipAgrees
  BY DEF IInv, KernelInv, OwnerInv, OwnershipAgrees
<1> QED BY <1>1, Invariance, PTL
=============================================================================
