--------------------------- MODULE RKCallout_proofs ---------------------------
(***************************************************************************)
(* Proofs about the callout timers, for any number of timers of any phase  *)
(* and period, any width of the tick counter, and any ticks between the    *)
(* steps of PostProc: no timer fires before it is due, and no expiry is    *)
(* forgotten.  What the deltas add up to is followed modulo the width of   *)
(* a word, in which a difference that has wrapped is as good as any other. *)
(***************************************************************************)
EXTENDS RKCallout, TLAPS, SequenceTheorems, WellFoundedInduction,
        FiniteSetTheorems

(***************************************************************************)
(* Words.                                                                  *)
(***************************************************************************)
W == 2^Width

\* A word holds at least two values, and twice half of them: the subsets of the
\* bits are counted.
LEMMA WordSize ==
  W \in Nat \ {0} /\ W >= 2 /\ 2^(Width - 1) \in Nat /\ 2^(Width - 1) <= W
<1> DEFINE Bits(n) == SUBSET (1 .. n)
<1>1. ASSUME NEW n \in Nat
      PROVE  IsFiniteSet(Bits(n)) /\ Cardinality(Bits(n)) = 2^n /\ 2^n \in Nat \ {0}
  <2>1. IsFiniteSet(1 .. n) /\ Cardinality(1 .. n) = n
    BY <1>1, FS_Interval
  <2>2. IsFiniteSet(Bits(n)) /\ Cardinality(Bits(n)) = 2^n
    BY <2>1, FS_SUBSET
  <2>3. Bits(n) # {}
    OBVIOUS
  <2> QED BY <2>2, <2>3, FS_EmptySet, FS_CardinalityType
<1>2. Width \in Nat /\ Width - 1 \in Nat
  BY CalloutConstants
<1>3. Bits(Width - 1) \subseteq Bits(Width)
  BY <1>2
<1> HIDE DEF Bits
<1>4. Cardinality(Bits(Width - 1)) <= Cardinality(Bits(Width))
  BY <1>1, <1>2, <1>3, FS_Subset
<1>5. Cardinality(Bits(Width)) >= 2
  <2> DEFINE S == {{}} \cup {{1}}
  <2>1. IsFiniteSet({{}}) /\ Cardinality({{}}) = 1 /\ {1} \notin {{}}
    BY FS_Singleton
  <2>2. Cardinality(S) = Cardinality({{}}) + 1
    BY <2>1, FS_AddElement
  <2>3. S \subseteq Bits(Width)
    BY CalloutConstants DEF Bits
  <2> HIDE DEF S
  <2>4. IsFiniteSet(Bits(Width)) /\ Cardinality(Bits(Width)) \in Nat
    BY <1>1, <1>2
  <2> QED BY <2>1, <2>2, <2>3, <2>4, FS_Subset
<1> QED BY <1>1, <1>2, <1>4, <1>5 DEF W

\* Equal but for a whole number of words.
Cong(a, b) == \E q \in Int : a = b + q * W

\* It is an equivalence that sums and differences respect.
LEMMA CongRules ==
  ASSUME NEW a \in Int, NEW b \in Int, NEW c \in Int, NEW d \in Int
  PROVE  /\ Cong(a, a)
         /\ Cong(a, b) => Cong(b, a)
         /\ Cong(a, b) /\ Cong(b, c) => Cong(a, c)
         /\ Cong(a, b) /\ Cong(c, d) => Cong(a + c, b + d) /\ Cong(a - c, b - d)
<1> W \in Int
  BY WordSize
<1>1. Cong(a, a)
  <2>1. a = a + 0 * W
    OBVIOUS
  <2> QED BY <2>1 DEF Cong
<1>2. ASSUME Cong(a, b) PROVE Cong(b, a)
  <2>1. PICK q \in Int : a = b + q * W
    BY <1>2 DEF Cong
  <2>2. -q \in Int /\ b = a + (-q) * W
    BY <2>1
  <2> QED BY <2>2 DEF Cong
<1>3. ASSUME Cong(a, b), Cong(b, c) PROVE Cong(a, c)
  <2>1. PICK p \in Int : a = b + p * W
    BY <1>3 DEF Cong
  <2>2. PICK q \in Int : b = c + q * W
    BY <1>3 DEF Cong
  <2>3. p + q \in Int /\ a = c + (p + q) * W
    BY <2>1, <2>2
  <2> QED BY <2>3 DEF Cong
<1>4. ASSUME Cong(a, b), Cong(c, d) PROVE Cong(a + c, b + d) /\ Cong(a - c, b - d)
  <2>1. PICK p \in Int : a = b + p * W
    BY <1>4 DEF Cong
  <2>2. PICK q \in Int : c = d + q * W
    BY <1>4 DEF Cong
  <2>3. p + q \in Int /\ a + c = b + d + (p + q) * W
    BY <2>1, <2>2
  <2>4. p - q \in Int /\ a - c = b - d + (p - q) * W
    BY <2>1, <2>2
  <2> QED BY <2>3, <2>4 DEF Cong
<1> QED BY <1>1, <1>2, <1>3, <1>4

\* Sums and differences.
LEMMA CongSum ==
  ASSUME NEW a \in Int, NEW b \in Int, NEW c \in Int, NEW d \in Int,
         Cong(a, b), Cong(c, d)
  PROVE  Cong(a + c, b + d) /\ Cong(a - c, b - d)
BY CongRules

\* Equality but for words is transitive.
LEMMA CongTrans ==
  ASSUME NEW a \in Int, NEW b \in Int, NEW c \in Int, Cong(a, b), Cong(b, c)
  PROVE  Cong(a, c)
BY CongRules

\* A word that equals another is the other; one that is zero equals nothing
\* between zero and the next word.
LEMMA CongWord ==
  ASSUME NEW a \in Word, NEW b \in Int, Cong(a, b)
  PROVE  /\ b \in Word => a = b
         /\ b < W /\ a = 0 => b <= 0
<1> W \in Nat \ {0} /\ Word = 0 .. W - 1
  BY WordSize DEF Word, W
<1>1. PICK q \in Int : a = b + q * W
  BY DEF Cong
<1>2. CASE q = 0
  BY <1>1, <1>2
<1>3. CASE q >= 1
  <2>1. q * W >= W
    BY <1>3
  <2> QED BY <1>1, <2>1
<1>4. CASE q <= -1
  <2>1. q * W <= -W
    BY <1>4
  <2> QED BY <1>1, <2>1
<1> QED BY <1>2, <1>3, <1>4

\* What a counter stores.
LEMMA WrappedFacts ==
  ASSUME NEW x \in Int
  PROVE  /\ Wrapped(x) \in Word /\ Cong(Wrapped(x), x)
         /\ x \in Word => Wrapped(x) = x
<1> W \in Nat \ {0} /\ Word = 0 .. W - 1
  BY WordSize DEF Word, W
<1>1. Wrapped(x) = x % W
  BY DEF Wrapped, W, L!Wrapped
<1>2. x % W \in Int /\ x % W >= 0 /\ x % W < W
  BY Z3
<1>3. x \div W \in Int /\ x = (x % W) + (x \div W) * W
  OBVIOUS
<1>4. -(x \div W) \in Int /\ x % W = x + (-(x \div W)) * W
  BY <1>2, <1>3
<1>5. x \in 0 .. W - 1 => x % W = x
  OBVIOUS
<1>6. Cong(x % W, x)
  BY <1>4 DEF Cong
<1>7. x % W \in 0 .. W - 1
  BY <1>2
<1> QED BY <1>1, <1>5, <1>6, <1>7

(***************************************************************************)
(* Lists.                                                                  *)
(***************************************************************************)
\* A non-empty set of natural numbers has a least element, by which what
\* holds of the first node and of each next one holds of all.
LEMMA LeastExists ==
  ASSUME NEW T \in SUBSET Nat, T # {}
  PROVE  \E x \in T : \A y \in T : x <= y
<1> DEFINE F == {0 .. x : x \in T}
<1>1. F \subseteq FiniteSubsetsOf(Nat) /\ F # {}
  <2>1. \A x \in T : 0 .. x \in SUBSET Nat /\ IsFiniteSet(0 .. x)
    BY FS_Interval
  <2> QED BY <2>1, T # {} DEF FiniteSubsetsOf
<1>2. PICK s \in F : \A r \in F : <<r, s>> \notin StrictSubsetOrdering(Nat)
  <2> HIDE DEF F
  <2> QED BY <1>1, FS_StrictSubsetOrderingWellFounded, WFMin
<1>3. PICK x \in T : s = 0 .. x
  OBVIOUS
<1>4. ASSUME NEW y \in T, y < x PROVE FALSE
  <2>1. 0 .. y \subseteq 0 .. x /\ 0 .. y # 0 .. x
    <3>1. x \in 0 .. x /\ x \notin 0 .. y
      BY <1>4
    <3>2. 0 .. y \subseteq 0 .. x
      BY <1>4
    <3> QED BY <3>1, <3>2
  <2>2. 0 .. y \in SUBSET Nat /\ 0 .. x \in SUBSET Nat
    OBVIOUS
  <2>3. <<0 .. y, s>> \in StrictSubsetOrdering(Nat)
    BY <1>3, <2>1, <2>2 DEF StrictSubsetOrdering
  <2> QED BY <1>2, <2>3
<1> QED BY <1>4

\* List k is list q with entry e at i, the others in order.
Inserted(k, q, i, e) ==
  /\ k \in Seq(Timer) /\ Len(k) = Len(q) + 1
  /\ \A j \in 1 .. Len(q) + 1 : k[j] = IF j < i THEN q[j] ELSE IF j = i THEN e ELSE q[j - 1]

\* Which is what InsertAt makes of it.
LEMMA InsertAtProperties ==
  \A q \in Seq(Timer), e \in Timer : \A i \in 1 .. Len(q) + 1 :
    Inserted(InsertAt(q, i, e), q, i, e)
<1> DEFINE S == Timer
<1> SUFFICES ASSUME NEW q \in Seq(S), NEW e \in S, NEW i \in 1 .. Len(q) + 1
             PROVE  /\ InsertAt(q, i, e) \in Seq(S)
                    /\ Len(InsertAt(q, i, e)) = Len(q) + 1
                    /\ \A j \in 1 .. Len(q) + 1 :
                         InsertAt(q, i, e)[j] = IF j < i THEN q[j]
                                                ELSE IF j = i THEN e ELSE q[j - 1]
  BY DEF Inserted
<1> HIDE DEF S
<1> DEFINE a == SubSeq(q, 1, i - 1)
           b == SubSeq(q, i, Len(q))
<1>1. Len(q) \in Nat /\ \A k \in 1 .. Len(q) : q[k] \in S
  BY LenProperties, ElementOfSeq
<1>2. /\ a \in Seq(S) /\ Len(a) = i - 1
      /\ \A k \in 1 .. i - 1 : a[k] = q[k]
  BY <1>1, SubSeqProperties, Z3
<1>3. /\ b \in Seq(S) /\ Len(b) = Len(q) - i + 1
      /\ \A k \in 1 .. Len(q) - i + 1 : b[k] = q[i + k - 1]
  BY <1>1, SubSeqProperties, Z3
<1>4. <<e>> \in Seq(S) /\ Len(<<e>>) = 1 /\ <<e>>[1] = e
  OBVIOUS
<1> DEFINE c == a \o <<e>>
<1>5. /\ c \in Seq(S) /\ Len(c) = i
      /\ \A k \in 1 .. i : c[k] = IF k < i THEN q[k] ELSE e
  BY <1>2, <1>4, ConcatProperties
<1>6. InsertAt(q, i, e) = c \o b
  BY DEF InsertAt
<1>7. /\ c \o b \in Seq(S) /\ Len(c \o b) = Len(q) + 1
      /\ \A k \in 1 .. Len(q) + 1 :
           (c \o b)[k] = IF k <= i THEN c[k] ELSE b[k - i]
  <2> HIDE DEF a, c, b
  <2>1. c \in Seq(S) /\ Len(c) = i /\ b \in Seq(S) /\ Len(b) = Len(q) - i + 1
    BY <1>3, <1>5
  <2>2. /\ c \o b \in Seq(S) /\ Len(c \o b) = Len(c) + Len(b)
        /\ \A k \in 1 .. Len(c) + Len(b) :
             (c \o b)[k] = IF k <= Len(c) THEN c[k] ELSE b[k - Len(c)]
    BY <2>1, ConcatProperties
  <2>3. Len(c) + Len(b) = Len(q) + 1
    BY <1>1, <2>1
  <2> QED BY <2>1, <2>2, <2>3
<1> HIDE DEF a, b, c
<1> QED BY <1>1, <1>3, <1>5, <1>6, <1>7

\* Removing an entry keeps the others in order.
LEMMA RemoveAtProperties ==
  ASSUME NEW S, NEW q \in Seq(S), NEW i \in 1 .. Len(q)
  PROVE  /\ RemoveAt(q, i) \in Seq(S)
         /\ Len(RemoveAt(q, i)) = Len(q) - 1
         /\ \A j \in 1 .. Len(q) - 1 :
              RemoveAt(q, i)[j] = IF j < i THEN q[j] ELSE q[j + 1]
<1> DEFINE a == SubSeq(q, 1, i - 1)
           b == SubSeq(q, i + 1, Len(q))
<1>1. Len(q) \in Nat /\ \A k \in 1 .. Len(q) : q[k] \in S
  BY LenProperties, ElementOfSeq
<1>2. /\ a \in Seq(S) /\ Len(a) = i - 1
      /\ \A k \in 1 .. i - 1 : a[k] = q[k]
  BY <1>1, SubSeqProperties, Z3
<1>3. /\ b \in Seq(S) /\ Len(b) = Len(q) - i
      /\ \A k \in 1 .. Len(q) - i : b[k] = q[i + k]
  BY <1>1, SubSeqProperties, Z3
<1>4. RemoveAt(q, i) = a \o b
  BY DEF RemoveAt
<1>5. /\ a \o b \in Seq(S) /\ Len(a \o b) = Len(q) - 1
      /\ \A k \in 1 .. Len(q) - 1 :
           (a \o b)[k] = IF k <= i - 1 THEN a[k] ELSE b[k - (i - 1)]
  <2> HIDE DEF a, b
  <2>1. Len(a) + Len(b) = Len(q) - 1
    BY <1>1, <1>2, <1>3
  <2>2. /\ a \o b \in Seq(S) /\ Len(a \o b) = Len(a) + Len(b)
        /\ \A k \in 1 .. Len(a) + Len(b) :
             (a \o b)[k] = IF k <= Len(a) THEN a[k] ELSE b[k - Len(a)]
    BY <1>2, <1>3, ConcatProperties
  <2> QED BY <2>1, <2>2, <1>2
<1>6. \A k \in 1 .. Len(q) - 1 : (a \o b)[k] = IF k < i THEN q[k] ELSE q[k + 1]
  <2> HIDE DEF a, b
  <2> SUFFICES ASSUME NEW k \in 1 .. Len(q) - 1
               PROVE  (a \o b)[k] = IF k < i THEN q[k] ELSE q[k + 1]
    OBVIOUS
  <2>1. CASE k < i
    BY <2>1, <1>1, <1>2, <1>5
  <2>2. CASE k >= i
    <3>1. k - (i - 1) \in 1 .. Len(q) - i /\ i + (k - (i - 1)) = k + 1
      BY <2>2, <1>1
    <3>2. ~(k <= i - 1) /\ ~(k < i)
      BY <2>2, <1>1
    <3>3. (a \o b)[k] = b[k - (i - 1)]
      BY <3>2, <1>5
    <3>4. b[k - (i - 1)] = q[k + 1]
      BY <3>1, <1>3
    <3> QED BY <3>2, <3>3, <3>4
  <2>3. k < i \/ k >= i
    BY <1>1
  <2> QED BY <2>1, <2>2, <2>3
<1> HIDE DEF a, b
<1> QED BY <1>4, <1>5, <1>6

\* A node comes to a list that links no node twice.
LEMMA NodeLinked ==
  ASSUME NEW l \in Seq(Timer), IsInjective(l), NEW n \in Timer, n \notin ToSet(l),
         NEW i \in 1 .. Len(l) + 1
  PROVE  /\ InsertAt(l, i, n) \in Seq(Timer) /\ IsInjective(InsertAt(l, i, n))
         /\ ToSet(InsertAt(l, i, n)) = ToSet(l) \cup {n}
<1> DEFINE k == InsertAt(l, i, n)
<1>1. /\ Len(l) \in Nat /\ DOMAIN l = 1 .. Len(l)
      /\ \A j \in 1 .. Len(l) : l[j] \in Timer /\ l[j] # n
  BY LenProperties, ElementOfSeq DEF ToSet
<1>2. /\ k \in Seq(Timer) /\ Len(k) = Len(l) + 1
      /\ \A j \in 1 .. Len(l) + 1 :
           k[j] = IF j < i THEN l[j] ELSE IF j = i THEN n ELSE l[j - 1]
  <2>1. Inserted(k, l, i, n)
    BY InsertAtProperties
  <2> QED BY <2>1 DEF Inserted
<1>3. DOMAIN k = 1 .. Len(l) + 1
  BY <1>2, LenProperties
<1> HIDE DEF k
<1>4. \A a, b \in 1 .. Len(l) : l[a] = l[b] => a = b
  BY <1>1 DEF IsInjective
<1>5. ASSUME NEW a \in 1 .. Len(l) + 1, NEW b \in 1 .. Len(l) + 1, k[a] = k[b] PROVE a = b
  <2>1. /\ a < i => a \in 1 .. Len(l)
        /\ b < i => b \in 1 .. Len(l)
        /\ a > i => a - 1 \in 1 .. Len(l)
        /\ b > i => b - 1 \in 1 .. Len(l)
    BY <1>1
  <2> QED BY <1>1, <1>2, <1>4, <1>5, <2>1
<1>6. ASSUME NEW j \in 1 .. Len(l) + 1 PROVE k[j] \in ToSet(l) \cup {n}
  <2>1. j < i => j \in 1 .. Len(l)
    BY <1>1
  <2>2. j > i => j - 1 \in 1 .. Len(l)
    BY <1>1
  <2>3. j < i \/ j = i \/ j > i
    BY <1>1
  <2>4. \A m \in 1 .. Len(l) : l[m] \in ToSet(l)
    BY <1>1 DEF ToSet
  <2> QED BY <1>2, <2>1, <2>2, <2>3, <2>4
<1>7. ASSUME NEW j \in 1 .. Len(l) PROVE l[j] \in ToSet(k)
  <2>1. CASE j < i
    <3>1. j \in 1 .. Len(l) + 1 /\ k[j] = l[j]
      BY <1>1, <1>2, <2>1
    <3> QED BY <1>3, <3>1 DEF ToSet
  <2>2. CASE j >= i
    <3>1. j + 1 \in 1 .. Len(l) + 1 /\ ~(j + 1 < i) /\ j + 1 # i /\ (j + 1) - 1 = j
      BY <1>1, <2>2
    <3>2. k[j + 1] = l[j]
      BY <1>2, <3>1
    <3> QED BY <1>3, <3>1, <3>2 DEF ToSet
  <2> QED BY <1>1, <2>1, <2>2
<1>8. n \in ToSet(k)
  <2>1. i \in 1 .. Len(l) + 1 /\ k[i] = n
    BY <1>1, <1>2
  <2> QED BY <1>3, <2>1 DEF ToSet
<1>9. ToSet(k) \subseteq ToSet(l) \cup {n}
  BY <1>3, <1>6 DEF ToSet
<1>10. ToSet(l) \subseteq ToSet(k)
  BY <1>1, <1>7 DEF ToSet
<1>11. IsInjective(k)
  BY <1>3, <1>5 DEF IsInjective
<1> QED BY <1>2, <1>8, <1>9, <1>10, <1>11 DEF k

\* A node goes.
LEMMA NodeUnlinked ==
  ASSUME NEW l \in Seq(Timer), IsInjective(l), NEW i \in 1 .. Len(l)
  PROVE  /\ RemoveAt(l, i) \in Seq(Timer) /\ IsInjective(RemoveAt(l, i))
         /\ ToSet(RemoveAt(l, i)) = ToSet(l) \ {l[i]}
<1> DEFINE k == RemoveAt(l, i)
<1>1. Len(l) \in Nat /\ DOMAIN l = 1 .. Len(l)
  BY LenProperties
<1>2. /\ k \in Seq(Timer) /\ Len(k) = Len(l) - 1
      /\ \A j \in 1 .. Len(l) - 1 : k[j] = IF j < i THEN l[j] ELSE l[j + 1]
  BY RemoveAtProperties
<1>3. DOMAIN k = 1 .. Len(l) - 1
  BY <1>2, LenProperties
<1> HIDE DEF k
<1>4. \A a, b \in 1 .. Len(l) : l[a] = l[b] => a = b
  BY <1>1 DEF IsInjective
<1>5. ASSUME NEW a \in 1 .. Len(l) - 1
      PROVE  \E b \in 1 .. Len(l) : b # i /\ k[a] = l[b] /\ b = IF a < i THEN a ELSE a + 1
  <2> DEFINE b == IF a < i THEN a ELSE a + 1
  <2>1. b \in 1 .. Len(l) /\ b # i /\ k[a] = l[b]
    BY <1>1, <1>2
  <2> QED BY <2>1
<1>6. ASSUME NEW b \in 1 .. Len(l), b # i PROVE \E a \in 1 .. Len(l) - 1 : k[a] = l[b]
  <2> DEFINE a == IF b < i THEN b ELSE b - 1
  <2>1. a \in 1 .. Len(l) - 1 /\ k[a] = l[b]
    BY <1>1, <1>2, <1>6
  <2> QED BY <2>1
<1>7. ASSUME NEW a \in 1 .. Len(l) - 1, NEW b \in 1 .. Len(l) - 1, k[a] = k[b] PROVE a = b
  <2>1. PICK c \in 1 .. Len(l) : k[a] = l[c] /\ c = IF a < i THEN a ELSE a + 1
    BY <1>5
  <2>2. PICK d \in 1 .. Len(l) : k[b] = l[d] /\ d = IF b < i THEN b ELSE b + 1
    BY <1>5
  <2>3. c = d
    BY <1>4, <1>7, <2>1, <2>2
  <2> QED BY <2>1, <2>2, <2>3
<1>8. ToSet(k) \subseteq ToSet(l) \ {l[i]}
  BY <1>1, <1>3, <1>4, <1>5 DEF ToSet
<1>9. ToSet(l) \ {l[i]} \subseteq ToSet(k)
  BY <1>1, <1>3, <1>6 DEF ToSet
<1>10. IsInjective(k)
  BY <1>3, <1>7 DEF IsInjective
<1> QED BY <1>2, <1>8, <1>9, <1>10 DEF k

\* The head goes.
LEMMA HeadUnlinked ==
  ASSUME NEW l \in Seq(Timer), IsInjective(l), l # <<>>
  PROVE  /\ 1 \in 1 .. Len(l) /\ Head(l) = l[1] /\ Head(l) \in Timer /\ Head(l) \in ToSet(l)
         /\ Tail(l) \in Seq(Timer) /\ IsInjective(Tail(l))
         /\ ToSet(Tail(l)) = ToSet(l) \ {Head(l)}
         /\ Len(Tail(l)) = Len(l) - 1
         /\ \A j \in 1 .. Len(l) - 1 : Tail(l)[j] = l[j + 1]
<1>1. /\ Len(l) \in Nat /\ Len(l) > 0 /\ DOMAIN l = 1 .. Len(l) /\ Head(l) = l[1]
      /\ Head(l) \in Timer /\ Tail(l) \in Seq(Timer) /\ Len(Tail(l)) = Len(l) - 1
      /\ \A j \in 1 .. Len(l) - 1 : Tail(l)[j] = l[j + 1]
  BY LenProperties, EmptySeq, HeadTailProperties
<1>2. DOMAIN Tail(l) = 1 .. Len(l) - 1
  BY <1>1, LenProperties
<1>3. \A a, b \in 1 .. Len(l) : l[a] = l[b] => a = b
  BY <1>1 DEF IsInjective
<1> DEFINE k == Tail(l)
<1>4. k \in Seq(Timer) /\ DOMAIN k = 1 .. Len(l) - 1 /\ \A j \in 1 .. Len(l) - 1 : k[j] = l[j + 1]
  BY <1>1, <1>2
<1> HIDE DEF k
<1>5. \A j \in 1 .. Len(l) - 1 : j + 1 \in 1 .. Len(l) /\ j + 1 # 1
  BY <1>1
<1>6. IsInjective(k)
  <2>1. \A a, b \in 1 .. Len(l) - 1 : k[a] = k[b] => a + 1 = b + 1
    BY <1>3, <1>4, <1>5
  <2> QED BY <1>1, <1>4, <2>1 DEF IsInjective
<1>7. ToSet(k) \subseteq ToSet(l) \ {l[1]}
  BY <1>1, <1>3, <1>4, <1>5 DEF ToSet
<1>8. ASSUME NEW b \in 1 .. Len(l), b # 1 PROVE l[b] \in ToSet(k)
  <2>1. b - 1 \in 1 .. Len(l) - 1 /\ (b - 1) + 1 = b
    BY <1>1, <1>8
  <2>2. k[b - 1] = l[b]
    BY <1>4, <2>1
  <2> QED BY <1>4, <2>1, <2>2 DEF ToSet
<1>9. ToSet(l) \ {l[1]} \subseteq ToSet(k)
  BY <1>1, <1>8 DEF ToSet
<1>10. l[1] \in ToSet(l) /\ 1 \in 1 .. Len(l)
  BY <1>1 DEF ToSet
<1> QED BY <1>1, <1>4, <1>6, <1>7, <1>9, <1>10 DEF k

(***************************************************************************)
(* What the deltas of a list add up to: r, a number for each node, so that *)
(* a delta is its difference to the node before it, but for whole words.   *)
(***************************************************************************)
Before(l, r, i) == IF i = 1 THEN 0 ELSE r[l[i - 1]]

Chain(l, d, r) == \A i \in 1 .. Len(l) : Cong(d[l[i]], r[l[i]] - Before(l, r, i))

\* The numbers are integers.
LEMMA ChainTypes ==
  ASSUME NEW l \in Seq(Timer), NEW r \in [Timer -> Int], NEW d \in [Timer -> Word]
  PROVE  /\ Len(l) \in Nat /\ DOMAIN l = 1 .. Len(l)
         /\ \A i \in 1 .. Len(l) : l[i] \in Timer /\ l[i] \in ToSet(l)
         /\ \A i \in 1 .. Len(l) : r[l[i]] \in Int /\ d[l[i]] \in Int /\ d[l[i]] \in Word
         /\ \A i \in 1 .. Len(l) + 1 : Before(l, r, i) \in Int
<1>1. Len(l) \in Nat /\ DOMAIN l = 1 .. Len(l) /\ \A i \in 1 .. Len(l) : l[i] \in Timer
  BY LenProperties, ElementOfSeq
<1>2. Word \subseteq Int
  BY WordSize DEF Word, W
<1>3. ASSUME NEW i \in 1 .. Len(l) + 1 PROVE Before(l, r, i) \in Int
  <2>1. i # 1 => i - 1 \in 1 .. Len(l)
    BY <1>1
  <2> QED BY <1>1, <2>1 DEF Before
<1>4. \A i \in 1 .. Len(l) : l[i] \in ToSet(l)
  BY <1>1 DEF ToSet
<1>5. \A i \in 1 .. Len(l) : r[l[i]] \in Int /\ d[l[i]] \in Int /\ d[l[i]] \in Word
  BY <1>1, <1>2
<1> QED BY <1>1, <1>3, <1>4, <1>5

\* A node that has consumed what is before it is linked, and its successor, if
\* any, counts from it.
LEMMA ChainLinked ==
  ASSUME NEW l \in Seq(Timer), NEW n \in Timer, NEW i \in 1 .. Len(l) + 1,
         NEW r \in [Timer -> Int], NEW d \in [Timer -> Word], NEW e \in [Timer -> Word],
         Chain(l, d, r), \A j \in 1 .. Len(l) : j # i => e[l[j]] = d[l[j]],
         Cong(e[n], r[n] - Before(l, r, i)),
         i <= Len(l) => Cong(e[l[i]], r[l[i]] - r[n])
  PROVE  Chain(InsertAt(l, i, n), e, r)
<1> DEFINE k == InsertAt(l, i, n)
<1>1. Len(l) \in Nat /\ \A j \in 1 .. Len(l) : l[j] \in Timer
  BY ChainTypes
<1>2. /\ Len(k) = Len(l) + 1
      /\ \A j \in 1 .. Len(l) + 1 :
           k[j] = IF j < i THEN l[j] ELSE IF j = i THEN n ELSE l[j - 1]
  <2>1. Inserted(k, l, i, n)
    BY InsertAtProperties
  <2> QED BY <2>1 DEF Inserted
<1> HIDE DEF k
<1>3. ASSUME NEW j \in 1 .. Len(l) + 1
      PROVE  Cong(e[k[j]], r[k[j]] - Before(k, r, j))
  <2>1. CASE j < i
    <3>1. j \in 1 .. Len(l) /\ k[j] = l[j] /\ e[l[j]] = d[l[j]]
      BY <1>1, <1>2, <2>1
    <3>2. j # 1 => j - 1 \in 1 .. Len(l) + 1 /\ j - 1 < i
      BY <1>1, <2>1
    <3>3. Before(k, r, j) = Before(l, r, j)
      BY <1>2, <3>2 DEF Before
    <3> QED BY <3>1, <3>3 DEF Chain
  <2>2. CASE j = i
    <3>1. k[j] = n
      BY <1>2, <2>2
    <3>2. j # 1 => j - 1 \in 1 .. Len(l) + 1 /\ j - 1 < i
      BY <1>1, <2>2
    <3>3. Before(k, r, j) = Before(l, r, i)
      BY <1>2, <2>2, <3>2 DEF Before
    <3> QED BY <3>1, <3>3
  <2>3. CASE j = i + 1
    <3>1. k[j] = l[i] /\ i <= Len(l) /\ j # 1 /\ j - 1 = i
      BY <1>1, <1>2, <2>3
    <3>2. k[i] = n
      BY <1>2
    <3>3. Before(k, r, j) = r[n]
      BY <3>1, <3>2 DEF Before
    <3> QED BY <3>1, <3>3
  <2>4. CASE j > i + 1
    <3>1. /\ j - 1 \in 1 .. Len(l) /\ j - 1 # i /\ j - 1 # 1 /\ j # 1
          /\ j - 1 \in 1 .. Len(l) + 1 /\ ~(j - 1 < i)
          /\ ~(j < i) /\ j # i
      BY <1>1, <2>4
    <3>2. k[j] = l[j - 1] /\ k[j - 1] = l[j - 2] /\ (j - 1) - 1 = j - 2
      BY <1>2, <3>1
    <3>3. Before(k, r, j) = Before(l, r, j - 1)
      BY <3>1, <3>2 DEF Before
    <3>4. e[l[j - 1]] = d[l[j - 1]]
      BY <3>1
    <3>5. Cong(d[l[j - 1]], r[l[j - 1]] - Before(l, r, j - 1))
      BY <3>1 DEF Chain
    <3> QED BY <3>2, <3>3, <3>4, <3>5
  <2> QED BY <1>1, <2>1, <2>2, <2>3, <2>4
<1> QED BY <1>2, <1>3 DEF Chain, k

\* A node is unlinked, and its delta goes to its successor.
LEMMA ChainUnlinked ==
  ASSUME NEW l \in Seq(Timer), NEW i \in 1 .. Len(l),
         NEW r \in [Timer -> Int], NEW d \in [Timer -> Word], NEW e \in [Timer -> Word],
         Chain(l, d, r), \A j \in 1 .. Len(l) : j \notin {i, i + 1} => e[l[j]] = d[l[j]],
         i < Len(l) => Cong(e[l[i + 1]], d[l[i + 1]] + d[l[i]])
  PROVE  Chain(RemoveAt(l, i), e, r)
<1> DEFINE k == RemoveAt(l, i)
<1>1. /\ Len(l) \in Nat
      /\ \A j \in 1 .. Len(l) : l[j] \in Timer /\ r[l[j]] \in Int /\ d[l[j]] \in Int
      /\ \A j \in 1 .. Len(l) : e[l[j]] \in Int
      /\ \A j \in 1 .. Len(l) + 1 : Before(l, r, j) \in Int
  BY ChainTypes
<1>2. /\ Len(k) = Len(l) - 1
      /\ \A j \in 1 .. Len(l) - 1 : k[j] = IF j < i THEN l[j] ELSE l[j + 1]
  BY RemoveAtProperties
<1> HIDE DEF k
<1>3. ASSUME NEW j \in 1 .. Len(l) - 1
      PROVE  Cong(e[k[j]], r[k[j]] - Before(k, r, j))
  <2>1. CASE j < i
    <3>1. /\ j \in 1 .. Len(l) /\ j \notin {i, i + 1}
          /\ j # 1 => j - 1 \in 1 .. Len(l) - 1 /\ j - 1 < i
      BY <1>1, <2>1
    <3>2. k[j] = l[j] /\ e[l[j]] = d[l[j]]
      BY <1>2, <2>1, <3>1
    <3>3. Before(k, r, j) = Before(l, r, j)
      BY <1>2, <3>1 DEF Before
    <3> QED BY <3>1, <3>2, <3>3 DEF Chain
  <2>2. CASE j = i
    <3> DEFINE a == l[i]
               b == l[i + 1]
               p == Before(l, r, i)
    <3>1. i \in 1 .. Len(l) /\ i + 1 \in 1 .. Len(l) /\ i < Len(l) /\ i + 1 # 1
      BY <1>1, <2>2
    <3>2. k[j] = b
      BY <1>2, <2>2
    <3>3. Before(k, r, j) = p
      <4>1. j # 1 => j - 1 \in 1 .. Len(l) - 1 /\ j - 1 < i
        BY <1>1, <2>2
      <4> QED BY <1>2, <2>2, <4>1 DEF Before
    <3>4. Before(l, r, i + 1) = r[a]
      BY <3>1 DEF Before
    <3>5. Cong(d[a], r[a] - p) /\ Cong(d[b], r[b] - r[a]) /\ Cong(e[b], d[b] + d[a])
      BY <3>1, <3>4 DEF Chain
    <3>6. /\ d[a] \in Int /\ d[b] \in Int /\ e[b] \in Int
          /\ r[a] \in Int /\ r[b] \in Int /\ p \in Int
      BY <1>1, <3>1
    <3> DEFINE da == d[a]
               db == d[b]
               eb == e[b]
               ra == r[a]
               rb == r[b]
    <3>7. /\ da \in Int /\ db \in Int /\ eb \in Int /\ ra \in Int /\ rb \in Int /\ p \in Int
          /\ Cong(da, ra - p) /\ Cong(db, rb - ra) /\ Cong(eb, db + da)
      BY <3>5, <3>6
    <3>8. eb = e[b] /\ rb = r[b]
      OBVIOUS
    <3> HIDE DEF a, b, p, da, db, eb, ra, rb
    <3>9. /\ (rb - ra) + (ra - p) = rb - p
          /\ rb - ra \in Int /\ ra - p \in Int /\ rb - p \in Int /\ db + da \in Int
      BY <3>7
    <3>10. Cong(db + da, (rb - ra) + (ra - p))
      BY <3>7, <3>9, CongSum
    <3>11. Cong(eb, rb - p)
      BY <3>7, <3>9, <3>10, CongTrans
    <3> QED BY <3>2, <3>3, <3>8, <3>11
  <2>3. CASE j > i
    <3>1. /\ j + 1 \in 1 .. Len(l) /\ j + 1 \notin {i, i + 1} /\ ~(j < i) /\ j # 1
          /\ j - 1 \in 1 .. Len(l) - 1 /\ ~(j - 1 < i) /\ (j - 1) + 1 = j
          /\ j + 1 # 1 /\ (j + 1) - 1 = j
      BY <1>1, <2>3
    <3>2. k[j] = l[j + 1] /\ k[j - 1] = l[j] /\ e[l[j + 1]] = d[l[j + 1]]
      BY <1>2, <3>1
    <3>3. Before(k, r, j) = Before(l, r, j + 1)
      BY <3>1, <3>2 DEF Before
    <3> QED BY <3>1, <3>2, <3>3 DEF Chain
  <2> QED BY <1>1, <2>1, <2>2, <2>3
<1> QED BY <1>2, <1>3 DEF Chain, k

\* The head is taken off when its own number has come down to zero.
LEMMA ChainTail ==
  ASSUME NEW l \in Seq(Timer), IsInjective(l), l # <<>>,
         NEW r \in [Timer -> Int], NEW d \in [Timer -> Word],
         Chain(l, d, r), d[Head(l)] = 0
  PROVE  Chain(Tail(l), d, r)
<1> DEFINE k == Tail(l)
<1>1. /\ 1 \in 1 .. Len(l) /\ Head(l) = l[1]
      /\ k \in Seq(Timer) /\ Len(k) = Len(l) - 1
      /\ \A j \in 1 .. Len(l) - 1 : k[j] = l[j + 1]
  BY HeadUnlinked
<1>2. /\ Len(l) \in Nat
      /\ \A j \in 1 .. Len(l) : r[l[j]] \in Int /\ d[l[j]] \in Int
  BY ChainTypes
<1> HIDE DEF k
<1>3. Cong(0, r[l[1]])
  <2>1. Cong(d[l[1]], r[l[1]] - 0)
    BY <1>1 DEF Chain, Before
  <2>2. r[l[1]] - 0 = r[l[1]]
    BY <1>1, <1>2
  <2> QED BY <1>1, <2>1, <2>2
<1>4. ASSUME NEW j \in 1 .. Len(l) - 1 PROVE Cong(d[k[j]], r[k[j]] - Before(k, r, j))
  <2>1. j + 1 \in 1 .. Len(l) /\ k[j] = l[j + 1] /\ j + 1 # 1 /\ (j + 1) - 1 = j
    BY <1>1, <1>2
  <2>2. Cong(d[l[j + 1]], r[l[j + 1]] - r[l[j]])
    BY <2>1 DEF Chain, Before
  <2>3. CASE j = 1
    <3> DEFINE a == d[l[j + 1]]
               b == r[l[j + 1]]
               c == r[l[j]]
    <3>1. a \in Int /\ b \in Int /\ c \in Int
      BY <1>1, <1>2, <2>1, <2>3
    <3>2. Cong(a, b - c) /\ Cong(0, c)
      BY <1>3, <2>2, <2>3
    <3> HIDE DEF a, b, c
    <3>3. Cong(a + 0, (b - c) + c)
      BY <3>1, <3>2, CongRules
    <3>4. a + 0 = a /\ (b - c) + c = b - 0
      BY <3>1
    <3>5. Before(k, r, j) = 0
      BY <2>3 DEF Before
    <3> QED BY <2>1, <3>3, <3>4, <3>5 DEF a, b
  <2>4. CASE j # 1
    <3>1. j - 1 \in 1 .. Len(l) - 1 /\ (j - 1) + 1 = j
      BY <1>2, <2>4
    <3>2. k[j - 1] = l[j]
      BY <1>1, <3>1
    <3>3. Before(k, r, j) = r[l[j]]
      BY <2>4, <3>2 DEF Before
    <3> QED BY <2>1, <2>2, <3>3
  <2> QED BY <2>3, <2>4
<1> QED BY <1>1, <1>4 DEF Chain, k

\* A delta changes, and with it every number from its node on.
LEMMA ChainShifted ==
  ASSUME NEW l \in Seq(Timer), NEW p \in 1 .. Len(l), NEW m \in Int,
         NEW r \in [Timer -> Int], NEW d \in [Timer -> Word],
         NEW u \in [Timer -> Int], NEW e \in [Timer -> Word],
         Chain(l, d, r), Cong(e[l[p]], d[l[p]] + m),
         \A j \in 1 .. Len(l) : j # p => e[l[j]] = d[l[j]],
         \A j \in 1 .. Len(l) : u[l[j]] = IF j < p THEN r[l[j]] ELSE r[l[j]] + m
  PROVE  Chain(l, e, u)
<1>1. /\ Len(l) \in Nat
      /\ \A j \in 1 .. Len(l) : r[l[j]] \in Int /\ d[l[j]] \in Int
      /\ \A j \in 1 .. Len(l) : e[l[j]] \in Int
      /\ \A j \in 1 .. Len(l) + 1 : Before(l, r, j) \in Int
  BY ChainTypes
<1>2. ASSUME NEW j \in 1 .. Len(l) PROVE Cong(e[l[j]], u[l[j]] - Before(l, u, j))
  <2> DEFINE a == d[l[j]]
             b == r[l[j]]
             c == Before(l, r, j)
             f == e[l[j]]
  <2>1. a \in Int /\ b \in Int /\ c \in Int /\ f \in Int /\ Cong(a, b - c)
    BY <1>1 DEF Chain
  <2>2. j # 1 => j - 1 \in 1 .. Len(l) /\ j - 1 < j
    BY <1>1
  <2>3. CASE j < p
    <3>1. j # 1 => j - 1 < p
      BY <2>2, <2>3
    <3>2. Before(l, u, j) = c
      BY <2>2, <3>1 DEF Before
    <3>3. e[l[j]] = a /\ u[l[j]] = b
      BY <2>3
    <3> QED BY <2>1, <3>2, <3>3
  <2>4. CASE j = p
    <3>1. j # 1 => j - 1 < p
      BY <2>2, <2>4
    <3>2. Before(l, u, j) = c
      BY <2>2, <3>1 DEF Before
    <3>3. Cong(f, a + m) /\ u[l[j]] = b + m
      BY <2>4
    <3> HIDE DEF a, b, c, f
    <3>4. Cong(a + m, (b - c) + m) /\ a + m \in Int
      BY <2>1, CongRules
    <3>5. (b - c) + m = (b + m) - c /\ (b + m) - c \in Int
      BY <2>1
    <3>6. Cong(f, (b + m) - c)
      BY <2>1, <3>3, <3>4, <3>5, CongTrans
    <3> QED BY <3>2, <3>3, <3>6 DEF f
  <2>5. CASE j > p
    <3>1. j # 1 /\ ~(j - 1 < p) /\ ~(j < p) /\ j # p
      BY <1>1, <2>5
    <3>2. c = r[l[j - 1]] /\ Before(l, u, j) = r[l[j - 1]] + m
      BY <2>2, <3>1 DEF Before
    <3>3. e[l[j]] = a /\ u[l[j]] = b + m
      BY <3>1
    <3> HIDE DEF a, b, c
    <3>4. (b + m) - (c + m) = b - c
      BY <2>1
    <3> QED BY <2>1, <3>2, <3>3, <3>4
  <2> QED BY <1>1, <2>3, <2>4, <2>5
<1> QED BY <1>2 DEF Chain

\* In particular when a delta counts down.
LEMMA ChainTicked ==
  ASSUME NEW l \in Seq(Timer), NEW p \in 1 .. Len(l),
         NEW r \in [Timer -> Int], NEW d \in [Timer -> Word],
         NEW u \in [Timer -> Int], NEW e \in [Timer -> Word],
         Chain(l, d, r), e[l[p]] = d[l[p]] - 1,
         \A j \in 1 .. Len(l) : j # p => e[l[j]] = d[l[j]],
         \A j \in 1 .. Len(l) : u[l[j]] = IF j < p THEN r[l[j]] ELSE r[l[j]] - 1
  PROVE  Chain(l, e, u)
<1>1. \A j \in 1 .. Len(l) : r[l[j]] \in Int /\ d[l[j]] \in Int
  BY ChainTypes
<1>2. Cong(e[l[p]], d[l[p]] + (-1))
  <2>1. d[l[p]] - 1 = d[l[p]] + (-1) /\ d[l[p]] + (-1) \in Int
    BY <1>1
  <2> QED BY <2>1, CongRules
<1>3. \A j \in 1 .. Len(l) : u[l[j]] = IF j < p THEN r[l[j]] ELSE r[l[j]] + (-1)
  BY <1>1
<1>4. -1 \in Int
  OBVIOUS
<1> QED BY <1>2, <1>3, <1>4, ChainShifted

(***************************************************************************)
(* TicksTo.                                                                *)
(***************************************************************************)
SumsOf(g, e, n) == g = [i \in 0 .. n |-> IF i = 0 THEN 0 ELSE g[i - 1] + e[i]]

\* There are sums: the least number of terms without them would have one more
\* than a number that has them.
LEMMA SumsExist ==
  ASSUME NEW n \in Nat, NEW e \in [1 .. n -> Int]
  PROVE  \E g \in [0 .. n -> Int] : SumsOf(g, e, n)
<1> DEFINE Has(m) == \E g \in [0 .. m -> Int] : SumsOf(g, e, m)
           T == {m \in 0 .. n : ~Has(m)}
<1>1. SUFFICES ASSUME T # {} PROVE FALSE
  <2>1. n \in 0 .. n
    OBVIOUS
  <2> QED BY <2>1
<1>2. PICK m \in T : \A y \in T : m <= y
  <2>1. T \in SUBSET Nat
    OBVIOUS
  <2> HIDE DEF T
  <2> QED BY <1>1, <2>1, LeastExists
<1>3. m \in 0 .. n /\ ~Has(m)
  OBVIOUS
<1>4. CASE m = 0
  <2> DEFINE g == [i \in 0 .. 0 |-> 0]
  <2>1. g = [i \in 0 .. 0 |-> IF i = 0 THEN 0 ELSE g[i - 1] + e[i]]
    OBVIOUS
  <2>2. g \in [0 .. 0 -> Int]
    OBVIOUS
  <2>3. Has(0)
    BY <2>1, <2>2 DEF SumsOf
  <2> QED BY <1>3, <1>4, <2>3
<1>5. CASE m # 0
  <2>1. m - 1 \in 0 .. n /\ ~(m <= m - 1) /\ m \in 1 .. n
    BY <1>3, <1>5
  <2>2. m - 1 \notin T
    BY <1>2, <2>1
  <2>3. Has(m - 1)
    BY <2>1, <2>2
  <2>4. PICK f \in [0 .. m - 1 -> Int] : SumsOf(f, e, m - 1)
    BY <2>3
  <2>5. \A i \in 0 .. m - 1 : f[i] = IF i = 0 THEN 0 ELSE f[i - 1] + e[i]
    BY <2>4 DEF SumsOf
  <2> DEFINE g == [i \in 0 .. m |-> IF i = m THEN f[m - 1] + e[m] ELSE f[i]]
  <2>6. g \in [0 .. m -> Int]
    BY <2>1
  <2>7. ASSUME NEW i \in 0 .. m PROVE g[i] = IF i = 0 THEN 0 ELSE g[i - 1] + e[i]
    <3>1. CASE i = m
      BY <3>1, <2>1
    <3>2. CASE i # m
      <4>1. i \in 0 .. m - 1 /\ g[i] = f[i]
        BY <3>2, <2>1
      <4>2. i # 0 => i - 1 \in 0 .. m /\ i - 1 # m /\ g[i - 1] = f[i - 1]
        BY <4>1, <2>1
      <4> HIDE DEF g
      <4> QED BY <4>1, <4>2, <2>5
    <3> QED BY <3>1, <3>2
  <2> DEFINE h == [i \in 0 .. m |-> IF i = 0 THEN 0 ELSE g[i - 1] + e[i]]
  <2>8. g = h
    <3>1. DOMAIN g = 0 .. m /\ DOMAIN h = 0 .. m /\ h = [i \in DOMAIN h |-> h[i]]
          /\ g = [i \in DOMAIN g |-> g[i]]
      OBVIOUS
    <3>2. \A i \in 0 .. m : h[i] = IF i = 0 THEN 0 ELSE g[i - 1] + e[i]
      OBVIOUS
    <3> HIDE DEF g, h
    <3>3. \A i \in 0 .. m : g[i] = h[i]
      BY <2>7, <3>2
    <3> QED BY <3>1, <3>3
  <2>9. Has(m)
    <3>1. SumsOf(g, e, m)
      BY <2>8 DEF SumsOf
    <3> HIDE DEF g
    <3> QED BY <2>6, <3>1
  <2> QED BY <1>3, <2>9
<1> QED BY <1>4, <1>5

\* The ticks to each node are those to the node before it and its own delta.
LEMMA TicksToFacts ==
  ASSUME list \in Seq(Timer), dtick \in [Timer -> Word]
  PROVE  /\ L!TicksTo[0] = 0
         /\ \A i \in 0 .. Len(list) : L!TicksTo[i] \in Int
         /\ \A i \in 1 .. Len(list) : L!TicksTo[i] = L!TicksTo[i - 1] + dtick[list[i]]
<1> DEFINE n == Len(list)
           e == [i \in 1 .. n |-> dtick[list[i]]]
           body(f) == [i \in 0 .. n |-> IF i = 0 THEN 0 ELSE f[i - 1] + dtick[list[i]]]
<1>1. /\ n \in Nat /\ \A i \in 1 .. n : list[i] \in Timer
      /\ Word \subseteq Int
  BY LenProperties, ElementOfSeq, WordSize DEF Word, W
<1>2. e \in [1 .. n -> Int]
  BY <1>1
<1>3. PICK g \in [0 .. n -> Int] : SumsOf(g, e, n)
  <2> HIDE DEF e, n
  <2> QED BY <1>1, <1>2, SumsExist
<1>4. g = body(g)
  <2>1. \A i \in 0 .. n : i # 0 => e[i] = dtick[list[i]]
    BY <1>1
  <2>2. g = [i \in 0 .. n |-> IF i = 0 THEN 0 ELSE g[i - 1] + e[i]]
    BY <1>3 DEF SumsOf
  <2> HIDE DEF e, n
  <2> QED BY <2>1, <2>2
<1>5. L!TicksTo = CHOOSE f : f = body(f)
  BY DEF L!TicksTo
<1> DEFINE s == L!TicksTo
<1>6. s = body(s)
  <2> HIDE DEF n
  <2> QED BY <1>4, <1>5
<1> HIDE DEF s
<1>7. \A i \in 0 .. n : s[i] = IF i = 0 THEN 0 ELSE s[i - 1] + dtick[list[i]]
  BY <1>6
<1>8. \A i \in 1 .. n : i \in 0 .. n /\ i # 0
  BY <1>1
<1>9. s[0] = 0 /\ 0 \in 0 .. n
  BY <1>1, <1>7
<1>10. \A i \in 0 .. n : s[i] \in Int
  <2> DEFINE T == {i \in 0 .. n : s[i] \notin Int}
  <2>1. SUFFICES ASSUME T # {} PROVE FALSE
    OBVIOUS
  <2>2. PICK m \in T : \A y \in T : m <= y
    <3>1. T \in SUBSET Nat
      OBVIOUS
    <3> HIDE DEF T
    <3> QED BY <2>1, <3>1, LeastExists
  <2>3. m # 0 /\ m \in 1 .. n /\ m - 1 \in 0 .. n /\ ~(m <= m - 1)
    BY <1>9
  <2>4. s[m - 1] \in Int
    BY <2>2, <2>3
  <2>5. m \in 0 .. n /\ s[m] \notin Int
    OBVIOUS
  <2>6. s[m] = s[m - 1] + dtick[list[m]]
    BY <1>7, <2>3, <2>5
  <2>7. dtick[list[m]] \in Int
    BY <1>1, <2>3
  <2> QED BY <2>4, <2>5, <2>6, <2>7
<1> QED BY <1>7, <1>8, <1>9, <1>10 DEF s

\* In words they are the numbers of the chain.
LEMMA TicksToChain ==
  ASSUME list \in Seq(Timer), dtick \in [Timer -> Word],
         NEW r \in [Timer -> Int], Chain(list, dtick, r)
  PROVE  \A i \in 1 .. Len(list) + 1 : Cong(L!TicksTo[i - 1], Before(list, r, i))
<1> DEFINE s == L!TicksTo
           T == {i \in 1 .. Len(list) + 1 : ~Cong(s[i - 1], Before(list, r, i))}
<1>1. /\ Len(list) \in Nat
      /\ \A i \in 1 .. Len(list) : r[list[i]] \in Int /\ dtick[list[i]] \in Int
      /\ \A i \in 1 .. Len(list) + 1 : Before(list, r, i) \in Int
  BY ChainTypes
<1>2. /\ s[0] = 0 /\ \A i \in 0 .. Len(list) : s[i] \in Int
      /\ \A i \in 1 .. Len(list) : s[i] = s[i - 1] + dtick[list[i]]
  BY TicksToFacts
<1> HIDE DEF s
<1>3. SUFFICES ASSUME T # {} PROVE FALSE
  BY DEF s
<1>4. PICK m \in T : \A y \in T : m <= y
  <2>1. T \in SUBSET Nat
    OBVIOUS
  <2> HIDE DEF T
  <2> QED BY <1>3, <2>1, LeastExists
<1>5. m \in 1 .. Len(list) + 1 /\ ~Cong(s[m - 1], Before(list, r, m))
  OBVIOUS
<1>6. CASE m = 1
  <2>1. s[m - 1] = 0 /\ Before(list, r, m) = 0
    BY <1>2, <1>6 DEF Before
  <2>2. Cong(0, 0)
    BY CongRules
  <2> QED BY <1>5, <2>1, <2>2
<1>7. CASE m # 1
  <2>1. m - 1 \in 1 .. Len(list) /\ m - 1 \in 1 .. Len(list) + 1 /\ ~(m <= m - 1)
        /\ (m - 1) - 1 \in 0 .. Len(list)
    BY <1>1, <1>5, <1>7
  <2>2. m - 1 \notin T
    BY <1>4, <2>1
  <2> DEFINE a == s[(m - 1) - 1]
             b == Before(list, r, m - 1)
             c == dtick[list[m - 1]]
             d == r[list[m - 1]]
  <2>3. Cong(a, b)
    BY <2>1, <2>2
  <2>4. Cong(c, d - b)
    BY <2>1 DEF Chain
  <2>5. a \in Int /\ b \in Int /\ c \in Int /\ d \in Int
    BY <1>1, <1>2, <2>1
  <2>6. s[m - 1] = a + c
    BY <1>2, <2>1
  <2>7. Before(list, r, m) = d
    BY <1>7 DEF Before
  <2> HIDE DEF a, b, c, d
  <2>8. Cong(a + c, b + (d - b))
    <3>1. d - b \in Int
      BY <2>5
    <3> QED BY <2>3, <2>4, <2>5, <3>1, CongSum
  <2>9. b + (d - b) = d
    BY <2>5
  <2> QED BY <1>5, <2>6, <2>7, <2>8, <2>9
<1> QED BY <1>6, <1>7

\* The insertion stops at a node or after the last.
LEMMA DeltaPosFacts ==
  ASSUME list \in Seq(Timer), NEW ticks
  PROVE  L!DeltaPos(ticks) \in 1 .. Len(list) + 1
<1> DEFINE S == {i \in DOMAIN list : L!TicksTo[i] < ticks}
<1>1. Len(list) \in Nat /\ DOMAIN list = 1 .. Len(list)
  BY LenProperties
<1>2. IsFiniteSet(1 .. Len(list)) /\ Cardinality(1 .. Len(list)) = Len(list)
  BY <1>1, FS_Interval
<1>3. S \subseteq 1 .. Len(list)
  BY <1>1
<1>6. L!DeltaPos(ticks) = Cardinality(S) + 1
  BY DEF L!DeltaPos, L!Cardinality, Cardinality
<1> HIDE DEF S
<1>4. IsFiniteSet(S) /\ Cardinality(S) <= Cardinality(1 .. Len(list))
  BY <1>2, <1>3, FS_Subset
<1>5. Cardinality(S) \in Nat
  BY <1>4, FS_CardinalityType
<1> QED BY <1>1, <1>2, <1>4, <1>5, <1>6

(***************************************************************************)
(* What is armed before the tick starts, and what is cancelled.            *)
(***************************************************************************)
\* Only the nodes of the list are in its chain.
LEMMA ChainSame ==
  ASSUME NEW l \in Seq(Timer), NEW d, NEW r, NEW e, NEW u,
         Chain(l, d, r), \A n \in ToSet(l) : e[n] = d[n] /\ u[n] = r[n]
  PROVE  Chain(l, e, u)
<1>1. Len(l) \in Nat /\ \A j \in 1 .. Len(l) : l[j] \in ToSet(l)
  BY LenProperties DEF ToSet
<1>2. ASSUME NEW j \in 1 .. Len(l) PROVE Cong(e[l[j]], u[l[j]] - Before(l, u, j))
  <2>1. j # 1 => j - 1 \in 1 .. Len(l)
    BY <1>1
  <2>2. Before(l, u, j) = Before(l, r, j)
    BY <1>1, <2>1 DEF Before
  <2>3. Cong(d[l[j]], r[l[j]] - Before(l, r, j))
    BY DEF Chain
  <2> QED BY <1>1, <2>2, <2>3
<1> QED BY <1>2 DEF Chain

\* A timer that is armed takes the place its number has in the list.
LEMMA NodeArmed ==
  ASSUME list \in Seq(Timer), IsInjective(list), dtick \in [Timer -> Word],
         NEW t \in Timer, t \notin ToSet(list), NEW ticks \in 1 .. W - 1,
         L!kTimeoutListInsertDelta_(t, ticks)
  PROVE  /\ list' \in Seq(Timer) /\ IsInjective(list') /\ ToSet(list') = ToSet(list) \cup {t}
         /\ dtick' \in [Timer -> Word]
         /\ list' # <<>>
         /\ (list # <<>> => dtick[Head(list)] > 0) => dtick'[Head(list')] > 0
         /\ \A r \in [Timer -> Int] :
              Chain(list, dtick, r) /\ r[t] = ticks => Chain(list', dtick', r)
<1> DEFINE pos == L!DeltaPos(ticks)
           s == L!TicksTo[pos - 1]
           own == Wrapped(ticks - s)
<1>1. pos \in 1 .. Len(list) + 1
  BY DeltaPosFacts
<1>2. /\ list' = InsertAt(list, pos, t)
      /\ dtick' = [m \in Timer |->
                     CASE m = t -> own
                       [] pos <= Len(list) /\ m = list[pos] -> Wrapped(dtick[m] - own)
                       [] OTHER -> dtick[m]]
  BY DEF L!kTimeoutListInsertDelta_, L!InsertAt, InsertAt, Wrapped
<1>3. /\ Len(list) \in Nat /\ DOMAIN list = 1 .. Len(list)
      /\ \A i \in 1 .. Len(list) : list[i] \in Timer /\ list[i] \in ToSet(list)
  BY LenProperties, ElementOfSeq DEF ToSet
<1>4. s \in Int /\ (pos = 1 => s = 0)
  <2> HIDE DEF pos
  <2>1. pos - 1 \in 0 .. Len(list)
    BY <1>1, <1>3
  <2> QED BY <1>1, <2>1, TicksToFacts
<1>5. W \in Nat \ {0} /\ Word = 0 .. W - 1
  BY WordSize DEF Word, W
<1>6. own \in Word /\ own \in Int /\ Cong(own, ticks - s) /\ (pos = 1 => own = ticks)
  <2>1. s \in Int /\ own = Wrapped(ticks - s) /\ ticks \in Int /\ ticks \in Word
    BY <1>4, <1>5
  <2>2. pos = 1 => ticks - s = ticks
    BY <1>4
  <2> HIDE DEF s, own, pos
  <2>3. own \in Word /\ Cong(own, ticks - s) /\ (ticks - s \in Word => own = ticks - s)
    BY <2>1, WrappedFacts
  <2> QED BY <1>5, <2>1, <2>2, <2>3
<1>7. \A m \in Timer : /\ Wrapped(dtick[m] - own) \in Word
                       /\ Cong(Wrapped(dtick[m] - own), dtick[m] - own)
  <2> HIDE DEF own
  <2> SUFFICES ASSUME NEW m \in Timer
               PROVE  /\ Wrapped(dtick[m] - own) \in Word
                      /\ Cong(Wrapped(dtick[m] - own), dtick[m] - own)
    OBVIOUS
  <2>1. dtick[m] - own \in Int
    BY <1>5, <1>6
  <2> QED BY <2>1, WrappedFacts
<1>8. /\ \A i, j \in 1 .. Len(list) : list[i] = list[j] => i = j
      /\ \A i \in 1 .. Len(list) : list[i] # t
  BY <1>3 DEF IsInjective
<1> HIDE DEF own, s, pos
<1>9. /\ dtick'[t] = own
      /\ pos <= Len(list) => dtick'[list[pos]] = Wrapped(dtick[list[pos]] - own)
      /\ \A j \in 1 .. Len(list) : j # pos => dtick'[list[j]] = dtick[list[j]]
  <2>1. dtick'[t] = own
    <3>1. ~(pos <= Len(list) /\ t = list[pos])
      BY <1>1, <1>3, <1>8
    <3> QED BY <1>2, <3>1
  <2>2. ASSUME pos <= Len(list) PROVE dtick'[list[pos]] = Wrapped(dtick[list[pos]] - own)
    <3>1. pos \in 1 .. Len(list)
      BY <1>1, <1>3, <2>2
    <3> QED BY <1>2, <1>3, <1>8, <2>2, <3>1
  <2>3. ASSUME NEW j \in 1 .. Len(list), j # pos PROVE dtick'[list[j]] = dtick[list[j]]
    <3>1. ~(pos <= Len(list) /\ list[j] = list[pos])
      BY <1>1, <1>3, <1>8, <2>3
    <3> QED BY <1>2, <1>3, <1>8, <3>1
  <2> QED BY <2>1, <2>2, <2>3
<1>10. dtick' \in [Timer -> Word]
  <2>1. ASSUME NEW m \in Timer
        PROVE (CASE m = t -> own
                 [] pos <= Len(list) /\ m = list[pos] -> Wrapped(dtick[m] - own)
                 [] OTHER -> dtick[m]) \in Word
    BY <1>6, <1>7
  <2> QED BY <1>2, <2>1
<1>11. ASSUME NEW r \in [Timer -> Int], Chain(list, dtick, r), r[t] = ticks
       PROVE  Chain(list', dtick', r)
  <2> DEFINE b == Before(list, r, pos)
  <2>1. /\ \A i \in 1 .. Len(list) : r[list[i]] \in Int /\ dtick[list[i]] \in Int
        /\ b \in Int
    BY <1>1, <1>11, ChainTypes
  <2>2. Cong(s, b)
    BY <1>1, <1>11, TicksToChain DEF s
  <2> HIDE DEF b
  <2>3. Cong(own, ticks - b)
    <3>1. ticks \in Int /\ ticks - s \in Int /\ ticks - b \in Int
      BY <1>4, <1>5, <2>1
    <3>2. Cong(ticks - s, ticks - b)
      BY <1>4, <2>1, <2>2, <3>1, CongRules
    <3> QED BY <1>6, <3>1, <3>2, CongTrans
  <2>4. ASSUME pos <= Len(list) PROVE Cong(dtick'[list[pos]], r[list[pos]] - r[t])
    <3> DEFINE x == dtick[list[pos]]
               y == r[list[pos]]
               z == Wrapped(x - own)
    <3>1. pos \in 1 .. Len(list) /\ list[pos] \in Timer
      BY <1>1, <1>3, <2>4
    <3>2. /\ x \in Int /\ y \in Int /\ ticks \in Int
          /\ Cong(x, y - b)
      BY <1>5, <1>11, <2>1, <3>1 DEF Chain, b
    <3>3. z \in Word /\ Cong(z, x - own) /\ dtick'[list[pos]] = z
      BY <1>7, <1>9, <2>4, <3>1
    <3> HIDE DEF x, y, z
    <3>4. /\ x - own \in Int /\ y - b \in Int /\ ticks - b \in Int /\ z \in Int
          /\ (y - b) - (ticks - b) = y - ticks /\ y - ticks \in Int
      BY <1>5, <1>6, <2>1, <3>2, <3>3
    <3>5. Cong(x - own, (y - b) - (ticks - b))
      BY <1>6, <2>3, <3>2, <3>4, CongSum
    <3>6. Cong(z, y - ticks)
      BY <3>3, <3>4, <3>5, CongTrans
    <3> QED BY <1>11, <3>3, <3>6 DEF y
  <2>5. \A j \in 1 .. Len(list) : j # pos => dtick'[list[j]] = dtick[list[j]]
    BY <1>9
  <2>6. Cong(dtick'[t], r[t] - Before(list, r, pos))
    BY <1>9, <1>11, <2>3 DEF b
  <2>7. Chain(InsertAt(list, pos, t), dtick', r)
    BY <1>1, <1>10, <1>11, <2>4, <2>5, <2>6, ChainLinked
  <2> QED BY <1>2, <2>7
<1>12. /\ list' \in Seq(Timer) /\ IsInjective(list')
       /\ ToSet(list') = ToSet(list) \cup {t}
  BY <1>1, <1>2, NodeLinked
<1>13. list' # <<>> /\ Head(list') = IF pos = 1 THEN t ELSE list[1]
  <2>1. Len(list') = Len(list) + 1 /\ 1 \in 1 .. Len(list) + 1
        /\ list'[1] = IF 1 < pos THEN list[1] ELSE IF 1 = pos THEN t ELSE list[1 - 1]
    <3>1. 1 \in 1 .. Len(list) + 1
      BY <1>3
    <3>2. Inserted(list', list, pos, t)
      BY <1>1, <1>2, InsertAtProperties
    <3> QED BY <3>1, <3>2 DEF Inserted
  <2>2. list' # <<>>
    BY <1>3, <1>12, <2>1, EmptySeq
  <2> QED BY <1>1, <1>12, <2>1, <2>2, HeadTailProperties
<1>14. ASSUME list # <<>> => dtick[Head(list)] > 0 PROVE dtick'[Head(list')] > 0
  <2>1. CASE pos = 1
    BY <1>6, <1>9, <1>13, <2>1
  <2>2. CASE pos # 1
    <3>1. 1 \in 1 .. Len(list) /\ list # <<>> /\ Head(list) = list[1]
      BY <1>1, <1>3, <2>2, EmptySeq, HeadTailProperties
    <3> QED BY <1>9, <1>13, <1>14, <2>2, <3>1
  <2> QED BY <2>1, <2>2
<1> QED BY <1>10, <1>11, <1>12, <1>13, <1>14

\* A timer that is cancelled leaves the others where they are.
LEMMA NodeCancelled ==
  ASSUME list \in Seq(Timer), IsInjective(list), dtick \in [Timer -> Word],
         NEW t \in ToSet(list), L!kRemoveTimeoutNode(t)
  PROVE  /\ list' \in Seq(Timer) /\ IsInjective(list') /\ ToSet(list') = ToSet(list) \ {t}
         /\ dtick' \in [Timer -> Word]
         /\ \A n \in Timer \ ToSet(list) : dtick'[n] = dtick[n]
         /\ \A r \in [Timer -> Int] : Chain(list, dtick, r) => Chain(list', dtick', r)
<1> DEFINE pos == CHOOSE i \in DOMAIN list : list[i] = t
<1>1. /\ Len(list) \in Nat /\ DOMAIN list = 1 .. Len(list)
      /\ \A i \in 1 .. Len(list) : list[i] \in Timer /\ list[i] \in ToSet(list)
  BY LenProperties, ElementOfSeq DEF ToSet
<1>2. pos \in 1 .. Len(list) /\ list[pos] = t
  BY <1>1 DEF ToSet
<1>3. /\ list' = RemoveAt(list, pos)
      /\ dtick' = [m \in Timer |->
                     CASE m = t -> 0
                       [] pos < Len(list) /\ m = list[pos + 1] -> Wrapped(dtick[m] + dtick[t])
                       [] OTHER -> dtick[m]]
  BY DEF L!kRemoveTimeoutNode, L!RemoveAt, RemoveAt, Wrapped
<1> HIDE DEF pos
<1>4. W \in Nat \ {0} /\ Word = 0 .. W - 1
  BY WordSize DEF Word, W
<1>5. \A i, j \in 1 .. Len(list) : list[i] = list[j] => i = j
  BY <1>1 DEF IsInjective
<1>6. t \in Timer
  BY <1>1, <1>2
<1>7. \A m \in Timer : Wrapped(dtick[m] + dtick[t]) \in Word
                    /\ Cong(Wrapped(dtick[m] + dtick[t]), dtick[m] + dtick[t])
  <2> SUFFICES ASSUME NEW m \in Timer
               PROVE  Wrapped(dtick[m] + dtick[t]) \in Word
                   /\ Cong(Wrapped(dtick[m] + dtick[t]), dtick[m] + dtick[t])
    OBVIOUS
  <2>1. dtick[m] + dtick[t] \in Int
    BY <1>4, <1>6
  <2> QED BY <2>1, WrappedFacts
<1>8. dtick' \in [Timer -> Word]
  <2>1. 0 \in Word
    BY <1>4
  <2> QED BY <1>3, <1>7, <2>1
<1>9. ASSUME NEW j \in 1 .. Len(list), j \notin {pos, pos + 1}
      PROVE  dtick'[list[j]] = dtick[list[j]]
  <2>1. list[j] # t /\ list[j] \in Timer
    BY <1>1, <1>2, <1>5, <1>9
  <2>2. ~(pos < Len(list) /\ list[j] = list[pos + 1])
    <3>1. pos < Len(list) => pos + 1 \in 1 .. Len(list)
      BY <1>1, <1>2
    <3> QED BY <1>5, <1>9, <3>1
  <2> QED BY <1>3, <2>1, <2>2
<1>10. ASSUME pos < Len(list)
       PROVE  Cong(dtick'[list[pos + 1]], dtick[list[pos + 1]] + dtick[list[pos]])
  <2>1. pos + 1 \in 1 .. Len(list)
    BY <1>1, <1>2, <1>10
  <2>2. list[pos + 1] # t
    BY <1>2, <1>5, <2>1
  <2>3. list[pos + 1] \in Timer
    BY <1>1, <2>1
  <2>4. dtick'[list[pos + 1]] = Wrapped(dtick[list[pos + 1]] + dtick[t])
    BY <1>3, <1>10, <2>2, <2>3
  <2> QED BY <1>2, <1>7, <2>3, <2>4
<1>11. ASSUME NEW n \in Timer \ ToSet(list) PROVE dtick'[n] = dtick[n]
  <2>1. n # t
    OBVIOUS
  <2>2. ~(pos < Len(list) /\ n = list[pos + 1])
    <3>1. pos < Len(list) => pos + 1 \in 1 .. Len(list)
      BY <1>1, <1>2
    <3> QED BY <1>1, <3>1
  <2> QED BY <1>3, <2>1, <2>2
<1>12. ASSUME NEW r \in [Timer -> Int], Chain(list, dtick, r) PROVE Chain(list', dtick', r)
  <2>1. \A j \in 1 .. Len(list) : j \notin {pos, pos + 1} => dtick'[list[j]] = dtick[list[j]]
    BY <1>9
  <2>2. Chain(RemoveAt(list, pos), dtick', r)
    BY <1>2, <1>8, <1>10, <1>12, <2>1, ChainUnlinked
  <2> QED BY <1>3, <2>2
<1>13. /\ list' \in Seq(Timer) /\ IsInjective(list') /\ ToSet(list') = ToSet(list) \ {t}
  BY <1>2, <1>3, NodeUnlinked
<1> QED BY <1>8, <1>11, <1>12, <1>13

(***************************************************************************)
(* PostProc's steps.                                                       *)
(***************************************************************************)
Inserting == {"pass", "consume", "subtract", "link"}
HoldsNode == {"load", "store", "call", "next"} \cup Inserting

\* What PostProc holds at each of its steps: its timer is off the list, it is
\* at a node of the list or past the last one, and what it has read of a node
\* is no less than what the node holds, which only ticks have changed.
StepInv ==
  /\ step \in {"boot", "wait", "loop"} \cup HoldsNode
  /\ step \in HoldsNode => cur \in Timer /\ cur \notin ToSet(list)
  /\ step \in {"load", "store"} => list # <<>> /\ dtick[cur] = 0
  /\ step \in Inserting => curr \in 1 .. Len(list) + 1
  /\ step \in {"consume", "subtract"} => curr <= Len(list) /\ dtick[list[curr]] <= word
  /\ step = "consume" => word < dtick[cur]
  /\ step = "boot" /\ list # <<>> => dtick[Head(list)] > 0

\* At the start nothing is linked.
LEMMA StructInit == Init => TypeOK /\ StepInv /\ NoLostExpiry
<1> SUFFICES ASSUME Init PROVE TypeOK /\ StepInv /\ NoLostExpiry
  OBVIOUS
<1>1. 0 \in Word
  BY WordSize DEF Word, W
<1>2. list \in Seq(Timer) /\ IsInjective(list) /\ ToSet(list) = {}
  <2>1. list = <<>>
    BY DEF Init
  <2> QED BY <2>1, EmptySeq, LenProperties DEF IsInjective, ToSet
<1>3. TypeOK
  BY <1>1, <1>2 DEF Init, TypeOK
<1>4. StepInv
  BY DEF Init, StepInv, HoldsNode, Inserting
<1> QED BY <1>3, <1>4 DEF Init, NoLostExpiry

\* A timer is created.
LEMMA StructTimerInit ==
  ASSUME TypeOK, StepInv, NEW t \in Timer, kTimerInit(t)
  PROVE  /\ TypeOK' /\ StepInv' /\ NoLostExpiry'
         /\ \A r \in [Timer -> Int] :
              Chain(list, dtick, r) /\ r[t] = Phase[t] + Period[t] => Chain(list', dtick', r)
         /\ ToSet(list') = ToSet(list) \cup {t}
         /\ Phase[t] + Period[t] \in 1 .. W - 1
<1> DEFINE ticks == Phase[t] + Period[t]
<1>1. W \in Nat \ {0} /\ Word = 0 .. W - 1
  BY WordSize DEF Word, W
<1>2. ticks \in 1 .. W - 1
  BY CalloutConstants, WordSize
<1>3. list \in Seq(Timer) /\ IsInjective(list) /\ dtick \in [Timer -> Word] /\ t \notin ToSet(list)
  BY DEF TypeOK, kTimerInit
<1>4. L!kTimeoutListInsertDelta_(t, ticks)
  BY DEF kTimerInit
<1>5. /\ step = "boot" /\ step' = step /\ UNCHANGED <<globalTick, timerSig, cur, curr, word,
                                                     cancelled, time>>
      /\ nextTime' = [nextTime EXCEPT ![t] = K_TICK_ADD(globalTick, ticks)]
      /\ due' = [due EXCEPT ![t] = ticks]
  BY DEF kTimerInit
<1>6. list # <<>> => dtick[Head(list)] > 0
  BY <1>5 DEF StepInv
<1> HIDE DEF ticks
<1>7. /\ list' \in Seq(Timer) /\ IsInjective(list') /\ ToSet(list') = ToSet(list) \cup {t}
      /\ dtick' \in [Timer -> Word]
      /\ list' # <<>> /\ dtick'[Head(list')] > 0
      /\ \A r \in [Timer -> Int] :
           Chain(list, dtick, r) /\ r[t] = ticks => Chain(list', dtick', r)
  BY <1>2, <1>3, <1>4, <1>6, NodeArmed
<1>8. nextTime' \in [Timer -> Word] /\ due' \in [Timer -> Nat]
  <2>1. globalTick + ticks \in Int
    BY <1>1, <1>2 DEF TypeOK
  <2>2. K_TICK_ADD(globalTick, ticks) \in Word
    BY <2>1, WrappedFacts DEF K_TICK_ADD
  <2> QED BY <1>2, <1>5, <2>2 DEF TypeOK
<1>9. TypeOK'
  BY <1>5, <1>7, <1>8 DEF TypeOK
<1>10. StepInv'
  BY <1>5, <1>7 DEF StepInv, HoldsNode, Inserting
<1>11. NoLostExpiry'
  BY <1>5 DEF NoLostExpiry
<1> QED BY <1>2, <1>7, <1>9, <1>10, <1>11 DEF ticks

\* A timer is cancelled, if it is armed at all.
LEMMA StructCancel ==
  ASSUME list \in Seq(Timer), IsInjective(list), dtick \in [Timer -> Word],
         NEW t \in Timer, CancelNode(t)
  PROVE  /\ list' \in Seq(Timer) /\ IsInjective(list') /\ ToSet(list') \subseteq ToSet(list)
         /\ dtick' \in [Timer -> Word] /\ cancelled' = cancelled \cup {t}
         /\ \A r \in [Timer -> Int] : Chain(list, dtick, r) => Chain(list', dtick', r)
<1>1. CASE t \in ToSet(list)
  <2>1. L!kRemoveTimeoutNode(t)
    BY <1>1 DEF CancelNode
  <2> QED BY <1>1, <2>1, NodeCancelled DEF CancelNode
<1>2. CASE t \notin ToSet(list)
  BY <1>2 DEF CancelNode
<1> QED BY <1>1, <1>2

\* A tick takes one off the head, wherever PostProc is.
LEMMA TickFacts ==
  ASSUME TypeOK, Tick
  PROVE  /\ dtick' \in [Timer -> Word]
         /\ IF list # <<>> /\ dtick[Head(list)] > 0
            THEN /\ dtick'[Head(list)] = dtick[Head(list)] - 1
                 /\ \A n \in Timer \ {Head(list)} : dtick'[n] = dtick[n]
            ELSE dtick' = dtick
         /\ \A n \in Timer : dtick'[n] <= dtick[n]
<1>1. W \in Nat \ {0} /\ Word = 0 .. W - 1
  BY WordSize DEF Word, W
<1>2. dtick \in [Timer -> Word] /\ list \in Seq(Timer) /\ IsInjective(list)
  BY DEF TypeOK
<1>3. CASE list # <<>> /\ dtick[Head(list)] > 0
  <2> DEFINE h == Head(list)
  <2>1. h \in Timer
    BY <1>2, <1>3, HeadUnlinked
  <2>2. dtick' = [dtick EXCEPT ![h] = @ - 1]
    BY <1>3 DEF Tick
  <2>3. dtick[h] - 1 \in Word
    BY <1>1, <1>2, <1>3, <2>1
  <2> HIDE DEF h
  <2>4. /\ dtick' \in [Timer -> Word] /\ dtick'[h] = dtick[h] - 1
        /\ \A n \in Timer \ {h} : dtick'[n] = dtick[n]
    BY <1>2, <2>1, <2>2, <2>3
  <2>5. \A n \in Timer : dtick'[n] <= dtick[n]
    <3> SUFFICES ASSUME NEW n \in Timer PROVE dtick'[n] <= dtick[n]
      OBVIOUS
    <3>1. dtick[n] \in Int
      BY <1>1, <1>2
    <3> QED BY <2>4, <3>1
  <2> QED BY <1>3, <2>4, <2>5 DEF h
<1>4. CASE ~(list # <<>> /\ dtick[Head(list)] > 0)
  <2>1. dtick' = dtick
    BY <1>4 DEF Tick
  <2>2. \A n \in Timer : dtick[n] \in Int
    BY <1>1, <1>2
  <2> QED BY <1>2, <1>4, <2>1, <2>2
<1> QED BY <1>3, <1>4

\* The structure is kept by a tick.
LEMMA StructTick ==
  ASSUME TypeOK, StepInv, NoLostExpiry, Tick
  PROVE  TypeOK' /\ StepInv' /\ NoLostExpiry'
<1>1. W \in Nat \ {0} /\ W >= 2 /\ Word = 0 .. W - 1
  BY WordSize DEF Word, W
<1>2. /\ dtick' \in [Timer -> Word] /\ \A n \in Timer : dtick'[n] <= dtick[n]
  BY TickFacts
<1>3. /\ UNCHANGED <<list, nextTime, step, cur, curr, word, cancelled, due>>
      /\ step # "boot" /\ time' = time + 1 /\ timerSig' \in BOOLEAN
      /\ globalTick' = (globalTick + 1) % (W - 1)
      /\ timerSig' = (timerSig \/ (list # <<>> /\ dtick[Head(list)] <= 1))
  BY DEF Tick, W
<1>4. globalTick' \in Word
  <2>1. globalTick + 1 \in Int /\ W - 1 \in Int /\ W - 1 > 0
    BY <1>1 DEF TypeOK
  <2> DEFINE x == globalTick + 1
             y == W - 1
  <2>2. x \in Int /\ y \in Int /\ y > 0
    BY <2>1
  <2> HIDE DEF x, y
  <2>3. x % y \in Int /\ 0 <= x % y /\ x % y < y
    BY <2>2, Z3
  <2> QED BY <1>1, <1>3, <2>3 DEF x, y
<1>5. TypeOK'
  BY <1>2, <1>3, <1>4 DEF TypeOK
<1>6. list \in Seq(Timer) /\ IsInjective(list) /\ dtick \in [Timer -> Word]
  BY DEF TypeOK
<1>7. step \in {"load", "store"} => dtick'[cur] = 0
  <2> SUFFICES ASSUME step \in {"load", "store"} PROVE dtick'[cur] = 0
    OBVIOUS
  <2>1. cur \in Timer /\ dtick[cur] = 0
    BY DEF StepInv, HoldsNode
  <2>2. dtick'[cur] <= 0 /\ dtick'[cur] \in Word
    BY <1>2, <2>1
  <2> QED BY <1>1, <2>2
<1>8. step \in {"consume", "subtract"} => dtick'[list[curr]] <= word
  <2> SUFFICES ASSUME step \in {"consume", "subtract"} PROVE dtick'[list[curr]] <= word
    OBVIOUS
  <2>1. curr \in 1 .. Len(list) /\ dtick[list[curr]] <= word
    BY <1>6, LenProperties DEF StepInv, Inserting
  <2>2. list[curr] \in Timer
    BY <1>6, <2>1, ElementOfSeq
  <2>3. dtick'[list[curr]] \in Int /\ dtick[list[curr]] \in Int /\ word \in Int
    BY <1>1, <1>2, <1>6, <2>2 DEF TypeOK
  <2>4. dtick'[list[curr]] <= dtick[list[curr]]
    BY <1>2, <2>2
  <2> QED BY <2>1, <2>3, <2>4
<1>9. step = "consume" => word < dtick'[cur]
  <2> SUFFICES ASSUME step = "consume" PROVE word < dtick'[cur]
    OBVIOUS
  <2>1. cur \in Timer /\ cur \notin ToSet(list) /\ word < dtick[cur]
    BY DEF StepInv, HoldsNode, Inserting
  <2>2. list # <<>> => Head(list) \in ToSet(list)
    BY <1>6, HeadUnlinked
  <2>3. dtick'[cur] = dtick[cur]
    BY <2>1, <2>2, TickFacts
  <2> QED BY <2>1, <2>3
<1>10. StepInv'
  BY <1>3, <1>7, <1>8, <1>9 DEF StepInv, HoldsNode, Inserting
<1>11. NoLostExpiry'
  <2> SUFFICES ASSUME list # <<>>, dtick'[Head(list)] = 0 PROVE timerSig'
    BY <1>3 DEF NoLostExpiry
  <2>1. Head(list) \in Timer
    BY <1>6, HeadUnlinked
  <2>2. dtick[Head(list)] \in Nat
    BY <1>1, <1>6, <2>1
  <2>3. dtick[Head(list)] <= 1
    BY <2>2, TickFacts
  <2> QED BY <1>3, <2>3
<1> QED BY <1>5, <1>10, <1>11

\* The structure is kept by the steps that link nothing: those of a task, and
\* of PostProc up to the call.
LEMMA StructServe ==
  ASSUME TypeOK, StepInv, NoLostExpiry,
         \/ Start \/ \E t \in Timer : kTimerCancel(t)
         \/ EventGet \/ TakeHead \/ NoneExpired \/ RemoveLoad \/ RemoveStore \/ Call
  PROVE  TypeOK' /\ StepInv' /\ NoLostExpiry'
<1>1. W \in Nat \ {0} /\ Word = 0 .. W - 1
  BY WordSize DEF Word, W
<1>2. list \in Seq(Timer) /\ IsInjective(list) /\ dtick \in [Timer -> Word]
  BY DEF TypeOK
<1>3. list # <<>> => /\ Head(list) \in Timer /\ Head(list) \in ToSet(list)
                     /\ Tail(list) \in Seq(Timer) /\ IsInjective(Tail(list))
                     /\ ToSet(Tail(list)) = ToSet(list) \ {Head(list)}
  BY <1>2, HeadUnlinked
<1>4. MayCancel \subseteq Timer
  BY CalloutConstants
<1>5. CASE Start
  BY <1>5 DEF Start, TypeOK, StepInv, NoLostExpiry, HoldsNode, Inserting, history
<1>6. ASSUME NEW t \in Timer, kTimerCancel(t) PROVE TypeOK' /\ StepInv' /\ NoLostExpiry'
  <2>1. /\ step = "wait" /\ CancelNode(t)
        /\ UNCHANGED <<nextTime, globalTick, timerSig, step, cur, curr, word, time, due>>
    BY <1>6 DEF kTimerCancel
  <2>2. /\ list' \in Seq(Timer) /\ IsInjective(list')
        /\ dtick' \in [Timer -> Word] /\ cancelled' = cancelled \cup {t}
    BY <1>2, <2>1, StructCancel
  <2>3. TypeOK'
    BY <2>1, <2>2 DEF TypeOK
  <2>4. StepInv'
    BY <2>1 DEF StepInv, HoldsNode, Inserting
  <2>5. NoLostExpiry'
    BY <2>2 DEF NoLostExpiry
  <2> QED BY <2>3, <2>4, <2>5
<1>7. CASE EventGet
  BY <1>7 DEF EventGet, TypeOK, StepInv, NoLostExpiry, HoldsNode, Inserting, history
<1>8. CASE TakeHead
  <2> DEFINE h == Head(list)
  <2>1. /\ step = "loop" /\ list # <<>> /\ dtick[h] = 0 /\ cur' = h /\ list' = Tail(list)
        /\ step' = IF Tail(list) = <<>> THEN "call" ELSE "load"
        /\ UNCHANGED <<dtick, nextTime, globalTick, timerSig, curr, word, cancelled, time, due>>
    BY <1>8 DEF TakeHead, history
  <2>2. h \in Timer /\ h \notin ToSet(list')
    BY <1>3, <2>1
  <2> HIDE DEF h
  <2>3. TypeOK'
    BY <1>3, <2>1, <2>2 DEF TypeOK
  <2>4. StepInv'
    BY <2>1, <2>2 DEF StepInv, HoldsNode, Inserting
  <2>5. NoLostExpiry'
    BY <2>1 DEF NoLostExpiry
  <2> QED BY <2>3, <2>4, <2>5
<1>9. CASE NoneExpired
  BY <1>9 DEF NoneExpired, TypeOK, StepInv, NoLostExpiry, HoldsNode, Inserting, history
<1>10. CASE RemoveLoad
  <2>1. /\ step = "load" /\ word' = dtick[Head(list)] /\ step' = "store" /\ list # <<>>
        /\ UNCHANGED <<list, dtick, nextTime, globalTick, timerSig, cur, curr, cancelled, time, due>>
    BY <1>10 DEF RemoveLoad, history, StepInv
  <2>2. word' \in Word
    BY <1>2, <1>3, <2>1
  <2>3. TypeOK'
    BY <2>1, <2>2 DEF TypeOK
  <2>4. StepInv'
    BY <2>1 DEF StepInv, HoldsNode, Inserting
  <2> QED BY <2>1, <2>3, <2>4 DEF NoLostExpiry
<1>11. CASE RemoveStore
  <2> DEFINE x == Wrapped(word + dtick[cur])
  <2>1. /\ step = "store" /\ step' = "call" /\ list # <<>> /\ cur \in Timer /\ cur \notin ToSet(list)
        /\ dtick' = [dtick EXCEPT ![Head(list)] = x, ![cur] = 0]
        /\ UNCHANGED <<list, nextTime, globalTick, timerSig, cur, curr, word, cancelled, time, due>>
    BY <1>11 DEF RemoveStore, history, StepInv, HoldsNode
  <2>2. x \in Word
    <3>1. word + dtick[cur] \in Int
      BY <1>1, <1>2, <2>1 DEF TypeOK
    <3> QED BY <3>1, WrappedFacts
  <2> HIDE DEF x
  <2>3. dtick' \in [Timer -> Word]
    <3>1. 0 \in Word
      BY <1>1
    <3> QED BY <1>2, <2>1, <2>2, <3>1
  <2>4. TypeOK'
    BY <2>1, <2>3 DEF TypeOK
  <2>5. StepInv'
    BY <2>1 DEF StepInv, HoldsNode, Inserting
  <2> QED BY <2>1, <2>4, <2>5 DEF NoLostExpiry
<1>12. CASE Call
  <2>1. /\ step = "call" /\ step' = (IF cur \in Reload THEN "next" ELSE "loop")
        /\ cur \in Timer /\ cur \notin ToSet(list)
        /\ UNCHANGED <<nextTime, globalTick, timerSig, cur, curr, word, time, due>>
    BY <1>12 DEF Call, StepInv, HoldsNode
  <2>2. \/ UNCHANGED <<list, dtick, cancelled>>
        \/ \E t \in MayCancel : CancelNode(t)
    BY <1>12 DEF Call
  <2>3. /\ list' \in Seq(Timer) /\ IsInjective(list') /\ ToSet(list') \subseteq ToSet(list)
        /\ dtick' \in [Timer -> Word] /\ cancelled' \subseteq Timer
    <3>1. CASE UNCHANGED <<list, dtick, cancelled>>
      BY <1>2, <3>1 DEF TypeOK
    <3>2. CASE \E t \in MayCancel : CancelNode(t)
      <4>1. PICK t \in Timer : CancelNode(t)
        BY <1>4, <3>2
      <4> QED BY <1>2, <4>1, StructCancel DEF TypeOK
    <3> QED BY <2>2, <3>1, <3>2
  <2>4. TypeOK'
    BY <2>1, <2>3 DEF TypeOK
  <2>5. StepInv'
    BY <2>1, <2>3 DEF StepInv, HoldsNode, Inserting
  <2> QED BY <2>1, <2>4, <2>5 DEF NoLostExpiry
<1> QED BY <1>5, <1>6, <1>7, <1>8, <1>9, <1>10, <1>11, <1>12

\* And by those that arm the timer again.
LEMMA StructReload ==
  ASSUME TypeOK, StepInv, NoLostExpiry,
         NextTime \/ InsertPass \/ InsertConsume \/ InsertSubtract \/ InsertLink
  PROVE  TypeOK' /\ StepInv' /\ NoLostExpiry'
<1>1. W \in Nat \ {0} /\ Word = 0 .. W - 1
  BY WordSize DEF Word, W
<1>2. list \in Seq(Timer) /\ IsInjective(list) /\ dtick \in [Timer -> Word]
  BY DEF TypeOK
<1>3. /\ Len(list) \in Nat
      /\ \A i \in 1 .. Len(list) : list[i] \in Timer /\ list[i] \in ToSet(list)
  BY <1>2, LenProperties, ElementOfSeq DEF ToSet
<1>4. cur \in Timer /\ cur \notin ToSet(list)
  BY DEF StepInv, HoldsNode, Inserting, NextTime, InsertPass, InsertConsume, InsertSubtract,
         InsertLink, LinkNode
<1>5. CASE NextTime
  <2> DEFINE next == FirstAfter(cur, globalTick)
             k == (time - due[cur]) \div Period[cur] + 1
  <2>1. /\ step = "next" /\ step' = "pass" /\ curr' = 1
        /\ nextTime' = [nextTime EXCEPT ![cur] = next]
        /\ dtick' = [dtick EXCEPT ![cur] = K_TICK_DELTA(next, globalTick)]
        /\ due' = [due EXCEPT ![cur] = @ + k * Period[cur]]
        /\ UNCHANGED <<list, globalTick, timerSig, cur, word, cancelled, time>>
    BY <1>5 DEF NextTime
  <2>2. /\ nextTime[cur] \in Int /\ globalTick \in Int /\ time \in Int /\ due[cur] \in Int
        /\ Period[cur] \in Nat \ {0}
    BY <1>1, <1>4, CalloutConstants DEF TypeOK
  <2>3. next \in Word /\ next \in Int
    <3> DEFINE e == K_TICK_DELTA(globalTick, nextTime[cur])
    <3>1. globalTick - nextTime[cur] \in Int
      BY <2>2
    <3>2. e \in Int
      BY <1>1, <3>1, WrappedFacts DEF K_TICK_DELTA
    <3> HIDE DEF e
    <3>3. nextTime[cur] + (e \div Period[cur] + 1) * Period[cur] \in Int
      BY <2>2, <3>2
    <3>4. next = Wrapped(nextTime[cur] + (e \div Period[cur] + 1) * Period[cur])
      BY DEF FirstAfter, K_TICK_ADD, e
    <3> QED BY <1>1, <3>3, <3>4, WrappedFacts
  <2> HIDE DEF next
  <2>4. K_TICK_DELTA(next, globalTick) \in Word
    <3>1. next - globalTick \in Int
      BY <2>2, <2>3
    <3> QED BY <3>1, WrappedFacts DEF K_TICK_DELTA
  <2>5. due[cur] + k * Period[cur] \in Nat
    <3> DEFINE a == time - due[cur]
               p == Period[cur]
               q == a \div p
    <3>1. a \in Int /\ p \in Nat \ {0} /\ time = due[cur] + a /\ time >= 0
      BY <2>2 DEF TypeOK
    <3> HIDE DEF a, p
    <3>2. q \in Int /\ q * p <= a /\ a < (q + 1) * p
      BY <3>1, Z3
    <3> HIDE DEF q
    <3>3. k * Period[cur] = (q + 1) * p
      BY DEF a, p, q
    <3>4. (q + 1) * p \in Int
      BY <3>1, <3>2
    <3> QED BY <2>2, <3>1, <3>2, <3>3, <3>4
  <2> HIDE DEF k
  <2>6. /\ nextTime' \in [Timer -> Word] /\ dtick' \in [Timer -> Word]
        /\ due' \in [Timer -> Nat]
    BY <1>4, <2>1, <2>3, <2>4, <2>5 DEF TypeOK
  <2>7. TypeOK'
    BY <2>1, <2>6 DEF TypeOK
  <2>8. StepInv'
    BY <1>3, <1>4, <2>1 DEF StepInv, HoldsNode, Inserting
  <2> QED BY <2>1, <2>7, <2>8 DEF NoLostExpiry
<1>6. CASE InsertPass
  <2>1. /\ step = "pass" /\ curr \in 1 .. Len(list) + 1
        /\ UNCHANGED <<list, dtick, nextTime, globalTick, timerSig, cur, curr, cancelled, time, due>>
    BY <1>6 DEF InsertPass, history, StepInv, Inserting
  <2>2. CASE curr > Len(list)
    <3>1. step' = "link" /\ word' = word
      BY <1>6, <2>2 DEF InsertPass
    <3> QED BY <1>4, <2>1, <3>1 DEF TypeOK, StepInv, HoldsNode, Inserting, NoLostExpiry
  <2>3. CASE curr <= Len(list)
    <3>1. /\ word' = dtick[list[curr]]
          /\ step' = IF dtick[list[curr]] < dtick[cur] THEN "consume" ELSE "subtract"
      <4>1. ~(curr > Len(list))
        BY <1>3, <2>1, <2>3
      <4> QED BY <1>6, <4>1 DEF InsertPass
    <3>2. curr \in 1 .. Len(list)
      BY <1>3, <2>1, <2>3
    <3>3. word' \in Word /\ dtick[list[curr]] <= word'
      BY <1>1, <1>2, <1>3, <3>1, <3>2
    <3>4. TypeOK'
      BY <2>1, <3>3 DEF TypeOK
    <3>5. StepInv'
      BY <1>4, <2>1, <2>3, <3>1, <3>3 DEF StepInv, HoldsNode, Inserting
    <3> QED BY <3>1, <3>4, <3>5 DEF NoLostExpiry
  <2> QED BY <1>3, <2>1, <2>2, <2>3
<1>7. CASE InsertConsume
  <2>1. PICK ahead \in ReadAgain : dtick' = [dtick EXCEPT ![cur] = @ - ahead]
    BY <1>7 DEF InsertConsume
  <2>2. /\ step = "consume" /\ step' = "pass" /\ curr' = curr + 1
        /\ curr \in 1 .. Len(list) /\ dtick[list[curr]] <= word /\ word < dtick[cur]
        /\ UNCHANGED <<list, nextTime, globalTick, timerSig, cur, word, cancelled, time, due>>
    BY <1>3, <1>7 DEF InsertConsume, history, StepInv, Inserting
  <2>3. dtick[cur] - ahead \in Word
    <3>1. dtick[cur] \in Word /\ dtick[list[curr]] \in Word /\ word \in Word
      BY <1>2, <1>3, <1>4, <2>2 DEF TypeOK
    <3>2. ahead \in Word /\ ahead < dtick[cur]
      BY <1>1, <2>2, <3>1 DEF ReadAgain
    <3> QED BY <1>1, <3>1, <3>2
  <2>4. dtick' \in [Timer -> Word]
    BY <1>2, <1>4, <2>1, <2>3
  <2>5. TypeOK'
    BY <2>2, <2>4 DEF TypeOK
  <2>6. StepInv'
    BY <1>3, <1>4, <2>2 DEF StepInv, HoldsNode, Inserting
  <2> QED BY <2>2, <2>5, <2>6 DEF NoLostExpiry
<1>8. CASE InsertSubtract
  <2>1. PICK behind \in ReadAgain :
           dtick' = [dtick EXCEPT ![list[curr]] = Wrapped(behind - dtick[cur])]
    BY <1>8 DEF InsertSubtract
  <2>2. /\ step = "subtract" /\ step' = "link" /\ curr \in 1 .. Len(list)
        /\ UNCHANGED <<list, nextTime, globalTick, timerSig, cur, curr, word, cancelled, time, due>>
    BY <1>3, <1>8 DEF InsertSubtract, history, StepInv, Inserting
  <2>3. Wrapped(behind - dtick[cur]) \in Word
    <3>1. behind - dtick[cur] \in Int
      BY <1>1, <1>2, <1>3, <1>4, <2>2 DEF ReadAgain, TypeOK
    <3> QED BY <3>1, WrappedFacts
  <2>4. dtick' \in [Timer -> Word]
    BY <1>2, <1>3, <2>1, <2>2, <2>3
  <2>5. TypeOK'
    BY <2>2, <2>4 DEF TypeOK
  <2>6. StepInv'
    BY <1>3, <1>4, <2>2 DEF StepInv, HoldsNode, Inserting
  <2> QED BY <2>2, <2>5, <2>6 DEF NoLostExpiry
<1>9. CASE InsertLink
  <2>1. /\ step = "link" /\ step' = "loop" /\ list' = InsertAt(list, curr, cur)
        /\ curr \in 1 .. Len(list) + 1
        /\ UNCHANGED <<dtick, nextTime, globalTick, timerSig, cur, curr, word, cancelled, time, due>>
    BY <1>9 DEF InsertLink, LinkNode, history, StepInv, Inserting
  <2>2. list' \in Seq(Timer) /\ IsInjective(list')
    BY <1>2, <1>4, <2>1, NodeLinked
  <2>3. TypeOK'
    BY <2>1, <2>2 DEF TypeOK
  <2>4. StepInv'
    BY <2>1 DEF StepInv, HoldsNode, Inserting
  <2> QED BY <2>1, <2>3, <2>4 DEF NoLostExpiry
<1> QED BY <1>5, <1>6, <1>7, <1>8, <1>9

\* What PostProc holds is kept by every step.
LEMMA StructNext ==
  TypeOK /\ StepInv /\ NoLostExpiry /\ [Next]_vars => TypeOK' /\ StepInv' /\ NoLostExpiry'
<1> SUFFICES ASSUME TypeOK, StepInv, NoLostExpiry, [Next]_vars
             PROVE  TypeOK' /\ StepInv' /\ NoLostExpiry'
  OBVIOUS
<1>1. ASSUME NEW t \in Timer, kTimerInit(t) PROVE TypeOK' /\ StepInv' /\ NoLostExpiry'
  BY <1>1, StructTimerInit
<1>2. CASE Tick
  BY <1>2, StructTick
<1>3. CASE Start \/ (\E t \in Timer : kTimerCancel(t)) \/ EventGet \/ TakeHead \/ NoneExpired
           \/ RemoveLoad \/ RemoveStore \/ Call
  BY <1>3, StructServe
<1>4. CASE NextTime \/ InsertPass \/ InsertConsume \/ InsertSubtract \/ InsertLink
  BY <1>4, StructReload
<1>5. CASE UNCHANGED vars
  BY <1>5 DEF vars, history, TypeOK, StepInv, NoLostExpiry, HoldsNode, Inserting
<1> QED BY <1>1, <1>2, <1>3, <1>4, <1>5 DEF Next, PostProcStep

\* The variables keep their types, and no timer is linked twice, wherever the
\* ticks come between the accesses of PostProc to the list (ksystasks.c:243-290,
\* kTimeoutListInsertDelta_ in ktimer.c).
THEOREM CalloutTypeCorrect == Spec => []TypeOK
<1> DEFINE IInv == TypeOK /\ StepInv /\ NoLostExpiry
<1>1. Init => IInv
  BY StructInit
<1>2. IInv /\ [Next]_vars => IInv'
  BY StructNext
<1>3. IInv => TypeOK
  OBVIOUS
<1> QED BY <1>1, <1>2, <1>3, PTL DEF Spec

\* PostProc never waits with a timer at zero that no tick has told it about.
THEOREM NoExpiryIsLost == Spec => []NoLostExpiry
<1> DEFINE IInv == TypeOK /\ StepInv /\ NoLostExpiry
<1>1. Init => IInv
  BY StructInit
<1>2. IInv /\ [Next]_vars => IInv'
  BY StructNext
<1>3. IInv => NoLostExpiry
  OBVIOUS
<1> QED BY <1>1, <1>2, <1>3, PTL DEF Spec

(***************************************************************************)
(* No timer is early.                                                      *)
(***************************************************************************)
\* The tick counter does not roll over: it never holds its largest value.
NoRollover == MaxTime < 2^Width - 1

\* Until then it counts the ticks, and nextTime is the time a timer is due.
ClockInv ==
  /\ globalTick = time /\ time <= MaxTime
  /\ step = "boot" => time = 0
  /\ \A t \in Timer : nextTime[t] = Wrapped(due[t])

\* The number of a timer is no more than a word, and it is not due before as
\* many ticks.
InTime(r, t) == r[t] < W /\ due[t] <= time + r[t]

\* By how much PostProc has seen more of a node than it now holds.
Missed == word - dtick[list[curr]]

\* The deltas add up to a number for each timer, whose ticks bring it to its
\* time or beyond: in the list as it will be when PostProc has stored what it
\* has read, and for its own timer from the place it has come to.
Late(r) ==
  /\ step \notin {"store", "link"} => Chain(list, dtick, r)
  /\ step = "store" => Chain(list, [dtick EXCEPT ![Head(list)] = word], r)
  /\ step = "link" => Chain(InsertAt(list, curr, cur), dtick, r)
  /\ \A t \in ToSet(list) : InTime(r, t)
  /\ step \in Inserting => InTime(r, cur)
  /\ step \in HoldsNode \ Inserting => due[cur] <= time
  /\ step \in {"pass", "consume", "subtract"} =>
       Cong(dtick[cur], r[cur] - Before(list, r, curr))
  /\ step \in {"consume", "subtract"} =>
       /\ due[cur] <= time + r[cur] - Missed
       /\ \A i \in curr .. Len(list) : r[list[i]] + Missed < W

LateInv == \E r \in [Timer -> Int] : Late(r)

EarlyInv == TypeOK /\ StepInv /\ NoLostExpiry /\ ClockInv /\ LateInv

\* The next time is the first after now at which the timer is due.
LEMMA NextTimeIsDue ==
  ASSUME NoRollover, TypeOK, ClockInv, NEW c \in Timer, due[c] <= time,
         NEW D, D = due[c] + ((time - due[c]) \div Period[c] + 1) * Period[c]
  PROVE  /\ D \in Nat /\ D - time \in 1 .. W - 1
         /\ FirstAfter(c, globalTick) = Wrapped(D)
         /\ K_TICK_DELTA(Wrapped(D), globalTick) = D - time
<1>1. W \in Nat \ {0} /\ Word = 0 .. W - 1
  BY WordSize DEF Word, W
<1> DEFINE a == time - due[c]
           p == Period[c]
           q == a \div p
<1>2. /\ time \in Nat /\ due[c] \in Nat /\ globalTick = time /\ time < W - 1
      /\ nextTime[c] = Wrapped(due[c])
  BY CalloutConstants DEF TypeOK, ClockInv, NoRollover, W
<1>3. p \in Nat \ {0} /\ p < W /\ p \in Int
  BY CalloutConstants, WordSize
<1>4. a \in Nat /\ a \in Int /\ a \in Word /\ due[c] \in Word /\ time = due[c] + a
  BY <1>1, <1>2
<1> HIDE DEF a, p
<1>5. q \in Int /\ q * p <= a /\ a < (q + 1) * p /\ (q + 1) * p = q * p + p /\ q * p \in Int
  BY <1>3, <1>4, Z3
<1>6. D = due[c] + (q + 1) * p
  BY DEF a, p, q
<1> HIDE DEF q
<1>7. D \in Nat /\ D - time \in 1 .. p /\ D - time \in 1 .. W - 1 /\ D - time \in Word
  <2> DEFINE m == q * p
  <2>1. m \in Int /\ m <= a /\ a < m + p /\ D = due[c] + (m + p)
    BY <1>5, <1>6
  <2> HIDE DEF m
  <2>2. D \in Nat /\ D - time = (m + p) - a
    BY <1>2, <1>3, <1>4, <2>1
  <2>3. D - time \in 1 .. p
    BY <1>3, <1>4, <2>1, <2>2
  <2> QED BY <1>1, <1>3, <2>2, <2>3
<1>8. nextTime[c] = due[c]
  BY <1>2, <1>4, WrappedFacts
<1>9. FirstAfter(c, globalTick) = Wrapped(D)
  <2>1. K_TICK_DELTA(globalTick, nextTime[c]) = a
    <3>1. globalTick - nextTime[c] = a
      BY <1>2, <1>8 DEF a
    <3> QED BY <1>4, <3>1, WrappedFacts DEF K_TICK_DELTA
  <2>2. FirstAfter(c, globalTick) = Wrapped(due[c] + (a \div p + 1) * p)
    BY <1>8, <2>1 DEF FirstAfter, K_TICK_ADD, p
  <2> QED BY <1>6, <2>2 DEF q
<1>10. K_TICK_DELTA(Wrapped(D), globalTick) = D - time
  <2> DEFINE x == Wrapped(D)
             y == Wrapped(x - time)
  <2>1. D \in Int /\ D - time \in Int /\ time \in Int
    BY <1>2, <1>7
  <2>2. x \in Word /\ x \in Int /\ Cong(x, D)
    BY <1>1, <2>1, WrappedFacts
  <2> HIDE DEF x
  <2>3. x - time \in Int
    BY <2>1, <2>2
  <2>4. y \in Word /\ y \in Int /\ Cong(y, x - time)
    BY <1>1, <2>3, WrappedFacts
  <2>5. Cong(x - time, D - time)
    BY <2>1, <2>2, CongRules
  <2> HIDE DEF y
  <2>6. Cong(y, D - time)
    BY <2>1, <2>3, <2>4, <2>5, CongTrans
  <2>7. y = D - time
    BY <1>7, <2>1, <2>4, <2>6, CongWord
  <2>8. K_TICK_DELTA(x, globalTick) = y
    BY <1>2 DEF K_TICK_DELTA, y
  <2> QED BY <2>7, <2>8 DEF x
<1> QED BY <1>7, <1>9, <1>10

\* A tick brings every timer one tick nearer that is behind the head, and only
\* the time when the head is at zero.
LEMMA LateTick ==
  ASSUME NoRollover, EarlyInv, Tick
  PROVE  ClockInv' /\ LateInv'
<1>1. W \in Nat \ {0} /\ Word = 0 .. W - 1
  BY WordSize DEF Word, W
<1>2. /\ list \in Seq(Timer) /\ IsInjective(list) /\ dtick \in [Timer -> Word]
      /\ word \in Int /\ time \in Nat /\ due \in [Timer -> Nat] /\ globalTick \in Int
  BY <1>1 DEF EarlyInv, TypeOK
<1>3. PICK r \in [Timer -> Int] : Late(r)
  BY DEF EarlyInv, LateInv
<1>4. /\ UNCHANGED <<list, nextTime, step, cur, curr, word, cancelled, due>>
      /\ step # "boot" /\ time' = time + 1 /\ time < MaxTime
      /\ globalTick' = (globalTick + 1) % (W - 1)
  BY DEF Tick, W
<1>5. ClockInv'
  <2>1. globalTick = time /\ MaxTime \in Nat /\ MaxTime < W - 1
    BY CalloutConstants DEF EarlyInv, ClockInv, NoRollover, W
  <2>2. globalTick + 1 \in 0 .. (W - 1) - 1 /\ time + 1 <= MaxTime
    BY <1>1, <1>2, <1>4, <2>1
  <2> DEFINE x == globalTick + 1
             y == W - 1
  <2>3. x \in 0 .. y - 1 /\ y \in Int
    BY <1>1, <2>2
  <2> HIDE DEF x, y
  <2>4. x % y = x
    BY <2>3
  <2>5. globalTick' = time + 1
    BY <1>4, <2>1, <2>4 DEF x, y
  <2> QED BY <1>4, <2>2, <2>5 DEF EarlyInv, ClockInv
<1>6. /\ dtick' \in [Timer -> Word]
      /\ IF list # <<>> /\ dtick[Head(list)] > 0
         THEN /\ dtick'[Head(list)] = dtick[Head(list)] - 1
              /\ \A n \in Timer \ {Head(list)} : dtick'[n] = dtick[n]
         ELSE dtick' = dtick
  BY TickFacts DEF EarlyInv
<1>7. /\ Len(list) \in Nat /\ DOMAIN list = 1 .. Len(list)
      /\ \A i \in 1 .. Len(list) : list[i] \in Timer /\ list[i] \in ToSet(list)
      /\ \A n \in ToSet(list) : n \in Timer
  BY <1>2, LenProperties, ElementOfSeq DEF ToSet
<1>8. step \in HoldsNode => cur \in Timer /\ cur \notin ToSet(list)
  BY DEF EarlyInv, StepInv
<1>9. step \in Inserting => step \in HoldsNode /\ curr \in 1 .. Len(list) + 1
  BY DEF EarlyInv, StepInv, HoldsNode
<1>10. step \in {"consume", "subtract"} => step \in Inserting /\ curr \in 1 .. Len(list)
  BY <1>7, <1>9 DEF EarlyInv, StepInv, Inserting
\* The head is at zero, or its delta is about to be overwritten.
<1>11. ASSUME dtick' = dtick \/ step = "store"
       PROVE  Late(r)'
  <2>1. (step \notin {"store", "link"} => Chain(list, dtick, r))'
    BY <1>3, <1>4, <1>11 DEF Late
  <2>2. (step = "store" => Chain(list, [dtick EXCEPT ![Head(list)] = word], r))'
    <3> SUFFICES ASSUME step = "store"
                 PROVE  Chain(list, [dtick' EXCEPT ![Head(list)] = word], r)
      BY <1>4
    <3>1. Chain(list, [dtick EXCEPT ![Head(list)] = word], r)
      BY <1>3 DEF Late
    <3>2. \A n \in ToSet(list) : [dtick' EXCEPT ![Head(list)] = word][n]
                                 = [dtick EXCEPT ![Head(list)] = word][n]
      BY <1>2, <1>6, <1>7
    <3> QED BY <1>2, <3>1, <3>2, ChainSame
  <2>3. (step = "link" => Chain(InsertAt(list, curr, cur), dtick, r))'
    BY <1>3, <1>4, <1>11 DEF Late
  <2>4. ASSUME NEW t \in Timer, InTime(r, t) PROVE r[t] < W /\ due[t] <= (time + 1) + r[t]
    <3>1. due[t] \in Int /\ r[t] \in Int
      BY <1>2
    <3> QED BY <1>2, <2>4, <3>1 DEF InTime
  <2>5. (\A t \in ToSet(list) : InTime(r, t))' /\ (step \in Inserting => InTime(r, cur))'
    <3>1. /\ \A t \in ToSet(list) : InTime(r, t)
          /\ step \in Inserting => InTime(r, cur)
      BY <1>3 DEF Late
    <3>2. /\ \A t \in ToSet(list) : r[t] < W /\ due[t] <= (time + 1) + r[t]
          /\ step \in Inserting => r[cur] < W /\ due[cur] <= (time + 1) + r[cur]
      BY <1>7, <1>8, <1>9, <2>4, <3>1
    <3> QED BY <1>4, <3>2 DEF InTime
  <2>6. (step \in HoldsNode \ Inserting => due[cur] <= time)'
    <3> SUFFICES ASSUME step \in HoldsNode \ Inserting PROVE due[cur] <= time + 1
      BY <1>4
    <3>1. due[cur] <= time /\ due[cur] \in Int
      BY <1>2, <1>3, <1>8 DEF Late
    <3> QED BY <1>2, <3>1
  <2>7. (step \in {"pass", "consume", "subtract"} =>
           Cong(dtick[cur], r[cur] - Before(list, r, curr)))'
    BY <1>3, <1>4, <1>11 DEF Late
  <2>8. (step \in {"consume", "subtract"} =>
           /\ due[cur] <= time + r[cur] - Missed
           /\ \A i \in curr .. Len(list) : r[list[i]] + Missed < W)'
    <3> SUFFICES ASSUME step \in {"consume", "subtract"}
                 PROVE  /\ due[cur] <= time + 1 + r[cur] - Missed
                        /\ \A i \in curr .. Len(list) : r[list[i]] + Missed < W
      BY <1>4, <1>11 DEF Missed
    <3>1. /\ due[cur] <= time + r[cur] - Missed
          /\ \A i \in curr .. Len(list) : r[list[i]] + Missed < W
      BY <1>3 DEF Late
    <3>2. due[cur] \in Int /\ r[cur] \in Int
      BY <1>2, <1>8, <1>9, <1>10
    <3>3. Missed \in Int
      BY <1>1, <1>2, <1>7, <1>10 DEF Missed
    <3> QED BY <1>2, <3>1, <3>2, <3>3
  <2> QED BY <2>1, <2>2, <2>3, <2>5, <2>6, <2>7, <2>8 DEF Late
\* The head counts down.
<1>12. ASSUME list # <<>>, dtick[Head(list)] > 0, step # "store"
       PROVE  \E u \in [Timer -> Int] : Late(u)'
  <2> DEFINE h == Head(list)
             stays(t) == step \in Inserting /\ curr = 1 /\ t = cur
  <2>1. /\ 1 \in 1 .. Len(list) /\ h = list[1] /\ h \in Timer /\ h \in ToSet(list)
    BY <1>2, <1>12, HeadUnlinked
  <2>2. /\ dtick'[h] = dtick[h] - 1
        /\ \A n \in Timer \ {h} : dtick'[n] = dtick[n]
    BY <1>6, <1>12
  <2> HIDE DEF h
  <2>3. PICK u \in [Timer -> Int] : \A t \in Timer : u[t] = IF stays(t) THEN r[t] ELSE r[t] - 1
    <3> DEFINE v == [t \in Timer |-> IF stays(t) THEN r[t] ELSE r[t] - 1]
    <3>1. v \in [Timer -> Int] /\ \A t \in Timer : v[t] = IF stays(t) THEN r[t] ELSE r[t] - 1
      OBVIOUS
    <3> HIDE DEF v
    <3> QED BY <3>1
  <2>4. \A t \in ToSet(list) : ~stays(t)
    BY <1>8, <1>9
  <2> HIDE DEF stays
  <2>5. \A i, j \in 1 .. Len(list) : list[i] = list[j] => i = j
    BY <1>2, <1>7 DEF IsInjective
  <2>6. \A j \in 1 .. Len(list) : j # 1 => dtick'[list[j]] = dtick[list[j]]
    BY <1>7, <2>1, <2>2, <2>5
  <2>7. \A j \in 1 .. Len(list) : u[list[j]] = r[list[j]] - 1
    BY <1>7, <2>3, <2>4
  <2>8. ASSUME step # "link" PROVE Chain(list, dtick', u)
    <3>1. Chain(list, dtick, r)
      BY <1>3, <1>12, <2>8 DEF Late
    <3>2. \A j \in 1 .. Len(list) : u[list[j]] = IF j < 1 THEN r[list[j]] ELSE r[list[j]] - 1
      BY <1>7, <2>7
    <3>3. dtick'[list[1]] = dtick[list[1]] - 1
      BY <2>1, <2>2
    <3> QED BY <1>2, <1>6, <2>1, <2>3, <2>6, <3>1, <3>2, <3>3, ChainTicked
  <2>9. ASSUME step = "link" PROVE Chain(InsertAt(list, curr, cur), dtick', u)
    <3> DEFINE l == InsertAt(list, curr, cur)
               p == IF curr = 1 THEN 2 ELSE 1
    <3>1. cur \in Timer /\ cur \notin ToSet(list) /\ curr \in 1 .. Len(list) + 1
      BY <1>8, <1>9, <2>9 DEF HoldsNode, Inserting
    <3>2. /\ l \in Seq(Timer) /\ Len(l) = Len(list) + 1
          /\ \A j \in 1 .. Len(list) + 1 :
               l[j] = IF j < curr THEN list[j] ELSE IF j = curr THEN cur ELSE list[j - 1]
      <4>1. Inserted(l, list, curr, cur)
        BY <1>2, <3>1, InsertAtProperties
      <4> QED BY <4>1 DEF Inserted
    <3>3. Chain(l, dtick, r)
      BY <1>3, <2>9 DEF Late
    <3>4. p \in 1 .. Len(l) /\ p # curr
      BY <1>7, <2>1, <3>1, <3>2
    <3>5. l[p] = h
      BY <1>7, <2>1, <3>1, <3>2
    <3> HIDE DEF l, p
    <3>6. ASSUME NEW j \in 1 .. Len(l)
          PROVE  \/ j = curr /\ l[j] = cur
                 \/ \E i \in 1 .. Len(list) : l[j] = list[i] /\ (j < curr => i = j)
                                              /\ (j > curr => i = j - 1)
      <4>1. CASE j < curr
        <5>1. j \in 1 .. Len(list) /\ l[j] = list[j]
          BY <1>7, <3>1, <3>2, <4>1
        <5> QED BY <1>7, <3>1, <4>1, <5>1
      <4>2. CASE j = curr
        BY <3>1, <3>2, <4>2
      <4>3. CASE j > curr
        <5>1. j - 1 \in 1 .. Len(list) /\ l[j] = list[j - 1]
          BY <1>7, <3>1, <3>2, <4>3
        <5> QED BY <1>7, <3>1, <4>3, <5>1
      <4> QED BY <1>7, <3>1, <4>1, <4>2, <4>3
    <3>7. ASSUME NEW j \in 1 .. Len(l), j # p PROVE dtick'[l[j]] = dtick[l[j]]
      <4>1. CASE j = curr /\ l[j] = cur
        BY <2>1, <2>2, <3>1, <4>1
      <4>2. ASSUME NEW i \in 1 .. Len(list), l[j] = list[i], j < curr => i = j,
                   j > curr => i = j - 1, j # curr
            PROVE  dtick'[l[j]] = dtick[l[j]]
        <5>1. i # 1
          BY <3>1, <3>2, <3>7, <4>2, <1>7 DEF p
        <5> QED BY <2>6, <4>2, <5>1
      <4>3. CASE j = curr /\ l[j] # cur
        BY <3>1, <3>2, <4>3
      <4> QED BY <3>6, <4>1, <4>2, <4>3
    <3>8. ASSUME NEW j \in 1 .. Len(l)
          PROVE  u[l[j]] = IF j < p THEN r[l[j]] ELSE r[l[j]] - 1
      <4>1. CASE j = curr
        <5>1. l[j] = cur
          BY <3>1, <3>2, <4>1
        <5>2. stays(cur) <=> curr = 1
          BY <2>9 DEF stays, Inserting
        <5>3. j < p <=> curr = 1
          BY <3>1, <4>1 DEF p
        <5> QED BY <2>3, <3>1, <5>1, <5>2, <5>3
      <4>2. CASE j # curr
        <5>1. PICK i \in 1 .. Len(list) : l[j] = list[i]
          BY <3>6, <4>2
        <5>2. ~(j < p)
          BY <3>1, <3>2, <4>2 DEF p
        <5> QED BY <2>7, <5>1, <5>2
      <4> QED BY <4>1, <4>2
    <3>9. dtick'[l[p]] = dtick[l[p]] - 1
      BY <2>2, <3>5
    <3>10. Chain(l, dtick', u)
      BY <1>2, <1>6, <2>3, <3>2, <3>3, <3>4, <3>7, <3>8, <3>9, ChainTicked
    <3> QED BY <3>10 DEF l
  <2>10. ASSUME NEW t \in Timer, InTime(r, t)
         PROVE  u[t] < W /\ due[t] <= (time + 1) + u[t]
    <3>1. due[t] \in Int /\ r[t] \in Int /\ (u[t] = r[t] \/ u[t] = r[t] - 1)
      BY <1>2, <2>3
    <3> QED BY <1>1, <1>2, <2>10, <3>1 DEF InTime
  <2>11. /\ \A t \in ToSet(list) : u[t] < W /\ due[t] <= (time + 1) + u[t]
         /\ step \in Inserting => u[cur] < W /\ due[cur] <= (time + 1) + u[cur]
         /\ step \in HoldsNode \ Inserting => due[cur] <= time + 1
    <3>1. /\ \A t \in ToSet(list) : InTime(r, t)
          /\ step \in Inserting => InTime(r, cur)
          /\ step \in HoldsNode \ Inserting => due[cur] <= time
      BY <1>3 DEF Late
    <3>2. step \in HoldsNode => due[cur] \in Int
      BY <1>2, <1>8
    <3>3. step \in HoldsNode \ Inserting => due[cur] <= time + 1
      BY <1>2, <3>1, <3>2
    <3> QED BY <1>7, <1>8, <1>9, <2>10, <3>1, <3>3
  <2>12. ASSUME step \in {"pass", "consume", "subtract"}
         PROVE  Cong(dtick'[cur], u[cur] - Before(list, u, curr))
    <3>1. /\ step \in Inserting /\ cur \in Timer /\ cur \notin ToSet(list)
          /\ curr \in 1 .. Len(list) + 1
      BY <1>8, <1>9, <2>12 DEF Inserting
    <3>2. Cong(dtick[cur], r[cur] - Before(list, r, curr))
      BY <1>3, <2>12 DEF Late
    <3>3. dtick'[cur] = dtick[cur]
      BY <2>1, <2>2, <3>1
    <3>4. CASE curr = 1
      <4>1. u[cur] = r[cur]
        BY <2>3, <3>1, <3>4 DEF stays
      <4> QED BY <3>2, <3>3, <3>4, <4>1 DEF Before
    <3>5. CASE curr # 1
      <4>1. u[cur] = r[cur] - 1
        BY <2>3, <3>1, <3>5 DEF stays
      <4>2. curr - 1 \in 1 .. Len(list)
        BY <1>7, <3>1, <3>5
      <4>3. Before(list, u, curr) = Before(list, r, curr) - 1 /\ Before(list, r, curr) \in Int
        BY <1>7, <2>7, <3>5, <4>2 DEF Before
      <4>4. (r[cur] - 1) - (Before(list, r, curr) - 1) = r[cur] - Before(list, r, curr)
        BY <3>1, <4>3
      <4> QED BY <3>2, <3>3, <4>1, <4>3, <4>4
    <3> QED BY <3>4, <3>5
  <2>13. ASSUME step \in {"consume", "subtract"}
         PROVE  /\ due[cur] <= (time + 1) + u[cur] - (word - dtick'[list[curr]])
                /\ \A i \in curr .. Len(list) : u[list[i]] + (word - dtick'[list[curr]]) < W
    <3>1. /\ step \in Inserting /\ cur \in Timer /\ curr \in 1 .. Len(list)
      BY <1>8, <1>9, <1>10, <2>13
    <3> DEFINE d == dtick[list[curr]]
    <3>2. /\ due[cur] <= time + r[cur] - (word - d)
          /\ \A i \in curr .. Len(list) : r[list[i]] + (word - d) < W
      BY <1>3, <2>13 DEF Late, Missed
    <3>3. d \in Int /\ due[cur] \in Int /\ r[cur] \in Int
      BY <1>1, <1>2, <1>7, <3>1
    <3>4. \A i \in curr .. Len(list) : i \in 1 .. Len(list) /\ r[list[i]] \in Int
      BY <1>7, <3>1
    <3> HIDE DEF d
    <3>5. CASE curr = 1
      <4>1. u[cur] = r[cur] /\ dtick'[list[curr]] = d - 1
        BY <2>1, <2>2, <2>3, <3>1, <3>5 DEF stays, d
      <4>2. due[cur] <= (time + 1) + u[cur] - (word - (d - 1))
        <5> DEFINE a == due[cur]
                   b == r[cur]
        <5>1. a <= time + b - (word - d) /\ a \in Int /\ b \in Int /\ time \in Int /\ word \in Int
          BY <1>2, <3>2, <3>3
        <5>2. u[cur] = b
          BY <4>1
        <5> HIDE DEF a, b
        <5>3. a <= (time + 1) + b - (word - (d - 1))
          BY <3>3, <5>1
        <5> QED BY <5>2, <5>3 DEF a
      <4>3. ASSUME NEW i \in curr .. Len(list) PROVE u[list[i]] + (word - (d - 1)) < W
        <5>1. u[list[i]] = r[list[i]] - 1 /\ r[list[i]] \in Int /\ r[list[i]] + (word - d) < W
          BY <2>7, <3>2, <3>4
        <5> QED BY <1>1, <1>2, <3>3, <5>1
      <4> QED BY <4>1, <4>2, <4>3
    <3>6. CASE curr # 1
      <4>1. u[cur] = r[cur] - 1 /\ dtick'[list[curr]] = d
        BY <2>3, <2>6, <3>1, <3>6 DEF stays, d
      <4>2. due[cur] <= (time + 1) + u[cur] - (word - d)
        <5> DEFINE a == due[cur]
                   b == r[cur]
        <5>1. a <= time + b - (word - d) /\ a \in Int /\ b \in Int /\ time \in Int /\ word \in Int
          BY <1>2, <3>2, <3>3
        <5>2. u[cur] = b - 1
          BY <4>1
        <5> HIDE DEF a, b
        <5>3. a <= (time + 1) + (b - 1) - (word - d)
          BY <3>3, <5>1
        <5> QED BY <5>2, <5>3 DEF a
      <4>3. ASSUME NEW i \in curr .. Len(list) PROVE u[list[i]] + (word - d) < W
        <5>1. u[list[i]] = r[list[i]] - 1 /\ r[list[i]] \in Int /\ r[list[i]] + (word - d) < W
          BY <2>7, <3>2, <3>4
        <5> QED BY <1>1, <1>2, <3>3, <5>1
      <4> QED BY <4>1, <4>2, <4>3
    <3> QED BY <3>5, <3>6
  <2>14. Late(u)'
    <3>1. step' = step /\ list' = list /\ cur' = cur /\ curr' = curr /\ due' = due
          /\ time' = time + 1 /\ word' = word
      BY <1>4
    <3> QED BY <1>12, <2>8, <2>9, <2>11, <2>12, <2>13, <3>1 DEF Late, InTime, Missed
  <2> QED BY <2>3, <2>14
<1>13. LateInv'
  <2>1. (dtick' = dtick \/ step = "store")
        \/ (list # <<>> /\ dtick[Head(list)] > 0 /\ step # "store")
    BY <1>6
  <2> QED BY <1>11, <1>12, <2>1 DEF LateInv
<1> QED BY <1>5, <1>13

\* At the start there is no timer to be early.
LEMMA LateInit == Init /\ NoRollover => ClockInv /\ LateInv
<1> SUFFICES ASSUME Init, NoRollover PROVE ClockInv /\ LateInv
  OBVIOUS
<1>1. 0 \in Word
  BY WordSize DEF Word, W
<1>2. ClockInv
  <2>1. Wrapped(0) = 0
    BY <1>1, WrappedFacts
  <2> QED BY <2>1, CalloutConstants DEF Init, ClockInv
<1>3. Len(list) = 0 /\ ToSet(list) = {} /\ step = "boot"
  BY DEF Init, ToSet
<1>4. Late([t \in Timer |-> 0])
  BY <1>3 DEF Late, Chain, Inserting, HoldsNode
<1> QED BY <1>2, <1>4 DEF LateInv

\* A timer that is created is as far from its time as its number says.
LEMMA LateTimerInit ==
  ASSUME NoRollover, EarlyInv, NEW t \in Timer, kTimerInit(t)
  PROVE  ClockInv' /\ LateInv'
<1>1. W \in Nat \ {0} /\ Word = 0 .. W - 1
  BY WordSize DEF Word, W
<1> DEFINE ticks == Phase[t] + Period[t]
<1>2. /\ step = "boot" /\ step' = step /\ time = 0 /\ globalTick = 0 /\ t \notin ToSet(list)
      /\ UNCHANGED <<globalTick, time>>
      /\ nextTime' = [nextTime EXCEPT ![t] = K_TICK_ADD(globalTick, ticks)]
      /\ due' = [due EXCEPT ![t] = ticks]
  BY DEF kTimerInit, EarlyInv, ClockInv
<1>3. /\ list \in Seq(Timer) /\ nextTime \in [Timer -> Word] /\ due \in [Timer -> Nat]
  BY DEF EarlyInv, TypeOK
<1>4. /\ \A r \in [Timer -> Int] :
           Chain(list, dtick, r) /\ r[t] = ticks => Chain(list', dtick', r)
      /\ ToSet(list') = ToSet(list) \cup {t}
      /\ ticks \in 1 .. W - 1
  BY StructTimerInit DEF EarlyInv
<1> HIDE DEF ticks
<1>5. ClockInv'
  <2>1. globalTick + ticks = ticks
    BY <1>2, <1>4
  <2>2. nextTime'[t] = Wrapped(due'[t])
    BY <1>2, <1>3, <2>1 DEF K_TICK_ADD
  <2>3. \A n \in Timer \ {t} : nextTime'[n] = nextTime[n] /\ due'[n] = due[n]
    BY <1>2, <1>3
  <2> QED BY <1>2, <2>2, <2>3 DEF EarlyInv, ClockInv
<1>6. PICK r \in [Timer -> Int] : Late(r)
  BY DEF EarlyInv, LateInv
<1>7. PICK u \in [Timer -> Int] : u[t] = ticks /\ \A n \in Timer \ {t} : u[n] = r[n]
  <2> DEFINE v == [r EXCEPT ![t] = ticks]
  <2>1. v \in [Timer -> Int] /\ v[t] = ticks /\ \A n \in Timer \ {t} : v[n] = r[n]
    BY <1>1, <1>4
  <2> HIDE DEF v
  <2> QED BY <2>1
<1>8. \A n \in ToSet(list) : n \in Timer \ {t}
  BY <1>2, <1>3, ElementOfSeq, LenProperties DEF ToSet
<1>9. Chain(list', dtick', u)
  <2>1. Chain(list, dtick, r)
    BY <1>2, <1>6 DEF Late
  <2>2. Chain(list, dtick, u)
    BY <1>3, <1>7, <1>8, <2>1, ChainSame
  <2> QED BY <1>4, <1>7, <2>2
<1>10. \A n \in ToSet(list') : u[n] < W /\ due'[n] <= time' + u[n]
  <2>1. u[t] < W /\ due'[t] <= time' + u[t]
    BY <1>1, <1>2, <1>3, <1>4, <1>7
  <2>2. \A n \in ToSet(list) : u[n] < W /\ due'[n] <= time' + u[n]
    BY <1>2, <1>3, <1>6, <1>7, <1>8 DEF Late, InTime
  <2> QED BY <1>4, <2>1, <2>2
<1>11. Late(u)'
  BY <1>2, <1>9, <1>10 DEF Late, InTime, Inserting, HoldsNode
<1> QED BY <1>5, <1>11 DEF LateInv

\* A timer that PostProc takes, or that is cancelled, leaves the others as late
\* as they were.
LEMMA LateServe ==
  ASSUME NoRollover, EarlyInv,
         \/ Start \/ \E t \in Timer : kTimerCancel(t)
         \/ EventGet \/ TakeHead \/ NoneExpired \/ RemoveLoad \/ RemoveStore \/ Call
  PROVE  ClockInv' /\ LateInv'
<1>1. W \in Nat \ {0} /\ Word = 0 .. W - 1
  BY WordSize DEF Word, W
<1>2. /\ list \in Seq(Timer) /\ IsInjective(list) /\ dtick \in [Timer -> Word]
      /\ word \in Word /\ time \in Nat /\ due \in [Timer -> Nat]
  BY DEF EarlyInv, TypeOK
<1>3. PICK r \in [Timer -> Int] : Late(r)
  BY DEF EarlyInv, LateInv
<1>4. UNCHANGED <<nextTime, globalTick, time, due>> /\ step' # "boot"
  BY DEF Start, kTimerCancel, EventGet, TakeHead, NoneExpired, RemoveLoad, RemoveStore, Call,
         history
<1>5. ClockInv'
  BY <1>4 DEF EarlyInv, ClockInv
<1>6. /\ \A n \in ToSet(list) : n \in Timer
  BY <1>2, LenProperties, ElementOfSeq DEF ToSet
\* Most of them link nothing, or unlink a node in a critical region.
<1>7. ASSUME step \in {"boot", "wait", "loop", "call"},
             step' \in {"wait", "loop", "call", "next"}, step' \in HoldsNode => due[cur'] <= time,
             Chain(list', dtick', r), ToSet(list') \subseteq ToSet(list)
      PROVE  LateInv'
  <2>1. \A t \in ToSet(list') : r[t] < W /\ due'[t] <= time' + r[t]
    BY <1>3, <1>4, <1>7 DEF Late, InTime
  <2>2. Late(r)'
    BY <1>4, <1>7, <2>1 DEF Late, InTime, Inserting, HoldsNode
  <2> QED BY <2>2 DEF LateInv
<1>8. step \in {"boot", "wait", "loop", "call"} => Chain(list, dtick, r)
  BY <1>3 DEF Late
<1>9. step = "call" => due[cur] <= time
  BY <1>3 DEF Late, HoldsNode, Inserting
<1>10. ASSUME NEW t \in Timer, CancelNode(t), step \in {"wait", "call"}
       PROVE  Chain(list', dtick', r) /\ ToSet(list') \subseteq ToSet(list)
  BY <1>2, <1>8, <1>10, StructCancel
<1>11. CASE Start \/ EventGet \/ NoneExpired
  <2>1. /\ step \in {"boot", "wait", "loop", "call"} /\ step' \in {"wait", "loop"}
        /\ list' = list /\ dtick' = dtick
    BY <1>11 DEF Start, EventGet, NoneExpired
  <2>2. LateInv'
    BY <1>7, <1>8, <2>1 DEF HoldsNode, Inserting
  <2> QED BY <1>5, <2>2
<1>12. CASE \E t \in Timer : kTimerCancel(t)
  <2>1. PICK t \in Timer : kTimerCancel(t)
    BY <1>12
  <2>2. step = "wait" /\ step' = "wait" /\ CancelNode(t)
    BY <2>1 DEF kTimerCancel
  <2>3. LateInv'
    BY <1>7, <1>10, <2>2 DEF HoldsNode, Inserting
  <2> QED BY <1>5, <2>3
<1>13. CASE TakeHead
  <2> DEFINE h == Head(list)
  <2>1. /\ step = "loop" /\ list # <<>> /\ dtick[h] = 0 /\ cur' = h /\ list' = Tail(list)
        /\ step' \in {"call", "load"} /\ dtick' = dtick
    BY <1>13 DEF TakeHead
  <2>2. /\ 1 \in 1 .. Len(list) /\ h = list[1] /\ h \in Timer /\ h \in ToSet(list)
        /\ ToSet(Tail(list)) \subseteq ToSet(list)
    BY <1>2, <2>1, HeadUnlinked
  <2>3. Chain(list, dtick, r)
    BY <1>8, <2>1
  <2>4. Chain(list', dtick', r)
    BY <1>2, <2>1, <2>3, ChainTail
  <2>5. due[h] <= time
    <3>1. Cong(dtick[h], r[h] - 0)
      BY <2>2, <2>3 DEF Chain, Before
    <3>2. r[h] < W /\ due[h] <= time + r[h]
      BY <1>3, <2>2 DEF Late, InTime
    <3> HIDE DEF h
    <3>3. r[h] \in Int /\ due[h] \in Int /\ dtick[h] \in Word /\ r[h] - 0 = r[h]
      BY <1>2, <2>2
    <3>4. r[h] <= 0
      BY <2>1, <3>1, <3>2, <3>3, CongWord
    <3> QED BY <1>2, <3>2, <3>3, <3>4
  <2> HIDE DEF h
  <2>6. \A t \in ToSet(list') : r[t] < W /\ due'[t] <= time' + r[t]
    BY <1>3, <1>4, <2>1, <2>2 DEF Late, InTime
  <2>7. Late(r)'
    BY <1>4, <2>1, <2>4, <2>5, <2>6 DEF Late, InTime, Inserting, HoldsNode
  <2> QED BY <1>5, <2>7 DEF LateInv
<1>14. CASE RemoveLoad
  <2> DEFINE h == Head(list)
  <2>1. /\ step = "load" /\ step' = "store" /\ word' = dtick[h] /\ list # <<>>
        /\ UNCHANGED <<list, dtick, cur>>
    BY <1>14 DEF RemoveLoad, EarlyInv, StepInv
  <2>2. h \in Timer
    BY <1>2, <2>1, HeadUnlinked
  <2>3. Chain(list, dtick, r) /\ due[cur] <= time
    BY <1>3, <2>1 DEF Late, HoldsNode, Inserting
  <2> HIDE DEF h
  <2>4. [dtick EXCEPT ![h] = word'] = dtick
    BY <1>2, <2>1, <2>2
  <2>5. \A t \in ToSet(list) : r[t] < W /\ due'[t] <= time' + r[t]
    BY <1>3, <1>4 DEF Late, InTime
  <2>6. Chain(list', [dtick' EXCEPT ![Head(list')] = word'], r)
    BY <2>1, <2>3, <2>4 DEF h
  <2>7. Late(r)'
    BY <1>4, <2>1, <2>3, <2>5, <2>6 DEF Late, InTime, Inserting, HoldsNode
  <2> QED BY <1>5, <2>7 DEF LateInv
<1>15. CASE RemoveStore
  <2> DEFINE h == Head(list)
  <2>1. /\ step = "store" /\ step' = "call" /\ list # <<>>
        /\ cur \in Timer /\ cur \notin ToSet(list) /\ dtick[cur] = 0
        /\ dtick' = [dtick EXCEPT ![h] = Wrapped(word + dtick[cur]), ![cur] = 0]
        /\ UNCHANGED <<list, cur>>
    BY <1>15 DEF RemoveStore, EarlyInv, StepInv, HoldsNode
  <2>2. h \in Timer /\ h \in ToSet(list)
    BY <1>2, <2>1, HeadUnlinked
  <2>3. Chain(list, [dtick EXCEPT ![h] = word], r) /\ due[cur] <= time
    BY <1>3, <2>1 DEF Late, HoldsNode, Inserting
  <2> HIDE DEF h
  <2>4. Wrapped(word + dtick[cur]) = word
    <3>1. word + dtick[cur] = word /\ word \in Int
      BY <1>1, <1>2, <2>1
    <3> QED BY <1>2, <3>1, WrappedFacts
  <2>5. \A n \in ToSet(list) : dtick'[n] = [dtick EXCEPT ![h] = word][n]
    BY <1>2, <1>6, <2>1, <2>2, <2>4
  <2>6. Chain(list, dtick', r)
    BY <1>2, <2>3, <2>5, ChainSame
  <2>7. \A t \in ToSet(list) : r[t] < W /\ due'[t] <= time' + r[t]
    BY <1>3, <1>4 DEF Late, InTime
  <2>8. Late(r)'
    BY <1>4, <2>1, <2>3, <2>6, <2>7 DEF Late, InTime, Inserting, HoldsNode
  <2> QED BY <1>5, <2>8 DEF LateInv
<1>16. CASE Call
  <2>1. /\ step = "call" /\ step' \in {"next", "loop"} /\ cur' = cur
        /\ \/ UNCHANGED <<list, dtick>>
           \/ \E t \in MayCancel : CancelNode(t)
    BY <1>16 DEF Call
  <2>2. Chain(list', dtick', r) /\ ToSet(list') \subseteq ToSet(list)
    BY <1>8, <1>10, <2>1, CalloutConstants
  <2>3. LateInv'
    BY <1>7, <1>9, <2>1, <2>2
  <2> QED BY <1>5, <2>3
<1> QED BY <1>11, <1>12, <1>13, <1>14, <1>15, <1>16

\* A timer that is armed again is as far from its time as its number says, and
\* a delta that has changed under PostProc only makes the timers late.
LEMMA LateReload ==
  ASSUME NoRollover, EarlyInv,
         NextTime \/ InsertPass \/ InsertConsume \/ InsertSubtract \/ InsertLink
  PROVE  ClockInv' /\ LateInv'
<1>1. W \in Nat \ {0} /\ Word = 0 .. W - 1
  BY WordSize DEF Word, W
<1>2. /\ list \in Seq(Timer) /\ IsInjective(list) /\ dtick \in [Timer -> Word]
      /\ word \in Word /\ time \in Nat /\ due \in [Timer -> Nat]
      /\ nextTime \in [Timer -> Word]
  BY DEF EarlyInv, TypeOK
<1>3. PICK r \in [Timer -> Int] : Late(r)
  BY DEF EarlyInv, LateInv
<1>4. /\ Len(list) \in Nat /\ DOMAIN list = 1 .. Len(list)
      /\ \A i \in 1 .. Len(list) : list[i] \in Timer /\ list[i] \in ToSet(list)
      /\ \A i \in 1 .. Len(list) : r[list[i]] \in Int /\ dtick[list[i]] \in Int
      /\ \A i \in 1 .. Len(list) + 1 : Before(list, r, i) \in Int
  BY <1>2, ChainTypes
<1>5. /\ cur \in Timer /\ cur \notin ToSet(list) /\ cur' = cur /\ step # "boot"
      /\ \A n \in ToSet(list) : n \in Timer \ {cur}
      /\ r[cur] \in Int /\ dtick[cur] \in Int /\ due[cur] \in Nat
  <2>1. cur \in Timer /\ cur \notin ToSet(list) /\ cur' = cur /\ step # "boot"
    BY DEF EarlyInv, StepInv, HoldsNode, Inserting, NextTime, InsertPass, InsertConsume,
           InsertSubtract, InsertLink, LinkNode
  <2> QED BY <1>1, <1>2, <1>4, <2>1 DEF ToSet
<1>6. \A n \in ToSet(list) : r[n] < W /\ due[n] <= time + r[n]
  BY <1>3 DEF Late, InTime
<1>7. step \in Inserting => r[cur] < W /\ due[cur] <= time + r[cur]
  BY <1>3 DEF Late, InTime
<1>8. step # "link" /\ step # "store" => Chain(list, dtick, r)
  BY <1>3 DEF Late
<1>9. ASSUME UNCHANGED <<nextTime, globalTick, time, due>>, step' # "boot"
      PROVE  ClockInv'
  BY <1>9 DEF EarlyInv, ClockInv
<1>10. CASE NextTime
  <2> DEFINE D == due[cur] + ((time - due[cur]) \div Period[cur] + 1) * Period[cur]
             next == FirstAfter(cur, globalTick)
  <2>1. /\ step = "next" /\ step' = "pass" /\ curr' = 1
        /\ nextTime' = [nextTime EXCEPT ![cur] = next]
        /\ dtick' = [dtick EXCEPT ![cur] = K_TICK_DELTA(next, globalTick)]
        /\ due' = [due EXCEPT ![cur] = D]
        /\ UNCHANGED <<list, globalTick, time>>
    BY <1>2, <1>5, <1>10 DEF NextTime
  <2>2. due[cur] <= time
    BY <1>3, <2>1 DEF Late, HoldsNode, Inserting
  <2>3. /\ D \in Nat /\ D - time \in 1 .. W - 1 /\ next = Wrapped(D)
        /\ K_TICK_DELTA(next, globalTick) = D - time
    <3> DEFINE E == D
    <3>1. E = D
      OBVIOUS
    <3> HIDE DEF E, next
    <3>2. next = FirstAfter(cur, globalTick)
      BY DEF next
    <3>3. /\ E \in Nat /\ E - time \in 1 .. W - 1
          /\ FirstAfter(cur, globalTick) = Wrapped(E)
          /\ K_TICK_DELTA(Wrapped(E), globalTick) = E - time
      BY <1>5, <2>2, <3>1, NextTimeIsDue DEF EarlyInv
    <3> QED BY <3>1, <3>2, <3>3
  <2> HIDE DEF D, next
  <2>4. ClockInv'
    <3>1. nextTime'[cur] = Wrapped(due'[cur])
      BY <1>2, <1>5, <2>1, <2>3
    <3>2. \A n \in Timer \ {cur} : nextTime'[n] = nextTime[n] /\ due'[n] = due[n]
      BY <1>2, <2>1
    <3> QED BY <2>1, <3>1, <3>2 DEF EarlyInv, ClockInv
  <2>5. PICK u \in [Timer -> Int] : u[cur] = D - time /\ \A n \in Timer \ {cur} : u[n] = r[n]
    <3> DEFINE v == [r EXCEPT ![cur] = D - time]
    <3>1. v \in [Timer -> Int] /\ v[cur] = D - time /\ \A n \in Timer \ {cur} : v[n] = r[n]
      BY <1>1, <1>5, <2>3
    <3> HIDE DEF v
    <3> QED BY <3>1
  <2>6. \A n \in ToSet(list) : dtick'[n] = dtick[n] /\ u[n] = r[n] /\ due'[n] = due[n]
    BY <1>2, <1>5, <2>1, <2>5
  <2>7. Chain(list, dtick', u)
    <3>1. Chain(list, dtick, r)
      BY <1>8, <2>1
    <3> QED BY <1>2, <2>6, <3>1, ChainSame
  <2>8. u[cur] < W /\ due'[cur] <= time + u[cur] /\ dtick'[cur] = u[cur]
    <3>1. due'[cur] = D /\ dtick'[cur] = D - time
      BY <1>2, <1>5, <2>1, <2>3
    <3> QED BY <1>1, <1>2, <2>3, <2>5, <3>1
  <2>9. Cong(dtick'[cur], u[cur] - Before(list, u, 1))
    <3>1. u[cur] \in Int /\ u[cur] - 0 = u[cur]
      BY <1>5, <2>5
    <3>2. Before(list, u, 1) = 0
      BY DEF Before
    <3> QED BY <2>8, <3>1, <3>2, CongRules
  <2>10. Late(u)'
    BY <1>5, <1>6, <2>1, <2>6, <2>7, <2>8, <2>9 DEF Late, InTime, Inserting, HoldsNode
  <2> QED BY <2>4, <2>10 DEF LateInv
<1>11. CASE InsertPass
  <2>1. /\ step = "pass" /\ curr \in 1 .. Len(list) + 1
        /\ UNCHANGED <<list, dtick, nextTime, globalTick, cur, curr, time, due>>
    BY <1>11 DEF InsertPass, history, EarlyInv, StepInv, Inserting
  <2>2. Chain(list, dtick, r) /\ Cong(dtick[cur], r[cur] - Before(list, r, curr))
        /\ r[cur] < W /\ due[cur] <= time + r[cur]
    BY <1>3, <1>7, <1>8, <2>1 DEF Late, Inserting
  <2>3. CASE curr > Len(list)
    <3>1. step' = "link"
      BY <1>11, <2>3 DEF InsertPass
    <3>2. ~(curr <= Len(list))
      BY <1>4, <2>1, <2>3
    <3>3. Chain(InsertAt(list, curr, cur), dtick, r)
      BY <1>2, <1>5, <2>1, <2>2, <3>2, ChainLinked
    <3>4. Late(r)'
      BY <1>5, <1>6, <2>1, <2>2, <3>1, <3>3 DEF Late, InTime, Inserting, HoldsNode
    <3> QED BY <1>9, <2>1, <3>1, <3>4 DEF LateInv
  <2>4. CASE curr <= Len(list)
    <3>1. word' = dtick[list[curr]] /\ step' \in {"consume", "subtract"}
      <4>1. ~(curr > Len(list))
        BY <1>4, <2>1, <2>4
      <4> QED BY <1>11, <4>1 DEF InsertPass
    <3>2. curr \in 1 .. Len(list)
      BY <1>4, <2>1, <2>4
    <3>3. word' - dtick[list[curr]] = 0
      BY <1>4, <3>1, <3>2
    <3>4. due[cur] <= time + r[cur] - 0
      BY <1>2, <1>5, <2>2
    <3>5. \A i \in curr .. Len(list) : r[list[i]] + 0 < W
      <4>1. \A i \in curr .. Len(list) : i \in 1 .. Len(list)
        BY <1>4, <3>2
      <4> QED BY <1>4, <1>6, <4>1
    <3>6. Late(r)'
      BY <1>5, <1>6, <2>1, <2>2, <3>1, <3>3, <3>4, <3>5
         DEF Late, InTime, Inserting, HoldsNode, Missed
    <3> QED BY <1>9, <2>1, <3>1, <3>6 DEF LateInv
  <2> QED BY <1>4, <2>1, <2>3, <2>4
<1>12. CASE InsertConsume \/ InsertSubtract
  <2> DEFINE x == dtick[list[curr]]
             k == Missed
             b == Before(list, r, curr)
             c == list[curr]
  <2>1. /\ step \in {"consume", "subtract"} /\ curr \in 1 .. Len(list)
        /\ UNCHANGED <<list, nextTime, globalTick, cur, time, due, word>>
        /\ step' \in {"pass", "link"} /\ x <= word
    BY <1>4, <1>12 DEF InsertConsume, InsertSubtract, history, EarlyInv, StepInv, Inserting
  <2>2. /\ Chain(list, dtick, r) /\ Cong(dtick[cur], r[cur] - b)
        /\ due[cur] <= time + r[cur] - k
        /\ \A i \in curr .. Len(list) : r[list[i]] + k < W
        /\ r[cur] < W /\ due[cur] <= time + r[cur]
    BY <1>3, <1>7, <1>8, <2>1 DEF Late, Inserting
  <2>3. /\ x \in Int /\ word \in Int /\ k \in Nat /\ word = x + k /\ b \in Int
        /\ c \in Timer /\ c # cur /\ r[c] \in Int
    <3>1. x \in Int /\ word \in Int /\ x <= word /\ k = word - x
      BY <1>1, <1>2, <1>4, <2>1 DEF Missed
    <3>2. b \in Int /\ c \in Timer /\ c # cur /\ r[c] \in Int
      BY <1>4, <1>5, <2>1
    <3> HIDE DEF x, k, b, c
    <3>3. k \in Nat /\ word = x + k
      BY <3>1
    <3> QED BY <3>1, <3>2, <3>3
  <2>4. Cong(x, r[c] - b)
    BY <2>1, <2>2 DEF Chain
  <2>5. ClockInv'
    BY <1>9, <2>1
  <2>6. CASE InsertConsume
    <3>1. PICK ahead \in ReadAgain : dtick' = [dtick EXCEPT ![cur] = @ - ahead]
      BY <2>6 DEF InsertConsume
    <3>2. curr' = curr + 1 /\ step' = "pass"
      BY <2>6 DEF InsertConsume
    <3>3. PICK m \in {0, k} : ahead = x + m
      BY <2>3, <3>1 DEF ReadAgain
    <3>4. m \in Nat /\ due[cur] <= time + r[cur] - m
      <4>1. time + r[cur] - 0 = time + r[cur]
        BY <1>2, <1>5
      <4> HIDE DEF k
      <4>2. CASE m = 0
        BY <2>2, <4>1, <4>2
      <4>3. CASE m = k
        BY <2>2, <2>3, <4>3
      <4> QED BY <3>3, <4>2, <4>3
    <3>5. PICK u \in [Timer -> Int] : u[cur] = r[cur] - m /\ \A n \in Timer \ {cur} : u[n] = r[n]
      <4> DEFINE v == [r EXCEPT ![cur] = r[cur] - m]
      <4>1. v \in [Timer -> Int] /\ v[cur] = r[cur] - m /\ \A n \in Timer \ {cur} : v[n] = r[n]
        BY <1>5, <3>4
      <4> HIDE DEF v
      <4> QED BY <4>1
    <3>6. \A n \in ToSet(list) : dtick'[n] = dtick[n] /\ u[n] = r[n]
      BY <1>2, <1>5, <3>1, <3>5
    <3>7. Chain(list, dtick', u)
      BY <1>2, <2>2, <3>6, ChainSame
    <3>8. u[cur] < W /\ due[cur] <= time + u[cur]
      <4> DEFINE z == r[cur]
      <4>1. z \in Int /\ z < W /\ due[cur] <= time + z - m /\ u[cur] = z - m
        BY <1>5, <2>2, <3>4, <3>5
      <4> HIDE DEF z
      <4>2. z - m < W /\ due[cur] <= time + (z - m)
        BY <1>1, <1>2, <1>5, <3>4, <4>1
      <4> QED BY <4>1, <4>2
    <3>9. Before(list, u, curr + 1) = r[c]
      <4>1. curr + 1 # 1 /\ (curr + 1) - 1 = curr /\ c \in ToSet(list)
        BY <1>4, <2>1
      <4> QED BY <3>6, <4>1 DEF Before
    <3>10. Cong(dtick'[cur], u[cur] - r[c])
      <4> DEFINE y == dtick[cur]
                 z == r[cur]
                 g == r[c]
      <4>1. /\ y \in Int /\ z \in Int /\ g \in Int /\ b \in Int /\ x \in Int /\ m \in Int
            /\ Cong(y, z - b) /\ Cong(x, g - b)
        BY <1>5, <2>2, <2>3, <2>4, <3>4
      <4>2. dtick'[cur] = y - (x + m)
        BY <1>2, <1>5, <3>1, <3>3
      <4>3. u[cur] = z - m
        BY <3>5
      <4> HIDE DEF x, y, z, g, b, k, c
      <4>4. /\ z - b \in Int /\ g - b \in Int /\ y - x \in Int /\ z - g \in Int
            /\ (z - b) - (g - b) = z - g
            /\ y - (x + m) = (y - x) - m /\ (z - m) - g = (z - g) - m
        BY <4>1
      <4>5. Cong(y - x, (z - b) - (g - b))
        BY <4>1, <4>4, CongSum
      <4>6. Cong(m, m)
        BY <4>1, CongRules
      <4>7. Cong((y - x) - m, (z - g) - m)
        BY <4>1, <4>4, <4>5, <4>6, CongSum
      <4> QED BY <4>2, <4>3, <4>4, <4>7 DEF g
    <3>11. Late(u)'
      <4>1. \A n \in ToSet(list) : u[n] < W /\ due[n] <= time + u[n]
        BY <1>6, <3>6
      <4> HIDE DEF x, k, b, c
      <4>2. Cong(dtick'[cur], u[cur] - Before(list, u, curr'))
        BY <3>2, <3>9, <3>10
      <4> QED BY <2>1, <3>2, <3>7, <3>8, <4>1, <4>2 DEF Late, InTime, Inserting, HoldsNode
    <3> QED BY <2>5, <3>11 DEF LateInv
  <2>7. CASE InsertSubtract
    <3>1. PICK behind \in ReadAgain : dtick' = [dtick EXCEPT ![c] = Wrapped(behind - dtick[cur])]
      BY <2>7 DEF InsertSubtract
    <3>2. curr' = curr /\ step' = "link"
      BY <2>7 DEF InsertSubtract
    <3>3. PICK m \in {0, k} : behind = x + m
      BY <2>3, <3>1 DEF ReadAgain
    <3>4. m \in Nat /\ \A i \in curr .. Len(list) : r[list[i]] + m < W
      <4>1. \A i \in curr .. Len(list) : i \in 1 .. Len(list)
        BY <1>4, <2>1
      <4>2. \A i \in curr .. Len(list) : r[list[i]] + 0 < W
        BY <1>4, <1>6, <4>1
      <4> HIDE DEF k
      <4> QED BY <2>2, <2>3, <3>3, <4>2
    <3> DEFINE later(n) == \E i \in curr .. Len(list) : n = list[i]
    <3>5. PICK u \in [Timer -> Int] :
             \A n \in Timer : u[n] = IF later(n) THEN r[n] + m ELSE r[n]
      <4> DEFINE v == [n \in Timer |-> IF later(n) THEN r[n] + m ELSE r[n]]
      <4> HIDE DEF later
      <4>1. /\ v \in [Timer -> Int]
            /\ \A n \in Timer : v[n] = IF later(n) THEN r[n] + m ELSE r[n]
        BY <3>4
      <4> HIDE DEF v
      <4> QED BY <4>1
    <3>6. \A i, j \in 1 .. Len(list) : list[i] = list[j] => i = j
      BY <1>2, <1>4 DEF IsInjective
    <3>7. /\ ~later(cur)
          /\ \A i \in 1 .. Len(list) : later(list[i]) <=> i >= curr
      <4>1. \A i \in curr .. Len(list) : i \in 1 .. Len(list)
        BY <1>4, <2>1
      <4>2. ~later(cur)
        BY <1>4, <1>5, <4>1
      <4>3. ASSUME NEW i \in 1 .. Len(list) PROVE later(list[i]) <=> i >= curr
        <5>1. i >= curr => i \in curr .. Len(list)
          BY <1>4, <2>1
        <5>2. ASSUME NEW j \in curr .. Len(list), list[i] = list[j] PROVE i >= curr
          <6>1. i = j
            BY <3>6, <4>1, <5>2
          <6> QED BY <2>1, <6>1
        <5> QED BY <5>1, <5>2
      <4> QED BY <4>2, <4>3
    <3> HIDE DEF later
    <3>8. /\ \A i \in 1 .. Len(list) : u[list[i]] = IF i >= curr THEN r[list[i]] + m ELSE r[list[i]]
          /\ u[cur] = r[cur]
      BY <1>4, <1>5, <3>5, <3>7
    <3>9. /\ dtick' \in [Timer -> Word]
          /\ dtick'[cur] = dtick[cur] /\ dtick'[c] = Wrapped(behind - dtick[cur])
          /\ \A j \in 1 .. Len(list) : j # curr => dtick'[list[j]] = dtick[list[j]]
      <4>1. behind - dtick[cur] \in Int
        <5>1. behind \in Int
          BY <2>3, <3>3, <3>4
        <5> QED BY <1>5, <5>1
      <4>2. Wrapped(behind - dtick[cur]) \in Word
        BY <4>1, WrappedFacts
      <4>3. \A j \in 1 .. Len(list) : j # curr => list[j] # c
        BY <2>1, <3>6
      <4> HIDE DEF c
      <4> QED BY <1>2, <1>4, <1>5, <2>3, <3>1, <4>2, <4>3
    <3> DEFINE y == dtick[cur]
               z == r[cur]
               g == r[c]
               w == Wrapped(behind - y)
               v == Wrapped(x + m)
               e == [dtick EXCEPT ![c] = v]
    <3>10. /\ y \in Int /\ z \in Int /\ g \in Int /\ b \in Int /\ x \in Int /\ m \in Int
           /\ Cong(y, z - b) /\ Cong(x, g - b) /\ behind = x + m
      BY <1>5, <2>2, <2>3, <2>4, <3>3, <3>4
    <3>11. /\ e \in [Timer -> Word] /\ e[c] = v /\ Cong(v, x + m)
           /\ \A j \in 1 .. Len(list) : j # curr => e[list[j]] = dtick[list[j]]
      <4>1. x + m \in Int
        BY <3>10
      <4>2. v \in Word /\ Cong(v, x + m)
        BY <4>1, WrappedFacts
      <4>3. \A j \in 1 .. Len(list) : j # curr => list[j] # c
        BY <2>1, <3>6
      <4> HIDE DEF c, v
      <4> QED BY <1>2, <1>4, <2>3, <4>2, <4>3
    <3> HIDE DEF e
    <3>12. Chain(list, e, u)
      <4>1. Cong(e[list[curr]], dtick[list[curr]] + m)
        BY <3>11
      <4>2. \A j \in 1 .. Len(list) :
              u[list[j]] = IF j < curr THEN r[list[j]] ELSE r[list[j]] + m
        BY <2>1, <3>8
      <4>3. Chain(list, dtick, r) /\ m \in Int
        BY <2>2, <3>10
      <4> HIDE DEF x, b, c, k, v
      <4> QED BY <1>2, <2>1, <3>11, <4>1, <4>2, <4>3, ChainShifted
    <3>13. Cong(dtick'[c], u[c] - u[cur])
      <4>1. dtick'[c] = w /\ u[c] = g + m /\ u[cur] = z
        BY <2>1, <3>8, <3>9
      <4>2. behind - y \in Int /\ behind = x + m
        BY <3>10
      <4>3. w \in Word /\ w \in Int /\ Cong(w, behind - y)
        BY <1>1, <4>2, WrappedFacts
      <4> HIDE DEF x, y, z, g, b, k, c, w, v
      <4>4. /\ z - b \in Int /\ g - b \in Int /\ x - y \in Int /\ g - z \in Int
            /\ (g - b) - (z - b) = g - z
            /\ behind - y = (x - y) + m /\ (g - z) + m = (g + m) - z
            /\ (g - z) + m \in Int
        BY <3>10
      <4>5. Cong(x - y, (g - b) - (z - b))
        BY <3>10, <4>4, CongSum
      <4>6. Cong(m, m)
        BY <3>10, CongRules
      <4>7. Cong((x - y) + m, (g - z) + m)
        BY <3>10, <4>4, <4>5, <4>6, CongSum
      <4>8. Cong(w, (g - z) + m)
        BY <4>2, <4>3, <4>4, <4>7, CongTrans
      <4> QED BY <4>1, <4>4, <4>8
    <3>14. Cong(dtick'[cur], u[cur] - Before(list, u, curr))
      <4>1. Before(list, u, curr) = b
        <5>1. curr # 1 => curr - 1 \in 1 .. Len(list) /\ ~(curr - 1 >= curr)
          BY <1>4, <2>1
        <5> QED BY <3>8, <5>1 DEF Before
      <4> HIDE DEF b
      <4> QED BY <2>2, <3>8, <3>9, <4>1
    <3>15. Chain(InsertAt(list, curr, cur), dtick', u)
      <4>1. \A j \in 1 .. Len(list) : j # curr => dtick'[list[j]] = e[list[j]]
        BY <3>9, <3>11
      <4>2. Cong(dtick'[list[curr]], u[list[curr]] - u[cur])
        BY <3>13
      <4>3. curr \in 1 .. Len(list) + 1
        BY <1>4, <2>1
      <4> HIDE DEF x, y, z, g, b, k, c, w, v
      <4> QED BY <1>2, <1>5, <3>9, <3>11, <3>12, <3>14, <4>1, <4>2, <4>3, ChainLinked
    <3>16. \A n \in ToSet(list) : u[n] < W /\ due[n] <= time + u[n]
      <4> SUFFICES ASSUME NEW n \in ToSet(list) PROVE u[n] < W /\ due[n] <= time + u[n]
        OBVIOUS
      <4>1. PICK i \in 1 .. Len(list) : n = list[i]
        BY <1>4 DEF ToSet
      <4>2. r[n] \in Int /\ due[n] \in Nat /\ r[n] < W /\ due[n] <= time + r[n]
        BY <1>2, <1>4, <1>5, <1>6, <4>1
      <4>3. CASE i >= curr
        <5>1. u[n] = r[n] + m
          BY <3>8, <4>1, <4>3
        <5>2. i \in curr .. Len(list)
          BY <1>4, <2>1, <4>3
        <5>3. r[n] + m < W
          BY <3>4, <4>1, <5>2
        <5> DEFINE q == r[n]
        <5>4. q \in Int /\ due[n] <= time + q /\ due[n] \in Nat /\ m \in Nat
          BY <3>4, <4>2
        <5> HIDE DEF q, x, k, b, c
        <5>5. due[n] <= time + (q + m)
          BY <1>2, <5>4
        <5> QED BY <5>1, <5>3, <5>5 DEF q
      <4>4. CASE ~(i >= curr)
        <5>1. u[n] = r[n]
          BY <3>8, <4>1, <4>4
        <5> QED BY <4>2, <5>1
      <4> QED BY <4>3, <4>4
    <3>17. Late(u)'
      <4>1. u[cur] < W /\ due[cur] <= time + u[cur]
        BY <2>2, <3>8
      <4> HIDE DEF x, y, z, g, b, k, c, w, v
      <4> QED BY <2>1, <3>2, <3>15, <3>16, <4>1 DEF Late, InTime, Inserting, HoldsNode
    <3> QED BY <2>5, <3>17 DEF LateInv
  <2> QED BY <1>12, <2>6, <2>7
<1>13. CASE InsertLink
  <2>1. /\ step = "link" /\ step' = "loop" /\ list' = InsertAt(list, curr, cur)
        /\ curr \in 1 .. Len(list) + 1
        /\ UNCHANGED <<dtick, nextTime, globalTick, time, due>>
    BY <1>13 DEF InsertLink, LinkNode, history, EarlyInv, StepInv, Inserting
  <2>2. ToSet(list') = ToSet(list) \cup {cur}
    BY <1>2, <1>5, <2>1, NodeLinked
  <2>3. Chain(list', dtick', r)
    BY <1>3, <2>1 DEF Late
  <2>4. \A n \in ToSet(list') : r[n] < W /\ due'[n] <= time' + r[n]
    BY <1>6, <1>7, <2>1, <2>2 DEF Inserting
  <2>5. Late(r)'
    BY <2>1, <2>3, <2>4 DEF Late, InTime, Inserting, HoldsNode
  <2> QED BY <1>9, <2>1, <2>5 DEF LateInv
<1> QED BY <1>10, <1>11, <1>12, <1>13

\* What is known of a timer's time is kept by every step.
LEMMA EarlyNext ==
  ASSUME NoRollover, EarlyInv, [Next]_vars
  PROVE  EarlyInv'
<1>1. TypeOK' /\ StepInv' /\ NoLostExpiry'
  BY StructNext DEF EarlyInv
<1>2. ClockInv' /\ LateInv'
  <2>1. ASSUME NEW t \in Timer, kTimerInit(t) PROVE ClockInv' /\ LateInv'
    BY <2>1, LateTimerInit
  <2>2. CASE Tick
    BY <2>2, LateTick
  <2>3. CASE Start \/ (\E t \in Timer : kTimerCancel(t)) \/ EventGet \/ TakeHead \/ NoneExpired
             \/ RemoveLoad \/ RemoveStore \/ Call
    BY <2>3, LateServe
  <2>4. CASE NextTime \/ InsertPass \/ InsertConsume \/ InsertSubtract \/ InsertLink
    BY <2>4, LateReload
  <2>5. CASE UNCHANGED vars
    <3>1. ClockInv'
      BY <2>5 DEF vars, history, EarlyInv, ClockInv
    <3>2. PICK r \in [Timer -> Int] : Late(r)
      BY DEF EarlyInv, LateInv
    <3>3. Late(r)'
      BY <2>5, <3>2 DEF vars, history, Late, InTime, Missed
    <3> QED BY <3>1, <3>3 DEF LateInv
  <2> QED BY <2>1, <2>2, <2>3, <2>4, <2>5 DEF Next, PostProcStep
<1> QED BY <1>1, <1>2 DEF EarlyInv

\* A callout timer never fires before it is due, as long as the tick counter
\* does not roll over: though PostProc takes timers off the list and links them
\* with the ticks still coming (ksystasks.c:243-290), a tick between a load and
\* a store is lost or counted twice only so that what is linked fires later.
THEOREM TimersNeverEarly ==
  ASSUME NoRollover
  PROVE  Spec => []NeverEarly
<1>1. Init => EarlyInv
  BY StructInit, LateInit DEF EarlyInv
<1>2. EarlyInv /\ [Next]_vars => EarlyInv'
  BY EarlyNext
<1>3. EarlyInv => NeverEarly
  <2> SUFFICES ASSUME EarlyInv, step = "call" PROVE time >= due[cur]
    BY DEF NeverEarly
  <2>1. PICK r \in [Timer -> Int] : Late(r)
    BY DEF EarlyInv, LateInv
  <2>2. due[cur] <= time
    BY <2>1 DEF Late, HoldsNode, Inserting
  <2>3. due[cur] \in Nat /\ time \in Nat
    BY DEF EarlyInv, TypeOK, StepInv, HoldsNode
  <2> QED BY <2>2, <2>3
<1> QED BY <1>1, <1>2, <1>3, PTL DEF Spec
==============================================================================
