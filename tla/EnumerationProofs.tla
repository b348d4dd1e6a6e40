-------------------------- MODULE EnumerationProofs --------------------------
(* What the operators of Enumeration and the operations on sequences make  *)
(* of what a sequence holds, for any sets and sequences.                   *)
EXTENDS Enumeration, FiniteSetTheorems, FunctionTheorems, SequenceTheorems, TLAPS

-----------------------------------------------------------------------------
(* InOrder: the members of a set, each once.                               *)

(* Induction on numbers: the least of those that fail.                     *)
LEMMA LeastNumber ==
  ASSUME NEW S \in SUBSET Nat, S # {}
  PROVE  \E x \in S : \A y \in S : x <= y
<1>1. PICK x \in S : \A y \in S : <<y, x>> \notin OpToRel(<, Nat)
  BY NatLessThanWellFounded, WFMin
<1>2. \A y \in S : ~(y < x)
  BY <1>1 DEF OpToRel
<1> QED
  BY <1>2

Ascending(q, n) == \A i, j \in 1..n : i < j => q[i] < q[j]

(* Every finite set of numbers has an ascending order: take away its least *)
(* member.                                                                 *)
LEMMA Enumerable ==
  ASSUME NEW n \in Nat
  PROVE  \A S \in SUBSET Nat : IsFiniteSet(S) /\ Cardinality(S) = n
           => \E q \in [1..n -> S] : Ascending(q, n)
<1> DEFINE Fails(k) == \E S \in SUBSET Nat :
             /\ IsFiniteSet(S) /\ Cardinality(S) = k
             /\ ~\E q \in [1..k -> S] : Ascending(q, k)
           Bad == {k \in Nat : Fails(k)}
<1>1. SUFFICES ASSUME Bad # {} PROVE FALSE
  OBVIOUS
<1>2. PICK k \in Bad : \A j \in Bad : k <= j
  BY <1>1, LeastNumber
<1>3. PICK S \in SUBSET Nat :
        /\ IsFiniteSet(S) /\ Cardinality(S) = k
        /\ ~\E q \in [1..k -> S] : Ascending(q, k)
  OBVIOUS
<1>4. k \in Nat /\ \A j \in Nat : j < k => ~Fails(j)
  BY <1>2
<1> HIDE DEF Fails, Bad
<1>5. k # 0
  <2> SUFFICES ASSUME k = 0 PROVE FALSE
    OBVIOUS
  <2>1. S = {}
    BY <1>3, FS_EmptySet
  <2>2. [i \in 1..0 |-> i] \in [1..0 -> S] /\ Ascending([i \in 1..0 |-> i], 0)
    BY DEF Ascending
  <2> QED
    BY <1>3, <2>2
<1>6. PICK x \in S : \A y \in S : x <= y
  <2>1. S # {}
    BY <1>3, <1>5, FS_EmptySet
  <2> QED
    BY <2>1, LeastNumber
<1>7. IsFiniteSet(S \ {x}) /\ Cardinality(S \ {x}) = k - 1
  BY <1>3, <1>6, FS_RemoveElement
<1>8. PICK q \in [1..(k-1) -> S \ {x}] : Ascending(q, k - 1)
  BY <1>4, <1>5, <1>7 DEF Fails
<1> DEFINE p == [i \in 1..k |-> IF i = 1 THEN x ELSE q[i - 1]]
<1>9. p \in [1..k -> S]
  <2> SUFFICES ASSUME NEW i \in 1..k, i # 1 PROVE q[i - 1] \in S
    OBVIOUS
  <2>1. i - 1 \in 1..(k-1)
    BY <1>4
  <2> QED
    BY <1>8, <2>1
<1>10. Ascending(p, k)
  <2> SUFFICES ASSUME NEW i \in 1..k, NEW j \in 1..k, i < j PROVE p[i] < p[j]
    BY DEF Ascending
  <2>1. j # 1 /\ j - 1 \in 1..(k-1) /\ q[j - 1] \in S \ {x}
    BY <1>4, <1>8
  <2>2. CASE i = 1
    <3>1. p[i] = x /\ p[j] = q[j - 1]
      BY <2>1, <2>2
    <3>2. q[j - 1] \in Nat /\ x <= q[j - 1] /\ x # q[j - 1]
      BY <1>6, <2>1
    <3> QED
      BY <3>1, <3>2
  <2>3. CASE i # 1
    <3>1. i - 1 \in 1..(k-1) /\ i - 1 < j - 1
      BY <1>4, <2>3
    <3> QED
      BY <1>8, <2>1, <2>3, <3>1 DEF Ascending
  <2> QED
    BY <2>2, <2>3
<1> QED
  BY <1>3, <1>9, <1>10

\* What a sequence holds, and whether it holds it once.
Elements(q) == {q[n] : n \in DOMAIN q}
NoRepeats(q) == \A m, n \in DOMAIN q : q[m] = q[n] => m = n

LEMMA InOrderIs ==
  ASSUME NEW S \in SUBSET Nat, IsFiniteSet(S), NEW T, S \subseteq T
  PROVE  /\ InOrder(S) \in Seq(T) /\ Len(InOrder(S)) = Cardinality(S)
         /\ Elements(InOrder(S)) = S
         /\ NoRepeats(InOrder(S))
<1> DEFINE n == Cardinality(S)
           q == InOrder(S)
<1>1. n \in Nat
  BY FS_CardinalityType
<1>2. \E p \in [1..n -> S] : \A i, j \in DOMAIN p : i < j => p[i] < p[j]
  <2> HIDE DEF n
  <2> QED
    BY <1>1, Enumerable DEF Ascending, n
<1>3. q \in [1..n -> S] /\ \A i, j \in DOMAIN q : i < j => q[i] < q[j]
  BY <1>2 DEF InOrder
<1> HIDE DEF n, q
<1>4. \A i, j \in 1..n : q[i] = q[j] => i = j
  <2> SUFFICES ASSUME NEW i \in 1..n, NEW j \in 1..n, i # j PROVE q[i] # q[j]
    OBVIOUS
  <2>1. q[i] \in Nat /\ q[j] \in Nat
    BY <1>1, <1>3
  <2>2. i < j \/ j < i
    BY <1>1
  <2>3. DOMAIN q = 1..n
    BY <1>3
  <2> QED
    BY <1>3, <2>1, <2>2, <2>3
<1>5. q \in Injection(1..n, S)
  BY <1>3, <1>4 DEF Injection, IsInjective
<1>6. q \in Surjection(1..n, S)
  <2>1. IsFiniteSet(1..n) /\ Cardinality(1..n) = n
    BY <1>1, FS_Interval
  <2> QED
    BY <1>1, <1>5, <2>1, FS_Injection DEF n
<1>7. Elements(q) = S
  BY <1>3, <1>6 DEF Elements, Surjection
<1>8. q \in Seq(T) /\ Len(q) = n
  <2>1. q \in [1..n -> T]
    BY <1>3
  <2> QED
    BY <1>1, <2>1, LenProperties, SeqDef
<1> QED
  BY <1>3, <1>4, <1>7, <1>8 DEF q, n, NoRepeats

LEMMA ElementsType ==
  ASSUME NEW T, NEW p \in Seq(T)
  PROVE  Elements(p) \subseteq T
BY LenProperties, ElementOfSeq DEF Elements

(* What appending, joining and taking the head make of it.                 *)
LEMMA AppendIs ==
  ASSUME NEW T, NEW p \in Seq(T), NEW x \in T
  PROVE  /\ Append(p, x) \in Seq(T)
         /\ Elements(Append(p, x)) = Elements(p) \cup {x}
         /\ NoRepeats(p) /\ x \notin Elements(p) => NoRepeats(Append(p, x))
<1> DEFINE a == Append(p, x)
           n == Len(p) + 1
<1>1. /\ a \in Seq(T) /\ Len(a) = n /\ a[n] = x
      /\ \A i \in 1..Len(p) : a[i] = p[i]
  BY AppendProperties
<1>2. DOMAIN p = 1..Len(p) /\ Len(p) \in Nat /\ n \in Nat
  BY LenProperties
<1>3. DOMAIN a = 1..n
  BY <1>1, LenProperties
<1>4. DOMAIN a = DOMAIN p \cup {n} /\ n \notin DOMAIN p
  BY <1>2, <1>3
<1> HIDE DEF a, n
<1>5. \A i \in DOMAIN p : a[i] = p[i]
  BY <1>1, <1>2
<1>6. Elements(a) = Elements(p) \cup {x}
  BY <1>1, <1>4, <1>5 DEF Elements
<1>7. NoRepeats(p) /\ x \notin Elements(p) => NoRepeats(a)
  BY <1>1, <1>4, <1>5 DEF Elements, NoRepeats
<1> QED
  BY <1>1, <1>6, <1>7 DEF a

LEMMA JoinIs ==
  ASSUME NEW T, NEW p \in Seq(T), NEW q \in Seq(T)
  PROVE  /\ p \o q \in Seq(T)
         /\ Elements(p \o q) = Elements(p) \cup Elements(q)
         /\ NoRepeats(p) /\ NoRepeats(q) /\ Elements(p) \cap Elements(q) = {} => NoRepeats(p \o q)
<1> DEFINE pq == p \o q
<1>1. /\ pq \in Seq(T) /\ DOMAIN pq = 1..(Len(p) + Len(q))
      /\ \A i \in 1..(Len(p) + Len(q)) : pq[i] = IF i <= Len(p) THEN p[i] ELSE q[i - Len(p)]
  BY ConcatProperties, LenProperties
<1>2. /\ DOMAIN p = 1..Len(p) /\ DOMAIN q = 1..Len(q) /\ Len(p) \in Nat /\ Len(q) \in Nat
  BY LenProperties
<1> HIDE DEF pq
<1>3. \A i \in DOMAIN pq : pq[i] \in Elements(p) \cup Elements(q)
  <2> SUFFICES ASSUME NEW i \in DOMAIN pq PROVE pq[i] \in Elements(p) \cup Elements(q)
    OBVIOUS
  <2>1. CASE i <= Len(p)
    <3>1. i \in DOMAIN p /\ pq[i] = p[i]
      BY <1>1, <1>2, <2>1
    <3> QED
      BY <3>1 DEF Elements
  <2>2. CASE ~(i <= Len(p))
    <3>1. i - Len(p) \in DOMAIN q /\ pq[i] = q[i - Len(p)]
      BY <1>1, <1>2, <2>2
    <3> QED
      BY <3>1 DEF Elements
  <2> QED
    BY <2>1, <2>2
<1>4. \A i \in DOMAIN p : i \in DOMAIN pq /\ pq[i] = p[i]
  BY <1>1, <1>2
<1>5. \A i \in DOMAIN q : i + Len(p) \in DOMAIN pq /\ pq[i + Len(p)] = q[i]
  BY <1>1, <1>2
<1>6. Elements(pq) = Elements(p) \cup Elements(q)
  BY <1>3, <1>4, <1>5 DEF Elements
<1>7. ASSUME NoRepeats(p), NoRepeats(q), Elements(p) \cap Elements(q) = {} PROVE NoRepeats(pq)
  <2> SUFFICES ASSUME NEW m \in DOMAIN pq, NEW n \in DOMAIN pq, pq[m] = pq[n]
               PROVE  m = n
    BY DEF NoRepeats
  <2>1. CASE m <= Len(p) /\ n <= Len(p)
    <3>1. m \in DOMAIN p /\ n \in DOMAIN p
      BY <1>1, <1>2, <2>1
    <3> QED
      BY <1>4, <1>7, <3>1 DEF NoRepeats
  <2>2. CASE ~(m <= Len(p)) /\ ~(n <= Len(p))
    <3>1. /\ m - Len(p) \in DOMAIN q /\ pq[m] = q[m - Len(p)]
          /\ n - Len(p) \in DOMAIN q /\ pq[n] = q[n - Len(p)]
      BY <1>1, <1>2, <2>2
    <3>2. m - Len(p) = n - Len(p)
      BY <1>7, <3>1 DEF NoRepeats
    <3> QED
      BY <1>1, <1>2, <3>2
  <2>3. ASSUME NEW i \in DOMAIN pq, NEW j \in DOMAIN pq, i <= Len(p), ~(j <= Len(p))
        PROVE  pq[i] # pq[j]
    <3>1. i \in DOMAIN p /\ pq[i] = p[i] /\ j - Len(p) \in DOMAIN q /\ pq[j] = q[j - Len(p)]
      BY <1>1, <1>2, <2>3
    <3> QED
      BY <1>7, <3>1 DEF Elements
  <2> QED
    BY <2>1, <2>2, <2>3
<1> QED
  BY <1>1, <1>6, <1>7 DEF pq

LEMMA TailIs ==
  ASSUME NEW T, NEW p \in Seq(T), p # <<>>
  PROVE  /\ Head(p) \in Elements(p) /\ Head(p) \in T
         /\ Tail(p) \in Seq(T)
         /\ Elements(p) = Elements(Tail(p)) \cup {Head(p)}
         /\ NoRepeats(p) => Head(p) \notin Elements(Tail(p)) /\ NoRepeats(Tail(p))
<1> DEFINE t == Tail(p)
<1>1. /\ Head(p) \in T /\ t \in Seq(T) /\ Len(t) = Len(p) - 1
      /\ \A i \in 1..Len(t) : t[i] = p[i + 1]
  BY HeadTailProperties
<1>2. /\ DOMAIN p = 1..Len(p) /\ DOMAIN t = 1..Len(t)
      /\ Len(p) \in Nat \ {0} /\ Len(t) \in Nat /\ Head(p) = p[1]
  BY <1>1, LenProperties, EmptySeq
<1> HIDE DEF t
<1>3. \A i \in DOMAIN t : i + 1 \in DOMAIN p /\ i + 1 # 1 /\ t[i] = p[i + 1]
  BY <1>1, <1>2
<1>4. \A i \in DOMAIN p : i # 1 => i - 1 \in DOMAIN t /\ t[i - 1] = p[i]
  BY <1>1, <1>2
<1>5. 1 \in DOMAIN p
  BY <1>2
<1>6. Elements(p) = Elements(t) \cup {Head(p)}
  BY <1>2, <1>3, <1>4, <1>5 DEF Elements
<1>7. ASSUME NoRepeats(p) PROVE Head(p) \notin Elements(t) /\ NoRepeats(t)
  <2>1. \A m, n \in DOMAIN t : t[m] = t[n] => m + 1 = n + 1
    BY <1>3, <1>7 DEF NoRepeats
  <2>2. \A m, n \in DOMAIN t : m + 1 = n + 1 => m = n
    BY <1>2
  <2> QED
    BY <1>2, <1>3, <1>5, <1>7, <2>1, <2>2 DEF NoRepeats, Elements
<1> QED
  BY <1>1, <1>6, <1>7 DEF t

(* Cutting a sequence in two.                                              *)
LEMMA SplitIs ==
  ASSUME NEW T, NEW p \in Seq(T), NEW n \in 0..Len(p)
  PROVE  /\ SubSeq(p, 1, n) \in Seq(T) /\ SubSeq(p, n + 1, Len(p)) \in Seq(T)
         /\ Elements(SubSeq(p, 1, n)) = {p[i] : i \in 1..n}
         /\ Elements(p) = Elements(SubSeq(p, 1, n)) \cup Elements(SubSeq(p, n + 1, Len(p)))
         /\ NoRepeats(p) => /\ NoRepeats(SubSeq(p, 1, n))
                            /\ NoRepeats(SubSeq(p, n + 1, Len(p)))
                            /\ Elements(SubSeq(p, 1, n)) \cap Elements(SubSeq(p, n + 1, Len(p))) = {}
<1> DEFINE a == SubSeq(p, 1, n)
           b == SubSeq(p, n + 1, Len(p))
<1>1. DOMAIN p = 1..Len(p) /\ Len(p) \in Nat /\ n \in Nat /\ n <= Len(p)
  BY LenProperties
<1>2. \A i \in 1..Len(p) : p[i] \in T
  BY <1>1, ElementOfSeq
<1>3. /\ a \in Seq(T) /\ DOMAIN a = 1..n /\ \A i \in 1..n : a[i] = p[i]
  <2>1. a \in Seq(T) /\ Len(a) = n /\ \A i \in 1..n : a[i] = p[1 + i - 1]
    BY <1>1, <1>2, SubSeqProperties
  <2> QED
    BY <1>1, <2>1, LenProperties
<1>4. /\ b \in Seq(T) /\ DOMAIN b = 1..(Len(p) - n)
      /\ \A i \in 1..(Len(p) - n) : b[i] = p[n + i]
  <2> DEFINE l == n + 1
             r == Len(p)
  <2>a. l \in Nat \ {0} /\ r \in Nat /\ r - l + 1 = Len(p) - n /\ r = Len(p)
    BY <1>1
  <2> HIDE DEF l, r
  <2>b. l > r => Len(p) - n = 0
    <3>1. Len(p) \in Int /\ n \in Int /\ n <= Len(p) /\ l = n + 1
      BY <1>1 DEF l
    <3>2. l > r => n + 1 > Len(p)
      BY <2>a, <3>1
    <3> QED
      BY <3>1, <3>2
  <2>c. \A i \in l .. r : p[i] \in T
    <3>1. \A i \in l .. r : i \in 1..Len(p)
      BY <1>1, <2>a
    <3> QED
      BY <1>2, <3>1
  <2>d. /\ SubSeq(p, l, r) \in Seq(T)
        /\ Len(SubSeq(p, l, r)) = IF l <= r THEN r - l + 1 ELSE 0
        /\ \A i \in 1 .. r - l + 1 : SubSeq(p, l, r)[i] = p[l + i - 1]
    BY <2>a, <2>c, SubSeqProperties
  <2>1. /\ b \in Seq(T) /\ Len(b) = Len(p) - n
        /\ \A i \in 1..(Len(p) - n) : b[i] = p[n + 1 + i - 1]
    <3>1. b = SubSeq(p, l, r) /\ l = n + 1
      BY DEF l, r
    <3> HIDE DEF b
    <3>2. Len(b) = IF l <= r THEN r - l + 1 ELSE 0
      BY <2>d, <3>1
    <3>3. Len(b) = Len(p) - n
      <4>1. CASE l <= r
        BY <2>a, <3>2, <4>1
      <4>2. CASE ~(l <= r)
        BY <2>a, <2>b, <3>2, <4>2
      <4> QED
        BY <4>1, <4>2
    <3> QED
      BY <2>a, <2>d, <3>1, <3>3
  <2>2. \A i \in 1..(Len(p) - n) : n + 1 + i - 1 = n + i
    BY <1>1
  <2> QED
    BY <1>1, <2>1, <2>2, LenProperties
<1> HIDE DEF a, b
<1>5. Elements(a) = {p[i] : i \in 1..n}
  BY <1>3 DEF Elements
<1>6. Elements(b) = {p[i] : i \in n + 1 .. Len(p)}
  <2>1. ASSUME NEW i \in n + 1 .. Len(p) PROVE i - n \in DOMAIN b /\ b[i - n] = p[i]
    <3>1. i - n \in 1..(Len(p) - n) /\ n + (i - n) = i
      BY <1>1
    <3> QED
      BY <1>4, <3>1
  <2>2. ASSUME NEW i \in DOMAIN b PROVE n + i \in n + 1 .. Len(p) /\ b[i] = p[n + i]
    BY <1>1, <1>4
  <2> QED
    BY <2>1, <2>2 DEF Elements
<1>7. Elements(p) = {p[i] : i \in 1..n} \cup {p[i] : i \in n + 1 .. Len(p)}
  <2>1. 1..Len(p) = (1..n) \cup (n + 1 .. Len(p))
    BY <1>1
  <2> QED
    BY <1>1, <2>1 DEF Elements
<1>8. ASSUME NoRepeats(p) PROVE NoRepeats(a) /\ NoRepeats(b) /\ Elements(a) \cap Elements(b) = {}
  <2>1. NoRepeats(a)
    BY <1>1, <1>3, <1>8 DEF NoRepeats
  <2>2. \A i, j \in DOMAIN b : b[i] = b[j] => n + i = n + j
    BY <1>1, <1>4, <1>8 DEF NoRepeats
  <2>3. NoRepeats(b)
    BY <1>1, <1>4, <2>2 DEF NoRepeats
  <2>4. \A i \in 1..n : \A j \in n + 1 .. Len(p) : p[i] # p[j]
    BY <1>1, <1>8 DEF NoRepeats
  <2> QED
    BY <1>5, <1>6, <2>1, <2>3, <2>4
<1> QED
  BY <1>3, <1>4, <1>5, <1>6, <1>7, <1>8 DEF a, b

(* What is filtered out is gone, and nothing else.                         *)
LEMMA WithoutIs ==
  ASSUME NEW T, NEW p \in Seq(T), NEW S
  PROVE  /\ Without(p, S) \in Seq(T)
         /\ Elements(Without(p, S)) = Elements(p) \ S
         /\ NoRepeats(p) => NoRepeats(Without(p, S))
<1> DEFINE kept == {i \in DOMAIN p : p[i] \notin S}
           o == InOrder(kept)
           w == Without(p, S)
<1>1. DOMAIN p = 1..Len(p) /\ Len(p) \in Nat
  BY LenProperties
<1>2. kept \in SUBSET Nat /\ IsFiniteSet(kept)
  <2>1. IsFiniteSet(1..Len(p))
    BY <1>1, FS_Interval
  <2> QED
    BY <1>1, <2>1, FS_Subset
<1>3. \A i \in kept : p[i] \in T \ S /\ i \in DOMAIN p
  BY <1>1, ElementOfSeq
<1>4. \A i \in DOMAIN p : p[i] \notin S => i \in kept
  OBVIOUS
<1>5. w = [n \in 1..Cardinality(kept) |-> p[o[n]]]
  BY DEF Without
<1> HIDE DEF kept, w
<1>6. /\ o \in Seq(kept) /\ Len(o) = Cardinality(kept)
      /\ Elements(o) = kept /\ NoRepeats(o)
  BY <1>2, InOrderIs
<1> HIDE DEF o
<1>7. DOMAIN o = 1..Cardinality(kept) /\ Cardinality(kept) \in Nat
      /\ \A n \in DOMAIN o : o[n] \in kept
  BY <1>6, LenProperties, ElementOfSeq
<1>8. DOMAIN w = DOMAIN o /\ \A n \in DOMAIN o : w[n] = p[o[n]] /\ w[n] \in T
  BY <1>3, <1>5, <1>7
<1>9. w \in Seq(T)
  <2>1. w \in [1..Cardinality(kept) -> T]
    BY <1>5, <1>7, <1>8
  <2> QED
    BY <1>7, <2>1, SeqDef
<1>10. Elements(w) = Elements(p) \ S
  <2>1. ASSUME NEW n \in DOMAIN w PROVE w[n] \in Elements(p) \ S
    BY <1>3, <1>7, <1>8 DEF Elements
  <2>2. ASSUME NEW i \in DOMAIN p, p[i] \notin S PROVE \E n \in DOMAIN w : w[n] = p[i]
    <3>1. i \in Elements(o)
      BY <1>4, <1>6, <2>2
    <3>2. PICK n \in DOMAIN o : o[n] = i
      BY <3>1 DEF Elements
    <3> QED
      BY <1>8, <3>2
  <2> QED
    BY <2>1, <2>2 DEF Elements
<1>11. ASSUME NoRepeats(p) PROVE NoRepeats(w)
  <2>1. \A m, n \in DOMAIN w : w[m] = w[n] => o[m] = o[n]
    BY <1>3, <1>7, <1>8, <1>11 DEF NoRepeats
  <2> QED
    BY <1>6, <1>8, <2>1 DEF NoRepeats
<1> QED
  BY <1>9, <1>10, <1>11 DEF w
=============================================================================
