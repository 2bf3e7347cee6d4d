-------------------------- MODULE Sequence_proofs ---------------------------
(***************************************************************************)
(* Facts about sequences the proofs of several components rest on: what    *)
(* the three ways of changing the queue of a lock - acquire, release and   *)
(* cancellation - do to who is in it, to its head and to its elements      *)
(* being distinct; and where the parts of a packet stand that is put       *)
(* together of several, which takes induction over its parts.              *)
(***************************************************************************)
EXTENDS TaskQueue, SequencesExt, SequenceTheorems, WellFoundedInduction, TLAPS

-----------------------------------------------------------------------------
(* Queues of tasks.                                                        *)

\* acquire() of a task that is not in the queue.
LEMMA AppendQueue ==
  ASSUME NEW S, NEW s \in Seq(S), NEW x \in S
  PROVE  /\ Append(s, x) \in Seq(S)
         /\ Append(s, x) # <<>>
         /\ s # <<>> => Head(Append(s, x)) = Head(s)
         /\ \A y : InQ(Append(s, x), y) <=> InQ(s, y) \/ y = x
         /\ Distinct(s) /\ ~InQ(s, x) => Distinct(Append(s, x))
<1>1. /\ Append(s, x) \in Seq(S)
      /\ Append(s, x) # <<>>
      /\ Len(Append(s, x)) = Len(s) + 1
      /\ \A i \in 1..Len(s) : Append(s, x)[i] = s[i]
      /\ Append(s, x)[Len(s) + 1] = x
  BY AppendProperties
<1>2. Len(s) \in Nat /\ (s # <<>> => Len(s) # 0)
  BY EmptySeq
<1>3. s # <<>> => Head(Append(s, x)) = Head(s)
  BY <1>1, <1>2
<1>4. \A y : InQ(Append(s, x), y) <=> InQ(s, y) \/ y = x
  BY <1>1, <1>2 DEF InQ
<1>5. Distinct(s) /\ ~InQ(s, x) => Distinct(Append(s, x))
  BY <1>1, <1>2 DEF InQ, Distinct
<1> QED BY <1>1, <1>3, <1>4, <1>5

\* release() by the head of the queue.
LEMMA TailQueue ==
  ASSUME NEW S, NEW s \in Seq(S), s # <<>>
  PROVE  /\ Tail(s) \in Seq(S)
         /\ Head(s) \in S
         /\ InQ(s, Head(s))
         /\ \A y : InQ(Tail(s), y) => InQ(s, y)
         /\ \A y : InQ(s, y) /\ y # Head(s) => InQ(Tail(s), y)
         /\ Distinct(s) => Distinct(Tail(s)) /\ ~InQ(Tail(s), Head(s))
<1>1. /\ Head(s) \in S /\ Tail(s) \in Seq(S)
      /\ Len(Tail(s)) = Len(s) - 1
      /\ \A i \in 1..Len(Tail(s)) : Tail(s)[i] = s[i+1]
  BY HeadTailProperties
<1>2. Len(s) \in Nat /\ Len(s) # 0 /\ Head(s) = s[1]
  BY EmptySeq
<1>3. InQ(s, Head(s))
  BY <1>2 DEF InQ
<1>4. \A y : InQ(Tail(s), y) => InQ(s, y)
  BY <1>1, <1>2 DEF InQ
<1>5. ASSUME NEW y, InQ(s, y), y # Head(s) PROVE InQ(Tail(s), y)
  <2>1. PICK i \in 1..Len(s) : s[i] = y
    BY <1>5 DEF InQ
  <2>2. i # 1 /\ i - 1 \in 1..Len(Tail(s)) /\ Tail(s)[i-1] = s[(i-1)+1]
    BY <1>1, <1>2, <1>5, <2>1
  <2> QED BY <2>1, <2>2 DEF InQ
<1>6. Distinct(s) => Distinct(Tail(s)) /\ ~InQ(Tail(s), Head(s))
  BY <1>1, <1>2 DEF InQ, Distinct
<1> QED BY <1>1, <1>3, <1>4, <1>5, <1>6

\* A waiter or the holder is cancelled.
LEMMA WithoutQueue ==
  ASSUME NEW S, NEW s \in Seq(S), NEW x
  PROVE  /\ Without(s, x) \in Seq(S)
         /\ \A y : InQ(Without(s, x), y) => InQ(s, y)
         /\ \A y : InQ(s, y) /\ y # x => InQ(Without(s, x), y)
         /\ Distinct(s) => Distinct(Without(s, x)) /\ ~InQ(Without(s, x), x)
         /\ s # <<>> /\ Head(s) # x
              => Without(s, x) # <<>> /\ Head(Without(s, x)) = Head(s)
<1>1. CASE ~InQ(s, x)
  BY <1>1 DEF Without
<1>2. CASE InQ(s, x)
  <2> DEFINE i0 == CHOOSE i \in 1..Len(s) : s[i] = x
             w  == [j \in 1..(Len(s)-1) |-> IF j < i0 THEN s[j] ELSE s[j+1]]
  <2>1. i0 \in 1..Len(s) /\ s[i0] = x
    BY <1>2 DEF InQ
  <2>2. Without(s, x) = w
    BY <1>2 DEF Without
  <2>3. Len(s) \in Nat /\ \A i \in 1..Len(s) : s[i] \in S
    BY ElementOfSeq
  <2> HIDE DEF i0
  <2>4. Len(s) - 1 \in Nat /\ \A j \in 1..(Len(s)-1) : w[j] \in S
    BY <2>1, <2>3
  <2>5. w \in Seq(S) /\ Len(w) = Len(s) - 1
    BY <2>4, IsASeq
  <2>6. \A j \in 1..Len(w) : w[j] = IF j < i0 THEN s[j] ELSE s[j+1]
    BY <2>5
  <2> HIDE DEF w
  <2>7. \A y : InQ(w, y) => InQ(s, y)
    BY <2>1, <2>3, <2>5, <2>6 DEF InQ
  <2>8. ASSUME NEW y, InQ(s, y), y # x PROVE InQ(w, y)
    <3>1. PICK i \in 1..Len(s) : s[i] = y
      BY <2>8 DEF InQ
    <3>2. CASE i < i0
      BY <2>1, <2>3, <2>5, <2>6, <3>1, <3>2 DEF InQ
    <3>3. CASE i > i0
      <4>1. i - 1 \in 1..Len(w) /\ w[i-1] = s[(i-1)+1] /\ (i-1)+1 = i
        BY <2>1, <2>3, <2>5, <2>6, <3>1, <3>3
      <4> QED BY <4>1, <3>1 DEF InQ
    <3> QED BY <2>1, <2>3, <2>8, <3>1, <3>2, <3>3
  <2>9. Distinct(s) => Distinct(w) /\ ~InQ(w, x)
    <3> SUFFICES ASSUME Distinct(s) PROVE Distinct(w) /\ ~InQ(w, x)
      OBVIOUS
    <3>1. \A j \in 1..Len(w) : \E i \in 1..Len(s) :
            w[j] = s[i] /\ i # i0 /\ i = IF j < i0 THEN j ELSE j + 1
      BY <2>1, <2>3, <2>5, <2>6
    <3>2. ~InQ(w, x)
      BY <2>1, <3>1 DEF InQ, Distinct
    <3>3. ASSUME NEW j \in 1..Len(w), NEW k \in 1..Len(w), w[j] = w[k]
          PROVE  j = k
      <4>1. PICK i \in 1..Len(s) : w[j] = s[i] /\ i = IF j < i0 THEN j ELSE j + 1
        BY <3>1
      <4>2. PICK l \in 1..Len(s) : w[k] = s[l] /\ l = IF k < i0 THEN k ELSE k + 1
        BY <3>1
      <4>3. i = l
        BY <3>3, <4>1, <4>2 DEF Distinct
      <4> QED BY <2>1, <2>3, <2>5, <4>1, <4>2, <4>3
    <3> QED BY <3>2, <3>3 DEF Distinct
  <2>10. s # <<>> /\ Head(s) # x => w # <<>> /\ Head(w) = Head(s)
    <3> SUFFICES ASSUME s # <<>>, Head(s) # x PROVE w # <<>> /\ Head(w) = Head(s)
      OBVIOUS
    <3>1. Head(s) = s[1] /\ i0 > 1 /\ Len(s) > 1
      BY <2>1, <2>3, EmptySeq
    <3>2. Len(w) # 0 /\ w[1] = s[1]
      BY <2>1, <2>3, <2>5, <2>6, <3>1
    <3> QED BY <2>5, <3>1, <3>2, EmptySeq
  <2> QED BY <2>2, <2>5, <2>7, <2>8, <2>9, <2>10
<1> QED BY <1>1, <1>2

-----------------------------------------------------------------------------
(* Induction.                                                              *)

\* A nonempty set of natural numbers has a least element.
LEMMA Least ==
  ASSUME NEW T \in SUBSET Nat, T # {}
  PROVE  \E m \in T : \A k \in T : m <= k
<1> DEFINE R == OpToRel(<, Nat)
<1>1. IsWellFoundedOn(R, Nat)
  BY NatLessThanWellFounded
<1>2. \A x, y \in Nat : x < y => <<x, y>> \in R
  BY DEF OpToRel
<1> HIDE DEF R
<1>3. PICK m \in T : \A k \in T : ~(<<k, m>> \in R)
  BY <1>1, WFMin
<1>4. ASSUME NEW k \in T PROVE m <= k
  <2>1. m \in Nat /\ k \in Nat /\ ~(k < m)
    BY <1>2, <1>3
  <2> QED BY <2>1
<1> QED BY <1>3, <1>4

\* Induction, for a set instead of a predicate.
LEMMA Induction ==
  ASSUME NEW T, 0 \in T, \A n \in Nat : n \in T => n + 1 \in T
  PROVE  \A n \in Nat : n \in T
<1> SUFFICES ASSUME Nat \ T # {} PROVE FALSE
  OBVIOUS
<1>1. PICK m \in Nat \ T : \A k \in Nat \ T : m <= k
  BY Least
<1>2. m # 0 /\ m - 1 \in Nat
  BY <1>1
<1>3. m - 1 \in T
  BY <1>1, <1>2
<1> QED BY <1>1, <1>2, <1>3

\* Min and Max of a set of natural numbers.
LEMMA MinIs ==
  ASSUME NEW T \in SUBSET Nat, T # {}
  PROVE  Min(T) \in T /\ \A k \in T : Min(T) <= k
BY Least DEF Min

LEMMA MaxIs ==
  ASSUME NEW T \in SUBSET Nat, T # {}, NEW n \in Nat, \A k \in T : k <= n
  PROVE  Max(T) \in T /\ \A k \in T : k <= Max(T)
<1> DEFINE S == {n - k : k \in T}
<1>1. S \in SUBSET Nat /\ S # {}
  <2>1. \A k \in T : n - k \in Nat
    OBVIOUS
  <2> QED BY <2>1
<1>2. PICK m \in S : \A j \in S : m <= j
  BY <1>1, Least
<1>3. PICK k \in T : m = n - k
  BY <1>2
<1>4. \A j \in T : k >= j
  <2> SUFFICES ASSUME NEW j \in T PROVE k >= j
    OBVIOUS
  <2>1. n - j \in S
    OBVIOUS
  <2>2. n - k <= n - j
    BY <1>2, <1>3, <2>1
  <2> QED BY <2>2
<1>5. Max(T) \in T /\ \A j \in T : Max(T) >= j
  BY <1>3, <1>4 DEF Max
<1> QED BY <1>5

-----------------------------------------------------------------------------
(* Concatenations and slices.                                              *)

\* The recursion of FlattenSeq.
Flattens(g, ss, n) == g = [i \in 1..n |-> IF i = 1 THEN ss[i] ELSE g[i - 1] \o ss[i]]

LEMMA FlattensExist ==
  ASSUME NEW ss, NEW n \in Nat
  PROVE  \E g : Flattens(g, ss, n)
<1> DEFINE T == {m \in Nat : \E g : Flattens(g, ss, m)}
<1>1. 0 \in T
  <2> DEFINE h == [i \in 1..0 |-> <<>>]
  <2>1. Flattens(h, ss, 0)
    BY DEF Flattens
  <2> HIDE DEF h
  <2> QED BY <2>1
<1>2. ASSUME NEW m \in Nat, m \in T PROVE m + 1 \in T
  <2>1. PICK g : Flattens(g, ss, m)
    BY <1>2
  <2> DEFINE h == [i \in 1..(m + 1) |->
                IF i <= m THEN g[i] ELSE IF i = 1 THEN ss[i] ELSE g[m] \o ss[i]]
  <2>2. ASSUME NEW i \in 1..(m + 1)
        PROVE  h[i] = IF i = 1 THEN ss[i] ELSE h[i - 1] \o ss[i]
    <3>1. CASE i <= m
      <4>1. i \in 1..m /\ (i # 1 => i - 1 \in 1..m)
        BY <3>1
      <4>2. g[i] = IF i = 1 THEN ss[i] ELSE g[i - 1] \o ss[i]
        BY <2>1, <4>1 DEF Flattens
      <4> QED BY <3>1, <4>1, <4>2
    <3>2. CASE ~(i <= m)
      <4>1. i = m + 1 /\ (i # 1 => m \in 1..(m + 1) /\ i - 1 = m)
        BY <3>2
      <4> QED BY <3>2, <4>1
    <3> QED BY <3>1, <3>2
  <2>3. Flattens(h, ss, m + 1)
    BY <2>2 DEF Flattens
  <2> HIDE DEF h
  <2> QED BY <2>3
<1> HIDE DEF T
<1>3. n \in T
  BY <1>1, <1>2, Induction
<1> QED BY <1>3 DEF T

LEMMA FlattenSeqIs ==
  ASSUME NEW S, NEW ss \in Seq(Seq(S))
  PROVE  \E g : /\ Flattens(g, ss, Len(ss))
                /\ FlattenSeq(ss) = IF Len(ss) = 0 THEN ss ELSE g[Len(ss)]
<1> DEFINE flatten[i \in 1..Len(ss)] == IF i = 1 THEN ss[i] ELSE flatten[i - 1] \o ss[i]
<1>1. FlattenSeq(ss) = IF Len(ss) = 0 THEN ss ELSE flatten[Len(ss)]
  BY DEF FlattenSeq
<1>2. Flattens(flatten, ss, Len(ss))
  <2>1. Len(ss) \in Nat
    BY LenProperties
  <2>2. PICK g : Flattens(g, ss, Len(ss))
    BY <2>1, FlattensExist
  <2> QED BY <2>2 DEF Flattens
<1> HIDE DEF flatten
<1> QED BY <1>1, <1>2

\* Where the parts of a concatenation begin, less one.
BeginsAt(p, ss) == p = [i \in 0..Len(ss) |-> IF i = 0 THEN 0 ELSE p[i - 1] + Len(ss[i])]

\* The parts stand one behind the other.
Laid(p, ss, whole) ==
  /\ BeginsAt(p, ss) /\ p \in [0..Len(ss) -> Nat] /\ Len(whole) = p[Len(ss)]
  /\ \A k \in 1..Len(ss) : \A j \in 1..Len(ss[k]) :
       p[k - 1] + j \in 1..Len(whole) /\ whole[p[k - 1] + j] = ss[k][j]

\* A concatenation holds its parts one behind the other.
LEMMA FlattenSeqHolds ==
  ASSUME NEW S, NEW ss \in Seq(Seq(S))
  PROVE  FlattenSeq(ss) \in Seq(S) /\ \E p : Laid(p, ss, FlattenSeq(ss))
<1>0. Len(ss) \in Nat
  BY LenProperties
<1>1. PICK g : /\ Flattens(g, ss, Len(ss))
               /\ FlattenSeq(ss) = IF Len(ss) = 0 THEN ss ELSE g[Len(ss)]
  BY FlattenSeqIs
<1> DEFINE p == [i \in 0..Len(ss) |-> IF i = 0 THEN 0 ELSE Len(g[i])]
           Holds(k, i) == \A j \in 1..Len(ss[k]) :
                            p[k - 1] + j \in 1..Len(g[i]) /\ g[i][p[k - 1] + j] = ss[k][j]
           Q(i) == /\ g[i] \in Seq(S) /\ p[i] = p[i - 1] + Len(ss[i])
                   /\ \A k \in 1..i : Holds(k, i)
           T == {i \in Nat : i + 1 <= Len(ss) => Q(i + 1)}
<1>a. p[0] = 0 /\ \A i \in 1..Len(ss) : p[i] = Len(g[i])
  BY <1>0
<1>b. \A k \in 1..Len(ss) : ss[k] \in Seq(S) /\ Len(ss[k]) \in Nat
  <2> SUFFICES ASSUME NEW k \in 1..Len(ss) PROVE ss[k] \in Seq(S) /\ Len(ss[k]) \in Nat
    OBVIOUS
  <2>1. ss[k] \in Seq(S)
    BY ElementOfSeq
  <2> QED BY <2>1, LenProperties
<1> HIDE DEF p, Q, T, Holds
<1>2. 0 \in T
  <2> SUFFICES ASSUME 0 + 1 <= Len(ss) PROVE Q(1)
    BY DEF T
  <2>1. 1 \in 1..Len(ss) /\ g[1] = ss[1]
    BY <1>0, <1>1 DEF Flattens
  <2>2. p[1 - 1] = 0 /\ p[1] = Len(ss[1]) /\ ss[1] \in Seq(S) /\ Len(ss[1]) \in Nat
    BY <1>a, <1>b, <2>1
  <2>3. Holds(1, 1)
    BY <2>1, <2>2 DEF Holds
  <2>4. \A k \in 1..1 : Holds(k, 1)
    BY <2>3
  <2> QED BY <2>1, <2>2, <2>4 DEF Q
<1>3. ASSUME NEW i \in Nat, i \in T PROVE i + 1 \in T
  <2> SUFFICES ASSUME (i + 1) + 1 <= Len(ss) PROVE Q((i + 1) + 1)
    BY DEF T
  <2> DEFINE m == i + 1
  <2>1. m \in 1..Len(ss) /\ m + 1 \in 1..Len(ss) /\ (m + 1) - 1 = m /\ m + 1 # 1
    BY <1>0
  <2>2. Q(m)
    BY <1>0, <1>3 DEF T
  <2> HIDE DEF m
  <2>3. g[m + 1] = g[m] \o ss[m + 1]
    BY <2>1, <1>1 DEF Flattens
  <2>4. g[m] \in Seq(S) /\ ss[m + 1] \in Seq(S)
    BY <1>b, <2>1, <2>2 DEF Q
  <2>5. PICK a, b \in Nat : a = Len(g[m]) /\ b = Len(ss[m + 1])
    BY <2>4, LenProperties
  <2>6. /\ g[m + 1] \in Seq(S) /\ Len(g[m + 1]) = a + b
        /\ \A x \in 1..(a + b) :
             g[m + 1][x] = IF x <= a THEN g[m][x] ELSE ss[m + 1][x - a]
    <3> DEFINE s1 == g[m]
               s2 == ss[m + 1]
    <3>1. s1 \in Seq(S) /\ s2 \in Seq(S) /\ a = Len(s1) /\ b = Len(s2)
      BY <2>4, <2>5
    <3> HIDE DEF s1, s2
    <3>2. /\ s1 \o s2 \in Seq(S) /\ Len(s1 \o s2) = a + b
          /\ \A x \in 1..(a + b) : (s1 \o s2)[x] = IF x <= a THEN s1[x] ELSE s2[x - a]
      BY <3>1, ConcatProperties
    <3> QED BY <2>3, <3>2 DEF s1, s2
  <2>7. p[m] = a /\ p[m + 1] = a + b
    BY <1>a, <2>1, <2>5, <2>6
  <2>8. ASSUME NEW k \in 1..(m + 1), NEW j \in 1..Len(ss[k])
        PROVE  /\ p[k - 1] + j \in 1..Len(g[m + 1])
               /\ g[m + 1][p[k - 1] + j] = ss[k][j]
    <3>1. CASE k = m + 1
      <4>1. k - 1 = m /\ j \in 1..b
        BY <2>1, <2>5, <3>1
      <4>2. a + j \in 1..(a + b) /\ ~(a + j <= a) /\ (a + j) - a = j
        BY <4>1
      <4> QED BY <2>6, <2>7, <3>1, <4>1, <4>2
    <3>2. CASE k # m + 1
      <4>1. k \in 1..m
        BY <2>1, <3>2
      <4>2. PICK x \in 1..a : x = p[k - 1] + j /\ g[m][x] = ss[k][j]
        BY <2>2, <2>5, <4>1 DEF Q, Holds
      <4>3. x \in 1..(a + b) /\ x <= a
        OBVIOUS
      <4> QED BY <2>6, <4>2, <4>3
    <3> QED BY <3>1, <3>2
  <2>9. p[m + 1] = p[(m + 1) - 1] + Len(ss[m + 1])
    BY <2>1, <2>5, <2>7
  <2>10. \A k \in 1..(m + 1) : Holds(k, m + 1)
    BY <2>8 DEF Holds
  <2> QED BY <2>6, <2>9, <2>10 DEF m, Q
<1>4. ASSUME NEW i \in 1..Len(ss) PROVE Q(i)
  <2>1. i - 1 \in Nat /\ (i - 1) + 1 = i /\ i <= Len(ss)
    BY <1>0
  <2>2. i - 1 \in T
    BY <2>1, <1>2, <1>3, Induction
  <2>3. (i - 1) + 1 <= Len(ss) => Q((i - 1) + 1)
    BY <2>2 DEF T
  <2> QED BY <2>1, <2>3
<1>5. p \in [0..Len(ss) -> Nat]
  <2>1. ASSUME NEW i \in 0..Len(ss) PROVE p[i] \in Nat
    <3>1. CASE i = 0
      BY <1>a, <3>1
    <3>2. CASE i # 0
      <4>0. i \in 1..Len(ss)
        BY <1>0, <3>2
      <4>1. g[i] \in Seq(S)
        BY <1>4, <4>0 DEF Q
      <4>2. Len(g[i]) \in Nat
        BY <4>1, LenProperties
      <4> QED BY <1>a, <4>0, <4>2
    <3> QED BY <3>1, <3>2
  <2>2. p = [i \in 0..Len(ss) |-> p[i]]
    BY DEF p
  <2> QED BY <2>1, <2>2
<1>6. BeginsAt(p, ss)
  <2>1. ASSUME NEW i \in 0..Len(ss)
        PROVE  p[i] = IF i = 0 THEN 0 ELSE p[i - 1] + Len(ss[i])
    <3>1. CASE i = 0
      BY <1>a, <3>1
    <3>2. CASE i # 0
      <4>0. i \in 1..Len(ss)
        BY <1>0, <3>2
      <4> QED BY <1>4, <3>2, <4>0 DEF Q
    <3> QED BY <3>1, <3>2
  <2>2. p = [i \in 0..Len(ss) |-> p[i]]
    BY DEF p
  <2> QED BY <2>1, <2>2 DEF BeginsAt
<1>8. CASE Len(ss) = 0
  <2>1. ss = <<>> /\ FlattenSeq(ss) = ss
    BY <1>1, <1>8, EmptySeq
  <2>2. FlattenSeq(ss) \in Seq(S) /\ Len(FlattenSeq(ss)) = 0
    BY <2>1, EmptySeq
  <2>3. 1..Len(ss) = {}
    BY <1>8
  <2>4. Laid(p, ss, FlattenSeq(ss))
    BY <1>a, <1>5, <1>6, <1>8, <2>2, <2>3 DEF Laid
  <2> QED BY <2>2, <2>4
<1>9. CASE Len(ss) # 0
  <2>1. Len(ss) \in 1..Len(ss) /\ FlattenSeq(ss) = g[Len(ss)]
    BY <1>0, <1>1, <1>9
  <2>2. Q(Len(ss)) /\ p[Len(ss)] = Len(g[Len(ss)])
    BY <1>a, <1>4, <2>1
  <2>3. /\ FlattenSeq(ss) \in Seq(S) /\ Len(FlattenSeq(ss)) = p[Len(ss)]
        /\ \A k \in 1..Len(ss) : \A j \in 1..Len(ss[k]) :
             /\ p[k - 1] + j \in 1..Len(FlattenSeq(ss))
             /\ FlattenSeq(ss)[p[k - 1] + j] = ss[k][j]
    BY <2>1, <2>2 DEF Q, Holds
  <2>4. Laid(p, ss, FlattenSeq(ss))
    BY <1>5, <1>6, <2>3 DEF Laid
  <2> QED BY <2>3, <2>4
<1> QED BY <1>8, <1>9

LEMMA Associative ==
  ASSUME NEW S, NEW a \in Seq(S), NEW b \in Seq(S), NEW c \in Seq(S)
  PROVE  (a \o b) \o c = a \o (b \o c)
BY ConcatAssociative

\* What is put together from the end is the concatenation.
LEMMA FlattenFromEnd ==
  ASSUME NEW S, NEW ss \in Seq(Seq(S)), NEW r \in [1..(Len(ss) + 1) -> Seq(S)],
         r[Len(ss) + 1] = <<>>, \A i \in 1..Len(ss) : r[i] = ss[i] \o r[i + 1]
  PROVE  r[1] = FlattenSeq(ss)
<1>0. Len(ss) \in Nat
  BY LenProperties
<1>a. ASSUME NEW k \in 1..Len(ss) PROVE ss[k] \in Seq(S) /\ r[k] \in Seq(S) /\ r[k + 1] \in Seq(S)
  <2>1. k \in 1..(Len(ss) + 1) /\ k + 1 \in 1..(Len(ss) + 1)
    BY <1>0
  <2> QED BY <2>1, ElementOfSeq
<1>1. PICK g : /\ Flattens(g, ss, Len(ss))
               /\ FlattenSeq(ss) = IF Len(ss) = 0 THEN ss ELSE g[Len(ss)]
  BY FlattenSeqIs
<1> DEFINE Q(i) == g[i] \in Seq(S) /\ g[i] \o r[i + 1] = r[1]
           T == {i \in Nat : i + 1 <= Len(ss) => Q(i + 1)}
<1> HIDE DEF Q, T
<1>2. 0 \in T
  <2> SUFFICES ASSUME 0 + 1 <= Len(ss) PROVE Q(1)
    BY DEF T
  <2>1. 1 \in 1..Len(ss) /\ g[1] = ss[1]
    BY <1>0, <1>1 DEF Flattens
  <2>2. g[1] \in Seq(S) /\ r[1] = ss[1] \o r[1 + 1]
    BY <1>a, <2>1
  <2> QED BY <2>1, <2>2 DEF Q
<1>3. ASSUME NEW i \in Nat, i \in T PROVE i + 1 \in T
  <2> SUFFICES ASSUME (i + 1) + 1 <= Len(ss) PROVE Q((i + 1) + 1)
    BY DEF T
  <2> DEFINE m == i + 1
  <2>1. m \in 1..Len(ss) /\ m + 1 \in 1..Len(ss) /\ (m + 1) - 1 = m /\ m + 1 # 1
    BY <1>0
  <2>2. Q(m)
    BY <1>0, <1>3 DEF T
  <2> HIDE DEF m
  <2>3. g[m + 1] = g[m] \o ss[m + 1]
    BY <2>1, <1>1 DEF Flattens
  <2>4. g[m] \in Seq(S) /\ ss[m + 1] \in Seq(S) /\ r[(m + 1) + 1] \in Seq(S)
    BY <1>a, <2>1, <2>2 DEF Q
  <2>5. r[m + 1] = ss[m + 1] \o r[(m + 1) + 1]
    BY <2>1
  <2>6. g[m + 1] \in Seq(S)
    BY <2>3, <2>4, ConcatProperties
  <2>7. g[m + 1] \o r[(m + 1) + 1] = g[m] \o r[m + 1]
    <3>1. PICK s1 \in Seq(S), s2 \in Seq(S), s3 \in Seq(S) :
            s1 = g[m] /\ s2 = ss[m + 1] /\ s3 = r[(m + 1) + 1]
      BY <2>4
    <3>2. (s1 \o s2) \o s3 = s1 \o (s2 \o s3)
      BY Associative, SMTT(120)
    <3> QED BY <2>3, <2>5, <3>1, <3>2
  <2>8. g[m] \o r[m + 1] = r[1]
    BY <2>2 DEF Q
  <2> QED BY <2>6, <2>7, <2>8 DEF m, Q
<1>4. ASSUME NEW i \in 1..Len(ss) PROVE Q(i)
  <2>1. i - 1 \in Nat /\ (i - 1) + 1 = i /\ i <= Len(ss)
    BY <1>0
  <2>2. i - 1 \in T
    BY <2>1, <1>2, <1>3, Induction
  <2>3. (i - 1) + 1 <= Len(ss) => Q((i - 1) + 1)
    BY <2>2 DEF T
  <2> QED BY <2>1, <2>3
<1>5. CASE Len(ss) = 0
  <2>1. ss = <<>> /\ r[1] = <<>>
    BY <1>0, <1>5, EmptySeq
  <2> QED BY <1>1, <1>5, <2>1
<1>6. CASE Len(ss) # 0
  <2>1. Len(ss) \in 1..Len(ss) /\ FlattenSeq(ss) = g[Len(ss)]
    BY <1>0, <1>1, <1>6
  <2>2. g[Len(ss)] \in Seq(S) /\ g[Len(ss)] \o r[Len(ss) + 1] = r[1]
    BY <1>4, <2>1 DEF Q
  <2>3. g[Len(ss)] \o <<>> = g[Len(ss)]
    BY <2>2, ConcatEmptySeq
  <2> QED BY <2>1, <2>2, <2>3
<1> QED BY <1>5, <1>6

\* A slice of a packet.
LEMMA Slice ==
  ASSUME NEW data \in Seq(Nat), NEW a \in 1..Len(data), NEW l \in Nat, NEW b, b = a + l - 1,
         b <= Len(data)
  PROVE  /\ SubSeq(data, a, b) \in Seq(Nat) /\ Len(SubSeq(data, a, b)) = l
         /\ \A i \in 1..l : SubSeq(data, a, b)[i] = data[a + i - 1]
<1>1. \A i \in a..b : data[i] \in Nat
  <2>1. ASSUME NEW i \in a..b PROVE data[i] \in Nat
    <3>1. i \in 1..Len(data)
      BY LenProperties
    <3> QED BY <3>1, ElementOfSeq
  <2> QED BY <2>1
<1>2. a \in Int /\ b \in Int /\ Len(data) \in Nat
  BY LenProperties
<1>3. (IF a <= b THEN b - a + 1 ELSE 0) = l /\ b - a + 1 = l
  BY <1>2
<1>4. SubSeq(data, a, b) \in Seq(Nat) /\ Len(SubSeq(data, a, b)) = l
  BY <1>1, <1>2, <1>3, SubSeqProperties
<1>5. \A i \in 1..(b - a + 1) : SubSeq(data, a, b)[i] = data[a + i - 1]
  BY <1>1, <1>2, SubSeqProperties
<1> QED BY <1>3, <1>4, <1>5

\* Slices of two sequences that agree there.
Agree(s, a, x, t, b, y, l) ==
  /\ a > 0 /\ x = a + l - 1 /\ x <= Len(s) /\ b > 0 /\ y = b + l - 1 /\ y <= Len(t)
  /\ \A i \in 0..(l - 1) : s[a + i] = t[b + i]

Cut(s, a, x) == SubSeq(s, a, x)

LEMMA SameSlice ==
  ASSUME NEW s \in Seq(Nat), NEW t \in Seq(Nat), NEW a \in Nat, NEW b \in Nat,
         NEW l \in Nat, NEW x, NEW y, Agree(s, a, x, t, b, y, l)
  PROVE  Cut(s, a, x) = Cut(t, b, y)
<1>a. /\ a > 0 /\ x = a + l - 1 /\ x <= Len(s) /\ b > 0 /\ y = b + l - 1 /\ y <= Len(t)
      /\ \A i \in 0..(l - 1) : s[a + i] = t[b + i]
  BY DEF Agree
<1>0. /\ x \in Int /\ y \in Int /\ Len(s) \in Nat /\ Len(t) \in Nat
      /\ a > 0 /\ x = a + l - 1 /\ x <= Len(s) /\ b > 0 /\ y = b + l - 1 /\ y <= Len(t)
  BY <1>a, LenProperties
<1>1. \A i \in a..x : s[i] \in Nat
  <2>1. \A i \in a..x : i \in 1..Len(s)
    BY <1>0
  <2> QED BY <2>1, ElementOfSeq
<1>2. \A i \in b..y : t[i] \in Nat
  <2>1. \A i \in b..y : i \in 1..Len(t)
    BY <1>0
  <2> QED BY <2>1, ElementOfSeq
<1>3. /\ SubSeq(s, a, x) \in Seq(Nat) /\ Len(SubSeq(s, a, x)) = l
      /\ \A i \in 1..l : SubSeq(s, a, x)[i] = s[a + i - 1]
  <2>1. (IF a <= x THEN x - a + 1 ELSE 0) = l /\ x - a + 1 = l
    BY <1>0
  <2> QED BY <1>0, <1>1, <2>1, SubSeqProperties
<1>4. /\ SubSeq(t, b, y) \in Seq(Nat) /\ Len(SubSeq(t, b, y)) = l
      /\ \A i \in 1..l : SubSeq(t, b, y)[i] = t[b + i - 1]
  <2>1. (IF b <= y THEN y - b + 1 ELSE 0) = l /\ y - b + 1 = l
    BY <1>0
  <2> QED BY <1>0, <1>2, <2>1, SubSeqProperties
<1>5. ASSUME NEW i \in 1..l PROVE SubSeq(s, a, x)[i] = SubSeq(t, b, y)[i]
  <2>1. i - 1 \in 0..(l - 1) /\ a + (i - 1) = a + i - 1 /\ b + (i - 1) = b + i - 1
    OBVIOUS
  <2>2. s[a + (i - 1)] = t[b + (i - 1)]
    BY <1>a, <2>1
  <2> QED BY <1>3, <1>4, <2>1, <2>2
<1>6. SubSeq(s, a, x) = SubSeq(t, b, y)
  BY <1>3, <1>4, <1>5, SeqEqual
<1> QED BY <1>6 DEF Cut

LEMMA Joined ==
  ASSUME NEW S, NEW s \in Seq(S), NEW t \in Seq(S), NEW a \in Nat, NEW b \in Nat,
         Len(s) = a, Len(t) = b
  PROVE  /\ s \o t \in Seq(S) /\ Len(s \o t) = a + b
         /\ \A x \in 1..(a + b) : (s \o t)[x] = IF x <= a THEN s[x] ELSE t[x - a]
BY ConcatProperties

\* A sequence with one more element in front.
Extends(all, first, tl, i) ==
  /\ tl = [j \in 1..i |-> tl[j]] /\ all = [j \in 1..(i + 1) |-> all[j]]
  /\ all[1] = first /\ \A j \in 1..i : all[1 + j] = tl[j]

LEMMA Prefixed ==
  ASSUME NEW i \in Nat, NEW first, NEW tl, NEW all, Extends(all, first, tl, i)
  PROVE  <<first>> \o tl = all
<1> USE DEF Extends
<1>0. \E S : S = {all[j] : j \in 1..(i + 1)}
  OBVIOUS
<1>a. PICK S : S = {all[j] : j \in 1..(i + 1)}
  BY <1>0
<1> DEFINE one == <<first>>
<1>1. one \in Seq(S) /\ Len(one) = 1 /\ one[1] = first
  <2>1. 1 \in 1..(i + 1)
    OBVIOUS
  <2>2. first \in S
    BY <1>a, <2>1
  <2> QED BY <2>2
<1>2. tl \in Seq(S) /\ Len(tl) = i
  <2>1. ASSUME NEW j \in 1..i PROVE tl[j] \in S
    <3>1. 1 + j \in 1..(i + 1)
      OBVIOUS
    <3> QED BY <1>a, <3>1
  <2>2. tl \in [1..i -> S]
    BY <2>1
  <2> QED BY SMTT(40), <2>2
<1>3. all \in Seq(S) /\ Len(all) = i + 1
  <2>1. \A j \in 1..(i + 1) : all[j] \in S
    BY <1>a
  <2>2. all \in [1..(i + 1) -> S]
    BY <2>1
  <2>3. i + 1 \in Nat
    OBVIOUS
  <2> QED BY <2>2, <2>3
<1> HIDE DEF one
<1>4. /\ one \o tl \in Seq(S) /\ Len(one \o tl) = 1 + i
      /\ \A j \in 1..(1 + i) : (one \o tl)[j] = IF j <= 1 THEN one[j] ELSE tl[j - 1]
  <2>1. PICK u \in Seq(S), v \in Seq(S) : u = one /\ v = tl
    BY <1>1, <1>2
  <2>2. PICK o \in Nat : o = 1
    OBVIOUS
  <2>3. Len(u) = o /\ Len(v) = i
    BY <1>1, <1>2, <2>1, <2>2
  <2>4. /\ u \o v \in Seq(S) /\ Len(u \o v) = o + i
        /\ \A j \in 1..(o + i) : (u \o v)[j] = IF j <= o THEN u[j] ELSE v[j - o]
    BY <2>3, Joined
  <2> QED BY <2>1, <2>2, <2>4
<1>5. ASSUME NEW j \in 1..(i + 1) PROVE (one \o tl)[j] = all[j]
  <2>1. CASE j = 1
    <3>1. 1 \in 1..(1 + i) /\ 1 <= 1
      OBVIOUS
    <3> QED BY <1>1, <1>4, <2>1, <3>1
  <2>2. CASE j # 1
    <3>1. PICK k \in 1..i : k = j - 1 /\ 1 + k = j
      <4>1. j - 1 \in 1..i /\ 1 + (j - 1) = j
        BY <2>2
      <4> QED BY <4>1
    <3>2. j \in 1..(1 + i) /\ ~(j <= 1)
      BY <2>2
    <3>3. (one \o tl)[j] = tl[k]
      BY <1>4, <3>1, <3>2
    <3> QED BY <3>1, <3>3
  <2> QED BY <2>1, <2>2
<1>6. Len(one \o tl) = Len(all)
  BY <1>3, <1>4
<1>7. one \o tl = all
  BY <1>3, <1>4, <1>5, <1>6, SeqEqual
<1> QED BY <1>7 DEF one

\* A function over the numbers up to n is a sequence.
LEMMA Arranged ==
  ASSUME NEW S, NEW n \in Nat, NEW q \in [1..n -> S]
  PROVE  q \in Seq(S) /\ Len(q) = n
OBVIOUS

\* The end of a sequence after its second element.
EndsAs(p, t, m) == Len(t) = m /\ Len(p) = 2 + m /\ \A j \in 1..m : p[2 + j] = t[j]

EndSliced(p, t, m) == SubSeq(p, 3, 2 + m) = t

LEMMA AfterTwo ==
  ASSUME NEW p \in Seq(Nat), NEW t \in Seq(Nat), NEW m \in Nat, EndsAs(p, t, m)
  PROVE  EndSliced(p, t, m)
<1>1. Len(t) = m /\ Len(p) = 2 + m /\ \A j \in 1..m : p[2 + j] = t[j]
  BY DEF EndsAs
<1>2. \A i \in 3..(2 + m) : p[i] \in Nat
  <2>1. \A i \in 3..(2 + m) : i \in 1..Len(p)
    BY <1>1
  <2> QED BY <2>1, ElementOfSeq
<1>3. (IF 3 <= 2 + m THEN (2 + m) - 3 + 1 ELSE 0) = m /\ (2 + m) - 3 + 1 = m
      /\ 3 \in Int /\ 2 + m \in Int
  OBVIOUS
<1>4. SubSeq(p, 3, 2 + m) \in Seq(Nat) /\ Len(SubSeq(p, 3, 2 + m)) = m
  BY <1>2, <1>3, SubSeqProperties
<1>5. \A x \in 1..((2 + m) - 3 + 1) : SubSeq(p, 3, 2 + m)[x] = p[3 + x - 1]
  BY <1>2, <1>3, SubSeqProperties
<1>6. ASSUME NEW x \in 1..m PROVE SubSeq(p, 3, 2 + m)[x] = t[x]
  <2>1. x \in 1..((2 + m) - 3 + 1) /\ 3 + x - 1 = 2 + x
    OBVIOUS
  <2>2. SubSeq(p, 3, 2 + m)[x] = p[2 + x]
    BY <1>5, <2>1
  <2> QED BY <1>1, <2>2
<1>7. SubSeq(p, 3, 2 + m) = t
  BY <1>1, <1>4, <1>6, SeqEqual
<1> QED BY <1>7 DEF EndSliced
=============================================================================
