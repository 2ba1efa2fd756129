------------------------------ MODULE ListLemmas ------------------------------
(***************************************************************************)
(* Facts about the helpers the models take from SequencesExt and           *)
(* FiniteSetsExt, used by the proofs of several components.                *)
(***************************************************************************)
EXTENDS SequencesExt, SequenceTheorems, FiniteSetTheorems, WellFoundedInduction, TLAPS

\* Every non-empty set of naturals has a least element: with it, the proofs do
\* their inductions.
LEMMA NatMin ==
    ASSUME NEW T, T \subseteq Nat, T # {}
    PROVE  \E x \in T : \A y \in T : x <= y
<1> DEFINE R == OpToRel(<, Nat)
<1>1. IsWellFoundedOn(R, Nat)
  BY NatLessThanWellFounded
<1>2. \A x, y \in Nat : <<y, x>> \in R <=> y < x
  BY DEF OpToRel
<1> HIDE DEF R
<1>3. PICK x \in T : \A y \in T : ~ (<<y, x>> \in R)
  BY <1>1, WFMin, Zenon
<1>4. ASSUME NEW y \in T PROVE x <= y
  <2>1. x \in Nat /\ y \in Nat /\ ~ (<<y, x>> \in R)
    BY <1>3
  <2>2. ~ (y < x)
    BY <2>1, <1>2
  <2> QED BY <2>1, <2>2
<1> QED BY <1>4

\* Min of a set of naturals.
LEMMA MinProperties ==
    ASSUME NEW T, T \subseteq Nat, T # {}
    PROVE  Min(T) \in T /\ \A y \in T : Min(T) <= y
<1>1. \E x \in T : \A y \in T : x <= y
  BY NatMin
<1> QED BY <1>1 DEF Min

\* Max of a bounded set of naturals.
LEMMA MaxProperties ==
    ASSUME NEW n \in Nat, NEW T, T \subseteq 0 .. n, T # {}
    PROVE  Max(T) \in T /\ \A y \in T : Max(T) >= y
<1> DEFINE U == {m \in Nat : n - m \in T}
<1>1. U # {}
  <2>1. PICK y \in T : TRUE
    OBVIOUS
  <2>2. n - y \in U
    BY <2>1
  <2> QED BY <2>2
<1>2. PICK m \in U : \A k \in U : m <= k
  BY <1>1, NatMin
<1>3. ASSUME NEW y \in T PROVE n - m >= y
  <2>1. n - y \in U /\ n \in Nat /\ y \in Nat /\ m \in Nat
    OBVIOUS
  <2>2. m <= n - y
    BY <1>2, <2>1
  <2> QED BY <2>1, <2>2
<1>4. n - m \in T
  OBVIOUS
<1>5. \E x \in T : \A y \in T : x >= y
  BY <1>3, <1>4
<1> QED BY <1>5 DEF Max

\* A list without its i-th element.
LEMMA RemoveAtProperties ==
    ASSUME NEW S, NEW s \in Seq(S), NEW i \in 1 .. Len(s)
    PROVE  /\ RemoveAt(s, i) \in Seq(S)
           /\ Len(RemoveAt(s, i)) = Len(s) - 1
           /\ \A j \in 1 .. Len(s) - 1 :
                 RemoveAt(s, i)[j] = IF j < i THEN s[j] ELSE s[j + 1]
<1> DEFINE a == SubSeq(s, 1, i - 1)
           b == SubSeq(s, i + 1, Len(s))
<1>0. Len(s) \in Nat /\ i \in Nat
  BY LenProperties
<1>1. /\ a \in Seq(S) /\ Len(a) = i - 1
      /\ \A j \in 1 .. i - 1 : a[j] = s[j]
  BY <1>0, SubSeqProperties, ElementOfSeq
<1>2. /\ b \in Seq(S) /\ Len(b) = Len(s) - i
      /\ \A j \in 1 .. Len(s) - i : b[j] = s[i + j]
  BY <1>0, SubSeqProperties, ElementOfSeq
<1>3. RemoveAt(s, i) = a \o b
  BY DEF RemoveAt
<1> HIDE DEF a, b
<1>4. /\ a \o b \in Seq(S) /\ Len(a \o b) = Len(a) + Len(b)
      /\ \A j \in 1 .. Len(a) + Len(b) :
            (a \o b)[j] = IF j <= Len(a) THEN a[j] ELSE b[j - Len(a)]
  BY <1>1, <1>2, ConcatProperties
<1>5. ASSUME NEW j \in 1 .. Len(s) - 1
      PROVE  (a \o b)[j] = IF j < i THEN s[j] ELSE s[j + 1]
  <2>1. CASE j < i
    BY <1>0, <1>1, <1>2, <1>4, <2>1
  <2>2. CASE ~ (j < i)
    <3>1. j - (i - 1) \in 1 .. Len(s) - i /\ j \in 1 .. Len(a) + Len(b) /\ ~ (j <= Len(a))
      BY <1>0, <1>1, <1>2, <2>2
    <3>2. (a \o b)[j] = b[j - (i - 1)]
      BY <1>1, <1>4, <3>1
    <3>3. i + (j - (i - 1)) = j + 1
      BY <1>0
    <3> QED BY <1>2, <2>2, <3>1, <3>2, <3>3
  <2> QED BY <2>1, <2>2
<1> QED BY <1>0, <1>1, <1>2, <1>3, <1>4, <1>5

\* A list with e put before its i-th element, or at its end.
LEMMA InsertAtProperties ==
    ASSUME NEW S, NEW s \in Seq(S), NEW i \in 1 .. Len(s) + 1, NEW e \in S
    PROVE  /\ InsertAt(s, i, e) \in Seq(S)
           /\ Len(InsertAt(s, i, e)) = Len(s) + 1
           /\ \A j \in 1 .. Len(s) + 1 :
                 InsertAt(s, i, e)[j] = IF j < i THEN s[j] ELSE IF j = i THEN e ELSE s[j - 1]
<1> DEFINE a == SubSeq(s, 1, i - 1)
           c == a \o <<e>>
           b == SubSeq(s, i, Len(s))
<1>0. Len(s) \in Nat /\ i \in Nat
  BY LenProperties
<1>1. /\ a \in Seq(S) /\ Len(a) = i - 1
      /\ \A j \in 1 .. i - 1 : a[j] = s[j]
  BY <1>0, SubSeqProperties, ElementOfSeq
<1>2. /\ b \in Seq(S) /\ Len(b) = Len(s) - i + 1
      /\ \A j \in 1 .. Len(s) - i + 1 : b[j] = s[i + j - 1]
  BY <1>0, SubSeqProperties, ElementOfSeq
<1>3. InsertAt(s, i, e) = c \o b
  BY DEF InsertAt
<1> HIDE DEF a, b
<1>4. /\ c \in Seq(S) /\ Len(c) = i
      /\ \A j \in 1 .. i : c[j] = IF j < i THEN s[j] ELSE e
  <2>1. <<e>> \in Seq(S) /\ Len(<<e>>) = 1 /\ <<e>>[1] = e
    OBVIOUS
  <2> QED BY <1>0, <1>1, <2>1, ConcatProperties
<1> HIDE DEF c
<1>5. /\ c \o b \in Seq(S) /\ Len(c \o b) = Len(c) + Len(b)
      /\ \A j \in 1 .. Len(c) + Len(b) :
            (c \o b)[j] = IF j <= Len(c) THEN c[j] ELSE b[j - Len(c)]
  BY <1>2, <1>4, ConcatProperties
<1>6. ASSUME NEW j \in 1 .. Len(s) + 1
      PROVE  (c \o b)[j] = IF j < i THEN s[j] ELSE IF j = i THEN e ELSE s[j - 1]
  <2>1. CASE j <= i
    BY <1>0, <1>2, <1>4, <1>5, <2>1
  <2>2. CASE ~ (j <= i)
    <3>1. j - i \in 1 .. Len(s) - i + 1 /\ j \in 1 .. Len(c) + Len(b) /\ ~ (j <= Len(c))
      BY <1>0, <1>2, <1>4, <2>2
    <3>2. (c \o b)[j] = b[j - i]
      BY <1>4, <1>5, <3>1
    <3>3. i + (j - i) - 1 = j - 1 /\ ~ (j < i) /\ j # i
      BY <1>0, <2>2
    <3>4. b[j - i] = s[j - 1]
      BY <1>2, <3>1, <3>3
    <3> QED BY <3>2, <3>3, <3>4
  <2> QED BY <2>1, <2>2
<1> QED BY <1>0, <1>2, <1>3, <1>4, <1>5, <1>6

\* The elements of a list with one more at its end.
LEMMA AppendElements ==
    ASSUME NEW S, NEW s \in Seq(S), NEW x \in S
    PROVE  /\ Append(s, x) \in Seq(S) /\ Len(Append(s, x)) = Len(s) + 1 /\ Len(s) \in Nat
           /\ \A i \in 1 .. Len(s) + 1 :
                 Append(s, x)[i] = IF i \in 1 .. Len(s) THEN s[i] ELSE x
           /\ \A e : Contains(Append(s, x), e) <=> Contains(s, e) \/ e = x
<1> DEFINE a == Append(s, x)
<1>1. /\ a \in Seq(S) /\ Len(a) = Len(s) + 1 /\ Len(s) \in Nat
      /\ \A i \in 1 .. Len(s) : a[i] = s[i]
      /\ a[Len(s) + 1] = x
  BY AppendProperties, LenProperties
<1> HIDE DEF a
<1>2. \A i \in 1 .. Len(s) + 1 : i \in 1 .. Len(s) \/ i = Len(s) + 1
  BY <1>1
<1>3. 1 .. Len(s) \subseteq 1 .. Len(s) + 1 /\ Len(s) + 1 \in 1 .. Len(s) + 1
  BY <1>1
<1>4. ASSUME NEW e PROVE Contains(a, e) <=> Contains(s, e) \/ e = x
  BY <1>1, <1>2, <1>3 DEF Contains
<1>5. \A i \in 1 .. Len(s) + 1 : a[i] = IF i \in 1 .. Len(s) THEN s[i] ELSE x
  BY <1>1, <1>2
<1> QED BY <1>1, <1>4, <1>5 DEF a

\* The elements of a list without its first.
LEMMA TailElements ==
    ASSUME NEW S, NEW s \in Seq(S), s # <<>>
    PROVE  /\ Tail(s) \in Seq(S) /\ Len(Tail(s)) = Len(s) - 1 /\ Len(s) \in Nat \ {0}
           /\ \A i \in 1 .. Len(s) - 1 : Tail(s)[i] = s[i + 1]
           /\ Head(s) = s[1] /\ Head(s) \in S /\ Contains(s, Head(s))
           /\ \A e : Contains(Tail(s), e) => Contains(s, e)
           /\ \A e : Contains(s, e) /\ e # Head(s) => Contains(Tail(s), e)
           /\ (\A i, j \in 1 .. Len(s) : s[i] = s[j] => i = j) => ~ Contains(Tail(s), Head(s))
<1> DEFINE t == Tail(s)
           h == Head(s)
<1>1. Len(s) \in Nat \ {0}
  BY EmptySeq, LenProperties
<1>2. /\ t \in Seq(S) /\ Len(t) = Len(s) - 1 /\ h = s[1] /\ h \in S
      /\ \A i \in 1 .. Len(s) - 1 : t[i] = s[i + 1]
  BY <1>1, HeadTailProperties, ElementOfSeq
<1> HIDE DEF t, h
<1>3. Contains(s, h)
  <2>1. 1 \in 1 .. Len(s)
    BY <1>1
  <2> QED BY <1>2, <2>1 DEF Contains
<1>4. ASSUME NEW e, Contains(t, e) PROVE Contains(s, e)
  <2>1. PICK i \in 1 .. Len(s) - 1 : t[i] = e
    BY <1>2, <1>4 DEF Contains
  <2>2. i + 1 \in 1 .. Len(s) /\ s[i + 1] = e
    BY <1>1, <1>2, <2>1
  <2> QED BY <2>2 DEF Contains
<1>5. ASSUME NEW e, Contains(s, e), e # h PROVE Contains(t, e)
  <2>1. PICK i \in 1 .. Len(s) : s[i] = e
    BY <1>5 DEF Contains
  <2>2. i # 1
    BY <1>2, <1>5, <2>1
  <2>3. i - 1 \in 1 .. Len(s) - 1 /\ (i - 1) + 1 = i
    BY <1>1, <2>2
  <2>4. t[i - 1] = e
    BY <1>2, <2>1, <2>3
  <2> QED BY <1>2, <2>3, <2>4 DEF Contains
<1>6. ASSUME \A i, j \in 1 .. Len(s) : s[i] = s[j] => i = j, Contains(t, h) PROVE FALSE
  <2>1. PICK i \in 1 .. Len(s) - 1 : t[i] = h
    BY <1>2, <1>6 DEF Contains
  <2>2. i + 1 \in 1 .. Len(s) /\ 1 \in 1 .. Len(s) /\ s[i + 1] = s[1] /\ i + 1 # 1
    BY <1>1, <1>2, <2>1
  <2> QED BY <1>6, <2>2
<1> QED BY <1>1, <1>2, <1>3, <1>4, <1>5, <1>6 DEF t, h

-----------------------------------------------------------------------------
(* Induction, and sums over finite sets.                                    *)

\* Induction over the naturals, the predicate given as a set.
LEMMA NatSetInduction ==
    ASSUME NEW B, 0 \in B, \A n \in Nat : n \in B => n + 1 \in B
    PROVE  Nat \subseteq B
<1>1. SUFFICES ASSUME NEW k \in Nat \ B PROVE FALSE
  OBVIOUS
<1>2. PICK x \in Nat \ B : \A y \in Nat \ B : x <= y
  BY NatMin
<1>3. x # 0 /\ x - 1 \in Nat
  OBVIOUS
<1>4. x - 1 \in B
  BY <1>2, <1>3
<1>5. x - 1 + 1 = x
  BY <1>2
<1> QED BY <1>3, <1>4, <1>5

\* Induction over the subsets of a finite set, the predicate given as a set.
LEMMA SubsetInduction ==
    ASSUME NEW U, IsFiniteSet(U), NEW B, {} \in B,
           \A s \in SUBSET U : s # {} /\ (\A x \in s : s \ {x} \in B) => s \in B
    PROVE  \A s \in SUBSET U : s \in B
<1> DEFINE P == {n \in Nat : \A s \in SUBSET U : Cardinality(s) = n => s \in B}
<1>1. 0 \in P
  <2>1. ASSUME NEW s \in SUBSET U, Cardinality(s) = 0 PROVE s \in B
    <3>1. s = {}
      BY <2>1, FS_Subset, FS_EmptySet
    <3> QED BY <3>1
  <2> QED BY <2>1
<1>2. ASSUME NEW n \in Nat, n \in P PROVE n + 1 \in P
  <2>1. ASSUME NEW s \in SUBSET U, Cardinality(s) = n + 1 PROVE s \in B
    <3>1. IsFiniteSet(s)
      BY FS_Subset
    <3>2. s # {}
      <4>1. n + 1 # 0
        OBVIOUS
      <4> QED BY <3>1, <2>1, <4>1, FS_EmptySet
    <3>3. ASSUME NEW x \in s PROVE s \ {x} \in B
      <4>1. Cardinality(s \ {x}) = Cardinality(s) - 1
        BY <3>1, FS_RemoveElement
      <4>2. Cardinality(s \ {x}) = n
        BY <4>1, <2>1
      <4>3. s \ {x} \in SUBSET U
        OBVIOUS
      <4> QED BY <4>2, <4>3, <1>2
    <3> QED BY <3>2, <3>3
  <2> QED BY <2>1
<1> HIDE DEF P
<1>3. Nat \subseteq P
  BY <1>1, <1>2, NatSetInduction
<1>4. TAKE s \in SUBSET U
<1>5. Cardinality(s) \in P
  BY <1>3, FS_Subset, FS_CardinalityType
<1> QED BY <1>5 DEF P

\* The element of s that MapThenFoldSet takes.
Picked(s) == CHOOSE x \in s : TRUE

\* g is the function that SumFunctionOnSet(f, U) evaluates.
IsSumOf(f, U, g) ==
    g = [s \in SUBSET U |-> IF s = {} THEN 0 ELSE f[Picked(s)] + g[s \ {Picked(s)}]]

\* It is one of them.
LEMMA PickedIn == ASSUME NEW s, s # {} PROVE Picked(s) \in s
  BY DEF Picked

\* What SumFunctionOnSet is.
LEMMA SumUnfold ==
    ASSUME NEW f, NEW U
    PROVE  SumFunctionOnSet(f, U) = (CHOOSE g : IsSumOf(f, U, g))[U]
  BY Zenon DEF SumFunctionOnSet, FoldFunctionOnSet, MapThenFoldSet, IsSumOf, Picked

\* It exists for a finite set.
LEMMA SumExists ==
    ASSUME NEW f, NEW U, IsFiniteSet(U)
    PROVE  \E g : IsSumOf(f, U, g)
<1> DEFINE D(n) == {s \in SUBSET U : Cardinality(s) <= n}
           Eq(n, h) == h = [s \in D(n) |-> IF s = {} THEN 0 ELSE f[Picked(s)] + h[s \ {Picked(s)}]]
           B == {n \in Nat : \E h : Eq(n, h)}
<1>0. \A s \in SUBSET U : IsFiniteSet(s) /\ Cardinality(s) \in Nat /\ Cardinality(s) <= Cardinality(U)
  BY FS_Subset, FS_CardinalityType
<1>1. 0 \in B
  <2>1. D(0) = {{}}
    <3>1. \A s \in SUBSET U : Cardinality(s) <= 0 => s = {}
      BY <1>0, FS_EmptySet
    <3>2. {} \in D(0)
      BY FS_EmptySet
    <3> QED BY <3>1, <3>2
  <2>2. Eq(0, [s \in D(0) |-> 0])
    BY <2>1
  <2> QED BY <2>2
<1>2. ASSUME NEW n \in Nat, n \in B PROVE n + 1 \in B
  <2>1. PICK h : Eq(n, h)
    BY <1>2
  <2> DEFINE k == [s \in D(n + 1) |-> IF s = {} THEN 0 ELSE f[Picked(s)] + h[s \ {Picked(s)}]]
  <2>2. ASSUME NEW s \in D(n + 1), s # {} PROVE h[s \ {Picked(s)}] = k[s \ {Picked(s)}]
    <3> DEFINE t == s \ {Picked(s)}
    <3>1. Cardinality(t) = Cardinality(s) - 1
      BY <2>2, <1>0, FS_RemoveElement, PickedIn
    <3>2. t \in D(n) /\ t \in D(n + 1)
      BY <3>1, <1>0
    <3> HIDE DEF t, D
    <3>3. h[t] = IF t = {} THEN 0 ELSE f[Picked(t)] + h[t \ {Picked(t)}]
      BY <3>2, <2>1
    <3>4. k[t] = IF t = {} THEN 0 ELSE f[Picked(t)] + h[t \ {Picked(t)}]
      BY <3>2
    <3>5. h[t] = k[t]
      BY <3>3, <3>4
    <3> QED BY <3>5 DEF t
  <2>3. Eq(n + 1, k)
    <3> HIDE DEF D
    <3> SUFFICES k = [s \in D(n + 1) |-> IF s = {} THEN 0 ELSE f[Picked(s)] + k[s \ {Picked(s)}]]
      OBVIOUS
    <3>1. ASSUME NEW s \in D(n + 1)
          PROVE  (IF s = {} THEN 0 ELSE f[Picked(s)] + h[s \ {Picked(s)}])
                   = (IF s = {} THEN 0 ELSE f[Picked(s)] + k[s \ {Picked(s)}])
      <4> HIDE DEF k
      <4> QED BY <2>2
    <3> DEFINE L(s) == IF s = {} THEN 0 ELSE f[Picked(s)] + h[s \ {Picked(s)}]
               R(s) == IF s = {} THEN 0 ELSE f[Picked(s)] + k[s \ {Picked(s)}]
    <3>2. \A s \in D(n + 1) : L(s) = R(s)
      BY <3>1
    <3>3. k = [s \in D(n + 1) |-> L(s)]
      OBVIOUS
    <3> HIDE DEF L, R, k
    <3>4. k = [s \in D(n + 1) |-> R(s)]
      BY <3>2, <3>3
    <3> QED BY <3>4 DEF R
  <2> HIDE DEF Eq, k
  <2> QED BY <2>3
<1> HIDE DEF B
<1>3. Nat \subseteq B
  BY <1>1, <1>2, NatSetInduction
<1>4. PICK h : Eq(Cardinality(U), h)
  <2>1. Cardinality(U) \in B
    BY <1>3, FS_CardinalityType
  <2> QED BY <2>1 DEF B
<1>5. D(Cardinality(U)) = SUBSET U
  BY <1>0
<1>6. IsSumOf(f, U, h)
  <2> HIDE DEF D
  <2> QED BY <1>4, <1>5 DEF IsSumOf
<1> QED BY <1>6

\* Two of them agree where both are defined.
LEMMA SumAgree ==
    ASSUME NEW f, NEW U, IsFiniteSet(U), NEW V \in SUBSET U,
           NEW g, IsSumOf(f, U, g), NEW h, IsSumOf(f, V, h)
    PROVE  g[V] = h[V]
<1> DEFINE B == {s \in SUBSET V : g[s] = h[s]}
<1>0. ASSUME NEW s \in SUBSET V
      PROVE  /\ g[s] = IF s = {} THEN 0 ELSE f[Picked(s)] + g[s \ {Picked(s)}]
             /\ h[s] = IF s = {} THEN 0 ELSE f[Picked(s)] + h[s \ {Picked(s)}]
  <2>1. s \in SUBSET U
    OBVIOUS
  <2> QED BY <2>1 DEF IsSumOf
<1>1. {} \in B
  BY <1>0
<1>2. ASSUME NEW s \in SUBSET V, s # {}, \A x \in s : s \ {x} \in B
      PROVE  s \in B
  <2>1. s \ {Picked(s)} \in B
    BY <1>2, PickedIn
  <2> QED BY <1>2, <2>1, <1>0
<1>3. IsFiniteSet(V)
  BY FS_Subset
<1> HIDE DEF B
<1>4. \A s \in SUBSET V : s \in B
  BY <1>1, <1>2, <1>3, SubsetInduction
<1> QED BY <1>4 DEF B

\* The sum of nothing.
LEMMA SumEmpty ==
    ASSUME NEW f PROVE SumFunctionOnSet(f, {}) = 0
<1>1. PICK g : g = (CHOOSE k : IsSumOf(f, {}, k))
  OBVIOUS
<1>2. IsSumOf(f, {}, g)
  BY <1>1, SumExists, FS_EmptySet
<1>3. g[{}] = 0
  BY <1>2 DEF IsSumOf
<1> QED BY <1>1, <1>3, SumUnfold

\* The recursion of a sum.
LEMMA SumStep ==
    ASSUME NEW f, NEW S, IsFiniteSet(S), S # {}
    PROVE  SumFunctionOnSet(f, S) = f[Picked(S)] + SumFunctionOnSet(f, S \ {Picked(S)})
<1> DEFINE V == S \ {Picked(S)}
<1>1. PICK g : g = (CHOOSE k : IsSumOf(f, S, k))
  OBVIOUS
<1>2. PICK h : h = (CHOOSE k : IsSumOf(f, V, k))
  OBVIOUS
<1>3. IsSumOf(f, S, g)
  BY <1>1, SumExists
<1>4. IsFiniteSet(V) /\ V \in SUBSET S
  BY FS_Subset
<1>5. IsSumOf(f, V, h)
  <2> HIDE DEF V
  <2> QED BY <1>2, <1>4, SumExists
<1>6. g[V] = h[V]
  <2> HIDE DEF V
  <2> QED BY <1>3, <1>4, <1>5, SumAgree
<1>7. g[S] = f[Picked(S)] + g[V]
  BY <1>3 DEF IsSumOf
<1>8. SumFunctionOnSet(f, S) = g[S]
  BY <1>1, SumUnfold
<1>9. SumFunctionOnSet(f, V) = h[V]
  <2> HIDE DEF V
  <2> QED BY <1>2, SumUnfold
<1> QED BY <1>6, <1>7, <1>8, <1>9

\* A sum of naturals is a natural.
LEMMA SumType ==
    ASSUME NEW f, NEW S, IsFiniteSet(S), \A x \in S : f[x] \in Nat
    PROVE  SumFunctionOnSet(f, S) \in Nat
<1> DEFINE B == {s \in SUBSET S : SumFunctionOnSet(f, s) \in Nat}
<1>1. {} \in B
  BY SumEmpty
<1>2. ASSUME NEW s \in SUBSET S, s # {}, \A x \in s : s \ {x} \in B
      PROVE  s \in B
  <2>1. Picked(s) \in s /\ IsFiniteSet(s)
    BY <1>2, PickedIn, FS_Subset
  <2>2. SumFunctionOnSet(f, s \ {Picked(s)}) \in Nat
    BY <1>2, <2>1
  <2>3. SumFunctionOnSet(f, s) = f[Picked(s)] + SumFunctionOnSet(f, s \ {Picked(s)})
    BY <1>2, <2>1, SumStep
  <2>4. SumFunctionOnSet(f, s) \in Nat
    BY <2>1, <2>2, <2>3
  <2> QED BY <2>4
<1> HIDE DEF B
<1>3. \A s \in SUBSET S : s \in B
  BY <1>1, <1>2, SubsetInduction
<1> QED BY <1>3 DEF B

\* Functions that agree on a set have the same sum.
LEMMA SumSame ==
    ASSUME NEW f, NEW g, NEW S, IsFiniteSet(S), \A x \in S : f[x] = g[x]
    PROVE  SumFunctionOnSet(f, S) = SumFunctionOnSet(g, S)
<1> DEFINE B == {s \in SUBSET S : SumFunctionOnSet(f, s) = SumFunctionOnSet(g, s)}
<1>1. {} \in B
  BY SumEmpty
<1>2. ASSUME NEW s \in SUBSET S, s # {}, \A x \in s : s \ {x} \in B
      PROVE  s \in B
  <2>1. Picked(s) \in s /\ IsFiniteSet(s)
    BY <1>2, PickedIn, FS_Subset
  <2>2. SumFunctionOnSet(f, s \ {Picked(s)}) = SumFunctionOnSet(g, s \ {Picked(s)})
    BY <1>2, <2>1
  <2>3. /\ SumFunctionOnSet(f, s) = f[Picked(s)] + SumFunctionOnSet(f, s \ {Picked(s)})
        /\ SumFunctionOnSet(g, s) = g[Picked(s)] + SumFunctionOnSet(g, s \ {Picked(s)})
    BY <1>2, <2>1, SumStep
  <2>4. SumFunctionOnSet(f, s) = SumFunctionOnSet(g, s)
    BY <2>1, <2>2, <2>3
  <2> QED BY <2>4
<1> HIDE DEF B
<1>3. \A s \in SUBSET S : s \in B
  BY <1>1, <1>2, SubsetInduction
<1> QED BY <1>3 DEF B

\* Any element can be taken out of a sum first.
LEMMA SumRemove ==
    ASSUME NEW f, NEW S, IsFiniteSet(S), \A x \in S : f[x] \in Nat, NEW y \in S
    PROVE  SumFunctionOnSet(f, S) = f[y] + SumFunctionOnSet(f, S \ {y})
<1> DEFINE B == {s \in SUBSET S :
                   \A z \in s : SumFunctionOnSet(f, s) = f[z] + SumFunctionOnSet(f, s \ {z})}
<1>1. {} \in B
  OBVIOUS
<1>2. ASSUME NEW s \in SUBSET S, s # {}, \A x \in s : s \ {x} \in B
      PROVE  s \in B
  <2>1. Picked(s) \in s /\ IsFiniteSet(s)
    BY <1>2, PickedIn, FS_Subset
  <2>2. SumFunctionOnSet(f, s) = f[Picked(s)] + SumFunctionOnSet(f, s \ {Picked(s)})
    BY <1>2, <2>1, SumStep
  <2>3. ASSUME NEW z \in s PROVE SumFunctionOnSet(f, s) = f[z] + SumFunctionOnSet(f, s \ {z})
    <3>1. CASE z = Picked(s)
      BY <3>1, <2>2
    <3>2. CASE z # Picked(s)
      <4>1. PICK x \in s : x = Picked(s)
        BY <2>1
      <4>2. s \ {x} \in B /\ s \ {z} \in B
        BY <1>2
      <4>3. z \in s \ {x} /\ x \in s \ {z}
        BY <3>2, <4>1
      <4>4. SumFunctionOnSet(f, s \ {x}) = f[z] + SumFunctionOnSet(f, (s \ {x}) \ {z})
        BY <4>2, <4>3
      <4>5. SumFunctionOnSet(f, s \ {z}) = f[x] + SumFunctionOnSet(f, (s \ {z}) \ {x})
        BY <4>2, <4>3
      <4>6. (s \ {x}) \ {z} = (s \ {z}) \ {x}
        OBVIOUS
      <4>7. PICK v : v = SumFunctionOnSet(f, (s \ {z}) \ {x})
        OBVIOUS
      <4>8. v \in Nat
        <5>1. IsFiniteSet((s \ {z}) \ {x})
          BY <2>1, FS_Subset
        <5> QED BY <4>7, <5>1, SumType
      <4>9. f[x] \in Nat /\ f[z] \in Nat
        OBVIOUS
      <4>10. SumFunctionOnSet(f, s) = f[x] + (f[z] + v)
        BY <2>2, <4>1, <4>4, <4>6, <4>7
      <4>11. SumFunctionOnSet(f, s \ {z}) = f[x] + v
        BY <4>5, <4>7
      <4> QED BY <4>8, <4>9, <4>10, <4>11
    <3> QED BY <3>1, <3>2
  <2> QED BY <2>3
<1> HIDE DEF B
<1>3. \A s \in SUBSET S : s \in B
  BY <1>1, <1>2, SubsetInduction
<1>4. S \in B
  BY <1>3
<1> QED BY <1>4 DEF B

\* What a sum becomes when the function changes at one element.
LEMMA SumChange ==
    ASSUME NEW f, NEW g, NEW S, IsFiniteSet(S), NEW y \in S,
           \A x \in S : f[x] \in Nat /\ g[x] \in Nat,
           \A x \in S \ {y} : f[x] = g[x]
    PROVE  /\ SumFunctionOnSet(f, S) \in Nat
           /\ SumFunctionOnSet(g, S) \in Nat
           /\ f[y] <= SumFunctionOnSet(f, S)
           /\ SumFunctionOnSet(g, S) = SumFunctionOnSet(f, S) - f[y] + g[y]
<1>1. PICK v : v = SumFunctionOnSet(f, S \ {y})
  OBVIOUS
<1>2. IsFiniteSet(S \ {y})
  BY FS_RemoveElement
<1>3. v = SumFunctionOnSet(g, S \ {y})
  BY <1>1, <1>2, SumSame
<1>4. v \in Nat
  BY <1>1, <1>2, SumType
<1>5. SumFunctionOnSet(f, S) = f[y] + v
  BY <1>1, SumRemove
<1>6. SumFunctionOnSet(g, S) = g[y] + v
  BY <1>3, SumRemove
<1>7. f[y] \in Nat /\ g[y] \in Nat
  OBVIOUS
<1> QED BY <1>4, <1>5, <1>6, <1>7

\* A sum is not less than any of its parts; it is zero exactly if they all are.
LEMMA SumParts ==
    ASSUME NEW f, NEW S, IsFiniteSet(S), \A x \in S : f[x] \in Nat
    PROVE  /\ \A x \in S : f[x] <= SumFunctionOnSet(f, S)
           /\ SumFunctionOnSet(f, S) = 0 <=> \A x \in S : f[x] = 0
<1>1. \A x \in S : f[x] <= SumFunctionOnSet(f, S)
  BY SumChange
<1>2. ASSUME SumFunctionOnSet(f, S) = 0, NEW x \in S PROVE f[x] = 0
  <2>1. f[x] <= 0 /\ f[x] \in Nat
    BY <1>1, <1>2
  <2> QED BY <2>1
<1>3. ASSUME \A x \in S : f[x] = 0 PROVE SumFunctionOnSet(f, S) = 0
  <2> DEFINE B == {s \in SUBSET S : SumFunctionOnSet(f, s) = 0}
  <2>1. {} \in B
    BY SumEmpty
  <2>2. ASSUME NEW s \in SUBSET S, s # {}, \A x \in s : s \ {x} \in B
        PROVE  s \in B
    <3>1. Picked(s) \in s /\ IsFiniteSet(s)
      BY <2>2, PickedIn, FS_Subset
    <3>2. SumFunctionOnSet(f, s) = f[Picked(s)] + SumFunctionOnSet(f, s \ {Picked(s)})
      BY <2>2, <3>1, SumStep
    <3>3. f[Picked(s)] = 0 /\ SumFunctionOnSet(f, s \ {Picked(s)}) = 0
      BY <1>3, <3>1, <2>2
    <3> QED BY <3>2, <3>3
  <2> HIDE DEF B
  <2>3. \A s \in SUBSET S : s \in B
    BY <2>1, <2>2, SubsetInduction
  <2> QED BY <2>3 DEF B
<1> QED BY <1>1, <1>2, <1>3

\* Sums are monotonic.
LEMMA SumMonotonic ==
    ASSUME NEW f, NEW g, NEW S, IsFiniteSet(S),
           \A x \in S : f[x] \in Nat /\ g[x] \in Nat /\ f[x] <= g[x]
    PROVE  SumFunctionOnSet(f, S) <= SumFunctionOnSet(g, S)
<1> DEFINE B == {s \in SUBSET S : SumFunctionOnSet(f, s) <= SumFunctionOnSet(g, s)}
<1>1. {} \in B
  BY SumEmpty
<1>2. ASSUME NEW s \in SUBSET S, s # {}, \A x \in s : s \ {x} \in B
      PROVE  s \in B
  <2>1. Picked(s) \in s /\ IsFiniteSet(s) /\ IsFiniteSet(s \ {Picked(s)})
    BY <1>2, PickedIn, FS_Subset
  <2>2. SumFunctionOnSet(f, s \ {Picked(s)}) <= SumFunctionOnSet(g, s \ {Picked(s)})
    BY <1>2, <2>1
  <2>3. /\ SumFunctionOnSet(f, s) = f[Picked(s)] + SumFunctionOnSet(f, s \ {Picked(s)})
        /\ SumFunctionOnSet(g, s) = g[Picked(s)] + SumFunctionOnSet(g, s \ {Picked(s)})
    BY <1>2, <2>1, SumStep
  <2>4. SumFunctionOnSet(f, s \ {Picked(s)}) \in Nat /\ SumFunctionOnSet(g, s \ {Picked(s)}) \in Nat
    BY <2>1, SumType
  <2>5. f[Picked(s)] \in Nat /\ g[Picked(s)] \in Nat /\ f[Picked(s)] <= g[Picked(s)]
    BY <2>1
  <2>6. SumFunctionOnSet(f, s) <= SumFunctionOnSet(g, s)
    BY <2>2, <2>3, <2>4, <2>5
  <2> QED BY <2>6
<1> HIDE DEF B
<1>3. \A s \in SUBSET S : s \in B
  BY <1>1, <1>2, SubsetInduction
<1> QED BY <1>3 DEF B

\* The sum of two functions.
LEMMA SumAdd ==
    ASSUME NEW f, NEW g, NEW h, NEW S, IsFiniteSet(S),
           \A x \in S : f[x] \in Nat /\ g[x] \in Nat /\ h[x] = f[x] + g[x]
    PROVE  SumFunctionOnSet(h, S) = SumFunctionOnSet(f, S) + SumFunctionOnSet(g, S)
<1> DEFINE B == {s \in SUBSET S : SumFunctionOnSet(h, s) = SumFunctionOnSet(f, s) + SumFunctionOnSet(g, s)}
<1>1. {} \in B
  BY SumEmpty
<1>2. ASSUME NEW s \in SUBSET S, s # {}, \A x \in s : s \ {x} \in B
      PROVE  s \in B
  <2>1. PICK x \in s : x = Picked(s)
    BY <1>2, PickedIn
  <2>2. IsFiniteSet(s) /\ IsFiniteSet(s \ {x})
    BY FS_Subset
  <2>3. PICK t : t = s \ {x}
    OBVIOUS
  <2>4. /\ SumFunctionOnSet(f, s) = f[x] + SumFunctionOnSet(f, t)
        /\ SumFunctionOnSet(g, s) = g[x] + SumFunctionOnSet(g, t)
        /\ SumFunctionOnSet(h, s) = h[x] + SumFunctionOnSet(h, t)
    BY <1>2, <2>1, <2>2, <2>3, SumStep
  <2>5. SumFunctionOnSet(f, t) \in Nat /\ SumFunctionOnSet(g, t) \in Nat
    BY <2>2, <2>3, SumType
  <2>6. SumFunctionOnSet(h, t) = SumFunctionOnSet(f, t) + SumFunctionOnSet(g, t)
    BY <1>2, <2>1, <2>3
  <2>7. f[x] \in Nat /\ g[x] \in Nat /\ h[x] = f[x] + g[x]
    BY <2>1
  <2>8. SumFunctionOnSet(h, s) = SumFunctionOnSet(f, s) + SumFunctionOnSet(g, s)
    BY <2>4, <2>5, <2>6, <2>7
  <2> QED BY <2>8
<1> HIDE DEF B
<1>3. \A s \in SUBSET S : s \in B
  BY <1>1, <1>2, SubsetInduction
<1> QED BY <1>3 DEF B

\* A sum of ones counts them.
LEMMA SumCount ==
    ASSUME NEW f, NEW S, IsFiniteSet(S), \A x \in S : f[x] \in {0, 1}
    PROVE  SumFunctionOnSet(f, S) = Cardinality({x \in S : f[x] = 1})
<1> DEFINE Ones(s) == {x \in s : f[x] = 1}
           B == {s \in SUBSET S : SumFunctionOnSet(f, s) = Cardinality(Ones(s))}
<1>1. {} \in B
  <2>1. Ones({}) = {}
    OBVIOUS
  <2> QED BY <2>1, SumEmpty, FS_EmptySet
<1>2. ASSUME NEW s \in SUBSET S, s # {}, \A x \in s : s \ {x} \in B
      PROVE  s \in B
  <2>1. PICK x \in s : x = Picked(s)
    BY <1>2, PickedIn
  <2>2. IsFiniteSet(s) /\ IsFiniteSet(Ones(s))
    BY FS_Subset
  <2>3. SumFunctionOnSet(f, s) = f[x] + SumFunctionOnSet(f, s \ {x})
    BY <1>2, <2>1, <2>2, SumStep
  <2>4. SumFunctionOnSet(f, s \ {x}) = Cardinality(Ones(s \ {x}))
    BY <1>2, <2>1
  <2>5. Cardinality(Ones(s)) \in Nat
    BY <2>2, FS_CardinalityType
  <2>6. SumFunctionOnSet(f, s) = Cardinality(Ones(s))
    <3>1. CASE f[x] = 1
      <4>1. Ones(s \ {x}) = Ones(s) \ {x} /\ x \in Ones(s)
        BY <3>1
      <4>2. Cardinality(Ones(s) \ {x}) = Cardinality(Ones(s)) - 1
        <5> HIDE DEF Ones
        <5> QED BY <2>2, <4>1, FS_RemoveElement
      <4> HIDE DEF Ones
      <4>3. PICK n \in Nat : n = Cardinality(Ones(s))
        BY <2>5
      <4>4. SumFunctionOnSet(f, s \ {x}) = n - 1
        BY <2>4, <4>1, <4>2, <4>3
      <4>5. SumFunctionOnSet(f, s) = 1 + (n - 1)
        BY <2>3, <3>1, <4>4
      <4> QED BY <4>3, <4>5
    <3>2. CASE f[x] = 0
      <4>1. Ones(s \ {x}) = Ones(s)
        BY <3>2
      <4> HIDE DEF Ones
      <4> QED BY <2>3, <2>4, <2>5, <3>2, <4>1
    <3> QED BY <3>1, <3>2
  <2> QED BY <2>6
<1> HIDE DEF B
<1>3. \A s \in SUBSET S : s \in B
  BY <1>1, <1>2, SubsetInduction
<1> QED BY <1>3 DEF B

\* Parts in proportion, each cut off, in sum are no more than the whole in proportion.
LEMMA SumScaled ==
    ASSUME NEW f, NEW g, NEW S, IsFiniteSet(S), NEW t \in Nat, NEW p \in Nat,
           \A x \in S : f[x] \in Nat /\ g[x] \in Nat /\ f[x] * t <= p * g[x]
    PROVE  SumFunctionOnSet(f, S) * t <= p * SumFunctionOnSet(g, S)
<1> DEFINE B == {s \in SUBSET S : SumFunctionOnSet(f, s) * t <= p * SumFunctionOnSet(g, s)}
<1>1. {} \in B
  <2>1. 0 * t <= p * 0
    OBVIOUS
  <2> QED BY <2>1, SumEmpty
<1>2. ASSUME NEW s \in SUBSET S, s # {}, \A x \in s : s \ {x} \in B
      PROVE  s \in B
  <2>1. PICK x \in s : x = Picked(s)
    BY <1>2, PickedIn
  <2>2. IsFiniteSet(s) /\ IsFiniteSet(s \ {x})
    BY FS_Subset
  <2>3. PICK a : a = SumFunctionOnSet(f, s \ {x})
    OBVIOUS
  <2>4. PICK b : b = SumFunctionOnSet(g, s \ {x})
    OBVIOUS
  <2>5. SumFunctionOnSet(f, s) = f[x] + a /\ SumFunctionOnSet(g, s) = g[x] + b
    BY <1>2, <2>1, <2>2, <2>3, <2>4, SumStep
  <2>6. a \in Nat /\ b \in Nat
    BY <2>2, <2>3, <2>4, SumType
  <2>7. a * t <= p * b
    BY <1>2, <2>1, <2>3, <2>4
  <2>8. PICK y : y = f[x]
    OBVIOUS
  <2>9. PICK z : z = g[x]
    OBVIOUS
  <2>10. y \in Nat /\ z \in Nat /\ y * t <= p * z
    BY <2>1, <2>8, <2>9
  <2>11. (y + a) * t = y * t + a * t /\ p * (z + b) = p * z + p * b
    BY <2>6, <2>10
  <2>12. (y + a) * t <= p * (z + b)
    <3>1. y * t \in Nat /\ a * t \in Nat /\ p * z \in Nat /\ p * b \in Nat
      BY <2>6, <2>10
    <3>2. \A i, j, k, m \in Nat : i <= k /\ j <= m => i + j <= k + m
      OBVIOUS
    <3>3. y * t + a * t <= p * z + p * b
      BY <2>7, <2>10, <3>1, <3>2
    <3> QED BY <2>11, <3>3
  <2> QED BY <2>5, <2>8, <2>9, <2>12
<1> HIDE DEF B
<1>3. \A s \in SUBSET S : s \in B
  BY <1>1, <1>2, SubsetInduction
<1> QED BY <1>3 DEF B

-----------------------------------------------------------------------------
(* Lists without duplicates.                                               *)

\* What IsInjective says of a list.
LEMMA InjectiveList ==
    ASSUME NEW S, NEW s \in Seq(S)
    PROVE  /\ IsInjective(s) <=> \A i, j \in 1 .. Len(s) : s[i] = s[j] => i = j
           /\ \A e : Contains(s, e) <=> e \in ToSet(s)
           /\ \A e : Contains(s, e) => e \in S
           /\ Len(s) \in Nat
<1>1. DOMAIN s = 1 .. Len(s) /\ Len(s) \in Nat
  BY LenProperties
<1>2. \A i \in 1 .. Len(s) : s[i] \in S
  BY ElementOfSeq
<1> QED BY <1>1, <1>2 DEF IsInjective, Contains, ToSet

\* The empty list.
LEMMA EmptyListElements ==
    /\ IsInjective(<<>>)
    /\ \A e : ~ Contains(<<>>, e)
<1>1. Len(<<>>) = 0 /\ DOMAIN <<>> = {}
  OBVIOUS
<1> QED BY <1>1 DEF IsInjective, Contains

\* A new element at the end.
LEMMA AppendInjectiveList ==
    ASSUME NEW S, NEW s \in Seq(S), IsInjective(s), NEW x \in S, ~ Contains(s, x)
    PROVE  IsInjective(Append(s, x))
<1> DEFINE a == Append(s, x)
<1>1. /\ a \in Seq(S) /\ Len(a) = Len(s) + 1 /\ Len(s) \in Nat
      /\ \A i \in 1 .. Len(s) + 1 : a[i] = IF i \in 1 .. Len(s) THEN s[i] ELSE x
  BY AppendElements
<1> HIDE DEF a
<1>2. \A i, j \in 1 .. Len(s) : s[i] = s[j] => i = j
  BY InjectiveList
<1>3. \A i \in 1 .. Len(s) : s[i] # x
  BY DEF Contains
<1>4. ASSUME NEW i \in 1 .. Len(a), NEW j \in 1 .. Len(a), a[i] = a[j] PROVE i = j
  <2>1. i \in 1 .. Len(s) \/ i = Len(s) + 1
    BY <1>1
  <2>2. j \in 1 .. Len(s) \/ j = Len(s) + 1
    BY <1>1
  <2> QED BY <2>1, <2>2, <1>1, <1>2, <1>3, <1>4
<1>5. IsInjective(a)
  BY <1>1, <1>4, InjectiveList
<1> QED BY <1>5 DEF a

\* The first element taken off.
LEMMA TailInjectiveList ==
    ASSUME NEW S, NEW s \in Seq(S), IsInjective(s), s # <<>>
    PROVE  /\ IsInjective(Tail(s))
           /\ \A e : Contains(Tail(s), e) <=> Contains(s, e) /\ e # Head(s)
<1> DEFINE t == Tail(s)
<1>1. /\ t \in Seq(S) /\ Len(t) = Len(s) - 1 /\ Len(s) \in Nat \ {0}
      /\ \A i \in 1 .. Len(s) - 1 : t[i] = s[i + 1]
      /\ \A e : Contains(t, e) => Contains(s, e)
      /\ \A e : Contains(s, e) /\ e # Head(s) => Contains(t, e)
      /\ (\A i, j \in 1 .. Len(s) : s[i] = s[j] => i = j) => ~ Contains(t, Head(s))
  BY TailElements
<1>2. \A i, j \in 1 .. Len(s) : s[i] = s[j] => i = j
  BY InjectiveList
<1> HIDE DEF t
<1>3. ASSUME NEW i \in 1 .. Len(t), NEW j \in 1 .. Len(t), t[i] = t[j] PROVE i = j
  <2>1. i + 1 \in 1 .. Len(s) /\ j + 1 \in 1 .. Len(s) /\ s[i + 1] = s[j + 1] /\ i \in Nat /\ j \in Nat
    BY <1>1, <1>3
  <2>2. i + 1 = j + 1
    BY <1>2, <2>1
  <2> QED BY <2>1, <2>2
<1>4. IsInjective(t)
  BY <1>1, <1>3, InjectiveList
<1>5. \A e : Contains(t, e) <=> Contains(s, e) /\ e # Head(s)
  BY <1>1, <1>2
<1> QED BY <1>4, <1>5 DEF t

\* A list without its element x.
LEMMA RemoveFirstElements ==
    ASSUME NEW S, NEW s \in Seq(S), NEW x
    PROVE  /\ RemoveFirst(s, x) \in Seq(S)
           /\ ~ Contains(s, x) => RemoveFirst(s, x) = s
           /\ Contains(s, x) => Len(RemoveFirst(s, x)) = Len(s) - 1
           /\ IsInjective(s) => /\ IsInjective(RemoveFirst(s, x))
                                /\ \A e : Contains(RemoveFirst(s, x), e) <=> Contains(s, e) /\ e # x
<1>1. CASE ~ Contains(s, x)
  <2>1. RemoveFirst(s, x) = s
    BY <1>1 DEF RemoveFirst, Contains
  <2> QED BY <1>1, <2>1
<1>2. CASE Contains(s, x)
  <2> DEFINE I == {i \in 1 .. Len(s) : s[i] = x}
  <2>0. Len(s) \in Nat
    BY LenProperties
  <2>1. I \subseteq Nat /\ I # {}
    BY <1>2, <2>0 DEF Contains
  <2>2. PICK k : k = Min(I)
    OBVIOUS
  <2>3. k \in 1 .. Len(s) /\ s[k] = x
    <3>1. Min(I) \in I
      <4> HIDE DEF I
      <4> QED BY <2>1, MinProperties
    <3> QED BY <3>1, <2>2
  <2>4. PICK t : t = RemoveAt(s, k)
    OBVIOUS
  <2>5. RemoveFirst(s, x) = t
    <3>1. SelectInSeq(s, LAMBDA v : v = x) = k
      BY <2>1, <2>2 DEF SelectInSeq
    <3>2. \E i \in 1 .. Len(s) : s[i] = x
      BY <2>3
    <3> QED BY <3>1, <3>2, <2>4 DEF RemoveFirst
  <2>6. /\ t \in Seq(S) /\ Len(t) = Len(s) - 1
        /\ \A j \in 1 .. Len(s) - 1 : t[j] = IF j < k THEN s[j] ELSE s[j + 1]
    BY <2>3, <2>4, RemoveAtProperties
  <2>7. ASSUME IsInjective(s)
        PROVE  IsInjective(t) /\ \A e : Contains(t, e) <=> Contains(s, e) /\ e # x
    <3>1. \A i, j \in 1 .. Len(s) : s[i] = s[j] => i = j
      BY <2>7, InjectiveList
    <3> DEFINE At(j) == IF j < k THEN j ELSE j + 1
    <3>2. ASSUME NEW j \in 1 .. Len(s) - 1
          PROVE  At(j) \in 1 .. Len(s) /\ At(j) # k /\ t[j] = s[At(j)]
      BY <2>0, <2>3, <2>6
    <3>3. ASSUME NEW i \in 1 .. Len(t), NEW j \in 1 .. Len(t), t[i] = t[j] PROVE i = j
      <4>1. i \in 1 .. Len(s) - 1 /\ j \in 1 .. Len(s) - 1
        BY <2>6
      <4>2. At(i) = At(j)
        <5> HIDE DEF At
        <5> QED BY <4>1, <3>1, <3>2, <3>3
      <4> QED BY <4>1, <4>2, <2>3, <2>0
    <3>4. IsInjective(t)
      BY <2>6, <3>3, InjectiveList
    <3>5. ASSUME NEW e, Contains(t, e) PROVE Contains(s, e) /\ e # x
      <4>1. PICK j \in 1 .. Len(s) - 1 : t[j] = e
        BY <3>5, <2>6 DEF Contains
      <4> HIDE DEF At
      <4>2. At(j) \in 1 .. Len(s) /\ At(j) # k /\ s[At(j)] = e
        BY <3>2, <4>1
      <4>3. e # x
        BY <4>2, <3>1, <2>3
      <4> QED BY <4>2, <4>3 DEF Contains
    <3>6. ASSUME NEW e, Contains(s, e), e # x PROVE Contains(t, e)
      <4>1. PICK i \in 1 .. Len(s) : s[i] = e
        BY <3>6 DEF Contains
      <4>2. i # k
        BY <4>1, <2>3, <3>6
      <4>3. CASE i < k
        <5>1. i \in 1 .. Len(s) - 1 /\ t[i] = e
          BY <4>1, <4>3, <2>0, <2>3, <2>6
        <5> QED BY <5>1, <2>6 DEF Contains
      <4>4. CASE i > k
        <5>1. i - 1 \in 1 .. Len(s) - 1 /\ t[i - 1] = e
          BY <4>1, <4>4, <2>0, <2>3, <2>6
        <5> QED BY <5>1, <2>6 DEF Contains
      <4> QED BY <4>2, <4>3, <4>4, <2>3
    <3> QED BY <3>4, <3>5, <3>6
  <2> QED BY <1>2, <2>5, <2>6, <2>7
<1> QED BY <1>1, <1>2

\* Where an element of a list is first found.
LEMMA SelectIndex ==
    ASSUME NEW S, NEW s \in Seq(S), NEW x, Contains(s, x)
    PROVE  /\ SelectInSeq(s, LAMBDA v : v = x) \in 1 .. Len(s)
           /\ s[SelectInSeq(s, LAMBDA v : v = x)] = x
<1> DEFINE I == {i \in 1 .. Len(s) : s[i] = x}
<1>1. Len(s) \in Nat
  BY LenProperties
<1>2. I \subseteq Nat /\ I # {}
  BY <1>1 DEF Contains
<1>3. PICK k : k = Min(I)
  OBVIOUS
<1>4. k \in 1 .. Len(s) /\ s[k] = x
  <2>1. Min(I) \in I
    <3> HIDE DEF I
    <3> QED BY <1>2, MinProperties
  <2> QED BY <2>1, <1>3
<1>5. SelectInSeq(s, LAMBDA v : v = x) = k
  BY <1>2, <1>3 DEF SelectInSeq
<1> QED BY <1>4, <1>5

\* A list without duplicates has as many elements as places.
LEMMA InjectiveListSize ==
    ASSUME NEW S, NEW s \in Seq(S), IsInjective(s)
    PROVE  IsFiniteSet(ToSet(s)) /\ Cardinality(ToSet(s)) = Len(s)
<1>1. /\ \A i, j \in 1 .. Len(s) : s[i] = s[j] => i = j
      /\ Len(s) \in Nat
  BY InjectiveList
<1> DEFINE f == [i \in 1 .. Len(s) |-> s[i]]
<1>2. ToSet(s) = {s[i] : i \in 1 .. Len(s)}
  BY LenProperties DEF ToSet
<1>3. f \in Bijection(1 .. Len(s), ToSet(s))
  BY <1>1, <1>2 DEF Bijection, Injection, Surjection, IsInjective
<1>4. ExistsBijection(1 .. Len(s), ToSet(s))
  BY <1>3 DEF ExistsBijection
<1>5. IsFiniteSet(1 .. Len(s)) /\ Cardinality(1 .. Len(s)) = Len(s)
  <2>1. PICK n \in Nat : n = Len(s)
    BY <1>1
  <2>2. IsFiniteSet(1 .. n) /\ Cardinality(1 .. n) = IF 1 > n THEN 0 ELSE n - 1 + 1
    BY FS_Interval
  <2>3. Cardinality(1 .. n) = n
    BY <2>2
  <2> QED BY <2>1, <2>2, <2>3
<1> QED BY <1>4, <1>5, FS_Bijection

\* In a strict total order (A[x]: who is ahead of x) no more than r have fewer than r
\* ahead of them.
LEMMA Ranked ==
    ASSUME NEW S, IsFiniteSet(S), NEW A \in [S -> SUBSET S], NEW r \in Nat,
           \A x \in S : x \notin A[x],
           \A x, y \in S : x # y => x \in A[y] \/ y \in A[x],
           \A x, y \in S : x \in A[y] => A[x] \subseteq A[y]
    PROVE  Cardinality({x \in S : Cardinality(A[x]) < r}) <= r
<1> DEFINE T == {x \in S : Cardinality(A[x]) < r}
           rank == [x \in T |-> Cardinality(A[x])]
<1>1. ASSUME NEW x \in S PROVE IsFiniteSet(A[x]) /\ Cardinality(A[x]) \in Nat
  BY FS_Subset, FS_CardinalityType
<1>2. ASSUME NEW x \in S, NEW y \in S, x \in A[y] PROVE Cardinality(A[x]) # Cardinality(A[y])
  <2>1. A[x] \in SUBSET A[y] /\ A[x] # A[y]
    BY <1>2
  <2> QED BY <2>1, <1>1, FS_Subset
<1>3. \A x \in T : rank[x] \in 0 .. r - 1
  BY <1>1
<1>4. ASSUME NEW x \in T, NEW y \in T, rank[x] = rank[y] PROVE x = y
  BY <1>2, <1>4
<1>5. rank \in Injection(T, 0 .. r - 1)
  BY <1>3, <1>4 DEF Injection, IsInjective
<1>6. IsFiniteSet(0 .. r - 1) /\ Cardinality(0 .. r - 1) = r
  <2>1. 0 \in Int /\ r - 1 \in Int
    OBVIOUS
  <2>2. Cardinality(0 .. r - 1) = IF 0 > r - 1 THEN 0 ELSE r - 1 - 0 + 1
    BY <2>1, FS_Interval
  <2> QED BY <2>1, <2>2, FS_Interval
<1> HIDE DEF T, rank
<1>7. Cardinality(T) <= r
  BY <1>5, <1>6, FS_Injection
<1> QED BY <1>7 DEF T
=============================================================================
