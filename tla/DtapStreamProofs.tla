--------------------------- MODULE DtapStreamProofs ---------------------------
(***************************************************************************)
(* For every sequence space, cache size and link: the list of held frames  *)
(* of a stream-mode receiver is sorted and ahead of the number it expects, *)
(* and it is never left without a timer.  What is handed up is in order    *)
(* and nothing twice as long as no number is used again before the frame   *)
(* that had it is forgotten (Fresh).                                       *)
(***************************************************************************)
EXTENDS DtapStream, ListLemmas

-----------------------------------------------------------------------------
(* Distances between sequence numbers.                                     *)

\* How far s is ahead of e.
Dist(e, s) == SeqDiff(s, e)

\* Distances are in range, and lead from one number to the other.
LEMMA DistType ==
    ASSUME NEW e \in FrameSeq, NEW s \in FrameSeq
    PROVE  Dist(e, s) \in 0 .. (SeqModulus - 1) /\ s = SeqPlus(e, Dist(e, s))
BY SeqHalfAssumption DEF Dist, SeqDiff, SeqPlus, FrameSeq, SeqModulus

\* From a number n further on, s is n less ahead.
LEMMA DistFromLater ==
    ASSUME NEW e \in FrameSeq, NEW s \in FrameSeq, NEW n \in 0 .. Dist(e, s)
    PROVE  SeqPlus(e, n) \in FrameSeq /\ Dist(SeqPlus(e, n), s) = Dist(e, s) - n
BY SeqHalfAssumption DEF Dist, SeqDiff, SeqPlus, FrameSeq, SeqModulus

\* Within half the range the circular comparison is that of the distances.
LEMMA SmallerIsNearer ==
    ASSUME NEW e \in FrameSeq, NEW s \in FrameSeq, NEW t \in FrameSeq,
           Dist(e, s) < SeqHalf, Dist(e, t) < SeqHalf
    PROVE  IsFrameSeqSmaller(s, t) <=> Dist(e, s) < Dist(e, t)
BY SeqHalfAssumption DEF Dist, IsFrameSeqSmaller, SeqDiff, FrameSeq, SeqModulus

\* The number after s is one further on than s.
LEMMA NextIsPlusOne ==
    ASSUME NEW e \in FrameSeq, NEW s \in FrameSeq, Dist(e, s) < SeqHalf
    PROVE  /\ GetNextFrameSeq(s) \in FrameSeq
           /\ GetNextFrameSeq(s) = SeqPlus(e, Dist(e, s) + 1)
BY SeqHalfAssumption DEF Dist, GetNextFrameSeq, SeqDiff, SeqPlus, FrameSeq, SeqModulus

\* A frame is not a duplicate of an old one, and not the expected one, exactly if it is
\* ahead, by less than half the range.
LEMMA NotSmallerIsAhead ==
    ASSUME NEW e \in FrameSeq, NEW s \in FrameSeq, ~ IsFrameSeqSmaller(s, e), s # e
    PROVE  Dist(e, s) \in 1 .. (SeqHalf - 1)
BY SeqHalfAssumption DEF Dist, IsFrameSeqSmaller, SeqDiff, FrameSeq, SeqModulus

\* The number StartReorderTimer compares with, not reduced to the range, never meets the
\* expected one while the last frame held is ahead.
LEMMA LastPlusOneDiffers ==
    ASSUME NEW e \in FrameSeq, NEW s \in FrameSeq, Dist(e, s) \in 1 .. (SeqHalf - 1)
    PROVE  e # s + 1
BY SeqHalfAssumption DEF Dist, SeqDiff, FrameSeq, SeqModulus

-----------------------------------------------------------------------------
(* The list of held frames.                                                *)

HeldNode == [txSeq : FrameSeq, sdu : Nat, timeStamp : Nat]

RxState == [expectedSeq : FrameSeq \cup {SeqInit}, maxExpectedSeq : Nat,
            reorderTxSeq : FrameSeq, handle : BOOLEAN, rxList : Seq(HeldNode)]

\* The list is sorted, and every frame is ahead of e by lo or more, less than half the
\* range.
Window(list, e, lo) ==
    /\ \A i \in 1 .. Len(list) : Dist(e, list[i].txSeq) \in lo .. (SeqHalf - 1)
    /\ \A i, j \in 1 .. Len(list) :
          i < j => Dist(e, list[i].txSeq) < Dist(e, list[j].txSeq)

\* The receiver's half is sound: what it holds is ahead of what it expects, and
\* maxExpectedSeq is one more than the last number held.
RxOK(c) ==
    /\ c \in RxState
    /\ c.rxList # <<>> => /\ c.expectedSeq \in FrameSeq
                          /\ Window(c.rxList, c.expectedSeq, 1)
                          /\ c.maxExpectedSeq = Last(c.rxList).txSeq + 1

\* A frame that is neither old nor held already is put where it belongs.
LEMMA InsertKeepsOrder ==
    ASSUME NEW list \in Seq(HeldNode), NEW e \in FrameSeq, Window(list, e, 1),
           NEW node \in HeldNode, Dist(e, node.txSeq) \in 1 .. (SeqHalf - 1),
           \A i \in 1 .. Len(list) : list[i].txSeq # node.txSeq
    PROVE  LET new == InsertStreamRxNode(list, node)
           IN  /\ new \in Seq(HeldNode) /\ new # <<>> /\ Window(new, e, 1)
               /\ \A i \in 1 .. Len(new) :
                     new[i] = node \/ \E j \in 1 .. Len(list) : new[i] = list[j]
<1> DEFINE after == {i \in 1 .. Len(list) : IsFrameSeqSmaller(node.txSeq, list[i].txSeq)}
           at == IF after = {} THEN Len(list) + 1 ELSE Min(after)
           new == InsertStreamRxNode(list, node)
           d(i) == Dist(e, list[i].txSeq)
           dn == Dist(e, node.txSeq)
<1>0. /\ Len(list) \in Nat /\ SeqHalf \in Nat /\ node.txSeq \in FrameSeq
      /\ \A i \in 1 .. Len(list) : list[i] \in HeldNode /\ list[i].txSeq \in FrameSeq
  <2>1. Len(list) \in Nat /\ \A i \in 1 .. Len(list) : list[i] \in HeldNode
    BY LenProperties, ElementOfSeq
  <2>2. \A m \in HeldNode : m.txSeq \in FrameSeq
    BY DEF HeldNode
  <2> QED BY <2>1, <2>2, SeqHalfAssumption
<1>1. \A i \in 1 .. Len(list) : d(i) \in 1 .. (SeqHalf - 1) /\ d(i) # dn
  <2> SUFFICES ASSUME NEW i \in 1 .. Len(list) PROVE d(i) \in 1 .. (SeqHalf - 1) /\ d(i) # dn
    OBVIOUS
  <2>1. d(i) \in 1 .. (SeqHalf - 1)
    BY DEF Window
  <2>2. list[i].txSeq = SeqPlus(e, d(i)) /\ node.txSeq = SeqPlus(e, dn)
    BY <1>0, DistType
  <2> QED BY <2>1, <2>2
<1>2. \A i \in 1 .. Len(list) : IsFrameSeqSmaller(node.txSeq, list[i].txSeq) <=> dn < d(i)
  <2> TAKE i \in 1 .. Len(list)
  <2>1. dn < SeqHalf /\ d(i) < SeqHalf
    BY <1>0, <1>1
  <2> QED BY <1>0, <2>1, SmallerIsNearer
<1>3. at \in 1 .. Len(list) + 1
  <2>1. after \subseteq Nat
    BY <1>0
  <2>2. after # {} => Min(after) \in after
    BY <2>1, MinProperties
  <2> QED BY <1>0, <2>2
<1>4. \A i \in 1 .. Len(list) : i < at => d(i) < dn
  <2> SUFFICES ASSUME NEW i \in 1 .. Len(list), i < at PROVE d(i) < dn
    OBVIOUS
  <2>1. i \notin after
    <3>1. CASE after = {}
      BY <3>1
    <3>2. CASE after # {}
      <4>1. after \subseteq Nat
        BY <1>0
      <4>2. \A y \in after : Min(after) <= y
        BY <3>2, <4>1, MinProperties
      <4> QED BY <1>0, <1>3, <3>2, <4>2
    <3> QED BY <3>1, <3>2
  <2>2. ~ (dn < d(i))
    BY <1>2, <2>1
  <2>3. d(i) \in Nat /\ dn \in Nat /\ d(i) # dn
    BY <1>0, <1>1
  <2> QED BY <2>2, <2>3
<1>5. \A i \in 1 .. Len(list) : i >= at => dn < d(i)
  <2> SUFFICES ASSUME NEW i \in 1 .. Len(list), i >= at PROVE dn < d(i)
    OBVIOUS
  <2>1. after # {} /\ at = Min(after)
    BY <1>0
  <2>2. at \in after
    <3>1. after \subseteq Nat
      BY <1>0
    <3> QED BY <2>1, <3>1, MinProperties
  <2>3. at \in 1 .. Len(list) /\ dn < d(at)
    BY <1>2, <2>2
  <2>4. at < i => d(at) < d(i)
    BY <2>3 DEF Window
  <2>5. d(at) \in Nat /\ d(i) \in Nat /\ at \in Nat /\ i \in Nat
    <3>1. d(at) \in 1 .. (SeqHalf - 1) /\ d(i) \in 1 .. (SeqHalf - 1)
      BY <1>1, <2>3
    <3> HIDE DEF d, at
    <3> QED BY <1>0, <2>3, <3>1
  <2>6. dn \in Nat
    BY <1>0
  <2> HIDE DEF d, dn, at
  <2> QED BY <2>3, <2>4, <2>5, <2>6
<1>6. new = InsertAt(list, at, node)
  BY DEF InsertStreamRxNode
<1> HIDE DEF at, after
<1>7. /\ new \in Seq(HeldNode) /\ Len(new) = Len(list) + 1
      /\ \A j \in 1 .. Len(list) + 1 :
            new[j] = IF j < at THEN list[j] ELSE IF j = at THEN node ELSE list[j - 1]
  <2>1. /\ InsertAt(list, at, node) \in Seq(HeldNode)
        /\ Len(InsertAt(list, at, node)) = Len(list) + 1
        /\ \A j \in 1 .. Len(list) + 1 :
              InsertAt(list, at, node)[j] =
                 IF j < at THEN list[j] ELSE IF j = at THEN node ELSE list[j - 1]
    BY <1>3, InsertAtProperties
  <2> HIDE DEF new
  <2> QED BY <1>6, <2>1
<1> HIDE DEF new
<1>8. \A j \in 1 .. Len(list) + 1 :
         Dist(e, new[j].txSeq) = IF j < at THEN d(j) ELSE IF j = at THEN dn ELSE d(j - 1)
  BY <1>7
<1>9. \A j \in 1 .. Len(list) + 1 : Dist(e, new[j].txSeq) \in 1 .. (SeqHalf - 1)
  <2> TAKE j \in 1 .. Len(list) + 1
  <2>1. CASE j < at
    <3>1. j \in 1 .. Len(list)
      BY <1>0, <1>3, <2>1
    <3> QED BY <1>1, <1>8, <2>1, <3>1
  <2>2. CASE j = at
    BY <1>3, <1>8, <2>2
  <2>3. CASE j > at
    <3>1. j - 1 \in 1 .. Len(list) /\ ~ (j < at) /\ j # at
      BY <1>0, <1>3, <2>3
    <3> QED BY <1>1, <1>8, <3>1
  <2> QED BY <1>0, <1>3, <2>1, <2>2, <2>3
<1>10. ASSUME NEW i \in 1 .. Len(list) + 1, NEW j \in 1 .. Len(list) + 1, i < j
       PROVE  Dist(e, new[i].txSeq) < Dist(e, new[j].txSeq)
  <2>0. i \in Nat /\ j \in Nat /\ at \in Nat /\ dn \in Nat
    BY <1>0, <1>3
  <2>1. CASE j < at
    <3>1. i \in 1 .. Len(list) /\ j \in 1 .. Len(list) /\ i < at
      BY <1>0, <1>10, <1>3, <2>0, <2>1
    <3> QED BY <1>10, <1>8, <2>1, <3>1 DEF Window
  <2>2. CASE j = at
    <3>1. i \in 1 .. Len(list) /\ i < at
      BY <1>0, <1>10, <1>3, <2>0, <2>2
    <3> QED BY <1>4, <1>8, <2>2, <3>1
  <2>3. CASE j > at /\ i < at
    <3>1. i \in 1 .. Len(list) /\ j - 1 \in 1 .. Len(list) /\ j - 1 >= at /\ ~ (j < at) /\ j # at
      BY <1>0, <1>3, <2>0, <2>3
    <3>2. d(i) < dn /\ dn < d(j - 1) /\ d(i) \in Nat /\ d(j - 1) \in Nat
      BY <1>0, <1>1, <1>4, <1>5, <2>3, <3>1
    <3> QED BY <1>8, <2>0, <2>3, <3>1, <3>2
  <2>4. CASE j > at /\ i = at
    <3>1. j - 1 \in 1 .. Len(list) /\ j - 1 >= at /\ ~ (j < at) /\ j # at
      BY <1>0, <1>3, <2>0, <2>4
    <3> QED BY <1>5, <1>8, <2>4, <3>1
  <2>5. CASE j > at /\ i > at
    <3>1. /\ i - 1 \in 1 .. Len(list) /\ j - 1 \in 1 .. Len(list) /\ i - 1 < j - 1
          /\ ~ (j < at) /\ j # at /\ ~ (i < at) /\ i # at
      BY <1>0, <1>10, <1>3, <2>0, <2>5
    <3> QED BY <1>8, <3>1 DEF Window
  <2> QED BY <1>10, <2>0, <2>1, <2>2, <2>3, <2>4, <2>5
<1>11. new # <<>>
  BY <1>0, <1>7
<1>12. Window(new, e, 1)
  BY <1>7, <1>9, <1>10 DEF Window
<1>13. ASSUME NEW j \in 1 .. Len(new)
       PROVE  new[j] = node \/ \E i \in 1 .. Len(list) : new[j] = list[i]
  <2>1. CASE j < at
    <3>1. j \in 1 .. Len(list) /\ new[j] = list[j]
      BY <1>0, <1>3, <1>7, <2>1
    <3> QED BY <3>1
  <2>2. CASE j = at
    BY <1>7, <2>2
  <2>3. CASE j > at
    <3>1. j - 1 \in 1 .. Len(list) /\ ~ (j < at) /\ j # at /\ j \in 1 .. Len(list) + 1
      BY <1>0, <1>3, <1>7, <2>3
    <3>2. new[j] = list[j - 1]
      BY <1>7, <3>1
    <3> QED BY <3>1, <3>2
  <2> QED BY <1>0, <1>3, <1>7, <2>1, <2>2, <2>3
<1> QED BY <1>7, <1>11, <1>12, <1>13 DEF new

\* Without its first n frames the list is ahead of a number k further on.
LEMMA DropKeepsOrder ==
    ASSUME NEW list \in Seq(HeldNode), NEW e \in FrameSeq, Window(list, e, 0),
           NEW n \in 0 .. Len(list), NEW k \in Nat, NEW lo \in Nat,
           \A i \in n + 1 .. Len(list) : Dist(e, list[i].txSeq) >= k + lo
    PROVE  LET rest == SubSeq(list, n + 1, Len(list))
           IN  /\ rest \in Seq(HeldNode) /\ Len(rest) = Len(list) - n
               /\ Window(rest, SeqPlus(e, k), lo)
               /\ rest # <<>> => /\ SeqPlus(e, k) \in FrameSeq
                                 /\ list # <<>> /\ Last(rest) = Last(list)
<1> DEFINE rest == SubSeq(list, n + 1, Len(list))
           d(i) == Dist(e, list[i].txSeq)
<1>0. /\ Len(list) \in Nat /\ SeqHalf \in Nat
      /\ \A i \in 1 .. Len(list) : list[i] \in HeldNode /\ list[i].txSeq \in FrameSeq
  <2>1. Len(list) \in Nat /\ \A i \in 1 .. Len(list) : list[i] \in HeldNode
    BY LenProperties, ElementOfSeq
  <2>2. \A m \in HeldNode : m.txSeq \in FrameSeq
    BY DEF HeldNode
  <2> QED BY <2>1, <2>2, SeqHalfAssumption
<1>1. /\ rest \in Seq(HeldNode) /\ Len(rest) = Len(list) - n
      /\ \A i \in 1 .. Len(list) - n : rest[i] = list[n + i]
  BY <1>0, SubSeqProperties, ElementOfSeq
<1> HIDE DEF rest
<1>2. ASSUME NEW i \in 1 .. Len(rest)
      PROVE  /\ n + i \in 1 .. Len(list) /\ n + i \in n + 1 .. Len(list)
             /\ SeqPlus(e, k) \in FrameSeq
             /\ Dist(SeqPlus(e, k), rest[i].txSeq) = d(n + i) - k
             /\ d(n + i) \in Nat /\ d(n + i) < SeqHalf /\ d(n + i) >= k + lo
  <2>1. n + i \in 1 .. Len(list) /\ n + i \in n + 1 .. Len(list)
    BY <1>0, <1>1
  <2>2. d(n + i) \in 0 .. (SeqHalf - 1) /\ d(n + i) >= k + lo
    BY <2>1 DEF Window
  <2>3. rest[i] = list[n + i] /\ list[n + i].txSeq \in FrameSeq
    BY <1>0, <1>1, <2>1
  <2>4. k \in 0 .. d(n + i)
    <3> HIDE DEF d
    <3> QED BY <1>0, <2>2
  <2>5. SeqPlus(e, k) \in FrameSeq /\ Dist(SeqPlus(e, k), list[n + i].txSeq) = d(n + i) - k
    BY <2>3, <2>4, DistFromLater
  <2>6. d(n + i) \in Nat /\ d(n + i) < SeqHalf
    <3> HIDE DEF d
    <3> QED BY <1>0, <2>2
  <2> QED BY <2>1, <2>2, <2>3, <2>5, <2>6
<1>3. \A i \in 1 .. Len(rest) : Dist(SeqPlus(e, k), rest[i].txSeq) \in lo .. (SeqHalf - 1)
  <2> TAKE i \in 1 .. Len(rest)
  <2> HIDE DEF d
  <2> QED BY <1>0, <1>2
<1>4. ASSUME NEW i \in 1 .. Len(rest), NEW j \in 1 .. Len(rest), i < j
      PROVE  Dist(SeqPlus(e, k), rest[i].txSeq) < Dist(SeqPlus(e, k), rest[j].txSeq)
  <2>1. n + i < n + j
    BY <1>0, <1>1, <1>4
  <2>2. d(n + i) < d(n + j)
    BY <1>2, <2>1 DEF Window
  <2> HIDE DEF d
  <2> QED BY <1>2, <2>2
<1>5. ASSUME rest # <<>>
      PROVE  SeqPlus(e, k) \in FrameSeq /\ list # <<>> /\ Last(rest) = Last(list)
  <2>1. Len(rest) \in Nat /\ Len(rest) # 0
    BY <1>1, <1>5, EmptySeq, LenProperties
  <2>2. Len(rest) \in 1 .. Len(rest) /\ n + Len(rest) = Len(list)
    BY <1>0, <1>1, <2>1
  <2>3. rest[Len(rest)] = list[Len(list)]
    BY <1>1, <2>2
  <2>4. Len(list) # 0
    BY <1>0, <1>1, <2>1
  <2> QED BY <1>2, <2>2, <2>3, <2>4, EmptySeq DEF Last
<1>6. Window(rest, SeqPlus(e, k), lo)
  BY <1>3, <1>4 DEF Window
<1> QED BY <1>1, <1>5, <1>6 DEF rest

\* How many frames ReportExpectedStreamFrame reports: they follow each other from the
\* number expected on, and a gap follows them.
LEMMA Reported ==
    ASSUME NEW c \in RxState, c.expectedSeq \in FrameSeq, Window(c.rxList, c.expectedSeq, 0)
    PROVE  /\ InSequence(c) \in 0 .. Len(c.rxList) /\ InSequence(c) <= SeqHalf
           /\ \A i \in 1 .. InSequence(c) : Dist(c.expectedSeq, c.rxList[i].txSeq) = i - 1
           /\ \A i \in InSequence(c) + 1 .. Len(c.rxList) :
                 Dist(c.expectedSeq, c.rxList[i].txSeq) >= InSequence(c) + 1
<1> DEFINE list == c.rxList
           e == c.expectedSeq
           d(i) == Dist(e, list[i].txSeq)
           ok == {m \in 0 .. Len(list) :
                    \A i \in 1 .. m : list[i].txSeq = SeqPlus(e, i - 1)}
           n == InSequence(c)
<1>0. /\ list \in Seq(HeldNode) /\ e \in FrameSeq
      /\ Len(list) \in Nat /\ SeqHalf \in Nat \ {0}
      /\ \A i \in 1 .. Len(list) : list[i] \in HeldNode /\ list[i].txSeq \in FrameSeq
  <2>1. list \in Seq(HeldNode)
    BY DEF RxState
  <2>2. Len(list) \in Nat /\ \A i \in 1 .. Len(list) : list[i] \in HeldNode
    BY <2>1, LenProperties, ElementOfSeq
  <2>3. \A m \in HeldNode : m.txSeq \in FrameSeq
    BY DEF HeldNode
  <2> QED BY <2>1, <2>2, <2>3, SeqHalfAssumption
<1>1. n \in ok /\ \A m \in ok : n >= m
  <2>1. 0 \in ok
    BY <1>0
  <2>2. n = Max(ok)
    BY DEF InSequence
  <2>3. ok \subseteq 0 .. Len(list) /\ ok # {}
    BY <2>1
  <2> HIDE DEF ok, n
  <2> QED BY <1>0, <2>2, <2>3, MaxProperties
<1>2. n \in 0 .. Len(list) /\ \A i \in 1 .. n : list[i].txSeq = SeqPlus(e, i - 1)
  BY <1>1
<1>3. \A i \in 1 .. Len(list) : d(i) \in 0 .. (SeqHalf - 1)
  BY DEF Window
<1>4. \A i, j \in 1 .. Len(list) : i < j => d(i) < d(j)
  BY DEF Window
<1>5. \A i \in 1 .. n : d(i) = i - 1
  <2> DEFINE bad == {i \in 1 .. n : d(i) # i - 1}
  <2> SUFFICES ASSUME bad # {} PROVE FALSE
    OBVIOUS
  <2> HIDE DEF d, n
  <2>1. bad \subseteq Nat
    BY <1>2
  <2>2. PICK i \in bad : \A j \in bad : i <= j
    BY <2>1, NatMin
  <2>3. i \in 1 .. n /\ d(i) # i - 1 /\ i \in 1 .. Len(list) /\ list[i].txSeq = SeqPlus(e, i - 1)
    BY <1>0, <1>2, <2>2
  <2>4. i - 1 <= SeqHalf
    <3>1. CASE i = 1
      BY <1>0, <3>1
    <3>2. CASE i # 1
      <4>1. i - 1 \in 1 .. n /\ i - 1 \in 1 .. Len(list) /\ ~ (i <= i - 1)
        BY <1>0, <1>2, <2>3, <3>2
      <4>2. d(i - 1) = (i - 1) - 1
        BY <2>2, <4>1
      <4>3. d(i - 1) \in 0 .. (SeqHalf - 1)
        BY <1>3, <4>1
      <4> QED BY <1>0, <4>1, <4>2, <4>3
    <3> QED BY <3>1, <3>2
  <2>5. i - 1 \in Nat /\ i - 1 <= SeqHalf
    BY <1>2, <2>3, <2>4
  <2>6. \A m \in Nat : m <= SeqHalf => Dist(e, SeqPlus(e, m)) = m
    BY <1>0, SeqHalfAssumption DEF Dist, SeqDiff, SeqPlus, FrameSeq, SeqModulus
  <2> QED BY <2>3, <2>5, <2>6 DEF d
<1>6. n <= SeqHalf
  <2>1. CASE n = 0
    BY <1>0, <2>1
  <2>2. CASE n # 0
    <3>1. n \in 1 .. n /\ n \in 1 .. Len(list)
      BY <1>0, <1>2, <2>2
    <3>2. d(n) = n - 1 /\ d(n) \in 0 .. (SeqHalf - 1)
      BY <1>3, <1>5, <3>1
    <3> HIDE DEF d, n
    <3> QED BY <1>0, <1>2, <3>2
  <2> QED BY <2>1, <2>2
<1>7. ASSUME n + 1 \in 1 .. Len(list) PROVE d(n + 1) >= n + 1
  <2>1. d(n + 1) >= n
    <3>1. CASE n = 0
      BY <1>0, <1>3, <1>7, <3>1
    <3>2. CASE n # 0
      <4>1. n \in 1 .. n /\ n \in 1 .. Len(list) /\ n < n + 1
        BY <1>0, <1>2, <3>2
      <4>2. d(n) = n - 1 /\ d(n) < d(n + 1) /\ d(n + 1) \in 0 .. (SeqHalf - 1)
        BY <1>3, <1>4, <1>5, <1>7, <4>1
      <4> HIDE DEF d, n
      <4> QED BY <1>0, <1>2, <4>2
    <3> QED BY <3>1, <3>2
  <2>2. d(n + 1) # n
    <3> SUFFICES ASSUME d(n + 1) = n PROVE FALSE
      OBVIOUS
    <3>1. list[n + 1].txSeq = SeqPlus(e, n)
      BY <1>0, <1>7, DistType
    <3>2. \A i \in 1 .. n + 1 : list[i].txSeq = SeqPlus(e, i - 1)
      <4> TAKE i \in 1 .. n + 1
      <4>1. CASE i = n + 1
        <5>1. (n + 1) - 1 = n
          BY <1>2
        <5> QED BY <3>1, <4>1, <5>1
      <4>2. CASE i # n + 1
        <5>1. i \in 1 .. n
          BY <1>2, <4>2
        <5> QED BY <1>2, <5>1
      <4> QED BY <4>1, <4>2
    <3>3. n + 1 \in 0 .. Len(list)
      BY <1>7
    <3>4. n + 1 \in ok
      BY <3>2, <3>3
    <3>5. n >= n + 1
      BY <1>1, <3>4
    <3> HIDE DEF n
    <3> QED BY <1>2, <3>5
  <2>3. d(n + 1) \in Nat /\ n \in Nat
    <3>1. d(n + 1) \in 0 .. (SeqHalf - 1)
      BY <1>3, <1>7
    <3> HIDE DEF d, n
    <3> QED BY <1>0, <1>2, <3>1
  <2> HIDE DEF d, n
  <2> QED BY <2>1, <2>2, <2>3
<1>8. \A i \in n + 1 .. Len(list) : d(i) >= n + 1
  <2> TAKE i \in n + 1 .. Len(list)
  <2>1. i \in 1 .. Len(list) /\ n + 1 \in 1 .. Len(list)
    BY <1>0, <1>2
  <2>2. i # n + 1 => d(n + 1) < d(i)
    BY <1>2, <1>4, <2>1
  <2>3. d(n + 1) >= n + 1 /\ d(n + 1) \in 0 .. (SeqHalf - 1) /\ d(i) \in 0 .. (SeqHalf - 1)
    BY <1>3, <1>7, <2>1
  <2> HIDE DEF d, n
  <2> QED BY <1>0, <1>2, <2>2, <2>3
<1> QED BY <1>2, <1>5, <1>6, <1>8

\* ReportExpectedStreamFrame stops at a gap: what it leaves is ahead of the number it
\* then expects by one or more.
LEMMA ReportStopsAtGap ==
    ASSUME NEW c \in RxState, c.expectedSeq \in FrameSeq, Window(c.rxList, c.expectedSeq, 0)
    PROVE  LET r == ReportExpectedStreamFrame(c)
           IN  /\ r \in RxState /\ r.expectedSeq \in FrameSeq
               /\ r.maxExpectedSeq = c.maxExpectedSeq /\ r.handle = c.handle
               /\ Window(r.rxList, r.expectedSeq, 1)
               /\ r.expectedSeq = SeqPlus(c.expectedSeq, InSequence(c))
               /\ r.rxList = SubSeq(c.rxList, InSequence(c) + 1, Len(c.rxList))
               /\ r.rxList # <<>> => c.rxList # <<>> /\ Last(r.rxList) = Last(c.rxList)
<1> DEFINE list == c.rxList
           e == c.expectedSeq
           n == InSequence(c)
           r == ReportExpectedStreamFrame(c)
<1>0. /\ list \in Seq(HeldNode) /\ e \in FrameSeq
      /\ Len(list) \in Nat /\ SeqHalf \in Nat \ {0}
      /\ \A i \in 1 .. Len(list) : list[i] \in HeldNode /\ list[i].txSeq \in FrameSeq
  <2>1. list \in Seq(HeldNode)
    BY DEF RxState
  <2>2. Len(list) \in Nat /\ \A i \in 1 .. Len(list) : list[i] \in HeldNode
    BY <2>1, LenProperties, ElementOfSeq
  <2>3. \A m \in HeldNode : m.txSeq \in FrameSeq
    BY DEF HeldNode
  <2> QED BY <2>1, <2>2, <2>3, SeqHalfAssumption
<1>2. n \in 0 .. Len(list) /\ n <= SeqHalf
  BY Reported
<1>8. \A i \in n + 1 .. Len(list) : Dist(e, list[i].txSeq) >= n + 1
  BY Reported
<1> DEFINE rest == SubSeq(list, n + 1, Len(list))
<1>9. /\ rest \in Seq(HeldNode) /\ Window(rest, SeqPlus(e, n), 1)
      /\ rest # <<>> => list # <<>> /\ Last(rest) = Last(list)
  <2> HIDE DEF n, list, e
  <2>1. n \in Nat /\ 1 \in Nat
    BY <1>0, <1>2
  <2>2. Window(list, e, 0)
    BY DEF list, e
  <2>3. \A i \in n + 1 .. Len(list) : Dist(e, list[i].txSeq) >= n + 1
    BY <1>8
  <2>4. /\ SubSeq(list, n + 1, Len(list)) \in Seq(HeldNode)
        /\ Window(SubSeq(list, n + 1, Len(list)), SeqPlus(e, n), 1)
        /\ SubSeq(list, n + 1, Len(list)) # <<>> =>
              list # <<>> /\ Last(SubSeq(list, n + 1, Len(list))) = Last(list)
    <3> HIDE DEF rest
    <3> QED BY <1>0, <1>2, <2>1, <2>2, <2>3, DropKeepsOrder
  <2> QED BY <2>4
<1>10. SeqPlus(e, n) \in FrameSeq /\ (n = 0 => SeqPlus(e, n) = e)
  <2> HIDE DEF n, e
  <2> QED BY <1>0, <1>2 DEF SeqPlus, FrameSeq, SeqModulus
<1> HIDE DEF n
<1>11. r = [c EXCEPT !.rxList = rest, !.expectedSeq = SeqPlus(e, n)]
  BY <1>10 DEF ReportExpectedStreamFrame, n
<1>12. /\ r \in RxState /\ r.rxList = rest /\ r.expectedSeq = SeqPlus(e, n)
       /\ r.maxExpectedSeq = c.maxExpectedSeq /\ r.handle = c.handle
  <2> HIDE DEF r, rest, e
  <2>1. c \in RxState /\ rest \in Seq(HeldNode) /\ SeqPlus(e, n) \in FrameSeq
    BY <1>9, <1>10
  <2> QED BY <1>11, <2>1 DEF RxState
<1> HIDE DEF r, rest
<1>13. /\ r \in RxState /\ r.expectedSeq \in FrameSeq
       /\ r.maxExpectedSeq = c.maxExpectedSeq /\ r.handle = c.handle
       /\ Window(r.rxList, r.expectedSeq, 1)
       /\ r.rxList # <<>> => c.rxList # <<>> /\ Last(r.rxList) = Last(c.rxList)
  BY <1>9, <1>10, <1>12
<1> QED BY <1>12, <1>13 DEF r, rest, n

\* The frame that has waited longest is one that is held: the timer is for a number in
\* range.
LEMMA OldestType ==
    ASSUME NEW c \in RxState, NEW now \in Nat
    PROVE  Oldest(c, now) \in FrameSeq
<1> DEFINE list == c.rxList
           aged == {i \in 1 .. Len(list) : list[i].timeStamp < now}
           First(i) == \A j \in aged :
                          \/ list[i].timeStamp < list[j].timeStamp
                          \/ list[i].timeStamp = list[j].timeStamp /\ i <= j
<1>0. /\ list \in Seq(HeldNode) /\ Len(list) \in Nat /\ c.reorderTxSeq \in FrameSeq
      /\ \A i \in 1 .. Len(list) : list[i].txSeq \in FrameSeq /\ list[i].timeStamp \in Nat
  <2>1. list \in Seq(HeldNode) /\ c.reorderTxSeq \in FrameSeq
    BY DEF RxState
  <2>2. Len(list) \in Nat /\ \A i \in 1 .. Len(list) : list[i] \in HeldNode
    BY <2>1, LenProperties, ElementOfSeq
  <2>3. \A m \in HeldNode : m.txSeq \in FrameSeq /\ m.timeStamp \in Nat
    BY DEF HeldNode
  <2> QED BY <2>1, <2>2, <2>3
<1>1. CASE aged = {}
  BY <1>0, <1>1 DEF Oldest
<1>2. CASE aged # {}
  <2> DEFINE stamps == {t \in Nat : \E i \in aged : list[i].timeStamp = t}
  <2>1. PICK a \in aged : TRUE
    BY <1>2
  <2>2. a \in 1 .. Len(list) /\ list[a].timeStamp \in stamps
    BY <1>0, <2>1
  <2>3. PICK t \in stamps : \A u \in stamps : t <= u
    BY <2>2, NatMin
  <2> DEFINE least == {i \in aged : list[i].timeStamp = t}
  <2>4. least \subseteq Nat /\ least # {}
    BY <1>0, <2>3
  <2>5. PICK i \in least : \A j \in least : i <= j
    BY <2>4, NatMin
  <2>6. ASSUME NEW j \in aged
        PROVE  \/ list[i].timeStamp < list[j].timeStamp
               \/ list[i].timeStamp = list[j].timeStamp /\ i <= j
    <3>1. list[j].timeStamp \in Nat /\ list[j].timeStamp \in stamps
      BY <1>0
    <3>2. t \in Nat /\ t <= list[j].timeStamp /\ list[i].timeStamp = t
      BY <2>3, <2>5, <3>1
    <3>3. list[j].timeStamp = t => i <= j
      BY <2>5
    <3> QED BY <3>1, <3>2, <3>3, SMTT(30)
  <2>7. \E k \in aged : First(k)
    BY <2>5, <2>6
  <2> DEFINE k == CHOOSE k \in aged : First(k)
  <2>8. k \in aged
    BY <2>7
  <2>9. Oldest(c, now) = list[k].txSeq
    BY <1>2 DEF Oldest
  <2>10. k \in 1 .. Len(list)
    BY <2>8
  <2> HIDE DEF k
  <2> QED BY <1>0, <2>9, <2>10
<1> QED BY <1>1, <1>2

-----------------------------------------------------------------------------
(* The inductive invariant.                                                *)

StreamTypeOK ==
    /\ rx \in RxState /\ net \in Seq([txSeq : FrameSeq, sdu : Nat])
    /\ running \in BOOLEAN /\ loose \in Nat /\ tasks \in Nat /\ clock \in Nat /\ sent \in Nat

\* What a handle stands for: its timer runs, or its expiry is in the queue.
HandleIsTimer == rx.handle => running \/ tasks > 0

StreamInv == StreamTypeOK /\ RxOK(rx) /\ HandleIsTimer /\ GapIsTimed

\* StartReorderTimer starts a timer whenever frames are held.
LEMMA StartTimesGap ==
    ASSUME NEW c, RxOK(c), c.handle = FALSE, NEW looseNow \in Nat, NEW now \in Nat,
           StartReorderTimer(c, looseNow, now)
    PROVE  /\ RxOK(rx') /\ running' \in BOOLEAN /\ loose' = looseNow
           /\ rx'.handle => running'
           /\ rx'.rxList # <<>> => running'
<1>0. c \in RxState
  BY DEF RxOK
<1>1. running' = NeedsTimer(c) /\ running' \in BOOLEAN /\ loose' = looseNow
  BY DEF StartReorderTimer, NeedsTimer
<1>2. c.rxList # <<>> => NeedsTimer(c)
  <2> SUFFICES ASSUME c.rxList # <<>> PROVE NeedsTimer(c)
    OBVIOUS
  <2>1. /\ c.rxList \in Seq(HeldNode) /\ c.expectedSeq \in FrameSeq
        /\ Window(c.rxList, c.expectedSeq, 1)
        /\ c.maxExpectedSeq = Last(c.rxList).txSeq + 1
    BY <1>0 DEF RxOK, RxState
  <2> DEFINE k == Len(c.rxList)
  <2>2. k \in 1 .. k
    BY <2>1, EmptySeq, LenProperties
  <2>3. c.rxList[k] \in HeldNode
    BY <2>1, <2>2, ElementOfSeq
  <2>4. c.rxList[k].txSeq \in FrameSeq /\ Last(c.rxList) = c.rxList[k]
    BY <2>3 DEF HeldNode, Last
  <2>5. Dist(c.expectedSeq, c.rxList[k].txSeq) \in 1 .. (SeqHalf - 1)
    BY <2>1, <2>2 DEF Window
  <2> QED BY <2>1, <2>4, <2>5, LastPlusOneDiffers DEF NeedsTimer
<1>3. CASE NeedsTimer(c)
  <2> DEFINE o == Oldest(c, now)
  <2>1. o \in FrameSeq
    BY <1>0, OldestType
  <2>2. rx' = [c EXCEPT !.handle = TRUE, !.reorderTxSeq = o]
    BY <1>3 DEF StartReorderTimer
  <2> HIDE DEF o
  <2>3. /\ rx' \in RxState /\ rx'.rxList = c.rxList /\ rx'.expectedSeq = c.expectedSeq
        /\ rx'.maxExpectedSeq = c.maxExpectedSeq
    BY <1>0, <2>1, <2>2 DEF RxState
  <2> QED BY <1>1, <1>3, <2>3 DEF RxOK
<1>4. CASE ~ NeedsTimer(c)
  <2>1. rx' = c
    BY <1>4 DEF StartReorderTimer
  <2> QED BY <1>1, <1>2, <2>1
<1> QED BY <1>3, <1>4

\* The initial state of a channel.
LEMMA InitRxOK == RxOK(InitRx)
  BY SeqHalfAssumption DEF InitRx, RxOK, RxState, FrameSeq, SeqModulus, SeqInit

\* DTAP_FRAME_SEQ_INIT is no sequence number.
LEMMA SeqInitOutside == SeqInit \notin FrameSeq /\ SeqInit \in Nat
  BY SeqHalfAssumption DEF FrameSeq, SeqModulus, SeqInit

\* Once the expected frame has come, what is held is not behind the next number.
LEMMA NextWindow ==
    ASSUME NEW c, RxOK(c), c.expectedSeq \in FrameSeq
    PROVE  /\ GetNextFrameSeq(c.expectedSeq) \in FrameSeq
           /\ GetNextFrameSeq(c.expectedSeq) = SeqPlus(c.expectedSeq, 1)
           /\ Window(c.rxList, GetNextFrameSeq(c.expectedSeq), 0)
           /\ \A i \in 0 + 1 .. Len(c.rxList) : Dist(c.expectedSeq, c.rxList[i].txSeq) >= 1
           /\ c.rxList \in Seq(HeldNode) /\ SubSeq(c.rxList, 0 + 1, Len(c.rxList)) = c.rxList
<1>0. PICK e \in FrameSeq, list \in Seq(HeldNode) : e = c.expectedSeq /\ list = c.rxList
  BY DEF RxOK, RxState
<1>1. Len(list) \in Nat /\ 0 \in 0 .. Len(list)
  <2>1. Len(list) \in Nat
    BY LenProperties
  <2> QED BY <2>1
<1>2. GetNextFrameSeq(e) \in FrameSeq /\ GetNextFrameSeq(e) = SeqPlus(e, 1)
  BY SeqHalfAssumption DEF GetNextFrameSeq, SeqPlus, FrameSeq, SeqModulus
<1>3. Window(list, e, 1)
  <2>1. CASE list = <<>>
    BY <2>1 DEF Window
  <2>2. CASE list # <<>>
    BY <1>0, <2>2 DEF RxOK
  <2> QED BY <2>1, <2>2
<1>4. Window(list, e, 0)
  BY <1>1, <1>3, SeqHalfAssumption DEF Window
<1>5. \A i \in 0 + 1 .. Len(list) : Dist(e, list[i].txSeq) >= 1 + 0
  BY <1>3, SeqHalfAssumption DEF Window
<1>6. SubSeq(list, 0 + 1, Len(list)) = list
  BY <1>1
<1>7. Window(SubSeq(list, 0 + 1, Len(list)), SeqPlus(e, 1), 0)
  BY <1>1, <1>4, <1>5, DropKeepsOrder
<1>8. \A i \in 0 + 1 .. Len(list) : Dist(e, list[i].txSeq) >= 1
  BY <1>3, SeqHalfAssumption DEF Window
<1> QED BY <1>0, <1>2, <1>6, <1>7, <1>8

\* DTAP_RecvStreamFrame keeps the invariant, frame by frame.
LEMMA RecvKeepsInv ==
    ASSUME StreamInv, NEW f \in [txSeq : FrameSeq, sdu : Nat],
           RecvFirst(f) \/ RecvExpected(f) \/ RecvAhead(f) \/ RecvDropped(f)
    PROVE  /\ RxOK(rx') /\ running' \in BOOLEAN /\ loose' \in Nat /\ tasks' \in Nat
           /\ clock' \in Nat /\ HandleIsTimer' /\ GapIsTimed'
<1> USE DEF StreamInv, StreamTypeOK
<1>0. f.txSeq \in FrameSeq /\ f.sdu \in Nat
  OBVIOUS
<1>1. CASE RecvFirst(f)
  <2>1. rx.rxList = <<>>
    BY <1>1, SeqInitOutside DEF RecvFirst, RxOK
  <2>2. GetNextFrameSeq(f.txSeq) \in FrameSeq /\ GetNextFrameSeq(f.txSeq) \in Nat
    BY <1>0, SeqHalfAssumption DEF GetNextFrameSeq, FrameSeq, SeqModulus
  <2>3. rx' \in RxState /\ rx'.rxList = <<>> /\ rx'.handle = rx.handle
    <3> DEFINE g == GetNextFrameSeq(f.txSeq)
    <3>1. rx' = [rx EXCEPT !.expectedSeq = g, !.maxExpectedSeq = g]
      BY <1>1 DEF RecvFirst
    <3> HIDE DEF g
    <3> QED BY <2>1, <2>2, <3>1 DEF RxState, g
  <2>4. UNCHANGED <<running, loose, tasks, clock>>
    BY <1>1 DEF RecvFirst, timers
  <2> QED BY <2>3, <2>4 DEF RxOK, HandleIsTimer, GapIsTimed
<1>2. CASE RecvExpected(f)
  <2> DEFINE e == rx.expectedSeq
             g == GetNextFrameSeq(e)
             c == [rx EXCEPT !.expectedSeq = g]
             r == ReportExpectedStreamFrame(c)
             q == [r EXCEPT !.handle = FALSE]
  <2>1. e \in FrameSeq /\ rx.rxList \in Seq(HeldNode) /\ rx \in RxState
    BY <1>0, <1>2 DEF RecvExpected, RxState
  <2>2. g \in FrameSeq /\ g = SeqPlus(e, 1)
    BY <2>1, NextWindow
  <2>3. Window(rx.rxList, g, 0)
    BY <2>1, NextWindow
  <2>4. /\ c \in RxState /\ c.expectedSeq = g /\ c.rxList = rx.rxList
        /\ c.maxExpectedSeq = rx.maxExpectedSeq
    <3> HIDE DEF g
    <3> QED BY <2>1, <2>2 DEF RxState
  <2>5. StartReorderTimer(q, loose, clock) /\ UNCHANGED <<tasks, clock>>
    BY <1>2 DEF RecvExpected
  <2> HIDE DEF c, g, e
  <2>6. /\ r \in RxState /\ r.expectedSeq \in FrameSeq /\ r.maxExpectedSeq = c.maxExpectedSeq
        /\ Window(r.rxList, r.expectedSeq, 1)
        /\ r.rxList # <<>> => c.rxList # <<>> /\ Last(r.rxList) = Last(c.rxList)
    BY <2>2, <2>3, <2>4, ReportStopsAtGap
  <2>7. r.rxList # <<>> => rx.rxList # <<>>
    BY <2>4, <2>6
  <2> HIDE DEF r
  <2>8. /\ q \in RxState /\ q.expectedSeq = r.expectedSeq /\ q.rxList = r.rxList
        /\ q.maxExpectedSeq = r.maxExpectedSeq /\ q.handle = FALSE
    BY <2>6 DEF RxState
  <2> HIDE DEF q
  <2>9. RxOK(q)
    BY <2>4, <2>6, <2>7, <2>8 DEF RxOK
  <2>10. /\ RxOK(rx') /\ running' \in BOOLEAN /\ loose' = loose
         /\ rx'.handle => running'
         /\ rx'.rxList # <<>> => running'
    BY <2>5, <2>8, <2>9, StartTimesGap
  <2> QED BY <2>5, <2>10 DEF HandleIsTimer, GapIsTimed
<1>3. CASE RecvAhead(f)
  <2> DEFINE e == rx.expectedSeq
             node == [txSeq |-> f.txSeq, sdu |-> f.sdu, timeStamp |-> clock]
             list == InsertStreamRxNode(rx.rxList, node)
             c == [rx EXCEPT !.rxList = list, !.maxExpectedSeq = LastTxSeqPlus1(list)]
  <2>1. PICK now \in {clock, clock + 1} :
           /\ clock' = now
           /\ IF rx.handle THEN rx' = c /\ UNCHANGED <<running, loose>>
              ELSE StartReorderTimer(c, loose, now)
    BY <1>3 DEF RecvAhead
  <2>2. now \in Nat /\ clock' \in Nat /\ tasks' = tasks
    BY <1>3, <2>1 DEF RecvAhead
  <2>3. /\ e \in FrameSeq /\ rx.rxList \in Seq(HeldNode) /\ rx \in RxState
        /\ f.txSeq # e /\ ~ IsFrameSeqSmaller(f.txSeq, e)
        /\ \A i \in 1 .. Len(rx.rxList) : rx.rxList[i].txSeq # f.txSeq
    BY <1>3 DEF RecvAhead, Duplicate, RxState
  <2>4. Dist(e, f.txSeq) \in 1 .. (SeqHalf - 1)
    BY <1>0, <2>3, NotSmallerIsAhead
  <2>5. Window(rx.rxList, e, 1)
    <3>1. CASE rx.rxList = <<>>
      BY <3>1 DEF Window
    <3>2. CASE rx.rxList # <<>>
      BY <3>2 DEF RxOK
    <3> QED BY <3>1, <3>2
  <2>6. node \in HeldNode /\ node.txSeq = f.txSeq
    BY <1>0 DEF HeldNode
  <2>7. list \in Seq(HeldNode) /\ list # <<>> /\ Window(list, e, 1)
    <3> HIDE DEF e, node
    <3> QED BY <2>3, <2>4, <2>5, <2>6, InsertKeepsOrder, ZenonT(60)
  <2> HIDE DEF node, list
  <2>8. LastTxSeqPlus1(list) \in Nat /\ LastTxSeqPlus1(list) = Last(list).txSeq + 1
    <3>1. Last(list) \in HeldNode
      <4>1. Len(list) \in 1 .. Len(list)
        BY <2>7, EmptySeq, LenProperties
      <4> QED BY <2>7, <4>1, ElementOfSeq DEF Last
    <3>2. Last(list).txSeq \in Nat
      BY <3>1, SeqHalfAssumption DEF HeldNode, FrameSeq, SeqModulus
    <3> QED BY <2>7, <3>2 DEF LastTxSeqPlus1
  <2>9. /\ c \in RxState /\ c.rxList = list /\ c.expectedSeq = e /\ c.handle = rx.handle
        /\ c.maxExpectedSeq = Last(list).txSeq + 1
    <3> DEFINE l == LastTxSeqPlus1(list)
    <3>1. c = [rx EXCEPT !.rxList = list, !.maxExpectedSeq = l] /\ l \in Nat
      BY <2>8
    <3> HIDE DEF l, c
    <3>2. /\ c \in RxState /\ c.rxList = list /\ c.expectedSeq = e /\ c.handle = rx.handle
          /\ c.maxExpectedSeq = l
      BY <2>3, <2>7, <3>1 DEF RxState
    <3> QED BY <2>8, <3>2 DEF l
  <2> HIDE DEF c
  <2>10. RxOK(c)
    BY <2>3, <2>7, <2>9 DEF RxOK
  <2>11. CASE rx.handle
    <3>1. rx' = c /\ UNCHANGED <<running, loose>>
      BY <2>1, <2>11
    <3> QED BY <2>2, <2>9, <2>10, <2>11, <3>1 DEF HandleIsTimer, GapIsTimed
  <2>12. CASE ~ rx.handle
    <3>1. StartReorderTimer(c, loose, now)
      BY <2>1, <2>12
    <3>2. c.handle = FALSE
      BY <2>3, <2>9, <2>12 DEF RxState
    <3>3. /\ RxOK(rx') /\ running' \in BOOLEAN /\ loose' = loose
          /\ rx'.handle => running'
          /\ rx'.rxList # <<>> => running'
      BY <2>2, <2>10, <3>1, <3>2, StartTimesGap
    <3> QED BY <2>2, <3>3 DEF HandleIsTimer, GapIsTimed
  <2> QED BY <2>11, <2>12
<1>4. CASE RecvDropped(f)
  <2>1. UNCHANGED <<rx, running, loose, tasks, clock>>
    BY <1>4 DEF RecvDropped, timers
  <2> QED BY <2>1 DEF HandleIsTimer, GapIsTimed
<1> QED BY <1>1, <1>2, <1>3, <1>4

\* How many frames DTAP_ReorderStreamFrameTask gives up waiting before.
LEMMA BeforeType ==
    ASSUME NEW c \in RxState
    PROVE  Before(c) \in 0 .. Len(c.rxList)
<1> DEFINE T == {k \in 0 .. Len(c.rxList) :
                   \A i \in 1 .. k : IsFrameSeqSmaller(c.rxList[i].txSeq, c.reorderTxSeq)}
<1>1. Len(c.rxList) \in Nat
  BY LenProperties DEF RxState
<1>2. 0 \in T
  BY <1>1
<1>3. Before(c) = Max(T)
  BY DEF Before
<1>4. T \subseteq 0 .. Len(c.rxList) /\ T # {}
  BY <1>2
<1> HIDE DEF T
<1> QED BY <1>1, <1>3, <1>4, MaxProperties

\* After the first n frames of the list the receiver waits for the number after them, k
\* further on, and what is left is not behind it.
LEMMA Skipped ==
    ASSUME NEW list \in Seq(HeldNode), NEW e \in FrameSeq, Window(list, e, 1),
           NEW n \in 0 .. Len(list), NEW g, g = IF n = 0 THEN e ELSE GetNextFrameSeq(list[n].txSeq),
           NEW k, k = IF n = 0 THEN 0 ELSE Dist(e, list[n].txSeq) + 1
    PROVE  /\ k \in Nat /\ k <= SeqHalf /\ g = SeqPlus(e, k) /\ g \in FrameSeq
           /\ \A i \in n + 1 .. Len(list) : Dist(e, list[i].txSeq) >= k
           /\ SubSeq(list, n + 1, Len(list)) \in Seq(HeldNode)
           /\ Window(SubSeq(list, n + 1, Len(list)), g, 0)
           /\ SubSeq(list, n + 1, Len(list)) # <<>> =>
                 Last(SubSeq(list, n + 1, Len(list))) = Last(list)
<1>0. Len(list) \in Nat /\ SeqHalf \in Nat
  BY LenProperties, SeqHalfAssumption
<1>1. Window(list, e, 0)
  BY <1>0 DEF Window
<1>2. \A i \in 1 .. Len(list) : list[i] \in HeldNode /\ list[i].txSeq \in FrameSeq
  <2>1. \A i \in 1 .. Len(list) : list[i] \in HeldNode
    BY ElementOfSeq
  <2> QED BY <2>1 DEF HeldNode
<1>3. k \in Nat /\ k <= SeqHalf /\ g = SeqPlus(e, k) /\ g \in FrameSeq
  <2>1. CASE n = 0
    BY <1>0, <2>1 DEF SeqPlus, FrameSeq, SeqModulus
  <2>2. CASE n # 0
    <3>1. n \in 1 .. Len(list)
      BY <1>0, <2>2
    <3>2. list[n].txSeq \in FrameSeq /\ Dist(e, list[n].txSeq) \in 0 .. (SeqHalf - 1)
      BY <1>1, <1>2, <3>1 DEF Window
    <3>3. Dist(e, list[n].txSeq) \in Nat /\ Dist(e, list[n].txSeq) < SeqHalf
      BY <1>0, <3>2
    <3>4. /\ GetNextFrameSeq(list[n].txSeq) \in FrameSeq
          /\ GetNextFrameSeq(list[n].txSeq) = SeqPlus(e, Dist(e, list[n].txSeq) + 1)
      BY <3>2, <3>3, NextIsPlusOne
    <3>5. k = Dist(e, list[n].txSeq) + 1 /\ g = GetNextFrameSeq(list[n].txSeq)
      BY <2>2
    <3> QED BY <1>0, <3>3, <3>4, <3>5
  <2> QED BY <2>1, <2>2
<1>4. ASSUME NEW i \in n + 1 .. Len(list) PROVE Dist(e, list[i].txSeq) >= k
  <2>1. i \in 1 .. Len(list)
    BY <1>0
  <2>2. Dist(e, list[i].txSeq) \in 0 .. (SeqHalf - 1)
    BY <1>1, <2>1 DEF Window
  <2>3. CASE n = 0
    BY <1>0, <2>2, <2>3
  <2>4. CASE n # 0
    <3>1. n \in 1 .. Len(list) /\ n < i
      BY <1>0, <2>4
    <3>2. Dist(e, list[n].txSeq) < Dist(e, list[i].txSeq)
      BY <1>1, <2>1, <3>1 DEF Window
    <3>3. Dist(e, list[n].txSeq) \in 0 .. (SeqHalf - 1)
      BY <1>1, <3>1 DEF Window
    <3>4. k = Dist(e, list[n].txSeq) + 1
      BY <2>4
    <3> QED BY <1>0, <2>2, <3>2, <3>3, <3>4
  <2> QED BY <2>3, <2>4
<1>5. \A i \in n + 1 .. Len(list) : Dist(e, list[i].txSeq) >= k + 0
  <2>1. k + 0 = k
    BY <1>3
  <2> QED BY <1>4, <2>1
<1>6. /\ SubSeq(list, n + 1, Len(list)) \in Seq(HeldNode)
      /\ Window(SubSeq(list, n + 1, Len(list)), SeqPlus(e, k), 0)
      /\ SubSeq(list, n + 1, Len(list)) # <<>> => Last(SubSeq(list, n + 1, Len(list))) = Last(list)
  <2>1. 0 \in Nat
    OBVIOUS
  <2> QED BY <1>1, <1>3, <1>5, <2>1, DropKeepsOrder
<1> QED BY <1>3, <1>4, <1>6

\* Nothing is in sequence in an empty list.
LEMMA NothingReported ==
    ASSUME NEW c \in RxState, c.rxList = <<>>
    PROVE  /\ ReportExpectedStreamFrame(c).expectedSeq = c.expectedSeq
           /\ ReportExpectedStreamFrame(c).rxList = <<>> /\ ReportExpectedStreamFrame(c) \in RxState
           /\ ReportExpectedStreamFrame(c).handle = c.handle
           /\ SdusOf(Report(c)) = <<>>
<1> DEFINE ok == {m \in 0 .. Len(c.rxList) :
                   \A i \in 1 .. m : c.rxList[i].txSeq = SeqPlus(c.expectedSeq, i - 1)}
           r == ReportExpectedStreamFrame(c)
<1>1. ok = {0}
  OBVIOUS
<1>2. InSequence(c) = Max(ok)
  BY DEF InSequence
<1>3. ok \subseteq 0 .. 0 /\ ok # {} /\ 0 \in Nat
  BY <1>1
<1>4. Max(ok) \in ok
  <2> HIDE DEF ok
  <2> QED BY <1>3, MaxProperties
<1>5. InSequence(c) = 0
  BY <1>1, <1>2, <1>4
<1>6. r = [c EXCEPT !.rxList = SubSeq(c.rxList, 1, 0), !.expectedSeq = c.expectedSeq]
  BY <1>5 DEF ReportExpectedStreamFrame
<1>7. SubSeq(c.rxList, 1, 0) = <<>>
  OBVIOUS
<1>8. r \in RxState /\ r.rxList = <<>> /\ r.expectedSeq = c.expectedSeq /\ r.handle = c.handle
  <2> HIDE DEF r
  <2> QED BY <1>6, <1>7 DEF RxState
<1>9. Report(c) = <<>>
  BY <1>5, <1>7 DEF Report
<1>10. SdusOf(Report(c)) = <<>>
  BY <1>9 DEF SdusOf
<1> QED BY <1>8, <1>10 DEF r

\* DTAP_ReorderStreamFrameTask keeps the invariant, whatever frame its timer was for.
LEMMA TaskKeepsInv ==
    ASSUME StreamInv, ReorderStreamFrameTask
    PROVE  /\ RxOK(rx') /\ running' \in BOOLEAN /\ loose' \in Nat /\ tasks' \in Nat
           /\ HandleIsTimer' /\ GapIsTimed'
<1> USE DEF StreamInv, StreamTypeOK
<1> DEFINE list == rx.rxList
           e == rx.expectedSeq
           n == Before(rx)
           rest == SubSeq(list, n + 1, Len(list))
           g == IF n = 0 THEN e ELSE GetNextFrameSeq(list[n].txSeq)
           c == [rx EXCEPT !.handle = FALSE, !.rxList = rest, !.expectedSeq = g]
           r == ReportExpectedStreamFrame(c)
           q == [r EXCEPT !.maxExpectedSeq = LastTxSeqPlus1(r.rxList)]
           looseNow == loose + (IF running THEN 1 ELSE 0)
<1>0. /\ StartReorderTimer(q, looseNow, clock)
      /\ tasks' \in Nat /\ looseNow \in Nat
      /\ list \in Seq(HeldNode) /\ Len(list) \in Nat /\ rx \in RxState
  <2>1. list \in Seq(HeldNode) /\ rx \in RxState
    BY DEF RxState
  <2>2. StartReorderTimer(q, looseNow, clock) /\ tasks' \in Nat /\ looseNow \in Nat
    BY DEF ReorderStreamFrameTask
  <2> QED BY <2>1, <2>2, LenProperties
<1>1. n \in 0 .. Len(list)
  BY <1>0, BeforeType
<1> HIDE DEF n
<1>2. CASE list = <<>>
  <2>1. n = 0 /\ rest = <<>>
    BY <1>1, <1>2
  <2>2. g = e
    BY <2>1
  <2>3. /\ c \in RxState /\ c.rxList = <<>> /\ c.handle = FALSE
    <3>1. g \in FrameSeq \cup {SeqInit} /\ rest \in Seq(HeldNode)
      BY <1>0, <1>2, <2>1, <2>2 DEF RxState
    <3> HIDE DEF rest, g
    <3> QED BY <1>0, <2>1, <3>1 DEF RxState
  <2> HIDE DEF c
  <2>7. r \in RxState /\ r.rxList = <<>> /\ r.handle = FALSE
    BY <2>3, NothingReported
  <2> HIDE DEF r
  <2>8. q \in RxState /\ q.rxList = <<>> /\ q.handle = FALSE
    BY <2>7 DEF RxState, LastTxSeqPlus1
  <2> HIDE DEF q
  <2>9. RxOK(q)
    BY <2>8 DEF RxOK
  <2> HIDE DEF looseNow
  <2>10. /\ RxOK(rx') /\ running' \in BOOLEAN /\ loose' = looseNow
         /\ rx'.handle => running'
         /\ rx'.rxList # <<>> => running'
    BY <1>0, <2>8, <2>9, StartTimesGap
  <2> QED BY <1>0, <2>10 DEF HandleIsTimer, GapIsTimed
<1>3. CASE list # <<>>
  <2>1. e \in FrameSeq /\ Window(list, e, 1) /\ SeqHalf \in Nat
    BY <1>3, SeqHalfAssumption DEF RxOK
  <2>4. /\ rest \in Seq(HeldNode) /\ Window(rest, g, 0) /\ g \in FrameSeq
        /\ rest # <<>> => Last(rest) = Last(list)
    <3> HIDE DEF e, list
    <3>1. PICK k : k = IF n = 0 THEN 0 ELSE Dist(e, list[n].txSeq) + 1
      OBVIOUS
    <3> QED BY <1>0, <1>1, <2>1, <3>1, Skipped
  <2>5. /\ c \in RxState /\ c.rxList = rest /\ c.expectedSeq = g /\ c.handle = FALSE
    <3> HIDE DEF rest, g
    <3> QED BY <1>0, <2>4 DEF RxState
  <2> HIDE DEF c, g, rest
  <2>6. /\ r \in RxState /\ r.expectedSeq \in FrameSeq /\ r.handle = FALSE
        /\ Window(r.rxList, r.expectedSeq, 1)
    BY <2>4, <2>5, ReportStopsAtGap
  <2> HIDE DEF r
  <2> DEFINE l == LastTxSeqPlus1(r.rxList)
  <2>7. l \in Nat /\ (r.rxList # <<>> => l = Last(r.rxList).txSeq + 1)
    <3>1. CASE r.rxList = <<>>
      BY <3>1 DEF LastTxSeqPlus1
    <3>2. CASE r.rxList # <<>>
      <4>1. r.rxList \in Seq(HeldNode)
        BY <2>6 DEF RxState
      <4>2. Len(r.rxList) \in 1 .. Len(r.rxList)
        BY <3>2, <4>1, EmptySeq, LenProperties
      <4>3. Last(r.rxList) \in HeldNode
        BY <4>1, <4>2, ElementOfSeq DEF Last
      <4>4. Last(r.rxList).txSeq \in Nat
        BY <4>3, SeqHalfAssumption DEF HeldNode, FrameSeq, SeqModulus
      <4> QED BY <3>2, <4>4 DEF LastTxSeqPlus1
    <3> QED BY <3>1, <3>2
  <2> HIDE DEF l
  <2>8. q = [r EXCEPT !.maxExpectedSeq = l]
    BY DEF l
  <2> HIDE DEF q
  <2>9. /\ q \in RxState /\ q.expectedSeq = r.expectedSeq /\ q.rxList = r.rxList
        /\ q.maxExpectedSeq = l /\ q.handle = FALSE
    BY <2>6, <2>7, <2>8 DEF RxState
  <2>10. RxOK(q)
    BY <2>6, <2>7, <2>9 DEF RxOK
  <2> HIDE DEF looseNow
  <2>11. /\ RxOK(rx') /\ running' \in BOOLEAN /\ loose' = looseNow
         /\ rx'.handle => running'
         /\ rx'.rxList # <<>> => running'
    BY <1>0, <2>9, <2>10, StartTimesGap
  <2> QED BY <1>0, <2>11 DEF HandleIsTimer, GapIsTimed
<1> QED BY <1>2, <1>3

\* Every step keeps the invariant.
LEMMA StreamStep == StreamInv /\ [Next]_vars => StreamInv'
<1> SUFFICES ASSUME StreamInv, [Next]_vars PROVE StreamInv'
  OBVIOUS
<1> DEFINE Frame == [txSeq : FrameSeq, sdu : Nat]
<1> USE DEF StreamInv, StreamTypeOK
<1>0. net \in Seq(Frame) /\ RxOK(rx) => rx \in RxState
  BY DEF RxOK
<1>1. CASE SendStreamFrame
  <2>1. [txSeq |-> (sent + 1) % SeqModulus, sdu |-> sent + 1] \in Frame
    BY SeqHalfAssumption DEF FrameSeq, SeqModulus
  <2>2. net' \in Seq(Frame)
    <3> DEFINE f == [txSeq |-> (sent + 1) % SeqModulus, sdu |-> sent + 1]
    <3>1. net' = Append(net, f) \/ net' = net
      BY <1>1 DEF SendStreamFrame
    <3> HIDE DEF f, Frame
    <3>2. f \in Frame /\ net \in Seq(Frame)
      BY <2>1 DEF f, Frame
    <3> QED BY <3>1, <3>2, AppendProperties
  <2>3. sent' = sent + 1 /\ UNCHANGED <<rx, running, loose, tasks, clock>>
    BY <1>1 DEF SendStreamFrame, timers
  <2> QED BY <2>2, <2>3 DEF HandleIsTimer, GapIsTimed
<1>2. CASE Repeat
  <2>1. net' \in Seq(Frame)
    <3> HIDE DEF Frame
    <3>1. net' = Append(net, Last(net)) /\ net # <<>> /\ net \in Seq(Frame)
      BY <1>2 DEF Repeat, Frame
    <3>2. Len(net) \in 1 .. Len(net)
      BY <3>1, EmptySeq, LenProperties
    <3>3. Last(net) \in Frame
      BY <3>1, <3>2, ElementOfSeq DEF Last
    <3> QED BY <3>1, <3>3, AppendProperties
  <2>2. UNCHANGED <<sent, rx, running, loose, tasks, clock>>
    BY <1>2 DEF Repeat, timers
  <2> QED BY <2>1, <2>2 DEF HandleIsTimer, GapIsTimed
<1>3. CASE Tick
  BY <1>3 DEF Tick, timers, HandleIsTimer, GapIsTimed
<1>4. CASE RecvStreamFrame
  <2>1. PICK i \in 1 .. Len(net) :
           /\ net' = RemoveAt(net, i)
           /\ \/ RecvFirst(net[i]) \/ RecvExpected(net[i])
              \/ RecvAhead(net[i]) \/ RecvDropped(net[i])
    BY <1>4 DEF RecvStreamFrame
  <2>2. net' \in Seq(Frame)
    <3> HIDE DEF Frame
    <3>1. net \in Seq(Frame)
      BY DEF Frame
    <3> QED BY <2>1, <3>1, RemoveAtProperties
  <2>3. net[i] \in [txSeq : FrameSeq, sdu : Nat]
    BY ElementOfSeq
  <2>4. /\ RxOK(rx') /\ running' \in BOOLEAN /\ loose' \in Nat /\ tasks' \in Nat
        /\ clock' \in Nat /\ HandleIsTimer' /\ GapIsTimed'
    BY <2>1, <2>3, RecvKeepsInv
  <2>5. sent' = sent
    BY <1>4 DEF RecvStreamFrame
  <2> QED BY <2>2, <2>4, <2>5 DEF RxOK
<1>5. CASE TimerExpires
  <2>1. UNCHANGED <<sent, net, rx, clock>> /\ tasks' = tasks + 1
    BY <1>5 DEF TimerExpires
  <2>2. loose' \in Nat
    BY <1>5 DEF TimerExpires
  <2>3. running' \in BOOLEAN
    BY <1>5, Zenon DEF TimerExpires
  <2> QED BY <2>1, <2>2, <2>3 DEF HandleIsTimer, GapIsTimed
<1>6. CASE ReorderStreamFrameTask
  <2>1. /\ RxOK(rx') /\ running' \in BOOLEAN /\ loose' \in Nat /\ tasks' \in Nat
        /\ HandleIsTimer' /\ GapIsTimed'
    BY <1>6, TaskKeepsInv
  <2>2. UNCHANGED <<sent, net, clock>>
    BY <1>6 DEF ReorderStreamFrameTask
  <2> QED BY <2>1, <2>2 DEF RxOK
<1>7. CASE Rejoin
  <2>1. rx' = InitRx /\ running' = FALSE /\ UNCHANGED <<sent, net, loose, tasks, clock>>
    BY <1>7 DEF Rejoin
  <2>2. RxOK(rx') /\ rx'.handle = FALSE /\ rx'.rxList = <<>>
    BY <2>1, InitRxOK DEF InitRx
  <2> QED BY <2>1, <2>2 DEF RxOK, HandleIsTimer, GapIsTimed
<1>8. CASE UNCHANGED vars
  BY <1>8 DEF vars, timers, HandleIsTimer, GapIsTimed
<1> QED BY <1>1, <1>2, <1>3, <1>4, <1>5, <1>6, <1>7, <1>8 DEF Next

\* The initial state satisfies the invariant.
LEMMA StreamInit == Init => StreamInv
<1> SUFFICES ASSUME Init PROVE StreamInv
  OBVIOUS
<1>1. RxOK(rx) /\ rx \in RxState /\ rx.handle = FALSE /\ rx.rxList = <<>>
  BY InitRxOK DEF Init, InitRx, RxOK
<1>2. sent \in Nat /\ loose \in Nat /\ tasks \in Nat /\ clock \in Nat /\ running \in BOOLEAN
  BY StreamAssumption DEF Init
<1>3. net \in Seq([txSeq : FrameSeq, sdu : Nat])
  BY DEF Init
<1> QED BY <1>1, <1>2, <1>3 DEF StreamInv, StreamTypeOK, HandleIsTimer, GapIsTimed

\* The list of a receiver is always sorted and ahead of the number it expects by less
\* than half the range, also across the wrap and after stale expiries
\* (InsertStreamRxNode, ReportExpectedStreamFrame, DTAP_ReorderStreamFrameTask).
THEOREM HeldIsAhead == Spec => [](StreamTypeOK /\ RxOK(rx))
  BY StreamInit, StreamStep, PTL DEF Spec, StreamInv

\* For every sequence space, cache size and bound: frames are never held without a timer
\* that will look at them, or its task (StartReorderTimer, DTAP_ReorderStreamFrameTask).
THEOREM StreamGapIsTimed == Spec => []GapIsTimed
  BY StreamInit, StreamStep, PTL DEF Spec, StreamInv

-----------------------------------------------------------------------------
(* What is handed up: each number stands for one SDU, counted from the     *)
(* last one handed up.                                                     *)

\* The number of an SDU's frame.
NumberOf(x) == x % SeqModulus

\* Numbers are in range, and in step with the SDUs as far as the range goes.
LEMMA NumbersAhead ==
    ASSUME NEW x \in Nat, NEW y \in Nat, x <= y, y - x < SeqModulus
    PROVE  /\ NumberOf(x) \in FrameSeq /\ NumberOf(y) \in FrameSeq
           /\ Dist(NumberOf(x), NumberOf(y)) = y - x
<1>1. PICK m \in Nat \ {0} : m = SeqModulus
  BY SeqHalfAssumption DEF SeqModulus
<1>2. PICK a \in Nat, r \in Nat : x = m * a + r /\ r < m /\ r = NumberOf(x)
  <2>1. x = m * (x \div m) + (x % m) /\ x \div m \in Nat /\ x % m \in Nat /\ x % m < m
    OBVIOUS
  <2> QED BY <1>1, <2>1 DEF NumberOf
<1>3. PICK b \in Nat, s \in Nat : y = m * b + s /\ s < m /\ s = NumberOf(y)
  <2>1. y = m * (y \div m) + (y % m) /\ y \div m \in Nat /\ y % m \in Nat /\ y % m < m
    OBVIOUS
  <2> QED BY <1>1, <2>1 DEF NumberOf
<1>4. r \in FrameSeq /\ s \in FrameSeq
  BY <1>1, <1>2, <1>3 DEF FrameSeq
<1>5. m * a \in Nat /\ m * b \in Nat
  OBVIOUS
<1>6. CASE b = a
  <2>1. y - x = s - r
    BY <1>2, <1>3, <1>5, <1>6
  <2> QED BY <1>1, <1>2, <1>3, <1>4, <2>1 DEF Dist, SeqDiff
<1>7. CASE b = a + 1
  <2>1. m * b = m * a + m
    BY <1>7
  <2>2. y - x = m + s - r /\ s < r
    BY <1>1, <1>2, <1>3, <1>5, <2>1
  <2> QED BY <1>1, <1>2, <1>3, <1>4, <2>2 DEF Dist, SeqDiff
<1>8. CASE b >= a + 2
  <2>1. PICK k \in Nat : b = a + 2 + k
    <3>1. b - (a + 2) \in Nat /\ b = a + 2 + (b - (a + 2))
      BY <1>8
    <3> QED BY <3>1
  <2>2. m * b = m * a + 2 * m + m * k /\ m * k \in Nat
    BY <2>1
  <2> QED BY <1>1, <1>2, <1>3, <1>5, <2>2
<1>9. CASE a >= b + 1
  <2>1. PICK k \in Nat : a = b + 1 + k
    <3>1. a - (b + 1) \in Nat /\ a = b + 1 + (a - (b + 1))
      BY <1>9
    <3> QED BY <3>1
  <2>2. m * a = m * b + m + m * k /\ m * k \in Nat
    BY <2>1
  <2> QED BY <1>1, <1>2, <1>3, <1>5, <2>2
<1> QED BY <1>6, <1>7, <1>8, <1>9

\* The SDU k further on has the number k further on.
LEMMA NumberPlus ==
    ASSUME NEW x \in Nat, NEW k \in Nat, k < SeqModulus
    PROVE  /\ NumberOf(x) \in FrameSeq /\ NumberOf(x + k) = SeqPlus(NumberOf(x), k)
           /\ NumberOf(x + 1) = GetNextFrameSeq(NumberOf(x))
<1>1. /\ NumberOf(x) \in FrameSeq /\ NumberOf(x + k) \in FrameSeq
      /\ Dist(NumberOf(x), NumberOf(x + k)) = k
  BY NumbersAhead
<1>2. NumberOf(x + k) = SeqPlus(NumberOf(x), k)
  BY <1>1, DistType
<1>3. 1 < SeqModulus
  BY SeqHalfAssumption DEF SeqModulus
<1>4. NumberOf(x + 1) \in FrameSeq /\ Dist(NumberOf(x), NumberOf(x + 1)) = 1
  BY <1>3, NumbersAhead
<1>5. NumberOf(x + 1) = SeqPlus(NumberOf(x), 1)
  BY <1>1, <1>4, DistType
<1>6. SeqPlus(NumberOf(x), 1) = GetNextFrameSeq(NumberOf(x))
  BY <1>1, SeqHalfAssumption DEF SeqPlus, GetNextFrameSeq, FrameSeq, SeqModulus
<1> QED BY <1>1, <1>2, <1>5, <1>6

\* An SDU that is neither SeqHalf behind the one expected nor SeqHalf ahead of it is
\* told by its number: ahead, or old.
LEMMA NumberTells ==
    ASSUME NEW b \in Nat, NEW x \in Nat, x < b + SeqHalf, b <= x + SeqHalf
    PROVE  /\ x >= b => /\ Dist(NumberOf(b), NumberOf(x)) = x - b
                        /\ ~ IsFrameSeqSmaller(NumberOf(x), NumberOf(b))
           /\ x < b => IsFrameSeqSmaller(NumberOf(x), NumberOf(b))
           /\ NumberOf(x) = NumberOf(b) => x = b
<1>1. SeqHalf \in Nat \ {0} /\ SeqModulus = 2 * SeqHalf
  BY SeqHalfAssumption DEF SeqModulus
<1>2. CASE x >= b
  <2>1. /\ NumberOf(b) \in FrameSeq /\ NumberOf(x) \in FrameSeq
        /\ Dist(NumberOf(b), NumberOf(x)) = x - b
    BY <1>1, <1>2, NumbersAhead
  <2>2. ~ IsFrameSeqSmaller(NumberOf(x), NumberOf(b))
    BY <1>1, <2>1 DEF Dist, IsFrameSeqSmaller
  <2>3. NumberOf(x) = NumberOf(b) => x - b = 0
    BY <1>1, <2>1 DEF Dist, SeqDiff, FrameSeq
  <2> QED BY <1>2, <2>1, <2>2, <2>3
<1>3. CASE x < b
  <2>1. /\ NumberOf(b) \in FrameSeq /\ NumberOf(x) \in FrameSeq
        /\ Dist(NumberOf(x), NumberOf(b)) = b - x
    BY <1>1, <1>3, NumbersAhead
  <2>2. IsFrameSeqSmaller(NumberOf(x), NumberOf(b)) /\ NumberOf(x) # NumberOf(b)
    BY <1>1, <1>3, <2>1 DEF Dist, IsFrameSeqSmaller, SeqDiff, FrameSeq
  <2> QED BY <1>3, <2>2
<1> QED BY <1>2, <1>3

\* The SDUs of a list are what their numbers say, counted from SDU b, whose number is e,
\* and none is beyond top.
SdusAre(list, e, b, top) ==
    \A i \in 1 .. Len(list) : list[i].sdu = b + Dist(e, list[i].txSeq) /\ list[i].sdu <= top

Increasing(s) == \A i, j \in 1 .. Len(s) : i < j => s[i] < s[j]

\* What is handed up is in order, e is the number of the SDU after it, and the list is
\* counted from there.
UpTo(list, e, up, top) ==
    /\ up \in Seq(Nat) /\ Increasing(up) /\ up # <<>> /\ up[1] > JoinAt /\ Last(up) <= top
    /\ e = NumberOf(Last(up) + 1) /\ SdusAre(list, e, Last(up) + 1, top)

\* Nothing is handed up before the first frame; from then on all of it is in order.
UpOK(c, up, top) ==
    IF c.expectedSeq = SeqInit THEN up = <<>> ELSE UpTo(c.rxList, c.expectedSeq, up, top)

NetOK(frames, top) ==
    \A i \in 1 .. Len(frames) :
        /\ frames[i].sdu \in JoinAt + 1 .. top
        /\ frames[i].txSeq = NumberOf(frames[i].sdu)

StreamOrder == sent >= JoinAt /\ NetOK(net, sent) /\ UpOK(rx, delivered, sent)

\* The sender is less than half the numbers ahead of any frame in flight and of what was
\* handed up last.
Fresh ==
    /\ \A i \in 1 .. Len(net) : sent - net[i].sdu < SeqHalf
    /\ delivered # <<>> => sent - Last(delivered) <= SeqHalf

\* One increasing sequence after another that starts beyond it.
LEMMA IncreasingConcat ==
    ASSUME NEW s \in Seq(Nat), NEW t \in Seq(Nat), Increasing(s), Increasing(t),
           s # <<>>, t # <<>>, Last(s) < t[1]
    PROVE  /\ s \o t \in Seq(Nat) /\ s \o t # <<>> /\ Increasing(s \o t)
           /\ (s \o t)[1] = s[1] /\ Last(s \o t) = Last(t)
<1> DEFINE u == s \o t
           m == Len(s)
           n == Len(t)
<1>0. m \in Nat \ {0} /\ n \in Nat \ {0}
  BY EmptySeq, LenProperties
<1>1. /\ u \in Seq(Nat) /\ Len(u) = m + n
      /\ \A i \in 1 .. m + n : u[i] = IF i <= m THEN s[i] ELSE t[i - m]
  BY ConcatProperties
<1>2. /\ \A i \in 1 .. m : s[i] \in Nat
      /\ \A i \in 1 .. n : t[i] \in Nat
  BY ElementOfSeq
<1> HIDE DEF u, m, n
<1>3. u # <<>> /\ Last(u) = Last(t) /\ u[1] = s[1]
  <2>1. u[m + n] = t[n] /\ u[1] = s[1]
    BY <1>0, <1>1, SMTT(30)
  <2> QED BY <1>0, <1>1, <2>1, EmptySeq DEF Last, n
<1>4. \A i \in 1 .. m : s[i] <= Last(s)
  <2> TAKE i \in 1 .. m
  <2>1. Last(s) = s[m] /\ m \in 1 .. m
    BY <1>0 DEF Last, m
  <2>2. i < m => s[i] < s[m]
    BY <2>1 DEF Increasing, m
  <2> QED BY <1>0, <1>2, <2>1, <2>2
<1>5. \A j \in 1 .. n : t[1] <= t[j]
  <2> TAKE j \in 1 .. n
  <2>1. 1 \in 1 .. n
    BY <1>0
  <2>2. 1 < j => t[1] < t[j]
    BY <2>1 DEF Increasing, n
  <2> QED BY <1>0, <1>2, <2>1, <2>2
<1>6. ASSUME NEW i \in 1 .. Len(u), NEW j \in 1 .. Len(u), i < j
      PROVE  u[i] < u[j]
  <2>1. CASE j <= m
    <3>1. i \in 1 .. m /\ j \in 1 .. m /\ u[i] = s[i] /\ u[j] = s[j]
      BY <1>0, <1>1, <1>6, <2>1
    <3> QED BY <1>6, <3>1 DEF Increasing, m
  <2>2. CASE i > m
    <3>1. /\ i - m \in 1 .. n /\ j - m \in 1 .. n /\ i - m < j - m
          /\ u[i] = t[i - m] /\ u[j] = t[j - m]
      BY <1>0, <1>1, <1>6, <2>2, SMTT(30)
    <3> QED BY <3>1 DEF Increasing, n
  <2>3. CASE i <= m /\ j > m
    <3>1. i \in 1 .. m /\ j - m \in 1 .. n /\ u[i] = s[i] /\ u[j] = t[j - m]
      BY <1>0, <1>1, <1>6, <2>3
    <3>2. s[i] \in Nat /\ t[j - m] \in Nat /\ s[i] <= Last(s) /\ t[1] <= t[j - m]
      BY <1>2, <1>4, <1>5, <3>1
    <3>3. Last(s) \in Nat /\ t[1] \in Nat
      BY <1>0, <1>2 DEF Last, m
    <3> QED BY <3>1, <3>2, <3>3, SMTT(30)
  <2> QED BY <1>0, <1>1, <2>1, <2>2, <2>3
<1>7. Increasing(u)
  BY <1>6 DEF Increasing
<1> QED BY <1>1, <1>3, <1>7 DEF u

\* Without its first frames the list counts from a number further on.
LEMMA SdusShift ==
    ASSUME NEW list \in Seq(HeldNode), NEW e \in FrameSeq, NEW b \in Nat, NEW top,
           SdusAre(list, e, b, top), NEW n \in 0 .. Len(list), NEW k \in Nat,
           \A i \in n + 1 .. Len(list) : Dist(e, list[i].txSeq) >= k
    PROVE  SdusAre(SubSeq(list, n + 1, Len(list)), SeqPlus(e, k), b + k, top)
<1> DEFINE rest == SubSeq(list, n + 1, Len(list))
<1>0. Len(list) \in Nat
  BY LenProperties
<1>1. /\ Len(rest) = Len(list) - n
      /\ \A i \in 1 .. Len(list) - n : rest[i] = list[n + i]
  BY <1>0, SubSeqProperties, ElementOfSeq
<1> HIDE DEF rest
<1>2. ASSUME NEW i \in 1 .. Len(rest)
      PROVE  rest[i].sdu = b + k + Dist(SeqPlus(e, k), rest[i].txSeq) /\ rest[i].sdu <= top
  <2>1. n + i \in 1 .. Len(list) /\ n + i \in n + 1 .. Len(list) /\ rest[i] = list[n + i]
    BY <1>0, <1>1
  <2>2. PICK x : x = list[n + i]
    OBVIOUS
  <2>3. x \in HeldNode /\ x.txSeq \in FrameSeq
    <3>1. x \in HeldNode
      BY <2>1, <2>2, ElementOfSeq
    <3> QED BY <3>1 DEF HeldNode
  <2>4. PICK d \in Nat : d = Dist(e, x.txSeq)
    BY <2>3, DistType
  <2>5. d >= k
    BY <2>1, <2>2, <2>4
  <2>6. k \in 0 .. Dist(e, x.txSeq)
    BY <2>4, <2>5
  <2>7. Dist(SeqPlus(e, k), x.txSeq) = d - k
    BY <2>3, <2>4, <2>6, DistFromLater
  <2>8. x.sdu = b + d /\ x.sdu <= top
    BY <2>1, <2>2, <2>4 DEF SdusAre
  <2>9. x.sdu = b + k + (d - k)
    BY <2>8
  <2> QED BY <2>1, <2>2, <2>7, <2>8, <2>9
<1>3. SdusAre(rest, SeqPlus(e, k), b + k, top)
  BY <1>2 DEF SdusAre
<1> QED BY <1>3 DEF rest

\* What is handed up of a list comes after what was handed up before it, in order, and
\* the number after it is that of the next SDU.
LEMMA HandUp ==
    ASSUME NEW list \in Seq(HeldNode), NEW e \in FrameSeq, Window(list, e, 0),
           NEW top \in Nat, NEW up, UpTo(list, e, up, top), NEW n \in 0 .. Len(list),
           NEW k, k = IF n = 0 THEN 0 ELSE Dist(e, list[n].txSeq) + 1,
           \A i \in n + 1 .. Len(list) : Dist(e, list[i].txSeq) >= k
    PROVE  UpTo(SubSeq(list, n + 1, Len(list)), SeqPlus(e, k),
                up \o SdusOf(SubSeq(list, 1, n)), top)
<1> DEFINE head == SubSeq(list, 1, n)
           s == SdusOf(head)
<1>0. /\ Len(list) \in Nat /\ SeqHalf \in Nat \ {0} /\ SeqModulus = 2 * SeqHalf
      /\ up \in Seq(Nat) /\ up # <<>> /\ Increasing(up) /\ up[1] > JoinAt
      /\ SdusAre(list, e, Last(up) + 1, top)
  BY LenProperties, SeqHalfAssumption DEF UpTo, SeqModulus
<1>1. PICK l \in Nat : l = Last(up) /\ l <= top /\ e = NumberOf(l + 1)
  <2>1. Len(up) \in 1 .. Len(up)
    BY <1>0, EmptySeq, LenProperties
  <2>2. Last(up) \in Nat
    BY <1>0, <2>1, ElementOfSeq DEF Last
  <2> QED BY <2>2 DEF UpTo
<1>2. ASSUME NEW i \in 1 .. Len(list)
      PROVE  /\ Dist(e, list[i].txSeq) \in 0 .. (SeqHalf - 1)
             /\ list[i].sdu = l + 1 + Dist(e, list[i].txSeq) /\ list[i].sdu <= top
  BY <1>0, <1>1 DEF Window, SdusAre
<1>3. k \in Nat /\ k <= SeqHalf
  <2>1. CASE n = 0
    BY <1>0, <2>1
  <2>2. CASE n # 0
    <3>1. PICK d : d = Dist(e, list[n].txSeq)
      OBVIOUS
    <3>2. d \in 0 .. (SeqHalf - 1) /\ k = d + 1
      BY <1>0, <1>2, <2>2, <3>1
    <3> QED BY <1>0, <3>2
  <2> QED BY <2>1, <2>2
<1>4. SdusAre(SubSeq(list, n + 1, Len(list)), SeqPlus(e, k), (l + 1) + k, top)
  <2>1. PICK b \in Nat : b = l + 1
    BY <1>1
  <2>2. SdusAre(list, e, b, top)
    BY <1>0, <1>1, <2>1
  <2>3. SdusAre(SubSeq(list, n + 1, Len(list)), SeqPlus(e, k), b + k, top)
    BY <1>3, <2>2, SdusShift
  <2> QED BY <2>1, <2>3
<1>5. /\ Len(head) = n /\ \A i \in 1 .. n : head[i] = list[i]
  BY <1>0, SubSeqProperties, ElementOfSeq
<1> HIDE DEF head
<1>6. Len(s) = n /\ \A i \in 1 .. n : s[i] = list[i].sdu
  BY <1>5 DEF SdusOf
<1>7. s = [i \in 1 .. n |-> s[i]]
  BY <1>5 DEF SdusOf
<1> HIDE DEF s
<1>8. NumberOf(l + k + 1) = SeqPlus(e, k)
  <2>1. l + 1 \in Nat /\ k < SeqModulus /\ (l + 1) + k = l + k + 1
    BY <1>0, <1>3
  <2>2. NumberOf((l + 1) + k) = SeqPlus(NumberOf(l + 1), k)
    BY <1>3, <2>1, NumberPlus
  <2> QED BY <1>1, <2>1, <2>2
<1>9. ASSUME NEW u, u = up \o s, u \in Seq(Nat), u # <<>>, Increasing(u), u[1] > JoinAt,
             Last(u) = l + k, l + k <= top
      PROVE  UpTo(SubSeq(list, n + 1, Len(list)), SeqPlus(e, k), u, top)
  <2>1. (l + 1) + k = l + k + 1
    BY <1>3, SMTT(30)
  <2> QED BY <1>4, <1>8, <1>9, <2>1 DEF UpTo
<1>10. CASE n = 0
  <2>1. k = 0 /\ s = <<>>
    BY <1>7, <1>10
  <2>2. up \o s = up /\ l + k = l
    BY <1>0, <2>1, ConcatEmptySeq
  <2> QED BY <1>0, <1>1, <1>9, <2>2 DEF s, head
<1>11. CASE n # 0
  <2>0. n \in Nat \ {0} /\ 1 \in 1 .. n /\ n \in 1 .. n /\ 1 .. n \subseteq 1 .. Len(list)
    BY <1>0, <1>11
  <2>1. \A i \in 1 .. n : s[i] \in Nat
    <3> TAKE i \in 1 .. n
    <3>1. PICK d : d = Dist(e, list[i].txSeq)
      OBVIOUS
    <3>2. d \in 0 .. (SeqHalf - 1) /\ s[i] = l + 1 + d
      BY <1>2, <1>6, <2>0, <3>1
    <3> QED BY <1>0, <3>2
  <2>2. s \in Seq(Nat)
    <3>1. s \in [1 .. n -> Nat]
      BY <1>7, <2>1
    <3> QED BY <2>0, <3>1, SeqDef
  <2>3. Increasing(s)
    <3> SUFFICES ASSUME NEW i \in 1 .. n, NEW j \in 1 .. n, i < j PROVE s[i] < s[j]
      BY <1>6 DEF Increasing
    <3>1. PICK a, b : a = Dist(e, list[i].txSeq) /\ b = Dist(e, list[j].txSeq)
      OBVIOUS
    <3>2. a < b
      BY <2>0, <3>1 DEF Window
    <3>3. /\ a \in 0 .. (SeqHalf - 1) /\ s[i] = l + 1 + a
          /\ b \in 0 .. (SeqHalf - 1) /\ s[j] = l + 1 + b
      BY <1>2, <1>6, <2>0, <3>1
    <3> QED BY <1>0, <3>2, <3>3
  <2>4. s # <<>>
    BY <1>6, <1>11, EmptySeq
  <2>5. Last(up) < s[1]
    <3>1. PICK d : d = Dist(e, list[1].txSeq)
      OBVIOUS
    <3>2. d \in 0 .. (SeqHalf - 1) /\ s[1] = l + 1 + d
      BY <1>2, <1>6, <2>0, <3>1
    <3> QED BY <1>0, <1>1, <3>2
  <2>6. Last(s) = l + k /\ l + k <= top
    <3>1. PICK d : d = Dist(e, list[n].txSeq)
      OBVIOUS
    <3>2. d \in 0 .. (SeqHalf - 1) /\ s[n] = l + 1 + d /\ s[n] <= top /\ k = d + 1
      BY <1>2, <1>6, <1>11, <2>0, <3>1
    <3>3. Last(s) = s[n]
      BY <1>6 DEF Last
    <3> QED BY <1>0, <3>2, <3>3
  <2>7. /\ up \o s \in Seq(Nat) /\ up \o s # <<>> /\ Increasing(up \o s)
        /\ (up \o s)[1] = up[1] /\ Last(up \o s) = Last(s)
    BY <1>0, <2>2, <2>3, <2>4, <2>5, IncreasingConcat
  <2> QED BY <1>0, <1>9, <2>6, <2>7 DEF s, head
<1> QED BY <1>10, <1>11

\* ReportExpectedStreamFrame hands up the next SDUs.
LEMMA ReportUp ==
    ASSUME NEW c \in RxState, c.expectedSeq \in FrameSeq, Window(c.rxList, c.expectedSeq, 0),
           NEW top \in Nat, NEW up, UpTo(c.rxList, c.expectedSeq, up, top)
    PROVE  UpTo(ReportExpectedStreamFrame(c).rxList, ReportExpectedStreamFrame(c).expectedSeq,
                up \o SdusOf(Report(c)), top)
<1>1. PICK n, list, e : n = InSequence(c) /\ list = c.rxList /\ e = c.expectedSeq
  OBVIOUS
<1>2. list \in Seq(HeldNode) /\ Len(list) \in Nat
  <2>1. list \in Seq(HeldNode)
    BY <1>1 DEF RxState
  <2> QED BY <2>1, LenProperties
<1>3. /\ n \in 0 .. Len(list)
      /\ \A i \in 1 .. n : Dist(e, list[i].txSeq) = i - 1
      /\ \A i \in n + 1 .. Len(list) : Dist(e, list[i].txSeq) >= n + 1
  BY <1>1, Reported
<1>4. n = IF n = 0 THEN 0 ELSE Dist(e, list[n].txSeq) + 1
  <2>1. CASE n = 0
    BY <2>1
  <2>2. CASE n # 0
    <3>1. Dist(e, list[n].txSeq) = n - 1
      BY <1>2, <1>3, <2>2
    <3> QED BY <1>2, <1>3, <2>2, <3>1
  <2> QED BY <2>1, <2>2
<1>5. \A i \in n + 1 .. Len(list) : Dist(e, list[i].txSeq) >= n
  <2> TAKE i \in n + 1 .. Len(list)
  <2>0. i \in 1 .. Len(list)
    BY <1>2, <1>3
  <2>1. PICK d : d = Dist(e, list[i].txSeq)
    OBVIOUS
  <2>2. d \in 0 .. (SeqHalf - 1)
    BY <1>1, <2>0, <2>1 DEF Window
  <2>3. d >= n + 1
    BY <1>3, <2>1
  <2> QED BY <1>2, <1>3, <2>1, <2>2, <2>3, SeqHalfAssumption
<1>6. UpTo(SubSeq(list, n + 1, Len(list)), SeqPlus(e, n), up \o SdusOf(SubSeq(list, 1, n)), top)
  BY <1>1, <1>2, <1>3, <1>4, <1>5, HandUp
<1>7. /\ ReportExpectedStreamFrame(c).expectedSeq = SeqPlus(e, n)
      /\ ReportExpectedStreamFrame(c).rxList = SubSeq(list, n + 1, Len(list))
  BY <1>1, ReportStopsAtGap
<1>8. Report(c) = SubSeq(list, 1, n)
  BY <1>1 DEF Report
<1> QED BY <1>6, <1>7, <1>8

\* A frame with the number expected is that of the SDU after the last one handed up, and
\* one ahead of it is as many SDUs further on.
LEMMA FrameTells ==
    ASSUME NEW up, NEW list, NEW e, NEW top \in Nat, UpTo(list, e, up, top),
           NEW x \in 1 .. top, top - x < SeqHalf, top - Last(up) <= SeqHalf
    PROVE  /\ Last(up) \in Nat /\ e \in FrameSeq
           /\ NumberOf(x) = e => x = Last(up) + 1
           /\ ~ IsFrameSeqSmaller(NumberOf(x), e) => x = Last(up) + 1 + Dist(e, NumberOf(x))
<1>0. SeqHalf \in Nat \ {0}
  BY SeqHalfAssumption
<1>1. PICK l \in Nat : l = Last(up) /\ l <= top /\ e = NumberOf(l + 1)
  <2>0. up \in Seq(Nat) /\ up # <<>>
    BY DEF UpTo
  <2>1. Len(up) \in 1 .. Len(up)
    BY <2>0, EmptySeq, LenProperties
  <2>2. Last(up) \in Nat
    BY <2>0, <2>1, ElementOfSeq DEF Last
  <2> QED BY <2>2 DEF UpTo
<1>2. PICK b \in Nat : b = l + 1
  OBVIOUS
<1>3. x \in Nat /\ x < b + SeqHalf /\ b <= x + SeqHalf
  BY <1>0, <1>1, <1>2
<1>4. /\ x >= b => Dist(NumberOf(b), NumberOf(x)) = x - b
      /\ x < b => IsFrameSeqSmaller(NumberOf(x), NumberOf(b))
      /\ NumberOf(x) = NumberOf(b) => x = b
  BY <1>3, NumberTells
<1>5. e \in FrameSeq
  <2>1. 0 < SeqModulus /\ 0 \in Nat
    BY <1>0 DEF SeqModulus
  <2> QED BY <1>1, <1>2, <2>1, NumberPlus
<1>6. ~ IsFrameSeqSmaller(NumberOf(x), e) => x = l + 1 + Dist(e, NumberOf(x))
  BY <1>1, <1>2, <1>3, <1>4
<1> QED BY <1>1, <1>2, <1>4, <1>5, <1>6

\* Only the number expected and the list matter, not the timer.
LEMMA StartKeepsUp ==
    ASSUME NEW c \in RxState, NEW looseNow, NEW now, StartReorderTimer(c, looseNow, now)
    PROVE  rx'.expectedSeq = c.expectedSeq /\ rx'.rxList = c.rxList
<1>1. CASE NeedsTimer(c)
  <2> DEFINE o == Oldest(c, now)
  <2>1. rx' = [c EXCEPT !.handle = TRUE, !.reorderTxSeq = o]
    BY <1>1 DEF StartReorderTimer
  <2> HIDE DEF o
  <2> QED BY <2>1 DEF RxState
<1>2. CASE ~ NeedsTimer(c)
  BY <1>2 DEF StartReorderTimer
<1> QED BY <1>1, <1>2

\* The first frame a receiver gets is handed up.
LEMMA FirstUp ==
    ASSUME StreamInv, StreamOrder, NEW f \in [txSeq : FrameSeq, sdu : Nat],
           f.sdu \in JoinAt + 1 .. sent, f.txSeq = NumberOf(f.sdu), RecvFirst(f)
    PROVE  UpOK(rx', delivered', sent)
<1>1. PICK x \in Nat : x = f.sdu /\ x <= sent /\ x > JoinAt
  BY StreamAssumption
<1>2. /\ rx.expectedSeq = SeqInit /\ rx \in RxState /\ rx.rxList = <<>> /\ delivered = <<>>
  BY SeqInitOutside DEF RecvFirst, StreamInv, StreamTypeOK, RxOK, StreamOrder, UpOK
<1>3. PICK g : g = GetNextFrameSeq(f.txSeq)
  OBVIOUS
<1>4. rx' = [rx EXCEPT !.expectedSeq = g, !.maxExpectedSeq = g] /\ delivered' = Append(<<>>, x)
  BY <1>1, <1>2, <1>3 DEF RecvFirst
<1>5. rx'.expectedSeq = g /\ rx'.rxList = <<>>
  BY <1>2, <1>4 DEF RxState
<1>6. delivered' = <<x>>
  BY <1>4
<1>7. /\ delivered' \in Seq(Nat) /\ delivered' # <<>> /\ Increasing(delivered')
      /\ delivered'[1] > JoinAt /\ Last(delivered') = x
  BY <1>1, <1>6 DEF Last, Increasing
<1>8. g = NumberOf(x + 1) /\ g \in FrameSeq
  <2>1. 0 \in Nat /\ 0 < SeqModulus /\ x + 1 \in Nat
    BY SeqHalfAssumption DEF SeqModulus
  <2> QED BY <1>1, <1>3, <2>1, NumberPlus
<1>9. SdusAre(rx'.rxList, g, x + 1, sent)
  BY <1>5 DEF SdusAre
<1>10. UpTo(rx'.rxList, g, delivered', sent)
  BY <1>1, <1>7, <1>8, <1>9 DEF UpTo
<1>11. rx'.expectedSeq # SeqInit
  BY <1>5, <1>8, SeqInitOutside
<1> QED BY <1>5, <1>10, <1>11 DEF UpOK

\* The expected frame is handed up with those that follow it.
LEMMA ExpectedUp ==
    ASSUME StreamInv, StreamOrder, NEW f \in [txSeq : FrameSeq, sdu : Nat],
           f.sdu \in JoinAt + 1 .. sent, f.txSeq = NumberOf(f.sdu), sent - f.sdu < SeqHalf,
           delivered # <<>> => sent - Last(delivered) <= SeqHalf, RecvExpected(f)
    PROVE  UpOK(rx', delivered', sent)
<1>0. PICK x \in 1 .. sent : x = f.sdu
  BY StreamAssumption
<1>1. PICK e, list : e = rx.expectedSeq /\ list = rx.rxList
  OBVIOUS
<1>2. f.txSeq = e /\ e \in FrameSeq /\ sent \in Nat /\ RxOK(rx) /\ rx \in RxState
  BY <1>1 DEF RecvExpected, StreamInv, StreamTypeOK
<1>3. UpTo(list, e, delivered, sent)
  BY <1>1, <1>2, SeqInitOutside DEF StreamOrder, UpOK
<1>4. delivered \in Seq(Nat) /\ delivered # <<>> /\ Increasing(delivered) /\ delivered[1] > JoinAt
  BY <1>3 DEF UpTo
<1>5. PICK l \in Nat : l = Last(delivered) /\ x = l + 1
  <2>0. sent - x < SeqHalf /\ sent - Last(delivered) <= SeqHalf
    BY <1>0, <1>4
  <2>1. Last(delivered) \in Nat /\ (NumberOf(x) = e => x = Last(delivered) + 1)
    BY <1>2, <1>3, <2>0, FrameTells
  <2> QED BY <1>0, <1>2, <2>1
<1>6. PICK g : g = GetNextFrameSeq(e)
  OBVIOUS
<1>7. /\ g \in FrameSeq /\ g = SeqPlus(e, 1) /\ Window(list, g, 0)
      /\ \A i \in 0 + 1 .. Len(list) : Dist(e, list[i].txSeq) >= 1
      /\ list \in Seq(HeldNode) /\ SubSeq(list, 0 + 1, Len(list)) = list
  BY <1>1, <1>2, <1>6, NextWindow
<1>8. PICK up : up = Append(delivered, x)
  OBVIOUS
<1>9. UpTo(list, g, up, sent)
  <2>1. /\ <<x>> \in Seq(Nat) /\ <<x>> # <<>> /\ Last(<<x>>) = x /\ <<x>>[1] = x
        /\ Increasing(<<x>>)
    BY <1>0 DEF Last, Increasing
  <2>2. up = delivered \o <<x>>
    BY <1>4, <1>8, AppendIsConcat
  <2>3. Last(delivered) < <<x>>[1]
    BY <1>5, <2>1
  <2>4. up \in Seq(Nat) /\ Increasing(up) /\ up # <<>> /\ up[1] > JoinAt /\ Last(up) = x
    BY <1>4, <2>1, <2>2, <2>3, IncreasingConcat
  <2>5. g = NumberOf(x + 1)
    <3>1. 0 \in Nat /\ 0 < SeqModulus /\ x \in Nat
      BY SeqHalfAssumption DEF SeqModulus
    <3> QED BY <1>0, <1>2, <1>6, <3>1, NumberPlus
  <2>6. SdusAre(list, g, x + 1, sent)
    <3>1. x \in Nat /\ 0 \in 0 .. Len(list) /\ 1 \in Nat
      BY <1>7, LenProperties
    <3>2. SdusAre(list, e, x, sent)
      BY <1>3, <1>5 DEF UpTo
    <3>3. SdusAre(SubSeq(list, 0 + 1, Len(list)), SeqPlus(e, 1), x + 1, sent)
      BY <1>2, <1>7, <3>1, <3>2, SdusShift
    <3> QED BY <1>7, <3>3
  <2> QED BY <2>4, <2>5, <2>6 DEF UpTo
<1>10. PICK c : c = [rx EXCEPT !.expectedSeq = g]
  OBVIOUS
<1>11. c \in RxState /\ c.expectedSeq = g /\ c.rxList = list
  BY <1>1, <1>2, <1>7, <1>10 DEF RxState
<1>12. PICK r, s : r = ReportExpectedStreamFrame(c) /\ s = SdusOf(Report(c))
  OBVIOUS
<1>13. UpTo(r.rxList, r.expectedSeq, up \o s, sent)
  BY <1>2, <1>7, <1>9, <1>11, <1>12, ReportUp
<1>14. r \in RxState /\ r.expectedSeq \in FrameSeq
  BY <1>7, <1>11, <1>12, ReportStopsAtGap
<1>15. PICK q : q = [r EXCEPT !.handle = FALSE]
  OBVIOUS
<1>16. q \in RxState /\ q.expectedSeq = r.expectedSeq /\ q.rxList = r.rxList
  BY <1>14, <1>15 DEF RxState
<1>17. delivered' = up \o s /\ StartReorderTimer(q, loose, clock)
  BY <1>0, <1>1, <1>6, <1>8, <1>10, <1>12, <1>15 DEF RecvExpected
<1>18. rx'.expectedSeq = r.expectedSeq /\ rx'.rxList = r.rxList
  BY <1>16, <1>17, StartKeepsUp
<1>19. rx'.expectedSeq # SeqInit
  BY <1>14, <1>18, SeqInitOutside
<1> QED BY <1>13, <1>17, <1>18, <1>19 DEF UpOK

\* A frame ahead of the expected one is held as what its number says.
LEMMA AheadUp ==
    ASSUME StreamInv, StreamOrder, NEW f \in [txSeq : FrameSeq, sdu : Nat],
           f.sdu \in JoinAt + 1 .. sent, f.txSeq = NumberOf(f.sdu), sent - f.sdu < SeqHalf,
           delivered # <<>> => sent - Last(delivered) <= SeqHalf, RecvAhead(f)
    PROVE  UpOK(rx', delivered', sent)
<1>0. PICK x \in 1 .. sent : x = f.sdu
  BY StreamAssumption
<1>1. PICK e, list : e = rx.expectedSeq /\ list = rx.rxList
  OBVIOUS
<1>2. /\ e \in FrameSeq /\ list \in Seq(HeldNode) /\ f.txSeq # e
      /\ ~ IsFrameSeqSmaller(f.txSeq, e)
      /\ \A i \in 1 .. Len(list) : list[i].txSeq # f.txSeq
      /\ sent \in Nat /\ clock \in Nat /\ rx \in RxState
  BY <1>1 DEF RecvAhead, Duplicate, StreamInv, StreamTypeOK, RxState
<1>3. UpTo(list, e, delivered, sent)
  BY <1>1, <1>2, SeqInitOutside DEF StreamOrder, UpOK
<1>4. Dist(e, f.txSeq) \in 1 .. (SeqHalf - 1)
  BY <1>2, NotSmallerIsAhead
<1>5. x = Last(delivered) + 1 + Dist(e, f.txSeq)
  <2>1. delivered # <<>>
    BY <1>3 DEF UpTo
  <2>2. sent - x < SeqHalf /\ sent - Last(delivered) <= SeqHalf
    BY <1>0, <2>1
  <2>3. ~ IsFrameSeqSmaller(NumberOf(x), e) => x = Last(delivered) + 1 + Dist(e, NumberOf(x))
    BY <1>2, <1>3, <2>2, FrameTells
  <2> QED BY <1>0, <1>2, <2>3
<1>6. Window(list, e, 1)
  <2>1. CASE list = <<>>
    BY <2>1 DEF Window
  <2>2. CASE list # <<>>
    BY <1>1, <2>2 DEF StreamInv, RxOK
  <2> QED BY <2>1, <2>2
<1>7. PICK node \in HeldNode : /\ node = [txSeq |-> f.txSeq, sdu |-> f.sdu, timeStamp |-> clock]
                               /\ node.txSeq = f.txSeq /\ node.sdu = x
  <2>1. [txSeq |-> f.txSeq, sdu |-> f.sdu, timeStamp |-> clock] \in HeldNode
    BY <1>2 DEF HeldNode
  <2> QED BY <1>0, <2>1
<1>8. PICK new : new = InsertStreamRxNode(list, node)
  OBVIOUS
<1>9. /\ new \in Seq(HeldNode)
      /\ \A i \in 1 .. Len(new) : new[i] = node \/ \E j \in 1 .. Len(list) : new[i] = list[j]
  BY <1>2, <1>4, <1>6, <1>7, <1>8, InsertKeepsOrder
<1>10. UpTo(new, e, delivered, sent)
  <2>1. SdusAre(list, e, Last(delivered) + 1, sent)
    BY <1>3 DEF UpTo
  <2>2. /\ node.sdu = Last(delivered) + 1 + Dist(e, node.txSeq) /\ node.sdu <= sent
    BY <1>0, <1>2, <1>5, <1>7
  <2>3. SdusAre(new, e, Last(delivered) + 1, sent)
    BY <1>9, <2>1, <2>2 DEF SdusAre
  <2> QED BY <1>3, <2>3 DEF UpTo
<1>11. PICK m : m = LastTxSeqPlus1(new)
  OBVIOUS
<1>12. PICK c : c = [rx EXCEPT !.rxList = new, !.maxExpectedSeq = m]
  OBVIOUS
<1>13. m \in Nat
  <2>1. CASE new = <<>>
    BY <1>11, <2>1 DEF LastTxSeqPlus1
  <2>2. CASE new # <<>>
    <3>1. Len(new) \in 1 .. Len(new)
      BY <1>9, <2>2, EmptySeq, LenProperties
    <3>2. Last(new) \in HeldNode
      BY <1>9, <3>1, ElementOfSeq DEF Last
    <3>3. Last(new).txSeq \in Nat
      BY <3>2, SeqHalfAssumption DEF HeldNode, FrameSeq, SeqModulus
    <3> QED BY <1>11, <2>2, <3>3 DEF LastTxSeqPlus1
  <2> QED BY <2>1, <2>2
<1>14. c \in RxState /\ c.expectedSeq = e /\ c.rxList = new
  BY <1>1, <1>2, <1>9, <1>12, <1>13 DEF RxState
<1>15. delivered' = delivered
  BY DEF RecvAhead
<1>16. rx' = c \/ \E now \in {clock, clock + 1} : StartReorderTimer(c, loose, now)
  BY <1>1, <1>7, <1>8, <1>11, <1>12 DEF RecvAhead
<1>17. rx'.expectedSeq = e /\ rx'.rxList = new
  BY <1>14, <1>16, StartKeepsUp
<1>18. rx'.expectedSeq # SeqInit
  BY <1>2, <1>17, SeqInitOutside
<1> QED BY <1>10, <1>15, <1>17, <1>18 DEF UpOK

\* DTAP_ReorderStreamFrameTask hands up in order what it gives up waiting before.
LEMMA TaskUp ==
    ASSUME StreamInv, StreamOrder, ReorderStreamFrameTask
    PROVE  UpOK(rx', delivered', sent)
<1>1. PICK e, list, n : e = rx.expectedSeq /\ list = rx.rxList /\ n = Before(rx)
  OBVIOUS
<1>2. /\ list \in Seq(HeldNode) /\ Len(list) \in Nat /\ rx \in RxState /\ sent \in Nat
      /\ n \in 0 .. Len(list)
  <2>1. list \in Seq(HeldNode) /\ rx \in RxState /\ sent \in Nat
    BY <1>1 DEF RxState, StreamInv, StreamTypeOK
  <2> QED BY <1>1, <2>1, LenProperties, BeforeType
<1>3. PICK g, rest, s : /\ g = IF n = 0 THEN e ELSE GetNextFrameSeq(list[n].txSeq)
                        /\ rest = SubSeq(list, n + 1, Len(list))
                        /\ s = SdusOf(SubSeq(list, 1, n))
  OBVIOUS
<1>4. PICK c : c = [rx EXCEPT !.handle = FALSE, !.rxList = rest, !.expectedSeq = g]
  OBVIOUS
<1>5. PICK r, t : r = ReportExpectedStreamFrame(c) /\ t = SdusOf(Report(c))
  OBVIOUS
<1>6. PICK m : m = LastTxSeqPlus1(r.rxList)
  OBVIOUS
<1>7. PICK q : q = [r EXCEPT !.maxExpectedSeq = m]
  OBVIOUS
<1>8. /\ delivered' = delivered \o s \o t
      /\ StartReorderTimer(q, loose + (IF running THEN 1 ELSE 0), clock)
  BY <1>1, <1>3, <1>4, <1>5, <1>6, <1>7 DEF ReorderStreamFrameTask
<1>9. ASSUME r \in RxState
      PROVE  rx'.expectedSeq = r.expectedSeq /\ rx'.rxList = r.rxList
  <2>1. m \in Nat
    <3>1. CASE r.rxList = <<>>
      BY <1>6, <3>1 DEF LastTxSeqPlus1
    <3>2. CASE r.rxList # <<>>
      <4>1. r.rxList \in Seq(HeldNode)
        BY <1>9 DEF RxState
      <4>2. Len(r.rxList) \in 1 .. Len(r.rxList)
        BY <3>2, <4>1, EmptySeq, LenProperties
      <4>3. Last(r.rxList) \in HeldNode
        BY <4>1, <4>2, ElementOfSeq DEF Last
      <4>4. Last(r.rxList).txSeq \in Nat
        BY <4>3, SeqHalfAssumption DEF HeldNode, FrameSeq, SeqModulus
      <4> QED BY <1>6, <3>2, <4>4 DEF LastTxSeqPlus1
    <3> QED BY <3>1, <3>2
  <2>2. q \in RxState /\ q.expectedSeq = r.expectedSeq /\ q.rxList = r.rxList
    BY <1>7, <1>9, <2>1 DEF RxState
  <2> QED BY <1>8, <2>2, StartKeepsUp
<1>10. CASE list = <<>>
  <2>1. n = 0 /\ rest = <<>> /\ s = <<>> /\ g = e
    BY <1>2, <1>3, <1>10 DEF SdusOf
  <2>2. c \in RxState /\ c.rxList = <<>> /\ c.expectedSeq = e
    BY <1>1, <1>2, <1>4, <1>10, <2>1 DEF RxState
  <2>3. r \in RxState /\ r.rxList = <<>> /\ r.expectedSeq = e /\ t = <<>>
    BY <1>5, <2>2, NothingReported
  <2>4. delivered \in Seq(Nat)
    <3>1. delivered = <<>> \/ UpTo(rx.rxList, rx.expectedSeq, delivered, sent)
      BY DEF StreamOrder, UpOK
    <3>2. <<>> \in Seq(Nat)
      OBVIOUS
    <3> QED BY <3>1, <3>2 DEF UpTo
  <2>5. delivered' = delivered
    BY <1>8, <2>1, <2>3, <2>4, ConcatEmptySeq
  <2>6. rx'.expectedSeq = rx.expectedSeq /\ rx'.rxList = rx.rxList
    BY <1>1, <1>9, <1>10, <2>3
  <2> QED BY <2>5, <2>6 DEF StreamOrder, UpOK
<1>11. CASE list # <<>>
  <2>1. e \in FrameSeq /\ Window(list, e, 1)
    BY <1>1, <1>11 DEF StreamInv, RxOK
  <2>2. UpTo(list, e, delivered, sent)
    BY <1>1, <2>1, SeqInitOutside DEF StreamOrder, UpOK
  <2>3. PICK k : k = IF n = 0 THEN 0 ELSE Dist(e, list[n].txSeq) + 1
    OBVIOUS
  <2>4. /\ g = SeqPlus(e, k) /\ g \in FrameSeq
        /\ \A i \in n + 1 .. Len(list) : Dist(e, list[i].txSeq) >= k
        /\ rest \in Seq(HeldNode) /\ Window(rest, g, 0)
    BY <1>2, <1>3, <2>1, <2>3, Skipped
  <2>5. Window(list, e, 0)
    BY <1>2, <2>1, SeqHalfAssumption DEF Window
  <2>6. UpTo(rest, g, delivered \o s, sent)
    BY <1>2, <1>3, <2>1, <2>2, <2>3, <2>4, <2>5, HandUp
  <2>7. c \in RxState /\ c.rxList = rest /\ c.expectedSeq = g
    BY <1>2, <1>4, <2>4 DEF RxState
  <2>8. UpTo(r.rxList, r.expectedSeq, delivered \o s \o t, sent)
    BY <1>2, <1>5, <2>4, <2>6, <2>7, ReportUp
  <2>9. r \in RxState /\ r.expectedSeq \in FrameSeq
    BY <1>5, <2>4, <2>7, ReportStopsAtGap
  <2>10. rx'.expectedSeq = r.expectedSeq /\ rx'.rxList = r.rxList
    BY <1>9, <2>9
  <2>11. rx'.expectedSeq # SeqInit
    BY <2>9, <2>10, SeqInitOutside
  <2> QED BY <1>8, <2>8, <2>10, <2>11 DEF UpOK
<1> QED BY <1>10, <1>11

\* A frame sent or repeated is what its number says.
LEMMA AppendKeepsNet ==
    ASSUME NEW S, NEW frames \in Seq(S), NEW top, NetOK(frames, top), NEW f \in S,
           f.sdu \in JoinAt + 1 .. top, f.txSeq = NumberOf(f.sdu)
    PROVE  NetOK(Append(frames, f), top)
<1>0. Len(frames) \in Nat
  BY LenProperties
<1>1. PICK new, n : new = Append(frames, f) /\ n = Len(frames) /\ n \in Nat
  BY <1>0
<1>2. Len(new) = n + 1 /\ (\A i \in 1 .. n : new[i] = frames[i]) /\ new[n + 1] = f
  BY <1>1, AppendProperties
<1>3. ASSUME NEW i \in 1 .. Len(new)
      PROVE  new[i].sdu \in JoinAt + 1 .. top /\ new[i].txSeq = NumberOf(new[i].sdu)
  <2>1. CASE i = n + 1
    BY <1>2, <2>1
  <2>2. CASE i # n + 1
    <3>1. i \in 1 .. n
      BY <1>1, <1>2, <2>2
    <3> QED BY <1>1, <1>2, <3>1 DEF NetOK
  <2> QED BY <2>1, <2>2
<1>4. NetOK(new, top)
  BY <1>3 DEF NetOK
<1> QED BY <1>1, <1>4

\* A receiver that has got nothing is in order, and so is one that keeps what it has while
\* the sender goes on.
LEMMA SameUp ==
    ASSUME NEW c, NEW up, NEW top \in Nat, NEW more \in Nat, top <= more, UpOK(c, up, top),
           c.rxList \in Seq(HeldNode)
    PROVE  UpOK(c, up, more)
<1>1. CASE c.expectedSeq = SeqInit
  BY <1>1 DEF UpOK
<1>2. CASE c.expectedSeq # SeqInit
  <2>1. UpTo(c.rxList, c.expectedSeq, up, top)
    BY <1>2 DEF UpOK
  <2>2. up \in Seq(Nat) /\ up # <<>> /\ Last(up) <= top
    BY <2>1 DEF UpTo
  <2>3. Last(up) \in Nat
    <3>1. Len(up) \in 1 .. Len(up)
      BY <2>2, EmptySeq, LenProperties
    <3> QED BY <2>2, <3>1, ElementOfSeq DEF Last
  <2>4. \A i \in 1 .. Len(c.rxList) : c.rxList[i].sdu \in Nat
    <3>1. \A i \in 1 .. Len(c.rxList) : c.rxList[i] \in HeldNode
      BY ElementOfSeq
    <3> QED BY <3>1 DEF HeldNode
  <2>5. SdusAre(c.rxList, c.expectedSeq, Last(up) + 1, more)
    BY <2>1, <2>4 DEF UpTo, SdusAre
  <2>6. UpTo(c.rxList, c.expectedSeq, up, more)
    BY <2>1, <2>2, <2>3, <2>5 DEF UpTo
  <2> QED BY <1>2, <2>6 DEF UpOK
<1> QED BY <1>1, <1>2

\* Every step of a link that is fresh keeps the order.
LEMMA OrderStep == StreamInv /\ StreamOrder /\ Fresh /\ [Next]_vars => StreamOrder'
<1> SUFFICES ASSUME StreamInv, StreamOrder, Fresh, [Next]_vars PROVE StreamOrder'
  OBVIOUS
<1> DEFINE Frame == [txSeq : FrameSeq, sdu : Nat]
<1>0. /\ net \in Seq(Frame) /\ sent \in Nat /\ JoinAt \in Nat /\ rx \in RxState
      /\ rx.rxList \in Seq(HeldNode)
      /\ sent >= JoinAt /\ NetOK(net, sent) /\ UpOK(rx, delivered, sent)
  BY StreamAssumption DEF StreamInv, StreamTypeOK, RxState, StreamOrder
<1>1. CASE SendStreamFrame
  <2>1. sent' = sent + 1 /\ rx' = rx /\ delivered' = delivered
    BY <1>1 DEF SendStreamFrame
  <2>2. UpOK(rx, delivered, sent + 1)
    <3>1. sent + 1 \in Nat /\ sent <= sent + 1
      BY <1>0
    <3> QED BY <1>0, <3>1, SameUp
  <2>3. PICK f \in Frame : /\ f = [txSeq |-> (sent + 1) % SeqModulus, sdu |-> sent + 1]
                           /\ f.txSeq = NumberOf(f.sdu) /\ f.sdu = sent + 1
    <3>1. [txSeq |-> (sent + 1) % SeqModulus, sdu |-> sent + 1] \in Frame
      BY <1>0, SeqHalfAssumption DEF FrameSeq, SeqModulus
    <3> QED BY <3>1 DEF NumberOf
  <2>4. net' = Append(net, f) \/ net' = net
    BY <1>1, <2>3 DEF SendStreamFrame
  <2>5. NetOK(net, sent + 1)
    BY <1>0 DEF NetOK
  <2>6. NetOK(Append(net, f), sent + 1)
    <3>1. f.sdu \in JoinAt + 1 .. sent + 1 /\ f.txSeq = NumberOf(f.sdu)
      BY <1>0, <2>3
    <3> HIDE DEF Frame
    <3> QED BY <1>0, <2>5, <3>1, AppendKeepsNet
  <2>7. sent' >= JoinAt
    BY <1>0, <2>1
  <2>8. NetOK(net', sent')
    BY <2>1, <2>4, <2>5, <2>6
  <2> QED BY <2>1, <2>2, <2>7, <2>8 DEF StreamOrder
<1>2. CASE Repeat
  <2>1. /\ net' = Append(net, Last(net)) /\ net # <<>>
        /\ sent' = sent /\ rx' = rx /\ delivered' = delivered
    BY <1>2 DEF Repeat
  <2>2. Len(net) \in 1 .. Len(net)
    BY <1>0, <2>1, EmptySeq, LenProperties
  <2> HIDE DEF Frame
  <2>3. Last(net) \in Frame
    BY <1>0, <2>2, ElementOfSeq DEF Last
  <2>4. Last(net).sdu \in JoinAt + 1 .. sent /\ Last(net).txSeq = NumberOf(Last(net).sdu)
    BY <1>0, <2>2 DEF NetOK, Last
  <2>5. NetOK(net', sent)
    BY <1>0, <2>1, <2>3, <2>4, AppendKeepsNet
  <2> QED BY <1>0, <2>1, <2>5 DEF StreamOrder
<1>3. CASE Tick
  BY <1>3 DEF Tick, StreamOrder
<1>4. CASE RecvStreamFrame
  <2>1. PICK i \in 1 .. Len(net) :
           /\ net' = RemoveAt(net, i)
           /\ \/ RecvFirst(net[i]) \/ RecvExpected(net[i])
              \/ RecvAhead(net[i]) \/ RecvDropped(net[i])
    BY <1>4 DEF RecvStreamFrame
  <2>2. sent' = sent
    BY <1>4 DEF RecvStreamFrame
  <2>3. NetOK(net', sent)
    <3>1. /\ Len(net) \in Nat /\ Len(net') = Len(net) - 1
          /\ \A j \in 1 .. Len(net) - 1 : net'[j] = IF j < i THEN net[j] ELSE net[j + 1]
      <4> HIDE DEF Frame
      <4> QED BY <1>0, <2>1, RemoveAtProperties, LenProperties
    <3>2. \A j \in 1 .. Len(net') : \E k \in 1 .. Len(net) : net'[j] = net[k]
      <4> TAKE j \in 1 .. Len(net')
      <4>1. j \in 1 .. Len(net) - 1 /\ j \in 1 .. Len(net) /\ j + 1 \in 1 .. Len(net)
        BY <3>1
      <4> QED BY <3>1, <4>1
    <3> QED BY <1>0, <3>2 DEF NetOK
  <2>4. PICK f \in [txSeq : FrameSeq, sdu : Nat] : f = net[i]
    BY <1>0, ElementOfSeq
  <2>5. /\ f.sdu \in JoinAt + 1 .. sent /\ f.txSeq = NumberOf(f.sdu)
        /\ sent - f.sdu < SeqHalf
        /\ delivered # <<>> => sent - Last(delivered) <= SeqHalf
    BY <1>0, <2>4 DEF NetOK, Fresh
  <2>6. UpOK(rx', delivered', sent)
    <3>1. CASE RecvFirst(f)
      BY <2>5, <3>1, FirstUp
    <3>2. CASE RecvExpected(f)
      BY <2>5, <3>2, ExpectedUp
    <3>3. CASE RecvAhead(f)
      BY <2>5, <3>3, AheadUp
    <3>4. CASE RecvDropped(f)
      BY <1>0, <3>4 DEF RecvDropped
    <3> QED BY <2>1, <2>4, <3>1, <3>2, <3>3, <3>4
  <2> QED BY <1>0, <2>2, <2>3, <2>6 DEF StreamOrder
<1>5. CASE TimerExpires
  BY <1>5 DEF TimerExpires, StreamOrder
<1>6. CASE ReorderStreamFrameTask
  <2>1. UpOK(rx', delivered', sent)
    BY <1>6, TaskUp
  <2>2. sent' = sent /\ net' = net
    BY <1>6 DEF ReorderStreamFrameTask
  <2> QED BY <1>0, <2>1, <2>2 DEF StreamOrder
<1>7. CASE Rejoin
  <2>1. rx' = InitRx /\ delivered' = <<>> /\ sent' = sent /\ net' = net
    BY <1>7 DEF Rejoin
  <2>2. UpOK(rx', delivered', sent)
    BY <2>1 DEF UpOK, InitRx
  <2> QED BY <1>0, <2>1, <2>2 DEF StreamOrder
<1>8. CASE UNCHANGED vars
  BY <1>8 DEF vars, StreamOrder
<1> QED BY <1>1, <1>2, <1>3, <1>4, <1>5, <1>6, <1>7, <1>8 DEF Next

\* The initial state is in order.
LEMMA OrderInit == Init => StreamOrder
  BY StreamAssumption DEF Init, InitRx, StreamOrder, NetOK, UpOK

\* What is handed up is in order.
LEMMA OrderShows == StreamOrder => InOrderOnce
<1> SUFFICES ASSUME StreamOrder PROVE InOrderOnce
  OBVIOUS
<1>1. CASE rx.expectedSeq = SeqInit
  <2>1. delivered = <<>>
    BY <1>1 DEF StreamOrder, UpOK
  <2> QED BY <2>1 DEF InOrderOnce
<1>2. CASE rx.expectedSeq # SeqInit
  <2>1. Increasing(delivered)
    BY <1>2 DEF StreamOrder, UpOK, UpTo
  <2> QED BY <2>1 DEF Increasing, InOrderOnce
<1> QED BY <1>1, <1>2

\* For every sequence space and cache size: as long as the sender is less than half the
\* numbers ahead of what is in flight and of what was handed up last, what is handed up
\* is in the order it was sent and nothing twice, whatever is lost, repeated, reordered or
\* given up by the timer (DTAP_RecvStreamFrame, DTAP_ReorderStreamFrameTask).
THEOREM StreamInOrderOnce == Spec /\ []Fresh => []InOrderOnce
  BY StreamInit, StreamStep, OrderInit, OrderStep, OrderShows, PTL DEF Spec

\* The sender keeps to its bound.
SentBound == sent = JoinAt \/ sent <= MaxSent

\* Half the numbers after the receiver joined, the link is still fresh.
LEMMA HalfRangeFresh ==
    ASSUME MaxSent - JoinAt <= SeqHalf, StreamInv, StreamOrder, SentBound
    PROVE  Fresh
<1>0. /\ sent \in Nat /\ JoinAt \in Nat /\ MaxSent \in Nat /\ SeqHalf \in Nat \ {0}
      /\ sent - JoinAt <= SeqHalf
  BY StreamAssumption, SeqHalfAssumption DEF StreamInv, StreamTypeOK, SentBound
<1>1. \A i \in 1 .. Len(net) : sent - net[i].sdu < SeqHalf
  <2> TAKE i \in 1 .. Len(net)
  <2>1. net[i].sdu \in JoinAt + 1 .. sent
    BY DEF StreamOrder, NetOK
  <2> QED BY <1>0, <2>1
<1>2. ASSUME delivered # <<>> PROVE sent - Last(delivered) <= SeqHalf
  <2>1. UpTo(rx.rxList, rx.expectedSeq, delivered, sent)
    BY <1>2 DEF StreamOrder, UpOK
  <2>2. delivered \in Seq(Nat) /\ delivered[1] > JoinAt /\ Increasing(delivered)
    BY <2>1 DEF UpTo
  <2>3. PICK n \in Nat \ {0} : n = Len(delivered)
    BY <1>2, <2>2, EmptySeq, LenProperties
  <2>4. delivered[1] \in Nat /\ delivered[n] \in Nat /\ Last(delivered) = delivered[n]
    BY <2>2, <2>3, ElementOfSeq DEF Last
  <2>5. delivered[1] <= delivered[n]
    BY <2>2, <2>3, <2>4 DEF Increasing
  <2> QED BY <1>0, <2>2, <2>4, <2>5
<1> QED BY <1>1, <1>2 DEF Fresh

\* A sender that stops at most half the numbers after the receiver joined needs no more:
\* what is handed up is in order and nothing twice, also across the wrap.
THEOREM HalfRangeInOrderOnce == MaxSent - JoinAt <= SeqHalf => (Spec => []InOrderOnce)
<1> SUFFICES ASSUME MaxSent - JoinAt <= SeqHalf PROVE Spec => []InOrderOnce
  OBVIOUS
<1>1. Init => SentBound
  BY DEF Init, SentBound
<1>2. StreamInv /\ SentBound /\ [Next]_vars => SentBound'
  <2> SUFFICES ASSUME StreamInv, SentBound, [Next]_vars PROVE SentBound'
    OBVIOUS
  <2>1. sent' = sent \/ (sent < MaxSent /\ sent' = sent + 1)
    <3>1. CASE SendStreamFrame
      BY <3>1 DEF SendStreamFrame
    <3>2. CASE Repeat
      BY <3>2 DEF Repeat
    <3>3. CASE Tick
      BY <3>3 DEF Tick
    <3>4. CASE RecvStreamFrame
      BY <3>4 DEF RecvStreamFrame
    <3>5. CASE TimerExpires
      BY <3>5 DEF TimerExpires
    <3>6. CASE ReorderStreamFrameTask
      BY <3>6 DEF ReorderStreamFrameTask
    <3>7. CASE Rejoin
      BY <3>7 DEF Rejoin
    <3>8. CASE UNCHANGED vars
      BY <3>8 DEF vars
    <3> QED BY <3>1, <3>2, <3>3, <3>4, <3>5, <3>6, <3>7, <3>8 DEF Next
  <2>2. sent \in Nat /\ MaxSent \in Nat
    BY StreamAssumption DEF StreamInv, StreamTypeOK
  <2> QED BY <2>1, <2>2 DEF SentBound
<1>3. StreamInv /\ StreamOrder /\ SentBound => Fresh
  BY HalfRangeFresh
<1> QED BY StreamInit, StreamStep, OrderInit, OrderStep, OrderShows, <1>1, <1>2, <1>3, PTL DEF Spec
=============================================================================
