-------------------------- MODULE DtapTxWindowProofs --------------------------
(***************************************************************************)
(* For every window size below half the sequence space, every set of SDUs  *)
(* and every retransmission threshold: the invariants of DtapTxWindow hold *)
(* against an arbitrary peer.                                              *)
(***************************************************************************)
EXTENDS DtapTxWindow, SequenceTheorems, TLAPS

-----------------------------------------------------------------------------
(* Arithmetic of sequence numbers.                                         *)

\* A number of the range moved by less than the range stays in it.
LEMMA SeqPlusType ==
    ASSUME NEW s \in FrameSeq, NEW n \in 0 .. (SeqModulus - 1)
    PROVE  SeqPlus(s, n) \in FrameSeq
BY SeqHalfAssumption DEF SeqPlus, FrameSeq, SeqModulus

\* Moving twice is moving by the sum.
LEMMA SeqPlusAdd ==
    ASSUME NEW s \in FrameSeq, NEW m \in Nat, NEW n \in Nat, m + n < SeqModulus
    PROVE  SeqPlus(SeqPlus(s, m), n) = SeqPlus(s, m + n)
BY SeqHalfAssumption DEF SeqPlus, FrameSeq, SeqModulus

\* Only moving by nothing changes nothing.
LEMMA SeqPlusZero ==
    ASSUME NEW s \in FrameSeq, NEW n \in 0 .. (SeqModulus - 1)
    PROVE  SeqPlus(s, n) = s <=> n = 0
BY SeqHalfAssumption DEF SeqPlus, FrameSeq, SeqModulus

\* Within half the range the circular comparison is the comparison of distances.
LEMMA SmallerIsCloser ==
    ASSUME NEW s \in FrameSeq, NEW m \in 0 .. (SeqHalf - 1), NEW n \in 0 .. (SeqHalf - 1)
    PROVE  IsFrameSeqSmaller(SeqPlus(s, m), SeqPlus(s, n)) <=> m < n
BY SeqHalfAssumption DEF IsFrameSeqSmaller, SeqDiff, SeqPlus, FrameSeq, SeqModulus

\* A number DTAP_SlideTxWindow takes for an acknowledgement of a window of n frames
\* that starts at s is at a distance 1 .. n from s.
LEMMA AckIsInWindow ==
    ASSUME NEW s \in FrameSeq, NEW n \in 1 .. (SeqHalf - 1), NEW r \in FrameSeq,
           \/ IsFrameSeqSmaller(s, r) /\ IsFrameSeqSmaller(r, SeqPlus(s, n))
           \/ r = SeqPlus(s, n)
    PROVE  \E d \in 1 .. n : r = SeqPlus(s, d)
<1>1. CASE r = SeqPlus(s, n)
  BY <1>1
<1>2. CASE IsFrameSeqSmaller(s, r) /\ IsFrameSeqSmaller(r, SeqPlus(s, n))
  <2> DEFINE d == SeqDiff(r, s)
  <2>1. d \in 1 .. n /\ r = SeqPlus(s, d)
    BY <1>2, SeqHalfAssumption
       DEF IsFrameSeqSmaller, SeqDiff, SeqPlus, FrameSeq, SeqModulus
  <2> QED BY <2>1
<1> QED BY <1>1, <1>2

-----------------------------------------------------------------------------
(* The invariant of the window, for any record.                            *)

\* The list holds the numbers from base on, without a gap.
Consecutive(list, base) ==
    \A i \in 1 .. Len(list) : list[i].txSeq = SeqPlus(base, i - 1)

WindowOK(t) ==
    /\ t \in TxState
    /\ Len(t.txList) <= WindowSize
    /\ Consecutive(t.txList, t.expectedAckSeq)
    /\ t.nextTxSeq = SeqPlus(t.expectedAckSeq, Len(t.txList))
    /\ t.retransTimer <=> t.txList # <<>>

\* The part of the record a step on the window alone leaves as it was; a channel that
\* has asked for its release does not take it back.
SameStatus(t, u) ==
    /\ u.isTxWindowFull = t.isTxWindowFull
    /\ u.cacheBuff = t.cacheBuff
    /\ t.release => u.release

\* The invariant depends on the list, its ends and the timer only.
LEMMA WindowOKByFields ==
    ASSUME NEW t, WindowOK(t), NEW u, u \in TxState, u.txList = t.txList,
           u.expectedAckSeq = t.expectedAckSeq, u.nextTxSeq = t.nextTxSeq,
           u.retransTimer = t.retransTimer
    PROVE  WindowOK(u)
BY DEF WindowOK

\* Freeing what an acknowledgement d frames into the window covers frees d frames.
LEMMA FreeAckedIsSuffix ==
    ASSUME NEW list \in Seq(Frame), NEW base \in FrameSeq, Len(list) < SeqHalf,
           Consecutive(list, base), NEW d \in 1 .. Len(list)
    PROVE  FreeAcked(list, SeqPlus(base, d)) = SubSeq(list, d + 1, Len(list))
<1> DEFINE r == SeqPlus(base, d)
           P(k) == /\ \A i \in 1 .. k : IsFrameSeqSmaller(list[i].txSeq, r)
                   /\ k < Len(list) => ~ IsFrameSeqSmaller(list[k + 1].txSeq, r)
<1>0. Len(list) \in Nat /\ SeqHalf \in Nat
  BY LenProperties, SeqHalfAssumption
<1>1. \A i \in 1 .. Len(list) : IsFrameSeqSmaller(list[i].txSeq, r) <=> i - 1 < d
  <2> TAKE i \in 1 .. Len(list)
  <2>1. i - 1 \in 0 .. (SeqHalf - 1) /\ d \in 0 .. (SeqHalf - 1)
    BY <1>0
  <2>2. list[i].txSeq = SeqPlus(base, i - 1)
    BY DEF Consecutive
  <2> QED BY <2>1, <2>2, SmallerIsCloser
<1>2. P(d)
  <2>1. \A i \in 1 .. d : i \in 1 .. Len(list) /\ i - 1 < d
    BY <1>0
  <2>2. d < Len(list) => d + 1 \in 1 .. Len(list) /\ ~ ((d + 1) - 1 < d)
    BY <1>0
  <2> QED BY <1>1, <2>1, <2>2
<1>3. ASSUME NEW k \in 0 .. Len(list), P(k)
      PROVE  k = d
  <2>1. CASE k < d
    <3>1. k < Len(list) /\ k + 1 \in 1 .. Len(list) /\ (k + 1) - 1 < d
      BY <1>0, <2>1
    <3> QED BY <1>1, <1>3, <3>1
  <2>2. CASE k > d
    <3>1. k \in 1 .. k /\ k \in 1 .. Len(list) /\ ~ (k - 1 < d)
      BY <1>0, <2>2
    <3> QED BY <1>1, <1>3, <3>1
  <2> QED BY <1>0, <2>1, <2>2
<1>4. d \in 0 .. Len(list)
  BY <1>0
<1> HIDE DEF P, r
<1>5. (CHOOSE k \in 0 .. Len(list) : P(k)) = d
  BY <1>2, <1>3, <1>4
<1> QED BY <1>5 DEF FreeAcked, P, r

\* Sliding the window keeps it whole, whatever reqSeq arrives.
LEMMA SlideTxWindowOK ==
    ASSUME NEW t, WindowOK(t), NEW r \in FrameSeq \cup {SeqInit}
    PROVE  WindowOK(SlideTxWindow(t, r)) /\ SameStatus(t, SlideTxWindow(t, r))
<1> DEFINE list == t.txList
           base == t.expectedAckSeq
           u == SlideTxWindow(t, r)
<1>0. /\ t \in TxState /\ list \in Seq(Frame) /\ base \in FrameSeq
      /\ t.nextTxSeq \in FrameSeq /\ t.reTxSeq \in FrameSeq
      /\ Len(list) \in Nat /\ Len(list) <= WindowSize /\ Len(list) < SeqHalf
      /\ WindowSize \in Nat /\ SeqHalf \in Nat
  BY LenProperties, SeqHalfAssumption, TxAssumption DEF WindowOK, TxState
<1>1. CASE r = SeqInit
  BY <1>1 DEF SlideTxWindow, SameStatus
<1>2. CASE r # SeqInit /\ list = <<>>
  <2>1. u = [t EXCEPT !.sendPollingCounter = 0]
    BY <1>2 DEF SlideTxWindow
  <2>2. /\ u \in TxState /\ u.txList = t.txList
        /\ u.expectedAckSeq = t.expectedAckSeq /\ u.nextTxSeq = t.nextTxSeq
        /\ u.retransTimer = t.retransTimer /\ SameStatus(t, u)
    BY <2>1, <1>0 DEF SameStatus, TxState
  <2> QED BY <2>2, WindowOKByFields
<1>3. CASE r # SeqInit /\ list # <<>> /\ ~ Acknowledges(t, r)
  <2>1. PICK q \in FrameSeq : u = [t EXCEPT !.sendPollingCounter = 0, !.reTxSeq = q]
    BY <1>0, <1>3 DEF SlideTxWindow
  <2> HIDE DEF u
  <2>2. /\ u \in TxState /\ u.txList = t.txList
        /\ u.expectedAckSeq = t.expectedAckSeq /\ u.nextTxSeq = t.nextTxSeq
        /\ u.retransTimer = t.retransTimer /\ SameStatus(t, u)
    BY <2>1, <1>0 DEF SameStatus, TxState
  <2> QED BY <2>2, WindowOKByFields DEF u
<1>4. CASE r # SeqInit /\ list # <<>> /\ Acknowledges(t, r)
  <2>1. PICK q \in FrameSeq :
            u = [t EXCEPT !.sendPollingCounter = 0, !.reTxSeq = q, !.expectedAckSeq = r,
                          !.txList = FreeAcked(list, r),
                          !.retransTimer = (r # t.nextTxSeq)]
    BY <1>0, <1>4 DEF SlideTxWindow, TimerAfterAck
  <2>2. Len(list) \in 1 .. (SeqHalf - 1) /\ t.nextTxSeq = SeqPlus(base, Len(list))
    BY <1>0, <1>4, EmptySeq DEF WindowOK
  <2>3. PICK d \in 1 .. Len(list) : r = SeqPlus(base, d)
    <3>1. r \in FrameSeq
      BY <1>4
    <3> QED BY <1>0, <1>4, <2>2, <3>1, AckIsInWindow DEF Acknowledges
  <2> DEFINE rest == SubSeq(list, d + 1, Len(list))
  <2>4. FreeAcked(list, r) = rest
    BY <1>0, <2>3, FreeAckedIsSuffix DEF WindowOK
  <2>5. /\ rest \in Seq(Frame)
        /\ Len(rest) = Len(list) - d
        /\ \A i \in 1 .. Len(rest) : rest[i] = list[d + i]
    <3>1. \A i \in (d + 1) .. Len(list) : list[i] \in Frame
      BY <1>0, ElementOfSeq
    <3>2. d + 1 \in Int /\ Len(list) \in Int
      BY <1>0
    <3>3. /\ rest \in Seq(Frame)
          /\ Len(rest) = IF d + 1 <= Len(list) THEN Len(list) - (d + 1) + 1 ELSE 0
          /\ \A i \in 1 .. (Len(list) - (d + 1) + 1) : rest[i] = list[(d + 1) + i - 1]
      BY <3>1, <3>2, SubSeqProperties
    <3> QED BY <1>0, <3>3
  <2> HIDE DEF rest
  <2>6. Consecutive(rest, r)
    <3> SUFFICES ASSUME NEW i \in 1 .. Len(rest)
                 PROVE  rest[i].txSeq = SeqPlus(r, i - 1)
      BY DEF Consecutive
    <3>1. /\ d + i \in 1 .. Len(list) /\ d \in Nat /\ i - 1 \in Nat
          /\ (d + i) - 1 = d + (i - 1) /\ d + (i - 1) < SeqModulus
      BY <1>0, <2>5 DEF SeqModulus
    <3>2. list[d + i].txSeq = SeqPlus(base, d + (i - 1))
      BY <3>1 DEF WindowOK, Consecutive
    <3> QED BY <1>0, <2>3, <2>5, <3>1, <3>2, SeqPlusAdd
  <2>7. t.nextTxSeq = SeqPlus(r, Len(rest))
    <3>1. /\ d \in Nat /\ Len(rest) \in Nat /\ d + Len(rest) = Len(list)
          /\ d + Len(rest) < SeqModulus
      BY <1>0, <2>5 DEF SeqModulus
    <3> QED BY <1>0, <2>2, <2>3, <3>1, SeqPlusAdd
  <2>8. (r # t.nextTxSeq) <=> rest # <<>>
    <3>1. r = t.nextTxSeq <=> Len(rest) = 0
      <4>1. Len(rest) \in 0 .. (SeqModulus - 1) /\ r \in FrameSeq
        BY <1>0, <1>4, <2>5 DEF SeqModulus
      <4> QED BY <2>7, <4>1, SeqPlusZero
    <3>2. Len(rest) = 0 <=> rest = <<>>
      BY <2>5, EmptySeq
    <3> QED BY <3>1, <3>2
  <2> HIDE DEF u
  <2>9. /\ u = [t EXCEPT !.sendPollingCounter = 0, !.reTxSeq = q, !.expectedAckSeq = r,
                         !.txList = rest, !.retransTimer = (r # t.nextTxSeq)]
        /\ r \in FrameSeq /\ Len(rest) <= WindowSize
    BY <1>0, <1>4, <2>1, <2>4, <2>5
  <2>10. u \in TxState
    BY <1>0, <2>5, <2>9 DEF TxState
  <2>11. /\ u.txList = rest /\ u.expectedAckSeq = r /\ u.nextTxSeq = t.nextTxSeq
         /\ u.retransTimer = (r # t.nextTxSeq) /\ SameStatus(t, u)
    BY <1>0, <2>9 DEF SameStatus, TxState
  <2>12. WindowOK(u)
    BY <2>6, <2>7, <2>8, <2>9, <2>10, <2>11, Zenon DEF WindowOK
  <2> QED BY <2>11, <2>12 DEF u
<1> QED BY <1>1, <1>2, <1>3, <1>4

-----------------------------------------------------------------------------
(* Retransmission.                                                         *)

ResultCodes == {"SUCCESS", "FIND_FRAME_ERR", "REACH_MAX_RE_TX_CNT", "SEND_ERR",
                "INVALID_FRAME_NUM", "TX_WINDOW_FULL"}

IsResult(r) ==
    /\ r = [tx |-> r.tx, out |-> r.out, ret |-> r.ret, cbk |-> r.cbk]
    /\ r.ret \in ResultCodes

AnsweredFull(r) == r.ret = "TX_WINDOW_FULL"

\* What a retransmission leaves as it was: everything but the frame itself.
SameWindow(t, u) ==
    /\ SameStatus(t, u)
    /\ u.nextTxSeq = t.nextTxSeq
    /\ u.expectedAckSeq = t.expectedAckSeq
    /\ Len(u.txList) = Len(t.txList)

\* Replacing a frame by one with the same number keeps the window whole.
LEMMA ReplaceFrameOK ==
    ASSUME NEW t, WindowOK(t), NEW i \in 1 .. Len(t.txList), NEW f \in Frame,
           f.txSeq = t.txList[i].txSeq,
           NEW u, u \in TxState, u.txList = [t.txList EXCEPT ![i] = f],
           u.expectedAckSeq = t.expectedAckSeq, u.nextTxSeq = t.nextTxSeq,
           u.retransTimer = TRUE
    PROVE  WindowOK(u) /\ Len(u.txList) = Len(t.txList)
<1>1. t.txList \in Seq(Frame) /\ Len(t.txList) \in Nat
  BY LenProperties DEF WindowOK, TxState
<1>2. /\ Len(u.txList) = Len(t.txList)
      /\ \A j \in 1 .. Len(t.txList) : u.txList[j] = IF j = i THEN f ELSE t.txList[j]
  BY <1>1, ExceptSeq
<1>3. u.txList # <<>>
  <2>1. Len(u.txList) # 0
    BY <1>1, <1>2
  <2> QED BY <2>1, EmptySeq
<1>4. Consecutive(u.txList, u.expectedAckSeq)
  BY <1>2 DEF Consecutive, WindowOK
<1> QED BY <1>2, <1>3, <1>4, Zenon DEF WindowOK

\* A retransmission changes neither the window nor what the caller was told.
LEMMA RetransOK ==
    ASSUME NEW t, WindowOK(t), NEW sent \in BOOLEAN
    PROVE  LET r == RetransEnhanceFrame(t, sent)
           IN  /\ IsResult(r) /\ WindowOK(r.tx) /\ SameWindow(t, r.tx) /\ r.cbk = FALSE
               /\ r.tx.sendPollingCounter = t.sendPollingCounter
               /\ r.ret = "REACH_MAX_RE_TX_CNT" => r.tx.release
<1> DEFINE r == RetransEnhanceFrame(t, sent)
           i == CHOOSE i \in FindFrameBySeq(t) : TRUE
           f == [t.txList[i] EXCEPT !.pBit = TRUE]
           g == [f EXCEPT !.reTxCnt = @ + 1]
<1>0. /\ t \in TxState /\ t.txList \in Seq(Frame) /\ Len(t.txList) \in Nat
      /\ MaxTx \in Nat
  BY LenProperties, TxAssumption DEF WindowOK, TxState
<1>1. CASE FindFrameBySeq(t) = {}
  <2>1. r = Result(t, <<>>, "FIND_FRAME_ERR")
    BY <1>1 DEF RetransEnhanceFrame
  <2> QED BY <2>1 DEF Result, IsResult, ResultCodes, SameWindow, SameStatus
<1>2. CASE FindFrameBySeq(t) # {}
  <2>1. i \in 1 .. Len(t.txList) /\ t.txList[i] \in Frame
    <3>1. i \in FindFrameBySeq(t)
      BY <1>2
    <3>2. i \in 1 .. Len(t.txList)
      BY <3>1 DEF FindFrameBySeq
    <3> QED BY <1>0, <3>2, ElementOfSeq
  <2>2. t.retransTimer = TRUE
    <3>1. t.txList # <<>>
      BY <1>0, <2>1, EmptySeq
    <3> QED BY <1>0, <3>1 DEF WindowOK, TxState
  <2>3. f \in Frame /\ f.txSeq = t.txList[i].txSeq
    BY <2>1 DEF Frame
  <2> DEFINE q == IF f.reTxCnt >= MaxTx
                  THEN Result([t EXCEPT !.release = TRUE], <<>>, "REACH_MAX_RE_TX_CNT")
                  ELSE IF sent
                  THEN Result([t EXCEPT !.txList[i] = g, !.retransTimer = TRUE],
                              <<f>>, "SUCCESS")
                  ELSE Result([t EXCEPT !.txList[i] = f], <<>>, "SEND_ERR")
  <2>4. r = q
    BY <1>2 DEF RetransEnhanceFrame
  <2> HIDE DEF i
  <2>5. CASE f.reTxCnt >= MaxTx
    <3> DEFINE u == [t EXCEPT !.release = TRUE]
    <3>1. r = Result(u, <<>>, "REACH_MAX_RE_TX_CNT")
      BY <2>4, <2>5
    <3>2. /\ u \in TxState /\ u.txList = t.txList
          /\ u.expectedAckSeq = t.expectedAckSeq /\ u.nextTxSeq = t.nextTxSeq
          /\ u.retransTimer = t.retransTimer /\ SameStatus(t, u)
          /\ u.sendPollingCounter = t.sendPollingCounter /\ u.release = TRUE
      BY <1>0 DEF TxState, SameStatus
    <3> HIDE DEF u
    <3>3. WindowOK(u) /\ SameWindow(t, u)
      BY <3>2, WindowOKByFields DEF SameWindow
    <3> QED BY <3>1, <3>2, <3>3 DEF Result, IsResult, ResultCodes
  <2>6. CASE ~ (f.reTxCnt >= MaxTx) /\ sent
    <3> DEFINE u == [t EXCEPT !.txList[i] = g, !.retransTimer = TRUE]
    <3>1. r = Result(u, <<f>>, "SUCCESS")
      BY <2>4, <2>6
    <3> HIDE DEF f
    <3>2. g \in Frame /\ g.txSeq = t.txList[i].txSeq
      <4>1. f.reTxCnt \in 0 .. MaxTx /\ ~ (f.reTxCnt >= MaxTx)
        BY <2>3, <2>6 DEF Frame
      <4>2. f.reTxCnt + 1 \in 0 .. MaxTx
        BY <1>0, <4>1
      <4>3. g \in Frame
        BY <2>3, <4>2 DEF Frame
      <4>4. g.txSeq = f.txSeq
        BY <2>3 DEF Frame
      <4> QED BY <2>3, <4>3, <4>4
    <3> HIDE DEF g
    <3>3. /\ u \in TxState /\ u.txList = [t.txList EXCEPT ![i] = g]
          /\ u.expectedAckSeq = t.expectedAckSeq /\ u.nextTxSeq = t.nextTxSeq
          /\ u.retransTimer = TRUE /\ SameStatus(t, u)
          /\ u.sendPollingCounter = t.sendPollingCounter
      BY <1>0, <2>1, <3>2, ExceptSeq, ZenonT(60) DEF TxState, SameStatus
    <3> HIDE DEF u
    <3>4. WindowOK(u) /\ SameWindow(t, u)
      BY <2>1, <2>3, <3>2, <3>3, ReplaceFrameOK, ZenonT(60) DEF SameWindow
    <3> QED BY <3>1, <3>3, <3>4 DEF Result, IsResult, ResultCodes
  <2>7. CASE ~ (f.reTxCnt >= MaxTx) /\ ~ sent
    <3> DEFINE u == [t EXCEPT !.txList[i] = f]
    <3>1. r = Result(u, <<>>, "SEND_ERR")
      BY <2>4, <2>7
    <3> HIDE DEF f
    <3>3. /\ u \in TxState /\ u.txList = [t.txList EXCEPT ![i] = f]
          /\ u.expectedAckSeq = t.expectedAckSeq /\ u.nextTxSeq = t.nextTxSeq
          /\ u.retransTimer = TRUE /\ SameStatus(t, u)
          /\ u.sendPollingCounter = t.sendPollingCounter
      BY <1>0, <2>1, <2>2, <2>3, ExceptSeq, ZenonT(60) DEF TxState, SameStatus
    <3> HIDE DEF u
    <3>4. WindowOK(u) /\ SameWindow(t, u)
      BY <2>1, <2>3, <3>3, ReplaceFrameOK, ZenonT(60) DEF SameWindow
    <3> QED BY <3>1, <3>3, <3>4 DEF Result, IsResult, ResultCodes
  <2> QED BY <2>5, <2>6, <2>7
<1> QED BY <1>1, <1>2

-----------------------------------------------------------------------------
(* Sending.                                                                *)

\* A function on 1 .. n is a sequence of length n.
LEMMA FunctionIsSeq ==
    ASSUME NEW S, NEW n \in Nat, NEW f \in [1 .. n -> S]
    PROVE  f \in Seq(S) /\ Len(f) = n
<1>1. f \in Seq(S)
  BY SeqDef
<1>2. DOMAIN f = 1 .. Len(f) /\ Len(f) \in Nat /\ DOMAIN f = 1 .. n
  BY <1>1, LenProperties
<1> QED BY <1>1, <1>2

\* The polling counter stays a natural number.
LEMMA PollCounterType ==
    ASSUME NEW c \in Nat, NEW n \in Nat
    PROVE  (c + n) % PollPeriod \in Nat
<1>1. PollPeriod \in Nat \ {0}
  BY TxAssumption, SeqHalfAssumption DEF PollPeriod
<1>2. \A x \in Nat, y \in Nat \ {0} : x % y \in Nat
  OBVIOUS
<1> QED BY <1>1, <1>2

\* The frames of an SDU that fits carry consecutive numbers from nextTxSeq on.
LEMMA PackOK ==
    ASSUME NEW t, WindowOK(t), NEW sdu \in Sdus, NEW dup \in BOOLEAN,
           NEW rxSeq \in FrameSeq, FrameCnt[sdu][dup] <= WindowSize
    PROVE  LET frames == PackEnhanceFrames(t, sdu, dup, rxSeq)
           IN  /\ frames \in Seq(Frame)
               /\ Len(frames) = FrameCnt[sdu][dup]
               /\ Consecutive(frames, t.nextTxSeq)
<1> DEFINE frames == PackEnhanceFrames(t, sdu, dup, rxSeq)
           n == FrameCnt[sdu][dup]
<1>0. /\ n \in Nat \ {0} /\ WindowSize \in 1 .. (SeqHalf - 1) /\ SeqHalf \in Nat
      /\ MaxTx \in Nat /\ t.nextTxSeq \in FrameSeq
  BY TxAssumption, SeqHalfAssumption DEF WindowOK, TxState
<1>1. ASSUME NEW i \in 1 .. n
      PROVE  /\ i - 1 \in 0 .. (SeqModulus - 1)
             /\ SeqPlus(t.nextTxSeq, i - 1) \in FrameSeq
  <2>1. i - 1 \in 0 .. (SeqModulus - 1)
    BY <1>0 DEF SeqModulus
  <2> QED BY <1>0, <2>1, SeqPlusType
<1>2. ASSUME NEW i \in 1 .. n
      PROVE  [txSeq |-> SeqPlus(t.nextTxSeq, i - 1),
              reqSeq |-> IF dup THEN rxSeq ELSE SeqInit,
              pBit |-> (t.sendPollingCounter + i) % PollPeriod = 0,
              reTxCnt |-> 0, sdu |-> sdu, idx |-> i, cnt |-> n] \in Frame
  <2>1. 0 \in 0 .. MaxTx /\ i \in Nat \ {0} /\ n \in Nat \ {0}
    BY <1>0
  <2> QED BY <1>1, <2>1 DEF Frame
<1>3. frames \in [1 .. n -> Frame]
  BY <1>2 DEF PackEnhanceFrames
<1>4. frames \in Seq(Frame) /\ Len(frames) = n
  BY <1>0, <1>3, FunctionIsSeq
<1>5. \A i \in 1 .. n : frames[i].txSeq = SeqPlus(t.nextTxSeq, i - 1)
  BY DEF PackEnhanceFrames
<1> QED BY <1>4, <1>5 DEF Consecutive

\* The frame is in the window's list.
Holds(t, f) == \E i \in 1 .. Len(t.txList) : t.txList[i] = f

\* New frames that fit and follow on extend the window, unless the channel gives up; the
\* caller's state is not touched.
LEMMA SendInnerOK ==
    ASSUME NEW t, WindowOK(t), NEW frames \in Seq(Frame), Len(frames) >= 1,
           Len(t.txList) + Len(frames) <= WindowSize,
           Consecutive(frames, t.nextTxSeq), NEW sent \in BOOLEAN
    PROVE  LET r == SendEnhanceFrameInner(t, frames, sent)
           IN  /\ IsResult(r) /\ WindowOK(r.tx) /\ SameStatus(t, r.tx)
               /\ r.cbk = FALSE /\ ~ AnsweredFull(r)
               /\ IF r.ret = "SUCCESS" THEN Holds(r.tx, frames[1]) ELSE r.tx.release
<1> DEFINE pending == IsFrameSeqSmaller(t.reTxSeq, t.nextTxSeq)
           p == IF pending THEN RetransEnhanceFrame(t, sent) ELSE Result(t, <<>>, "SUCCESS")
           base == IF pending THEN t.nextTxSeq ELSE t.reTxSeq
           n == Len(frames)
           u == [p.tx EXCEPT !.reTxSeq = SeqPlus(base, n),
                             !.nextTxSeq = SeqPlus(t.nextTxSeq, n),
                             !.txList = @ \o frames,
                             !.sendPollingCounter = (@ + n) % PollPeriod,
                             !.retransTimer = TRUE]
           r == SendEnhanceFrameInner(t, frames, sent)
<1>1. /\ IsResult(p) /\ WindowOK(p.tx) /\ SameWindow(t, p.tx) /\ p.cbk = FALSE
      /\ p.ret = "REACH_MAX_RE_TX_CNT" => p.tx.release
  <2>1. CASE pending
    BY <2>1, RetransOK
  <2>2. CASE ~ pending
    BY <2>2 DEF Result, IsResult, ResultCodes, SameWindow, SameStatus
  <2> QED BY <2>1, <2>2
<1>2. r = IF p.ret = "REACH_MAX_RE_TX_CNT" THEN p ELSE Result(u, p.out \o frames, "SUCCESS")
  BY DEF SendEnhanceFrameInner
<1>3. base \in FrameSeq
  BY DEF WindowOK, TxState
<1> HIDE DEF p, base, r
<1>4. CASE p.ret = "REACH_MAX_RE_TX_CNT"
  BY <1>1, <1>2, <1>4 DEF SameWindow, AnsweredFull, r
<1>5. CASE p.ret # "REACH_MAX_RE_TX_CNT"
  <2> DEFINE v == p.tx
             m == Len(v.txList)
  <2>0. /\ v \in TxState /\ v.txList \in Seq(Frame) /\ v.expectedAckSeq \in FrameSeq
        /\ m \in Nat /\ n \in Nat /\ n >= 1 /\ m + n <= WindowSize /\ m + n < SeqModulus
        /\ n \in 0 .. (SeqModulus - 1) /\ SeqModulus \in Nat
        /\ v.nextTxSeq = t.nextTxSeq /\ v.nextTxSeq = SeqPlus(v.expectedAckSeq, m)
        /\ Consecutive(v.txList, v.expectedAckSeq)
        /\ v.sendPollingCounter \in Nat /\ t.nextTxSeq \in FrameSeq
    BY <1>1, LenProperties, TxAssumption, SeqHalfAssumption
       DEF WindowOK, SameWindow, TxState, SeqModulus
  <2> DEFINE list == v.txList \o frames
  <2>1. /\ list \in Seq(Frame) /\ Len(list) = m + n
        /\ \A i \in 1 .. (m + n) : list[i] = IF i <= m THEN v.txList[i] ELSE frames[i - m]
    BY <2>0, ConcatProperties
  <2> HIDE DEF list, v
  <2>2. Consecutive(list, v.expectedAckSeq)
    <3> SUFFICES ASSUME NEW i \in 1 .. (m + n)
                 PROVE  list[i].txSeq = SeqPlus(v.expectedAckSeq, i - 1)
      BY <2>1 DEF Consecutive
    <3>1. CASE i <= m
      <4>1. i \in 1 .. m
        BY <2>0, <3>1
      <4> QED BY <2>0, <2>1, <3>1, <4>1 DEF Consecutive
    <3>2. CASE ~ (i <= m)
      <4>1. /\ i - m \in 1 .. n /\ (i - m) - 1 \in Nat /\ m + ((i - m) - 1) = i - 1
            /\ m + ((i - m) - 1) < SeqModulus
        BY <2>0, <3>2
      <4>2. list[i].txSeq = SeqPlus(v.nextTxSeq, (i - m) - 1)
        BY <2>0, <2>1, <3>2, <4>1 DEF Consecutive
      <4> QED BY <2>0, <4>1, <4>2, SeqPlusAdd
    <3> QED BY <3>1, <3>2
  <2>3. SeqPlus(t.nextTxSeq, n) = SeqPlus(v.expectedAckSeq, Len(list))
    <3>1. SeqPlus(SeqPlus(v.expectedAckSeq, m), n) = SeqPlus(v.expectedAckSeq, m + n)
      BY <2>0, SeqPlusAdd
    <3> QED BY <2>0, <2>1, <3>1
  <2>4. /\ SeqPlus(base, n) \in FrameSeq /\ SeqPlus(t.nextTxSeq, n) \in FrameSeq
        /\ (v.sendPollingCounter + n) % PollPeriod \in Nat
    BY <1>3, <2>0, SeqPlusType, PollCounterType
  <2>5. list # <<>>
    <3>1. Len(list) # 0
      BY <2>0, <2>1
    <3> QED BY <3>1, EmptySeq
  <2>6. u = [v EXCEPT !.reTxSeq = SeqPlus(base, n),
                      !.nextTxSeq = SeqPlus(t.nextTxSeq, n), !.txList = list,
                      !.sendPollingCounter = (v.sendPollingCounter + n) % PollPeriod,
                      !.retransTimer = TRUE]
    BY DEF v, list
  <2> HIDE DEF u
  <2>7. /\ u \in TxState /\ u.txList = list /\ u.expectedAckSeq = v.expectedAckSeq
        /\ u.nextTxSeq = SeqPlus(t.nextTxSeq, n) /\ u.retransTimer = TRUE
        /\ SameStatus(v, u)
    BY <2>0, <2>1, <2>4, <2>6 DEF TxState, SameStatus
  <2>8. Len(list) <= WindowSize
    BY <2>0, <2>1
  <2>9. WindowOK(u)
    BY <2>2, <2>3, <2>5, <2>7, <2>8, Zenon DEF WindowOK
  <2>10. SameStatus(t, u)
    BY <1>1, <2>7 DEF SameWindow, SameStatus, v
  <2>11. r = Result(u, p.out \o frames, "SUCCESS")
    BY <1>2, <1>5
  <2>12. Holds(u, frames[1])
    <3>1. /\ m + 1 \in 1 .. (m + n) /\ ~ (m + 1 <= m) /\ (m + 1) - m = 1
      BY <2>0
    <3>2. list[m + 1] = frames[1]
      BY <2>1, <3>1
    <3> QED BY <2>1, <2>7, <3>1, <3>2 DEF Holds
  <2> QED BY <2>9, <2>10, <2>11, <2>12 DEF Result, IsResult, ResultCodes, AnsweredFull, r
<1> QED BY <1>4, <1>5

\* What a send may do to what the caller is told: "full" is remembered, and nothing but
\* "full" marks the window, unless the channel gives up or there is no room to spare.
SendStatusOK(t, sdu, dup, r) ==
    /\ IF AnsweredFull(r) THEN r.tx.isTxWindowFull ELSE r.tx.cacheBuff = t.cacheBuff
    /\ t.isTxWindowFull => r.tx.isTxWindowFull
    /\ t.release => r.tx.release
    /\ r.tx.isTxWindowFull => t.isTxWindowFull \/ AnsweredFull(r) \/ r.tx.release
    /\ r.tx.isTxWindowFull => t.isTxWindowFull \/ FrameCnt[sdu][dup] >= WindowSize - Len(t.txList)

\* What becomes of the SDU: if it is not refused it has entered the window or is kept.
SduOK(t, sdu, dup, r) ==
    /\ r.tx.cacheBuff # t.cacheBuff =>
          t.cacheBuff = NoSdu /\ r.tx.cacheBuff = sdu /\ FrameCnt[sdu][dup] <= MaxFragNum
    /\ \/ FrameCnt[sdu][dup] > MaxFragNum /\ r.ret = "INVALID_FRAME_NUM"
       \/ r.tx.release
       \/ \E f \in Frame : f.sdu = sdu /\ Holds(r.tx, f)
       \/ /\ FrameCnt[sdu][dup] > WindowSize - Len(t.txList)
          /\ t.cacheBuff = NoSdu => r.tx.cacheBuff = sdu

\* DTAP_SendEnhanceFrame.
LEMMA SendOK ==
    ASSUME NEW t, WindowOK(t), NEW sdu \in Sdus, NEW dup \in BOOLEAN,
           NEW rxSeq \in FrameSeq, NEW sent \in BOOLEAN
    PROVE  LET r == SendEnhanceFrame(t, sdu, dup, rxSeq, sent)
           IN  /\ IsResult(r) /\ WindowOK(r.tx) /\ r.cbk = FALSE
               /\ SendStatusOK(t, sdu, dup, r) /\ SduOK(t, sdu, dup, r)
<1> DEFINE n == FrameCnt[sdu][dup]
           room == WindowSize - Len(t.txList)
           r == SendEnhanceFrame(t, sdu, dup, rxSeq, sent)
<1>0. /\ n \in Nat \ {0} /\ MaxFragNum \in Nat /\ WindowSize \in Nat
      /\ t \in TxState /\ t.txList \in Seq(Frame) /\ Len(t.txList) \in Nat
      /\ t.isTxWindowFull \in BOOLEAN /\ t.cacheBuff \in Sdus \cup {NoSdu}
  BY TxAssumption, SeqHalfAssumption, LenProperties DEF WindowOK, TxState
<1>1. CASE n > MaxFragNum
  <2>1. r = Result(t, <<>>, "INVALID_FRAME_NUM")
    BY <1>1 DEF SendEnhanceFrame
  <2>2. /\ IsResult(r) /\ r.tx = t /\ r.cbk = FALSE /\ r.ret = "INVALID_FRAME_NUM"
    BY <2>1 DEF Result, IsResult, ResultCodes
  <2> HIDE DEF r
  <2>3. SendStatusOK(t, sdu, dup, r) /\ SduOK(t, sdu, dup, r)
    BY <1>1, <2>2 DEF SendStatusOK, SduOK, AnsweredFull
  <2> QED BY <2>2, <2>3 DEF r
<1>2. CASE ~ (n > MaxFragNum) /\ n > room
  <2> DEFINE u == [t EXCEPT !.cacheBuff = IF @ = NoSdu THEN sdu ELSE @,
                            !.isTxWindowFull = TRUE]
  <2>1. r = Result(u, <<>>, "TX_WINDOW_FULL")
    BY <1>2 DEF SendEnhanceFrame
  <2>2. /\ u \in TxState /\ u.txList = t.txList
        /\ u.expectedAckSeq = t.expectedAckSeq /\ u.nextTxSeq = t.nextTxSeq
        /\ u.retransTimer = t.retransTimer /\ u.isTxWindowFull = TRUE
        /\ u.release = t.release
        /\ u.cacheBuff = IF t.cacheBuff = NoSdu THEN sdu ELSE t.cacheBuff
    BY <1>0 DEF TxState
  <2> HIDE DEF u, r
  <2>3. WindowOK(u)
    BY <2>2, WindowOKByFields
  <2>4. IsResult(r) /\ r.tx = u /\ r.cbk = FALSE /\ AnsweredFull(r)
    BY <2>1 DEF Result, IsResult, ResultCodes, AnsweredFull
  <2>5. n <= MaxFragNum /\ n >= room
    BY <1>0, <1>2
  <2>6. SendStatusOK(t, sdu, dup, r) /\ SduOK(t, sdu, dup, r)
    BY <1>2, <2>2, <2>4, <2>5 DEF SendStatusOK, SduOK
  <2> QED BY <2>3, <2>4, <2>6 DEF r
<1>3. CASE ~ (n > MaxFragNum) /\ ~ (n > room)
  <2> DEFINE full == [t EXCEPT !.isTxWindowFull = (n = room) \/ @]
             frames == PackEnhanceFrames(t, sdu, dup, rxSeq)
             q == SendEnhanceFrameInner(full, frames, sent)
  <2>1. r = IF q.ret = "SUCCESS" /\ full.isTxWindowFull
            THEN [q EXCEPT !.ret = "TX_WINDOW_FULL"] ELSE q
    BY <1>3 DEF SendEnhanceFrame
  <2>2. /\ full \in TxState /\ full.txList = t.txList
        /\ full.expectedAckSeq = t.expectedAckSeq /\ full.nextTxSeq = t.nextTxSeq
        /\ full.retransTimer = t.retransTimer /\ full.cacheBuff = t.cacheBuff
        /\ t.isTxWindowFull => full.isTxWindowFull
        /\ full.isTxWindowFull => t.isTxWindowFull \/ n = room
        /\ full.release = t.release
    BY <1>0 DEF TxState
  <2> HIDE DEF full, r
  <2>3. WindowOK(full)
    BY <2>2, WindowOKByFields
  <2>4. /\ frames \in Seq(Frame) /\ Len(frames) = n
        /\ Consecutive(frames, t.nextTxSeq)
    <3>1. n <= WindowSize
      BY <1>0, <1>3
    <3> QED BY <3>1, PackOK
  <2>5. frames[1].sdu = sdu /\ frames[1] \in Frame
    <3>1. 1 \in 1 .. n
      BY <1>0
    <3>2. frames[1].sdu = sdu
      BY <3>1 DEF PackEnhanceFrames
    <3> HIDE DEF frames
    <3> QED BY <2>4, <3>1, <3>2, ElementOfSeq
  <2> HIDE DEF frames
  <2>6. Len(frames) >= 1 /\ Len(full.txList) + Len(frames) <= WindowSize
    BY <1>0, <1>3, <2>2, <2>4
  <2>7. /\ IsResult(q) /\ WindowOK(q.tx) /\ SameStatus(full, q.tx)
        /\ q.cbk = FALSE /\ ~ AnsweredFull(q)
        /\ IF q.ret = "SUCCESS" THEN Holds(q.tx, frames[1]) ELSE q.tx.release
    BY <2>2, <2>3, <2>4, <2>6, SendInnerOK
  <2> HIDE DEF q
  <2>8. /\ r.tx = q.tx /\ r.cbk = q.cbk /\ IsResult(r)
        /\ q.ret = "SUCCESS" /\ full.isTxWindowFull => AnsweredFull(r)
        /\ ~ (q.ret = "SUCCESS" /\ full.isTxWindowFull) => ~ AnsweredFull(r)
    <3>1. CASE q.ret = "SUCCESS" /\ full.isTxWindowFull
      BY <2>1, <2>7, <3>1 DEF IsResult, ResultCodes, AnsweredFull
    <3>2. CASE ~ (q.ret = "SUCCESS" /\ full.isTxWindowFull)
      BY <2>1, <2>7, <3>2
    <3> QED BY <3>1, <3>2
  <2>9. SendStatusOK(t, sdu, dup, r)
    <3>1. n = room => n >= room
      BY <1>0
    <3> HIDE DEF n, room
    <3> QED BY <2>2, <2>7, <2>8, <3>1 DEF SendStatusOK, SameStatus, n, room
  <2>10. SduOK(t, sdu, dup, r)
    BY <2>2, <2>5, <2>7, <2>8 DEF SduOK, SameStatus
  <2> QED BY <2>7, <2>8, <2>9, <2>10 DEF r
<1> QED BY <1>1, <1>2, <1>3

-----------------------------------------------------------------------------
(* Receiving.                                                              *)

\* What a reception may do to what the caller was told: nothing, or the call-back, and
\* then the window is open, nothing is kept, and what was kept has entered the window.
StatusOK(t, n, r) ==
    /\ t.release => r.tx.release
    /\ ~ r.cbk => SameStatus(t, r.tx)
    /\ r.cbk => /\ t.isTxWindowFull /\ ~ r.tx.isTxWindowFull /\ r.tx.cacheBuff = NoSdu
                /\ \/ t.cacheBuff = NoSdu
                   \/ n > MaxFragNum
                   \/ r.tx.release
                   \/ \E f \in Frame : f.sdu = t.cacheBuff /\ Holds(r.tx, f)

\* The call-back comes with an empty cacheBuff; without it nothing has changed.
LEMMA StatusChangeOK ==
    ASSUME NEW t, WindowOK(t), NEW dup \in BOOLEAN, NEW rxSeq \in FrameSeq,
           NEW sent \in BOOLEAN
    PROVE  LET r == TransChannelStatusChange(t, dup, rxSeq, sent)
           IN  /\ IsResult(r) /\ WindowOK(r.tx) /\ r.cbk \in BOOLEAN
               /\ StatusOK(t, FrameCnt[t.cacheBuff][dup], r)
<1> DEFINE r == TransChannelStatusChange(t, dup, rxSeq, sent)
           open == [t EXCEPT !.isTxWindowFull = FALSE]
           n == FrameCnt[t.cacheBuff][dup]
           q == SendEnhanceFrame(open, t.cacheBuff, dup, rxSeq, sent)
           same == Result(t, <<>>, "SUCCESS")
           sentKept == [q EXCEPT !.tx.cacheBuff = NoSdu, !.cbk = TRUE]
           told == [Result(open, <<>>, "SUCCESS") EXCEPT !.cbk = TRUE]
<1>0. t \in TxState /\ t.cacheBuff \in Sdus \cup {NoSdu}
  BY DEF WindowOK, TxState
<1>1. \/ r = same
      \/ /\ t.isTxWindowFull /\ t.cacheBuff # NoSdu /\ r = sentKept
         /\ ~ (Len(t.txList) + n >= WindowSize)
      \/ t.isTxWindowFull /\ t.cacheBuff = NoSdu /\ r = told
  BY Zenon DEF TransChannelStatusChange
<1>2. /\ open \in TxState /\ open.txList = t.txList
      /\ open.expectedAckSeq = t.expectedAckSeq /\ open.nextTxSeq = t.nextTxSeq
      /\ open.retransTimer = t.retransTimer /\ open.cacheBuff = t.cacheBuff
      /\ open.isTxWindowFull = FALSE /\ open.release = t.release
  BY <1>0 DEF TxState
<1> HIDE DEF open, r
<1>3. WindowOK(open)
  BY <1>2, WindowOKByFields
<1>4. CASE r = same
  <2>1. IsResult(r) /\ r.tx = t /\ r.cbk = FALSE
    BY <1>4 DEF Result, IsResult, ResultCodes
  <2> QED BY <2>1 DEF StatusOK, SameStatus, r
<1>5. CASE /\ t.isTxWindowFull /\ t.cacheBuff # NoSdu /\ r = sentKept
           /\ ~ (Len(t.txList) + n >= WindowSize)
  <2>1. /\ IsResult(q) /\ WindowOK(q.tx) /\ SendStatusOK(open, t.cacheBuff, dup, q)
        /\ SduOK(open, t.cacheBuff, dup, q)
    BY <1>0, <1>3, <1>5, SendOK
  <2>2. /\ n \in Nat /\ Len(t.txList) \in Nat /\ WindowSize \in Nat /\ MaxFragNum \in Nat
        /\ ~ (n >= WindowSize - Len(open.txList)) /\ ~ (n > WindowSize - Len(open.txList))
    BY <1>0, <1>2, <1>5, TxAssumption, SeqHalfAssumption, LenProperties DEF TxState
  <2> HIDE DEF q
  <2> DEFINE u == [q.tx EXCEPT !.cacheBuff = NoSdu]
  <2>3. IsResult(r) /\ r.tx = u /\ r.cbk = TRUE
    BY <1>5, <2>1 DEF IsResult, ResultCodes
  <2>4. q.tx \in TxState
    BY <2>1 DEF WindowOK
  <2>5. /\ u \in TxState /\ u.txList = q.tx.txList
        /\ u.expectedAckSeq = q.tx.expectedAckSeq /\ u.nextTxSeq = q.tx.nextTxSeq
        /\ u.retransTimer = q.tx.retransTimer /\ u.cacheBuff = NoSdu
        /\ u.isTxWindowFull = q.tx.isTxWindowFull /\ u.release = q.tx.release
    BY <2>4 DEF TxState
  <2> HIDE DEF u
  <2>6. WindowOK(u)
    BY <2>1, <2>5, WindowOKByFields
  <2>7. ~ q.tx.isTxWindowFull /\ (t.release => q.tx.release)
    BY <1>2, <2>1, <2>2 DEF SendStatusOK
  <2>8. \/ n > MaxFragNum
        \/ u.release
        \/ \E f \in Frame : f.sdu = t.cacheBuff /\ Holds(u, f)
    BY <1>2, <2>1, <2>2, <2>5 DEF SduOK, Holds
  <2>9. StatusOK(t, FrameCnt[t.cacheBuff][dup], r)
    BY <1>5, <2>3, <2>5, <2>7, <2>8 DEF StatusOK
  <2> QED BY <2>3, <2>6, <2>9 DEF r
<1>6. CASE t.isTxWindowFull /\ t.cacheBuff = NoSdu /\ r = told
  <2>1. IsResult(r) /\ r.tx = open /\ r.cbk = TRUE
    BY <1>6 DEF IsResult, ResultCodes, Result
  <2> QED BY <1>2, <1>3, <1>6, <2>1 DEF StatusOK, r
<1> QED BY <1>1, <1>4, <1>5, <1>6

\* The same for a whole reception.
LEMMA RecvAckOK ==
    ASSUME NEW t, WindowOK(t), NEW reqSeq \in FrameSeq \cup {SeqInit}, NEW sBit \in BOOLEAN,
           reqSeq \in FrameSeq \/ sBit = FALSE, NEW dup \in BOOLEAN, NEW rxSeq \in FrameSeq,
           NEW sent \in BOOLEAN
    PROVE  LET r == RecvAck(t, reqSeq, sBit, dup, rxSeq, sent)
           IN  /\ WindowOK(r.tx) /\ r.cbk \in BOOLEAN
               /\ StatusOK(t, FrameCnt[t.cacheBuff][dup], r)
<1> DEFINE nack == RecvNackFrame(t, reqSeq, sBit, sent)
           v == SlideTxWindow(nack.tx, reqSeq)
           q == TransChannelStatusChange(v, dup, rxSeq, sent)
           r == RecvAck(t, reqSeq, sBit, dup, rxSeq, sent)
<1>1. IsResult(nack) /\ WindowOK(nack.tx) /\ SameStatus(t, nack.tx) /\ nack.cbk = FALSE
  <2>1. CASE sBit
    <3> DEFINE w == [t EXCEPT !.reTxSeq = reqSeq]
    <3>0. t \in TxState /\ reqSeq \in FrameSeq
      BY <2>1 DEF WindowOK
    <3>1. /\ w \in TxState /\ w.txList = t.txList
          /\ w.expectedAckSeq = t.expectedAckSeq /\ w.nextTxSeq = t.nextTxSeq
          /\ w.retransTimer = t.retransTimer /\ SameStatus(t, w)
      BY <3>0 DEF TxState, SameStatus
    <3>2. nack = RetransEnhanceFrame(w, sent)
      BY <2>1 DEF RecvNackFrame
    <3> HIDE DEF w, nack
    <3>3. WindowOK(w)
      BY <3>1, WindowOKByFields
    <3>4. /\ IsResult(nack) /\ WindowOK(nack.tx) /\ SameWindow(w, nack.tx)
          /\ nack.cbk = FALSE
      BY <3>2, <3>3, RetransOK
    <3> QED BY <3>1, <3>4 DEF SameWindow, SameStatus
  <2>2. CASE ~ sBit
    BY <2>2 DEF RecvNackFrame, Result, IsResult, ResultCodes, SameStatus
  <2> QED BY <2>1, <2>2
<1>2. r = IF nack.ret = "REACH_MAX_RE_TX_CNT" THEN nack
          ELSE [q EXCEPT !.out = nack.out \o @]
  BY DEF RecvAck
<1> HIDE DEF nack
<1>3. WindowOK(v) /\ SameStatus(nack.tx, v)
  BY <1>1, SlideTxWindowOK
<1> HIDE DEF v
<1>4. /\ IsResult(q) /\ WindowOK(q.tx) /\ q.cbk \in BOOLEAN
      /\ StatusOK(v, FrameCnt[v.cacheBuff][dup], q)
  BY <1>3, StatusChangeOK
<1> HIDE DEF q, r
<1>5. CASE nack.ret = "REACH_MAX_RE_TX_CNT"
  <2>1. r = nack
    BY <1>2, <1>5
  <2> QED BY <1>1, <2>1 DEF StatusOK, SameStatus, r
<1>6. CASE nack.ret # "REACH_MAX_RE_TX_CNT"
  <2>1. r.tx = q.tx /\ r.cbk = q.cbk
    BY <1>2, <1>4, <1>6 DEF IsResult, ResultCodes
  <2> QED BY <1>1, <1>3, <1>4, <2>1 DEF StatusOK, SameStatus, r
<1> QED BY <1>5, <1>6

\* The retransmission timer changes neither the window nor what the caller was told.
LEMMA RetransTimerOK ==
    ASSUME NEW t, WindowOK(t), NEW sent \in BOOLEAN
    PROVE  LET u == RetransTimerExpire(t, sent).tx
           IN  WindowOK(u) /\ SameStatus(t, u)
<1>1. CASE t.txList = <<>>
  BY <1>1 DEF RetransTimerExpire, Result, SameStatus
<1>2. CASE t.txList # <<>>
  <2> DEFINE w == [t EXCEPT !.reTxSeq = t.expectedAckSeq]
  <2>1. /\ w \in TxState /\ w.txList = t.txList
        /\ w.expectedAckSeq = t.expectedAckSeq /\ w.nextTxSeq = t.nextTxSeq
        /\ w.retransTimer = t.retransTimer /\ SameStatus(t, w)
    BY DEF WindowOK, TxState, SameStatus
  <2>2. RetransTimerExpire(t, sent) = RetransEnhanceFrame(w, sent)
    BY <1>2 DEF RetransTimerExpire
  <2> HIDE DEF w
  <2>3. WindowOK(w)
    BY <2>1, WindowOKByFields
  <2> DEFINE q == RetransEnhanceFrame(w, sent)
  <2>4. WindowOK(q.tx) /\ SameWindow(w, q.tx)
    BY <2>3, RetransOK
  <2> HIDE DEF q
  <2>5. SameStatus(t, q.tx)
    BY <2>1, <2>4 DEF SameWindow, SameStatus
  <2> QED BY <2>2, <2>4, <2>5 DEF q
<1> QED BY <1>1, <1>2

-----------------------------------------------------------------------------
(* The specification.                                                      *)

\* The inductive invariant: the type and the four properties need each other.  That
\* the caller's state matches the window's rests on nothing but the window's
\* own fields; that the window stays whole rests on its size being below half the
\* sequence space.
IInv ==
    /\ TypeOK /\ WindowIsConsecutive /\ TimerGuardsUnacked
    /\ BusyIsOwedCallback /\ CacheFreeWhenNotBusy

\* The parts of the invariant that are about the window are WindowOK of tx.
LEMMA IInvIsWindowOK ==
    IInv <=> /\ WindowOK(tx) /\ busy \in BOOLEAN
             /\ BusyIsOwedCallback /\ CacheFreeWhenNotBusy
BY Zenon DEF IInv, TypeOK, WindowIsConsecutive, TimerGuardsUnacked, WindowOK, Consecutive

\* A channel is created with an empty window, a stopped timer and nothing kept.
LEMMA InitIInv == Init => IInv
<1> SUFFICES ASSUME Init PROVE IInv
  OBVIOUS
<1> USE DEF Init
<1>1. tx \in TxState
  <2>1. 0 \in FrameSeq /\ <<>> \in Seq(Frame)
    BY SeqHalfAssumption, EmptySeq DEF FrameSeq, SeqModulus
  <2> QED BY <2>1 DEF InitTxWindow, TxState
<1>2. tx.txList = <<>> /\ tx.nextTxSeq = tx.expectedAckSeq /\ tx.retransTimer = FALSE
  BY DEF InitTxWindow
<1>3. Len(tx.txList) = 0
  BY <1>2, EmptySeq
<1>4. WindowOK(tx)
  <2>1. Len(tx.txList) <= WindowSize /\ WindowSize \in Nat
    BY <1>3, TxAssumption, SeqHalfAssumption
  <2>2. tx.nextTxSeq = SeqPlus(tx.expectedAckSeq, Len(tx.txList))
    <3>1. tx.expectedAckSeq \in FrameSeq /\ 0 \in 0 .. (SeqModulus - 1)
      BY <1>1, SeqHalfAssumption DEF TxState, SeqModulus
    <3> QED BY <1>2, <1>3, <3>1, SeqPlusZero
  <2>3. Consecutive(tx.txList, tx.expectedAckSeq)
    BY <1>3 DEF Consecutive
  <2> QED BY <1>1, <1>2, <2>1, <2>2, <2>3 DEF WindowOK
<1>5. BusyIsOwedCallback /\ CacheFreeWhenNotBusy
  BY DEF BusyIsOwedCallback, CacheFreeWhenNotBusy, InitTxWindow
<1> QED BY <1>4, <1>5, IInvIsWindowOK

\* Sending, receiving and the timer each preserve the invariant.
LEMMA NextIInv == IInv /\ [Next]_vars => IInv'
<1> SUFFICES ASSUME IInv, [Next]_vars PROVE IInv'
  OBVIOUS
<1>0. /\ WindowOK(tx) /\ busy \in BOOLEAN /\ tx.isTxWindowFull \in BOOLEAN
      /\ busy => tx.isTxWindowFull
      /\ ~ busy => tx.cacheBuff = NoSdu
  BY IInvIsWindowOK DEF BusyIsOwedCallback, CacheFreeWhenNotBusy, WindowOK, TxState
<1>1. SUFFICES /\ WindowOK(tx') /\ busy' \in BOOLEAN
               /\ busy' => tx'.isTxWindowFull
               /\ ~ busy' => tx'.cacheBuff = NoSdu
  <2>1. WindowOK(tx)' <=> WindowOK(tx')
    BY DEF WindowOK, TxState, Consecutive
  <2> QED BY <2>1, Zenon
       DEF IInv, TypeOK, WindowIsConsecutive, TimerGuardsUnacked, WindowOK, Consecutive,
           BusyIsOwedCallback, CacheFreeWhenNotBusy
<1>2. CASE WriteData
  <2>1. PICK sdu \in Sdus, dup \in BOOLEAN, sent \in BOOLEAN, rxSeq \in RxSeqs :
            LET r == SendEnhanceFrame(tx, sdu, dup, rxSeq, sent)
            IN  ~ busy /\ tx' = r.tx /\ busy' = (r.ret = "TX_WINDOW_FULL")
    BY <1>2 DEF WriteData
  <2> DEFINE r == SendEnhanceFrame(tx, sdu, dup, rxSeq, sent)
  <2>2. rxSeq \in FrameSeq
    BY TxAssumption
  <2>3. /\ WindowOK(r.tx)
        /\ SendStatusOK(tx, sdu, dup, r)
    BY <1>0, <2>2, SendOK
  <2> HIDE DEF r
  <2>4. ~ busy /\ tx' = r.tx /\ busy' = AnsweredFull(r)
    BY <2>1 DEF r, AnsweredFull
  <2> QED BY <1>0, <2>3, <2>4 DEF SendStatusOK, AnsweredFull
<1>3. CASE RecvReqSeq
  <2>1. PICK reqSeq \in FrameSeq \cup {SeqInit}, sBit \in BOOLEAN, dup \in BOOLEAN,
             sent \in BOOLEAN, rxSeq \in RxSeqs :
            LET r == RecvAck(tx, reqSeq, sBit, dup, rxSeq, sent)
            IN  (sBit => reqSeq # SeqInit) /\ tx' = r.tx /\ busy' = (busy /\ ~ r.cbk)
    BY <1>3 DEF RecvReqSeq
  <2> DEFINE r == RecvAck(tx, reqSeq, sBit, dup, rxSeq, sent)
  <2>2. rxSeq \in FrameSeq /\ (reqSeq = SeqInit => sBit = FALSE)
    BY <2>1, TxAssumption
  <2>3. /\ WindowOK(r.tx) /\ r.cbk \in BOOLEAN
        /\ StatusOK(tx, FrameCnt[tx.cacheBuff][dup], r)
    <3>1. WindowOK(tx)
      BY <1>0
    <3>2. WindowOK(r.tx)
      BY <2>2, <3>1, RecvAckOK
    <3>3. r.cbk \in BOOLEAN
      BY <2>2, <3>1, RecvAckOK
    <3>4. StatusOK(tx, FrameCnt[tx.cacheBuff][dup], r)
      BY <2>2, <3>1, RecvAckOK
    <3> QED BY <3>2, <3>3, <3>4
  <2> HIDE DEF r
  <2>4. tx' = r.tx /\ busy' = (busy /\ ~ r.cbk)
    BY <2>1 DEF r
  <2> QED BY <1>0, <2>3, <2>4 DEF StatusOK, SameStatus
<1>4. CASE RetransTimer
  <2>1. PICK sent \in BOOLEAN : tx' = RetransTimerExpire(tx, sent).tx /\ busy' = busy
    BY <1>4 DEF RetransTimer
  <2> DEFINE u == RetransTimerExpire(tx, sent).tx
  <2>2. WindowOK(u) /\ SameStatus(tx, u)
    BY <1>0, RetransTimerOK
  <2> HIDE DEF u
  <2>3. tx' = u
    BY <2>1 DEF u
  <2> QED BY <1>0, <2>1, <2>2, <2>3 DEF SameStatus
<1>5. CASE UNCHANGED vars
  BY <1>0, <1>5 DEF vars
<1> QED BY <1>2, <1>3, <1>4, <1>5 DEF Next

\* The invariant holds of every behaviour of the sending half, whatever the peer and
\* the link do.
THEOREM IInvHolds == Spec => []IInv
BY InitIInv, NextIInv, PTL DEF Spec

\* DTAP_TxWindow_S keeps its types: every sequence number within 14 bits (here
\* SeqModulus), every retransmission count within maxTxThreshold.
THEOREM TypeCorrect == Spec => []TypeOK
<1>1. IInv => TypeOK
  BY DEF IInv
<1> QED BY <1>1, IInvHolds, PTL

\* txList is the run of consecutive numbers expectedAckSeq .. nextTxSeq - 1 and never
\* longer than the window, for every window below half the sequence space.
THEOREM WindowStaysConsecutive == Spec => []WindowIsConsecutive
<1>1. IInv => WindowIsConsecutive
  BY DEF IInv
<1> QED BY <1>1, IInvHolds, PTL

\* The retransmission timer runs exactly while something is unacknowledged.
THEOREM TimerAlwaysGuards == Spec => []TimerGuardsUnacked
<1>1. IInv => TimerGuardsUnacked
  BY DEF IInv
<1> QED BY <1>1, IInvHolds, PTL

\* A caller the channel has told to wait is remembered until it is called back.
THEOREM CallbackAlwaysOwed == Spec => []BusyIsOwedCallback
<1>1. IInv => BusyIsOwedCallback
  BY DEF IInv
<1> QED BY <1>1, IInvHolds, PTL

\* cacheBuff is free whenever a caller that honours "busy" may send: no SDU is
\* answered "full" and forgotten.
THEOREM NoSduForgotten == Spec => []CacheFreeWhenNotBusy
<1>1. IInv => CacheFreeWhenNotBusy
  BY DEF IInv
<1> QED BY <1>1, IInvHolds, PTL
=============================================================================
