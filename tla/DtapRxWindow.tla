----------------------------- MODULE DtapRxWindow -----------------------------
(***************************************************************************)
(* The receiving half of a reliable-mode transmission channel              *)
(* (dtap_trans_reliable.c, DTAP_RxWindow_S, and the reassembly of          *)
(* dtap_frame_enhance.c).  The half is one record, rx, and every C         *)
(* function on it an operator from a record to a record.  Variables and    *)
(* actions are in DtapReliable, which joins two endpoints over a link.     *)
(*                                                                         *)
(* A received frame is the sender's frame with one more field, trimmed:    *)
(* DTAP_RecvFragmentFrame cuts header and CRC off the frame's own buffer,  *)
(* so a frame kept for a second attempt has lost them already.             *)
(***************************************************************************)
EXTENDS DtapSeq, SequencesExt

CONSTANTS RxWindowSize,  \* rxWindow.size
          MaxNack        \* maxTxThreshold, which also bounds the nacks

\* DTAP_ReliableChannelCreate, DTAP_InitRxWindow.  An empty frags is a NULL one.
InitRxWindow ==
    [bufferSeq |-> 0, expectedTxSeq |-> 0, maxExpectedTxSeq |-> 0, rxList |-> <<>>,
     reorderTimer |-> FALSE, nackCnt |-> 0, isRecvFrame |-> FALSE,
     isRxWindowFull |-> FALSE, frags |-> <<>>, release |-> FALSE]

InRxList(x, seq) == \E i \in 1 .. Len(x.rxList) : x.rxList[i].txSeq = seq

-----------------------------------------------------------------------------
(* Admission and ordering.                                                 *)

\* Duplicates and frames beyond the window are refused; the frame the window waits
\* for is accepted wherever the window's lower edge, bufferSeq, stands.
CheckEnhanceFrameTxSeq(x, txSeq) ==
    /\ ~ IsFrameSeqSmaller(txSeq, x.expectedTxSeq)
    /\ \/ txSeq = x.expectedTxSeq
       \/ /\ IsFrameSeqSmaller(txSeq, SeqPlus(x.bufferSeq, RxWindowSize))
          /\ ~ InRxList(x, txSeq)

\* Mutant: frames are kept in the order they arrive in.
InsertLast(list, f) == Append(list, f)

\* The list stays sorted: the frame goes before the first one that follows it.
InsertSorted(list, f) ==
    LET at == CHOOSE i \in 1 .. (Len(list) + 1) :
                 /\ \A j \in 1 .. (i - 1) : ~ IsFrameSeqSmaller(f.txSeq, list[j].txSeq)
                 /\ i <= Len(list) => IsFrameSeqSmaller(f.txSeq, list[i].txSeq)
    IN  InsertAt(list, at, f)

\* Distances from a received frame to the numbers missing after it; the code looks
\* for the first one over RxWindowSize numbers.
MissingAfter(x, txSeq) == {i \in 1 .. RxWindowSize : ~ InRxList(x, SeqPlus(txSeq, i))}

\* The frame the window waits for moves expectedTxSeq to the next missing number and
\* ends the series of nacks, if the search finds one; any frame may move
\* maxExpectedTxSeq.
SlideRxWindow(x, f) ==
    LET y == [x EXCEPT !.isRecvFrame = TRUE,
                       !.rxList = InsertSorted(x.rxList, f @@ [trimmed |-> FALSE])]
        gaps == MissingAfter(y, f.txSeq)
        found == f.txSeq = x.expectedTxSeq /\ gaps # {}
    IN  [y EXCEPT !.expectedTxSeq = IF found THEN SeqPlus(f.txSeq, Min(gaps)) ELSE @,
                  !.nackCnt = IF found THEN 0 ELSE @,
                  !.maxExpectedTxSeq =
                      IF IsFrameSeqSmaller(@, f.txSeq) \/ @ = f.txSeq
                      THEN GetNextFrameSeq(f.txSeq) ELSE @]

\* Mutant: a timer that was started is not stopped when the gap is filled.
OperateReorderTimerNoStop(x) ==
    [x EXCEPT !.reorderTimer = @ \/ IsFrameSeqSmaller(x.expectedTxSeq, x.maxExpectedTxSeq)]

\* The timer runs while a frame is missing below one that has arrived.
OperateReorderTimer(x) ==
    [x EXCEPT !.reorderTimer =
        IF @ THEN x.expectedTxSeq # x.maxExpectedTxSeq
        ELSE IsFrameSeqSmaller(x.expectedTxSeq, x.maxExpectedTxSeq)]

-----------------------------------------------------------------------------
(* Delivery.                                                               *)

\* DTAP_GetFragFrameSar.
Sar(f) == CASE f.cnt = 1 -> "UNSEG"
            [] f.cnt # 1 /\ f.idx = 1 -> "FIRST"
            [] f.cnt # 1 /\ f.idx # 1 /\ f.idx < f.cnt -> "MID"
            [] OTHER -> "LAST"

\* What one frame contributes to an SDU; a second trim cuts into the payload.
Piece(f) == [sdu |-> f.sdu, idx |-> f.idx, cnt |-> f.cnt, intact |-> ~ f.trimmed]

\* What DTAP_RecvFragmentFrame hands up for a frame, <<>> for nothing.
Handed(x, f) ==
    CASE Sar(f) = "UNSEG" -> <<Piece(f)>>
      [] Sar(f) = "LAST" /\ x.frags # <<>> -> Append(x.frags, Piece(f))
      [] OTHER -> <<>>

\* DTAP_RecvFragmentFrame's effect on the partial SDU: a middle or last fragment
\* without a first one is thrown away, and the last one frees what was gathered,
\* whatever the upper layer answers.
NewFrags(x, f) ==
    CASE Sar(f) = "UNSEG" -> x.frags
      [] Sar(f) = "FIRST" -> <<Piece(f)>>
      [] Sar(f) = "MID" -> IF x.frags = <<>> THEN <<>> ELSE Append(x.frags, Piece(f))
      [] OTHER -> <<>>

\* Is f the next frame to hand up?  Mutant: the head of the list always is.
AnyIsNext(x, f) == TRUE
IsNext(x, f) == f.txSeq = x.bufferSeq

\* One turn of the loop of DTAP_RecvEnhanceFrameInner.  d.room is how many more SDUs
\* the upper layer takes, d.full what it answers then.  Of the answers only
\* DTAP_TRANS_RELIABLE_TRANS_CHANNEL_FULL keeps the frame; any other counts as taken.
DeliverFrame(d, f) ==
    LET sdu == Handed(d.rx, f)
        refused == sdu # <<>> /\ d.room = 0
        kept == refused /\ d.full = "TRANS_CHANNEL_FULL"
        y == [d.rx EXCEPT !.frags = NewFrags(d.rx, f)]
    IN  IF d.stopped \/ ~ IsNext(d.rx, f) THEN [d EXCEPT !.stopped = TRUE]
        ELSE IF kept
        THEN [d EXCEPT !.stopped = TRUE,
                       !.rx = [y EXCEPT !.isRxWindowFull = TRUE,
                                        !.rxList[1].trimmed = TRUE]]
        ELSE [d EXCEPT !.rx = [y EXCEPT !.rxList = Tail(@),
                                        !.bufferSeq = GetNextFrameSeq(@)],
                       !.room = IF sdu = <<>> \/ refused THEN @ ELSE @ - 1,
                       !.up = IF sdu = <<>> \/ refused THEN @ ELSE Append(@, sdu)]

\* Frames are handed up in sequence while the lower edge of the window is there.
\* room and full describe the upper layer's answers; the result's up is what it took.
RecvEnhanceFrameInner(x, room, full) ==
    LET start == [rx |-> x, room |-> room, full |-> full, up |-> <<>>, stopped |-> FALSE]
    IN  IF x.isRxWindowFull THEN start ELSE FoldLeft(DeliverFrame, start, x.rxList)

\* DTAP_SetTransChannelStatus with result DTAP_SUCCESS.
SetTransChannelStatus(x, room, full) ==
    RecvEnhanceFrameInner([x EXCEPT !.isRxWindowFull = FALSE], room, full)

-----------------------------------------------------------------------------
(* Answers and timers.                                                     *)

\* Mutant: a normal answer carries the upper edge of what has arrived.
AckFrameHighest(x, sBit) ==
    [type |-> "ack", sBit |-> sBit,
     reqSeq |-> IF sBit THEN x.expectedTxSeq ELSE x.maxExpectedTxSeq]

\* DTAP_SendAckFrame: a normal answer carries bufferSeq, an abnormal one asks for
\* expectedTxSeq.
AckFrame(x, sBit) ==
    [type |-> "ack", sBit |-> sBit,
     reqSeq |-> IF sBit THEN x.expectedTxSeq ELSE x.bufferSeq]

TooManyNacks(x) == x.nackCnt >= MaxNack

\* DTAP_ReorderTimerExpireProc: too many nacks ask for the channel's release.
ReorderTimerExpire(x, sent) ==
    IF TooManyNacks(x) THEN [rx |-> [x EXCEPT !.release = TRUE], out |-> <<>>]
    ELSE IF sent THEN [rx |-> [x EXCEPT !.nackCnt = @ + 1], out |-> <<AckFrame(x, TRUE)>>]
    ELSE [rx |-> x, out |-> <<>>]
=============================================================================
