----------------------------- MODULE DtapTxWindow -----------------------------
(***************************************************************************)
(* The sending half of a reliable-mode transmission channel                *)
(* (dtap_trans_reliable.c, DTAP_TxWindow_S and the fields of               *)
(* DTAP_ReliableChannel_S around it) and the caller's view of it.          *)
(*                                                                         *)
(* The half is one record, tx.  Every C function on it is an operator from *)
(* a record to a result [tx, out, ret, cbk]: the new record, the frames    *)
(* handed to DTAP_SendFrame in order, the return code, and whether         *)
(* transChannelStatusChangeCbk was called.  As a specification of its own  *)
(* the module runs against an arbitrary peer: any acknowledgement may      *)
(* arrive at any time.  DtapReliable composes it with DtapRxWindow.        *)
(***************************************************************************)
EXTENDS DtapSeq, Sequences, FiniteSets

CONSTANTS WindowSize,  \* txWindow.size
          MaxTx,       \* maxTxThreshold
          MaxFragNum,  \* DTAP_MAX_FRAGMENT_NUM
          Sdus,        \* the SDUs the caller may send
          FrameCnt,    \* FrameCnt[sdu][duplex]: DTAP_GetFragmentFramesNum
          NoSdu,       \* a NULL cacheBuff
          RxSeqs       \* values of rxWindow.expectedTxSeq put into duplex frames

ASSUME TxAssumption ==
    /\ WindowSize \in 1 .. (SeqHalf - 1)
    /\ MaxTx \in Nat
    /\ MaxFragNum \in Nat
    /\ NoSdu \notin Sdus
    /\ FrameCnt \in [Sdus -> [BOOLEAN -> Nat \ {0}]]
    /\ RxSeqs \subseteq FrameSeq

VARIABLES tx,    \* the sending half of DTAP_ReliableChannel_S
          busy   \* transState = TRANSFER_BUSY in the data transfer service

vars == <<tx, busy>>

-----------------------------------------------------------------------------
Frame == [txSeq : FrameSeq, reqSeq : FrameSeq \cup {SeqInit}, pBit : BOOLEAN,
          reTxCnt : 0 .. MaxTx, sdu : Sdus, idx : Nat \ {0}, cnt : Nat \ {0}]

TxState == [nextTxSeq : FrameSeq, expectedAckSeq : FrameSeq, txList : Seq(Frame),
            reTxSeq : FrameSeq, retransTimer : BOOLEAN,
            sendPollingCounter : Nat, isTxWindowFull : BOOLEAN,
            cacheBuff : Sdus \cup {NoSdu}, release : BOOLEAN]

\* DTAP_ReliableChannelCreate, DTAP_InitTxWindow.
InitTxWindow ==
    [nextTxSeq |-> 0, expectedAckSeq |-> 0, txList |-> <<>>, reTxSeq |-> 0,
     retransTimer |-> FALSE, sendPollingCounter |-> 0, isTxWindowFull |-> FALSE,
     cacheBuff |-> NoSdu, release |-> FALSE]

Result(t, out, ret) == [tx |-> t, out |-> out, ret |-> ret, cbk |-> FALSE]

-----------------------------------------------------------------------------
(* Retransmission.                                                         *)

FindFrameBySeq(t) == {i \in 1 .. Len(t.txList) : t.txList[i].txSeq = t.reTxSeq}

\* Retransmits the frame reTxSeq names, with its P bit set.  sent is the outcome
\* of SDF_BuffCopy and DTAP_SendFrame.  A frame that has used up maxTxThreshold
\* retransmissions makes the channel ask for its own release instead.
RetransEnhanceFrame(t, sent) ==
    IF FindFrameBySeq(t) = {} THEN Result(t, <<>>, "FIND_FRAME_ERR")
    ELSE LET i == CHOOSE i \in FindFrameBySeq(t) : TRUE
             f == [t.txList[i] EXCEPT !.pBit = TRUE]
         IN  IF f.reTxCnt >= MaxTx
             THEN Result([t EXCEPT !.release = TRUE], <<>>, "REACH_MAX_RE_TX_CNT")
             ELSE IF sent
             THEN Result([t EXCEPT !.txList[i] = [f EXCEPT !.reTxCnt = @ + 1],
                                   !.retransTimer = TRUE],
                         <<f>>, "SUCCESS")
             ELSE Result([t EXCEPT !.txList[i] = f], <<>>, "SEND_ERR")

\* An abnormal answer (ACK frame with the S bit) asks for one frame again.
RecvNackFrame(t, reqSeq, sBit, sent) ==
    IF sBit THEN RetransEnhanceFrame([t EXCEPT !.reTxSeq = reqSeq], sent)
    ELSE Result(t, <<>>, "SUCCESS")

-----------------------------------------------------------------------------
(* Acknowledgement.                                                        *)

\* The loop of DTAP_SlideTxWindow: frames are freed from the head of the list
\* up to the first one that is not smaller than reqSeq.
FreeAcked(list, reqSeq) ==
    LET k == CHOOSE k \in 0 .. Len(list) :
                /\ \A i \in 1 .. k : IsFrameSeqSmaller(list[i].txSeq, reqSeq)
                /\ k < Len(list) => ~ IsFrameSeqSmaller(list[k + 1].txSeq, reqSeq)
    IN  SubSeq(list, k + 1, Len(list))

\* Mutant: the upper bound of the window is not looked at.
AcknowledgesAnyLater(t, reqSeq) ==
    IsFrameSeqSmaller(t.expectedAckSeq, reqSeq) \/ reqSeq = t.nextTxSeq

\* Does reqSeq acknowledge something that is still in the window?
Acknowledges(t, reqSeq) ==
    \/ /\ IsFrameSeqSmaller(t.expectedAckSeq, reqSeq)
       /\ IsFrameSeqSmaller(reqSeq, t.nextTxSeq)
    \/ reqSeq = t.nextTxSeq

\* Mutant: any acknowledgement stops the timer.
TimerStopsOnAck(t, reqSeq) == FALSE

\* Whether the retransmission timer runs after reqSeq was acknowledged: it is started
\* again unless everything is.
TimerAfterAck(t, reqSeq) == reqSeq # t.nextTxSeq

\* DTAP_SlideTxWindow.
SlideTxWindow(t, reqSeq) ==
    IF reqSeq = SeqInit THEN t
    ELSE IF t.txList = <<>> THEN [t EXCEPT !.sendPollingCounter = 0]
    ELSE LET reTx == IF IsFrameSeqSmaller(t.reTxSeq, reqSeq) THEN reqSeq ELSE t.reTxSeq
         IN  IF Acknowledges(t, reqSeq)
             THEN [t EXCEPT !.sendPollingCounter = 0, !.reTxSeq = reTx,
                            !.expectedAckSeq = reqSeq,
                            !.txList = FreeAcked(t.txList, reqSeq),
                            !.retransTimer = TimerAfterAck(t, reqSeq)]
             ELSE [t EXCEPT !.sendPollingCounter = 0, !.reTxSeq = reTx]

-----------------------------------------------------------------------------
(* Sending.                                                                *)

\* DTAP_TriggerSendPolling sets the P bit when four times the counter reaches the
\* window size and then starts again at 0, so the counter runs through
\* 0 .. PollPeriod - 1 and every PollPeriod-th frame is polled.
PollPeriod == ((WindowSize + 3) \div 4) + 1

\* The frames DTAP_PackEnhanceFrames builds: consecutive sequence numbers, the
\* receiving half's expectedTxSeq in the duplex ones.
PackEnhanceFrames(t, sdu, dup, rxSeq) ==
    [i \in 1 .. FrameCnt[sdu][dup] |->
        [txSeq |-> SeqPlus(t.nextTxSeq, i - 1),
         reqSeq |-> IF dup THEN rxSeq ELSE SeqInit,
         pBit |-> (t.sendPollingCounter + i) % PollPeriod = 0,
         reTxCnt |-> 0, sdu |-> sdu, idx |-> i, cnt |-> FrameCnt[sdu][dup]]]

\* A pending retransmission goes first and reTxSeq catches up with nextTxSeq; then
\* every new frame is sent and queued.  A new frame whose DTAP_SendFrame fails is
\* queued all the same: to the window it is a frame the link lost.
SendEnhanceFrameInner(t, frames, sent) ==
    LET pending == IsFrameSeqSmaller(t.reTxSeq, t.nextTxSeq)
        r == IF pending THEN RetransEnhanceFrame(t, sent) ELSE Result(t, <<>>, "SUCCESS")
        n == Len(frames)
        base == IF pending THEN t.nextTxSeq ELSE t.reTxSeq
    IN  IF r.ret = "REACH_MAX_RE_TX_CNT" THEN r
        ELSE Result([r.tx EXCEPT
                        !.reTxSeq = SeqPlus(base, n),
                        !.nextTxSeq = SeqPlus(t.nextTxSeq, n),
                        !.txList = @ \o frames,
                        !.sendPollingCounter = (@ + n) % PollPeriod,
                        !.retransTimer = TRUE],
                    r.out \o frames, "SUCCESS")

\* An SDU that does not fit is kept in cacheBuff, if nothing is kept there yet.
SendEnhanceFrame(t, sdu, dup, rxSeq, sent) ==
    LET n == FrameCnt[sdu][dup]
        room == WindowSize - Len(t.txList)
    IN  IF n > MaxFragNum THEN Result(t, <<>>, "INVALID_FRAME_NUM")
        ELSE IF n > room
        THEN Result([t EXCEPT !.cacheBuff = IF @ = NoSdu THEN sdu ELSE @,
                              !.isTxWindowFull = TRUE],
                    <<>>, "TX_WINDOW_FULL")
        ELSE LET full == [t EXCEPT !.isTxWindowFull = (n = room) \/ @]
                 r == SendEnhanceFrameInner(full, PackEnhanceFrames(t, sdu, dup, rxSeq), sent)
             IN  IF r.ret = "SUCCESS" /\ full.isTxWindowFull
                 THEN [r EXCEPT !.ret = "TX_WINDOW_FULL"]
                 ELSE r

\* Mutant: the window is marked open without telling the caller.
StatusChangeSilent(t, dup, rxSeq, sent) ==
    Result([t EXCEPT !.isTxWindowFull = @ /\ Len(t.txList) >= WindowSize], <<>>, "SUCCESS")

\* Mutant: the caller is told while an SDU is still kept.
StatusChangeEarly(t, dup, rxSeq, sent) ==
    [Result(t, <<>>, "SUCCESS") EXCEPT !.cbk = t.isTxWindowFull /\ Len(t.txList) < WindowSize]

\* Called at the end of every reception: once there is room again, the kept SDU is
\* sent, and the caller is told that the channel takes data.  A kept SDU that
\* would fill the window waits.
TransChannelStatusChange(t, dup, rxSeq, sent) ==
    IF ~ t.isTxWindowFull THEN Result(t, <<>>, "SUCCESS")
    ELSE IF t.cacheBuff # NoSdu
    THEN IF Len(t.txList) + FrameCnt[t.cacheBuff][dup] >= WindowSize
         THEN Result(t, <<>>, "SUCCESS")
         ELSE LET r == SendEnhanceFrame([t EXCEPT !.isTxWindowFull = FALSE],
                                        t.cacheBuff, dup, rxSeq, sent)
              IN  [r EXCEPT !.tx.cacheBuff = NoSdu, !.cbk = TRUE]
    ELSE IF Len(t.txList) < WindowSize
    THEN [Result([t EXCEPT !.isTxWindowFull = FALSE], <<>>, "SUCCESS") EXCEPT !.cbk = TRUE]
    ELSE Result(t, <<>>, "SUCCESS")

\* The sending half of DTAP_RecvEnhanceFrame: the nack first, then the window, then
\* the status.  A nack for a frame that is out of retransmissions ends it.
RecvAck(t, reqSeq, sBit, dup, rxSeq, sent) ==
    LET nack == RecvNackFrame(t, reqSeq, sBit, sent)
        r == TransChannelStatusChange(SlideTxWindow(nack.tx, reqSeq), dup, rxSeq, sent)
    IN  IF nack.ret = "REACH_MAX_RE_TX_CNT" THEN nack
        ELSE [r EXCEPT !.out = nack.out \o @]

\* DTAP_RetransTimerExpireProc; the timer is periodic.
RetransTimerExpire(t, sent) ==
    IF t.txList = <<>> THEN Result(t, <<>>, "SUCCESS")
    ELSE RetransEnhanceFrame([t EXCEPT !.reTxSeq = t.expectedAckSeq], sent)

-----------------------------------------------------------------------------
(* The half on its own, with an arbitrary peer.                            *)

Init == tx = InitTxWindow /\ busy = FALSE

\* The service stops reading its socket while the channel is busy (ReceivedData)
\* and marks it busy on TRANS_RESULT_TX_CACHE_FULL (WriteData).
WriteData ==
    \E sdu \in Sdus, dup, sent \in BOOLEAN, rxSeq \in RxSeqs :
        LET r == SendEnhanceFrame(tx, sdu, dup, rxSeq, sent)
        IN  /\ ~ busy
            /\ tx' = r.tx
            /\ busy' = (r.ret = "TX_WINDOW_FULL")

\* An ACK frame, or (sBit FALSE) the ReqSeq of a data frame.
RecvReqSeq ==
    \E reqSeq \in FrameSeq \cup {SeqInit}, sBit, dup, sent \in BOOLEAN, rxSeq \in RxSeqs :
        LET r == RecvAck(tx, reqSeq, sBit, dup, rxSeq, sent)
        IN  /\ sBit => reqSeq # SeqInit
            /\ tx' = r.tx
            /\ busy' = (busy /\ ~ r.cbk)

RetransTimer ==
    /\ tx.retransTimer
    /\ \E sent \in BOOLEAN : tx' = RetransTimerExpire(tx, sent).tx
    /\ UNCHANGED busy

Next == WriteData \/ RecvReqSeq \/ RetransTimer

Spec == Init /\ [][Next]_vars

-----------------------------------------------------------------------------
(* Properties.                                                             *)

\* Type invariant of the sending half (DTAP_TxWindow_S) and its caller's state.
TypeOK == tx \in TxState /\ busy \in BOOLEAN

\* The list holds exactly the frames expectedAckSeq .. nextTxSeq - 1, in order, and
\* never more than the window: whatever acknowledgements arrive, stale, repeated,
\* from beyond the window or across the wrap of the sequence numbers.
WindowIsConsecutive ==
    /\ Len(tx.txList) <= WindowSize
    /\ \A i \in 1 .. Len(tx.txList) :
          tx.txList[i].txSeq = SeqPlus(tx.expectedAckSeq, i - 1)
    /\ tx.nextTxSeq = SeqPlus(tx.expectedAckSeq, Len(tx.txList))

\* While a frame is unacknowledged the retransmission timer runs, and it is stopped
\* once there is none: no loss can leave the window waiting for ever.
TimerGuardsUnacked == tx.retransTimer <=> tx.txList # <<>>

\* A caller told to wait is always owed the call-back that lets it go on: the
\* window remembers that it answered "full" until it has called back.
BusyIsOwedCallback == busy => tx.isTxWindowFull

\* No SDU is refused unseen: cacheBuff is free whenever a caller that honours the
\* "busy" answer may send, so the SDU that does not fit is always kept.
CacheFreeWhenNotBusy == ~ busy => tx.cacheBuff = NoSdu
=============================================================================
