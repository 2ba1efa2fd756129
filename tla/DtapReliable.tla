----------------------------- MODULE DtapReliable -----------------------------
(***************************************************************************)
(* Two endpoints of a reliable-mode transmission channel, their callers    *)
(* and the link between them (dtap_trans_reliable.c, dtap.c, and the data  *)
(* transfer service's use of the channel).                                 *)
(*                                                                         *)
(* All DTAP code of an endpoint runs on one thread, so a handler is one    *)
(* atomic step; the two endpoints, the link, the callers and the timers    *)
(* interleave.  The link may lose any frame and let a frame overtake       *)
(* others.  Time is abstract: a running timer may expire at any moment.    *)
(* The response timer of an endpoint always runs.                          *)
(***************************************************************************)
EXTENDS DtapRxWindow, FiniteSets

CONSTANTS Peers, WindowSize, MaxTx, MaxFragNum, Sdus, FrameCnt, NoSdu,
          Environments   \* what surrounds the channel, one of these per behaviour:
                         \* [toSend, the SDUs each caller writes, in order;
                         \*  netCap, frames in flight to one endpoint (bound);
                         \*  reorderDepth, how many frames one may overtake;
                         \*  sendOutcomes, outcomes of DTAP_SendFrame for a
                         \*                retransmission;
                         \*  upperRooms, how many SDUs the upper layer takes in one
                         \*              go, and fullAnswer, its answer after that]

VARIABLES env,        \* the environment of this behaviour
          tx, rx,     \* the two halves of each endpoint's channel
          busy,       \* TRANSFER_BUSY in each caller's service
          up,         \* the channel exists at the endpoint
          net,        \* net[p]: frames in flight to p
          written,    \* how many of env.toSend[p] the caller has written
          accepted,   \* those not answered with an error
          delivered   \* delivered[p]: what p's peer was given of p's SDUs

vars == <<env, tx, rx, busy, up, net, written, accepted, delivered>>

T(p) == INSTANCE DtapTxWindow WITH tx <- tx[p], busy <- busy[p], RxSeqs <- FrameSeq

Other(p) == CHOOSE q \in Peers : q # p

-----------------------------------------------------------------------------
(* What goes over the link.                                                *)

DataFrame(f) == [type |-> "data", txSeq |-> f.txSeq, reqSeq |-> f.reqSeq, pBit |-> f.pBit,
                 sdu |-> f.sdu, idx |-> f.idx, cnt |-> f.cnt]
DataFrames(frames) == [i \in 1 .. Len(frames) |-> DataFrame(frames[i])]

\* p's out is put on the link, less the frames that are lost; `base` is the rest of
\* net after the step took its own input off it.
Transmit(p, base, out) ==
    \E kept \in SUBSET (1 .. Len(out)) :
        /\ Len(base[Other(p)]) + Cardinality(kept) <= env.netCap
        /\ net' = [base EXCEPT ![Other(p)] =
                      @ \o [i \in 1 .. Cardinality(kept) |->
                               out[CHOOSE k \in kept :
                                   Cardinality({j \in kept : j <= k}) = i]]]

\* An SDU handed up is the one that was sent if all its pieces are there unharmed.
Garbled == "garbled"
Reassembled(pieces) ==
    IF /\ Len(pieces) = pieces[1].cnt
       /\ \A i \in 1 .. Len(pieces) :
             pieces[i] = [sdu |-> pieces[1].sdu, idx |-> i, cnt |-> Len(pieces), intact |-> TRUE]
    THEN pieces[1].sdu ELSE Garbled

HandUp(p, sdus) ==
    delivered' = [delivered EXCEPT ![Other(p)] =
                     @ \o [i \in 1 .. Len(sdus) |-> Reassembled(sdus[i])]]

-----------------------------------------------------------------------------
Init ==
    /\ env \in Environments
    /\ tx = [p \in Peers |-> T(p)!InitTxWindow]
    /\ rx = [p \in Peers |-> InitRxWindow]
    /\ busy = [p \in Peers |-> FALSE]
    /\ up = [p \in Peers |-> TRUE]
    /\ net = [p \in Peers |-> <<>>]
    /\ written = [p \in Peers |-> 0]
    /\ accepted = [p \in Peers |-> <<>>]
    /\ delivered = [p \in Peers |-> <<>>]

\* Mutant: the service goes on reading its socket while the channel is busy.
MayWriteWhenBusy(p) == up[p] /\ written[p] < Len(env.toSend[p])

\* SleDataTransferService::ReceivedData: data is left in the socket while the channel
\* is busy.
MayWrite(p) == up[p] /\ ~ busy[p] /\ written[p] < Len(env.toSend[p])

\* SleDataTransferService::WriteData, TRANS_SendDataProc, DTAP_DataSend: "full" is an
\* acceptance (the SDU was sent or kept), any other error is not.
WriteData(p) ==
    /\ MayWrite(p)
    /\ \E sent \in env.sendOutcomes :
         LET sdu == env.toSend[p][written[p] + 1]
             r == T(p)!SendEnhanceFrame(tx[p], sdu, rx[p].isRecvFrame,
                                        rx[p].expectedTxSeq, sent)
         IN  /\ tx' = [tx EXCEPT ![p] = r.tx]
             /\ busy' = [busy EXCEPT ![p] = (r.ret = "TX_WINDOW_FULL")]
             /\ written' = [written EXCEPT ![p] = @ + 1]
             /\ accepted' = [accepted EXCEPT ![p] =
                   IF r.ret \in {"SUCCESS", "TX_WINDOW_FULL"} THEN Append(@, sdu) ELSE @]
             /\ Transmit(p, net, DataFrames(r.out))
    /\ UNCHANGED <<env, rx, up, delivered>>

\* The sending half's part of a reception; y is the receiving half after its own.
SendingHalf(p, base, reqSeq, sBit, y, ack) ==
    \E sent \in env.sendOutcomes :
        LET r == T(p)!RecvAck(tx[p], reqSeq, sBit, y.isRecvFrame, y.expectedTxSeq, sent)
        IN  /\ tx' = [tx EXCEPT ![p] = r.tx]
            /\ busy' = [busy EXCEPT ![p] = @ /\ ~ r.cbk]
            /\ Transmit(p, base, ack \o DataFrames(r.out))

\* DTAP_DataRecv, DTAP_CheckEnhanceFrame, DTAP_RecvEnhanceFrame for an ACK frame.
RecvAckFrame(p, f, base) ==
    /\ f.type = "ack"
    /\ SendingHalf(p, base, f.reqSeq, f.sBit, rx[p], <<>>)
    /\ UNCHANGED <<rx, delivered>>

\* The same for a data frame.  With the P bit set the answer goes out at once, after
\* the delivery has moved bufferSeq.
RecvDataFrame(p, f, base) ==
    /\ f.type = "data"
    /\ CheckEnhanceFrameTxSeq(rx[p], f.txSeq)
    /\ \E room \in env.upperRooms :
         LET slid == OperateReorderTimer(SlideRxWindow(rx[p], f))
             d == RecvEnhanceFrameInner(slid, room, env.fullAnswer)
             ack == IF f.pBit THEN <<AckFrame(d.rx, FALSE)>> ELSE <<>>
         IN  /\ rx' = [rx EXCEPT ![p] = d.rx]
             /\ HandUp(p, d.up)
             /\ SendingHalf(p, base, f.reqSeq, FALSE, d.rx, ack)

\* A frame for a channel that is gone, or whose TxSeq is refused, is dropped.
DropFrame(p, f, base) ==
    /\ ~ up[p] \/ (f.type = "data" /\ ~ CheckEnhanceFrameTxSeq(rx[p], f.txSeq))
    /\ net' = base
    /\ UNCHANGED <<tx, rx, busy, delivered>>

RecvFrame(p) ==
    /\ \E i \in 1 .. Len(net[p]) :
         LET f == net[p][i]
             base == [net EXCEPT ![p] = RemoveAt(@, i)]
         IN  /\ i <= 1 + env.reorderDepth
             /\ \/ up[p] /\ RecvAckFrame(p, f, base)
                \/ up[p] /\ RecvDataFrame(p, f, base)
                \/ DropFrame(p, f, base)
    /\ UNCHANGED <<env, up, written, accepted>>

RetransTimer(p) ==
    /\ up[p] /\ tx[p].retransTimer
    /\ \E sent \in env.sendOutcomes :
         LET r == T(p)!RetransTimerExpire(tx[p], sent)
         IN  tx' = [tx EXCEPT ![p] = r.tx] /\ Transmit(p, net, DataFrames(r.out))
    /\ UNCHANGED <<env, rx, busy, up, written, accepted, delivered>>

RspTimer(p) ==
    /\ up[p]
    /\ Transmit(p, net, <<AckFrame(rx[p], FALSE)>>)
    /\ UNCHANGED <<env, tx, rx, busy, up, written, accepted, delivered>>

ReorderTimer(p) ==
    /\ up[p] /\ rx[p].reorderTimer
    /\ \E sent \in env.sendOutcomes :
         LET r == ReorderTimerExpire(rx[p], sent)
         IN  rx' = [rx EXCEPT ![p] = r.rx] /\ Transmit(p, net, r.out)
    /\ UNCHANGED <<env, tx, busy, up, written, accepted, delivered>>

\* ChangeSocketStateInner, TRANS_ChannelSetStatus, DTAP_ChannelSetStatus: the upper layer
\* takes data again.  The channel's tcid is a dynamic one, for which
\* DTAP_GetDataRecvCbkByTcid finds no call-back: what was kept has no taker.
ChannelSetStatus(p) ==
    /\ up[p]
    /\ rx' = [rx EXCEPT ![p] = SetTransChannelStatus(rx[p], 0, "NO_CALLBACK").rx]
    /\ UNCHANGED <<env, tx, busy, up, net, written, accepted, delivered>>

Released(p) == tx[p].release \/ rx[p].release

\* CM ends the channel at both endpoints once either has asked for it (external).
ChannelDel(p) ==
    /\ up[p] /\ (Released(p) \/ Released(Other(p)))
    /\ up' = [up EXCEPT ![p] = FALSE]
    /\ UNCHANGED <<env, tx, rx, busy, net, written, accepted, delivered>>

PeerNext(p) ==
    \/ WriteData(p) \/ RecvFrame(p)
    \/ RetransTimer(p) \/ RspTimer(p) \/ ReorderTimer(p)
    \/ ChannelSetStatus(p) \/ ChannelDel(p)

Next == \E p \in Peers : PeerNext(p)

\* An endpoint's worker thread serves its queue, and a running retransmission timer
\* expires: weak fairness of the two actions.  That of RecvFrame has its enabling
\* condition, a frame in the queue, written out: TLC is slow to find it out by itself.
\* Nothing is assumed of the other timers, the callers or the link's losses.
Fairness == \A p \in Peers :
    /\ <>[](net[p] # <<>>) => []<><<RecvFrame(p)>>_vars
    /\ WF_vars(RetransTimer(p))

Spec == Init /\ [][Next]_vars
FairSpec == Spec /\ Fairness

-----------------------------------------------------------------------------
Broken == \E p \in Peers : Released(p)
Channel == INSTANCE ReliableChannel WITH broken <- Broken

\* The upper layer of this behaviour takes whatever it is given.  (One that may be
\* full makes the channel lose SDUs, and its peer send beyond the window.)
NeverFull == 0 \notin env.upperRooms

\* The receiving window (rxWindow.rxList) is sorted, holds no frame twice and never
\* more frames than the window, whatever order frames and retransmissions arrive in.
RxListInWindow ==
    NeverFull => \A p \in Peers :
        /\ Len(rx[p].rxList) <= RxWindowSize
        /\ \A i, j \in 1 .. Len(rx[p].rxList) :
              i < j => IsFrameSeqSmaller(rx[p].rxList[i].txSeq, rx[p].rxList[j].txSeq)

\* A gap is always being asked for: the reorder timer runs exactly while a frame is
\* missing below one that has arrived (DTAP_OperateReorderTimer).
TimerGuardsGap ==
    \A p \in Peers : rx[p].reorderTimer <=> rx[p].expectedTxSeq # rx[p].maxExpectedTxSeq

\* The sender never frees a frame (DTAP_SlideTxWindow) the receiver does not have,
\* whichever of the answers in flight, stale or new, it acts on.
AckedWasReceived ==
    \A p \in Peers :
        ~ IsFrameSeqSmaller(rx[Other(p)].expectedTxSeq, tx[p].expectedAckSeq)

\* While the channel has not given up and the upper layer takes everything, the SDUs
\* handed up (DTAP_RecvEnhanceFrameInner) are the accepted ones, once each, in order and
\* unharmed, also when frames are lost, overtake each other or wrap around.
InOrder ==
    NeverFull /\ ~ Broken => \A p \in Peers : IsPrefix(delivered[p], accepted[p])

\* A caller told to wait (TRANS_RESULT_TX_CACHE_FULL) is called back, or the channel
\* gives up.
BusyEnds == \A p \in Peers : busy[p] ~> (~ busy[p] \/ Broken)

\* The two endpoints together implement the abstract channel: every accepted SDU is
\* delivered in order, and in the end, unless the channel gives up.
ImplementsChannel == Channel!Spec
=============================================================================
