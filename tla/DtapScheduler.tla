----------------------------- MODULE DtapScheduler -----------------------------
(***************************************************************************)
(* The DTAP scheduler (dtap_scheduler.c): packets of all channels of all   *)
(* links wait in queues by priority and are cut into fragments that share  *)
(* the controller's buffers.  A link may have as many fragments in the     *)
(* controller as its quota; what is left of a packet when the quota is     *)
(* used up waits in the FRAGMENT queue, which goes first.                  *)
(*                                                                         *)
(* Everything runs on the stack's main thread.  A handler (Send, ...) is   *)
(* one action; the DTAP_SchedulerRun it ends with is the loop it is in the *)
(* code, one action per turn, during which no other handler runs.  A       *)
(* fragment the DLI accepts reaches the peer's DLI (DliData) in order, or  *)
(* is dropped by the DLI, which tells nobody.                              *)
(***************************************************************************)
EXTENDS DliData, SequencesExt, FiniteSetsExt

CONSTANTS Links,          \* lcids
          Channels,       \* records [lcid, tcid]
          PriorityOf,     \* PriorityOf[c]: the queue of channel c
          NumPriorities,  \* DTAP_PRIORITY_MAX
          FragmentTcid,   \* DTAP_FRAGMENT_TCID
          BufferNums,     \* values of g_apBufferNum
          QueueMax,       \* DTAP_PACKET_MAX_SIZE
          ToSend,         \* ToSend[c]: DLI_GetDataFragmentNums of the packets of c, in turn
          MaxFails        \* bound: refused or dropped sends and failed allocations

ASSUME SchedulerAssumption ==
    /\ IsFiniteSet(Links) /\ IsFiniteSet(Channels) /\ NumPriorities \in Nat \ {0}
    /\ \A c \in Channels : c.lcid \in Links /\ c.tcid # FragmentTcid
    /\ PriorityOf \in [Channels -> 1 .. NumPriorities - 1]
    /\ BufferNums \subseteq Nat \ {0} /\ QueueMax \in Nat /\ MaxFails \in Nat
    /\ \A c \in Channels : ToSend[c] \in Seq(Nat \ {0})

VARIABLES inited,    \* g_isInited
          buf,       \* g_apBufferNum (ap), g_sendNotAckPktCnt (g), g_lcidBufferList
          q,         \* g_dtapScheduler, and the channels' pktLists
          open,      \* the channels of dtap_channel.c
          run,       \* where DTAP_SchedulerRun is
          held,      \* held[l]: fragments of l the controller has not completed
          lost,      \* lost[l]: fragments of l the DLI accepted and then dropped
          peer,      \* the peers' DLI, and what was sent to it
          made,      \* made[c]: packets given to channel c
          fails,     \* failures so far
          refused,   \* the DLI has refused a fragment of a packet just split, or dropped one
          unserved   \* a failure, or a disconnection that gave buffers back, since the last run

vars == <<inited, buf, q, open, run, held, lost, peer, made, fails, refused, unserved>>

-----------------------------------------------------------------------------
FRAGMENT == 0   \* DTAP_PRIORITY_FRAGMENT
Priorities == 0 .. NumPriorities - 1

\* DTAP_GetOrCreateFragmentChannel.
FragmentChannel(l) == [lcid |-> l, tcid |-> FragmentTcid]
AllChannels == Channels \cup {FragmentChannel(l) : l \in Links}
Priority(c) == IF c.tcid = FragmentTcid THEN FRAGMENT ELSE PriorityOf[c]

\* DTAP_PendingPacket.  idx 0: not split yet; otherwise the fragment idx.
Packet(c, n, cnt) == [chan |-> c, num |-> n, of |-> cnt, idx |-> 0]

\* &fragmentBuf[sendCnt], fragmentCnt - sendCnt of them.
Fragments(pkt, from) == [i \in 1 .. pkt.of - from + 1 |-> [pkt EXCEPT !.idx = from + i - 1]]

Idle == [at |-> "idle", prio |-> 0, visit |-> <<>>, sched |-> {}, next |-> 0]
StartRun == [Idle EXCEPT !.at = "prio"]

\* The fragments of each link that were sent and not completed: the controller has them,
\* or nobody has.
Counted == [l \in Links |-> held[l] + lost[l]]

Sub(x, y) == IF x > y THEN x - y ELSE 0   \* DTAP_SCHED_SUB

InitBuf(ap) == [ap |-> ap, g |-> 0, list |-> <<>>, quota |-> [l \in Links |-> 0],
                notAck |-> [l \in Links |-> 0], queued |-> [l \in Links |-> 0]]

InitQueues == [lcids |-> [p \in Priorities |-> <<>>],
               chans |-> [p \in Priorities |-> [l \in Links |-> <<>>]],
               pkts |-> [c \in AllChannels |-> <<>>],
               cnt |-> [p \in Priorities |-> 0],
               nodeCnt |-> [p \in Priorities |-> [l \in Links |-> 0]]]

Init ==
    /\ inited = FALSE /\ buf = InitBuf(1) /\ q = InitQueues
    /\ open = {} /\ run = Idle
    /\ held = [l \in Links |-> 0] /\ lost = [l \in Links |-> 0]
    /\ peer = [node |-> [l \in Links |-> NoNode], sent |-> {}, arrived |-> {}, corrupt |-> FALSE]
    /\ made = [c \in Channels |-> 0] /\ fails = 0 /\ refused = FALSE /\ unserved = FALSE

-----------------------------------------------------------------------------
(* Quotas.                                                                 *)

Connected(b, l) == Contains(b.list, l)

CalcTotalQueuedPktCnt(b) == SumFunctionOnSet(b.queued, ToSet(b.list))

\* Mutant: whoever has a remainder gets a buffer more.
AllocRoundedUp(b, total) ==
    LET pool == Sub(b.ap, Len(b.list))
    IN  [l \in Links |-> 1 + (pool * b.queued[l] + total - 1) \div total]

\* DTAP_AllocLcidQuota: everybody has one buffer, the others are shared in proportion to
\* what waits, cut off; what is left over goes to the largest remainders, one each, the
\* first of the list where they are equal.
AllocLcidQuota(b, total) ==
    LET pool == Sub(b.ap, Len(b.list))
        lcids == ToSet(b.list)
        Bonus(l) == (pool * b.queued[l]) \div total
        Frac(l) == (pool * b.queued[l]) % total
        rem == pool - SumFunctionOnSet([l \in lcids |-> Bonus(l)], lcids)
        Ahead(l) == {m \in lcids : \/ Frac(m) > Frac(l)
                                   \/ /\ Frac(m) = Frac(l)
                                      /\ SelectInSeq(b.list, LAMBDA x : x = m)
                                            < SelectInSeq(b.list, LAMBDA x : x = l)}
        Extra(l) == IF Frac(l) > 0 /\ Cardinality(Ahead(l)) < rem THEN 1 ELSE 0
    IN  [l \in Links |-> IF l \in lcids THEN 1 + Bonus(l) + Extra(l) ELSE 0]

RecalcLcidQuota(b) ==
    LET total == CalcTotalQueuedPktCnt(b)
    IN  [b EXCEPT !.quota = IF total # 0 THEN AllocLcidQuota(b, total)
                            ELSE [l \in Links |-> IF Connected(b, l) THEN 1 ELSE 0]]

CanSend(l) == Connected(buf, l) /\ buf.g < buf.ap /\ buf.notAck[l] < buf.quota[l]

-----------------------------------------------------------------------------
(* Queues.                                                                 *)

\* Mutant: packets are put in front.
InsertAtHead(pktList, ps) == ps \o pktList
TailInsert(pktList, ps) == pktList \o ps

\* DTAP_PriorityQueuePush of the packets ps of channel c, and the insertion into pktList.
PriorityQueuePush(queues, c, ps) ==
    LET p == Priority(c)
        l == c.lcid
    IN  [queues EXCEPT !.lcids[p] = IF Contains(@, l) THEN @ ELSE Append(@, l),
                       !.chans[p][l] = IF Contains(@, c) THEN @ ELSE Append(@, c),
                       !.pkts[c] = TailInsert(@, ps),
                       !.cnt[p] = @ + Len(ps), !.nodeCnt[p][l] = @ + Len(ps)]

\* Its other half: queuedPktCnt, where the link has a buffer node.
PushedBuf(b, l, n) == IF Connected(b, l) THEN [b EXCEPT !.queued[l] = @ + n] ELSE b

\* DTAP_PriorityQueuePeek: the first channel with a packet.
Peek(p, l) ==
    IF q.nodeCnt[p][l] = 0 THEN 0
    ELSE SelectInSeq(q.chans[p][l], LAMBDA c : q.pkts[c] # <<>>)

\* DTAP_PriorityQueuePop: a channel that has more moves behind the others.
PriorityQueuePop(p, l, c) ==
    [q EXCEPT !.pkts[c] = Tail(@),
              !.chans[p][l] = IF Len(q.pkts[c]) > 1 THEN Append(RemoveFirst(@, c), c) ELSE @,
              !.nodeCnt[p][l] = Sub(@, 1), !.cnt[p] = Sub(@, 1)]

PoppedBuf(b, l) == [b EXCEPT !.queued[l] = Sub(@, 1)]

\* Mutant: the queue's own count keeps the dropped packets.
CountKept(cnt, n) == cnt
CountDropped(cnt, n) == Sub(cnt, n)

\* DTAP_ChannelDownProc for channel c in its queue.
ChannelDownProc(queues, c) ==
    LET p == Priority(c)
        l == c.lcid
        n == Len(queues.pkts[c])
        left == RemoveFirst(queues.chans[p][l], c)
    IN  IF ~ Contains(queues.chans[p][l], c) THEN queues
        ELSE [queues EXCEPT !.chans[p][l] = left, !.pkts[c] = <<>>,
                            !.nodeCnt[p][l] = IF left = <<>> THEN 0 ELSE Sub(@, n),
                            !.cnt[p] = CountDropped(@, n),
                            !.lcids[p] = IF left = <<>> THEN RemoveFirst(@, l) ELSE @]

-----------------------------------------------------------------------------
(* The handlers.                                                           *)

MainThreadFree == run = Idle

SchedulerInit ==
    /\ MainThreadFree /\ ~ inited
    /\ inited' = TRUE
    /\ buf' = InitBuf(buf.ap) /\ q' = InitQueues
    /\ UNCHANGED <<open, run, held, lost, peer, made, fails, refused, unserved>>

\* DTAP_SchedulerDeinitInner, then DTAP_LogicLinkMapDeInit; the links are gone.
SchedulerDeinit ==
    /\ MainThreadFree /\ inited
    /\ inited' = FALSE
    /\ buf' = [InitBuf(buf.ap) EXCEPT !.g = buf.g]
    /\ q' = InitQueues
    /\ open' = {} /\ unserved' = FALSE
    /\ held' = [l \in Links |-> 0] /\ lost' = [l \in Links |-> 0]
    /\ UNCHANGED <<run, peer, made, fails, refused>>

\* DTAP_DLIConnectCbk.  CM has released the channels of an earlier link of this lcid.
Connect(l) ==
    /\ MainThreadFree /\ inited
    /\ ~ Connected(buf, l) /\ \A c \in open : c.lcid # l
    /\ buf' = RecalcLcidQuota([buf EXCEPT !.list = Append(@, l), !.notAck[l] = 0, !.queued[l] = 0])
    /\ UNCHANGED <<inited, q, open, run, held, lost, peer, made, fails, refused, unserved>>

\* Mutant: the buffers of the link are not given back.
CreditsKept(b, l) == b.g
CreditsBack(b, l) == Sub(b.g, b.notAck[l])

\* DTAP_DLIDisconnectCbk: the scheduler is not run.
Disconnect(l) ==
    /\ MainThreadFree /\ Connected(buf, l)
    /\ buf' = RecalcLcidQuota(
                [buf EXCEPT !.g = CreditsBack(buf, l), !.list = RemoveFirst(@, l), !.quota[l] = 0,
                            !.notAck[l] = 0, !.queued[l] = 0])
    /\ held' = [held EXCEPT ![l] = 0] /\ lost' = [lost EXCEPT ![l] = 0]
    /\ unserved' = (unserved \/ Counted[l] > 0)
    /\ UNCHANGED <<inited, q, open, run, peer, made, fails, refused>>

\* DTAP_ChannelAdd.
ChannelAdd(c) ==
    /\ MainThreadFree /\ c \notin open /\ Connected(buf, c.lcid)
    /\ open' = open \cup {c}
    /\ UNCHANGED <<inited, buf, q, run, held, lost, peer, made, fails, refused, unserved>>

\* DTAP_ChannelDel, DTAP_ChannelDown: what the link has in the FRAGMENT queue goes too,
\* whichever channel it came from.
ChannelDown(c) ==
    /\ MainThreadFree /\ c \in open
    /\ LET l == c.lcid
           dropped == Len(q.pkts[c]) + Len(q.pkts[FragmentChannel(l)])
       IN  /\ q' = ChannelDownProc(ChannelDownProc(q, FragmentChannel(l)), c)
           /\ buf' = IF Connected(buf, l) THEN [buf EXCEPT !.queued[l] = Sub(@, dropped)] ELSE buf
    /\ open' = open \ {c}
    /\ UNCHANGED <<inited, run, held, lost, peer, made, fails, refused, unserved>>

\* DTAP_SetApBufferNum, from the DLI or from COLLAB: the scheduler is not run.
SetApBufferNum(n) ==
    /\ MainThreadFree /\ inited /\ n # buf.ap
    /\ buf' = RecalcLcidQuota([buf EXCEPT !.ap = n])
    /\ UNCHANGED <<inited, q, open, run, held, lost, peer, made, fails, refused, unserved>>

\* DTAP_DataSendWithPriority; a full queue refuses the packet.
DataSendWithPriority(c) ==
    /\ MainThreadFree /\ inited /\ c \in open
    /\ made[c] < Len(ToSend[c]) /\ q.cnt[Priority(c)] < QueueMax
    /\ made' = [made EXCEPT ![c] = @ + 1]
    /\ q' = PriorityQueuePush(q, c, <<Packet(c, made[c] + 1, ToSend[c][made[c] + 1])>>)
    /\ LET l == c.lcid
           b == PushedBuf(buf, l, 1)
       IN  buf' = IF Connected(b, l) /\ b.notAck[l] >= b.quota[l] /\ b.g < b.ap
                  THEN RecalcLcidQuota(b) ELSE b
    /\ run' = StartRun /\ unserved' = FALSE
    /\ UNCHANGED <<inited, open, held, lost, peer, fails, refused>>

\* Mutant: the scheduler is not run.
NoRun == Idle
RunAfterCompletion == StartRun

\* DTAP_SendCompleteCbk: the controller has sent n fragments of l.
SendComplete(l, n) ==
    /\ MainThreadFree /\ Connected(buf, l) /\ n \in 1 .. held[l]
    /\ held' = [held EXCEPT ![l] = @ - n]
    /\ buf' = RecalcLcidQuota([buf EXCEPT !.g = Sub(@, n), !.notAck[l] = Sub(@, n)])
    /\ run' = RunAfterCompletion /\ unserved' = FALSE
    /\ UNCHANGED <<inited, q, open, lost, peer, made, fails, refused>>

-----------------------------------------------------------------------------
(* DTAP_SchedulerRun.                                                      *)

\* DTAP_SchedulePriority's second loop: the links that were scheduled go to the end.
MovedToEnd(list, moved) ==
    LET after[n \in 0 .. Len(list)] ==
            IF n = 0 THEN list
            ELSE IF list[n] \in moved THEN Append(RemoveFirst(after[n - 1], list[n]), list[n])
            ELSE after[n - 1]
    IN  after[Len(list)]

Rotated(queues) == [queues EXCEPT !.lcids[run.prio] = MovedToEnd(@, run.sched)]

\* The next queue with packets, if the controller has room.
RunPriority ==
    /\ run.at = "prio"
    /\ LET left == {p \in run.prio .. NumPriorities - 1 : q.cnt[p] > 0}
       IN  run' = IF left = {} \/ buf.g >= buf.ap THEN Idle
                  ELSE [run EXCEPT !.at = "lcid", !.prio = Min(left), !.visit = q.lcids[Min(left)]]
    /\ UNCHANGED <<inited, buf, q, open, held, lost, peer, made, fails, refused, unserved>>

PriorityDone ==
    /\ run.at = "lcid" /\ run.visit = <<>>
    /\ q' = Rotated(q)
    /\ run' = [StartRun EXCEPT !.prio = run.prio + 1]
    /\ UNCHANGED <<inited, buf, open, held, lost, peer, made, fails, refused, unserved>>

VisitLcid ==
    /\ run.at = "lcid" /\ run.visit # <<>>
    /\ LET l == Head(run.visit)
       IN  run' = IF CanSend(l) THEN [run EXCEPT !.at = "chan", !.sched = @ \cup {l}]
                  ELSE [run EXCEPT !.visit = Tail(@)]
    /\ UNCHANGED <<inited, buf, q, open, held, lost, peer, made, fails, refused, unserved>>

\* The link whose turn it is, its first channel with a packet, and that packet.
Lcid == Head(run.visit)
CanSchedule == CanSend(Lcid) /\ Peek(run.prio, Lcid) # 0
Chan == q.chans[run.prio][Lcid][Peek(run.prio, Lcid)]
Pkt == Head(q.pkts[Chan])

LcidDone ==
    /\ run.at = "chan" /\ ~ CanSchedule
    /\ run' = [run EXCEPT !.at = "lcid", !.visit = Tail(@)]
    /\ UNCHANGED <<inited, buf, q, open, held, lost, peer, made, fails, refused, unserved>>

IsPacket(up) ==
    Len(up) = up[1].of /\ \A i \in 1 .. Len(up) : up[i] = [up[1] EXCEPT !.idx = i]
IdOf(f) == [chan |-> f.chan, num |-> f.num]

\* DTAP_SendData succeeds and counts the fragment.  The task it posted (DLI_DataSendInner)
\* gives the fragment to the controller, which sends it to the peer ...
Deliver(f) ==
    LET l == Lcid
        r == AcbPacketReceived(peer.node[l], f)
    IN  /\ held' = [held EXCEPT ![l] = @ + 1]
        /\ peer' = [node |-> [peer.node EXCEPT ![l] = r.node],
                    sent |-> IF f.idx = f.of THEN peer.sent \cup {IdOf(f)} ELSE peer.sent,
                    arrived |-> IF r.up # <<>> THEN peer.arrived \cup {IdOf(r.up[1])} ELSE peer.arrived,
                    corrupt |-> peer.corrupt \/ (r.up # <<>> /\ ~ IsPacket(r.up))]
        /\ UNCHANGED <<lost, fails, refused>>

\* ... or drops it without a word: three sends failed, or the DLI is not initialised.
Drop ==
    /\ fails < MaxFails /\ fails' = fails + 1
    /\ lost' = [lost EXCEPT ![Lcid] = @ + 1]
    /\ refused' = TRUE
    /\ UNCHANGED <<held, peer>>

SendData(b, f) ==
    /\ buf' = [b EXCEPT !.g = @ + 1, !.notAck[Lcid] = @ + 1]
    /\ Deliver(f) \/ Drop

\* A saved fragment.
SendFragment ==
    /\ run.at = "chan" /\ CanSchedule /\ Pkt.idx # 0
    /\ SendData(PoppedBuf(buf, Lcid), Pkt)
    /\ q' = PriorityQueuePop(run.prio, Lcid, Chan)
    /\ UNCHANGED <<inited, open, run, made, unserved>>

\* The run ends early: a saved fragment is refused, or DTAP_SplitData fails; the packet
\* stays.
StopRun ==
    /\ fails' = fails + 1 /\ fails < MaxFails
    /\ unserved' = TRUE
    /\ run' = Idle
    /\ UNCHANGED refused

SendRefused ==
    /\ run.at = "chan" /\ CanSchedule
    /\ StopRun
    /\ q' = Rotated(q)
    /\ UNCHANGED <<inited, buf, open, held, lost, peer, made>>

SplitData ==
    /\ run.at = "chan" /\ CanSchedule /\ Pkt.idx = 0
    /\ run' = [run EXCEPT !.at = "frag", !.next = 1]
    /\ UNCHANGED <<inited, buf, q, open, held, lost, peer, made, fails, refused, unserved>>

SendNext ==
    /\ run.at = "frag" /\ run.next <= Pkt.of /\ CanSend(Lcid)
    /\ SendData(buf, [Pkt EXCEPT !.idx = run.next])
    /\ run' = [run EXCEPT !.next = @ + 1]
    /\ UNCHANGED <<inited, q, open, made, unserved>>

AllSent ==
    /\ run.at = "frag" /\ run.next > Pkt.of
    /\ q' = PriorityQueuePop(run.prio, Lcid, Chan) /\ buf' = PoppedBuf(buf, Lcid)
    /\ run' = [run EXCEPT !.at = "chan", !.next = 0]
    /\ UNCHANGED <<inited, open, held, lost, peer, made, fails, refused, unserved>>

\* Mutant: the rest waits in its own channel.
SaveInChannel(c) == c
SaveIn(c) == FragmentChannel(c.lcid)

\* DTAP_SaveFragmentData.
SaveFragmentData ==
    LET rest == Fragments(Pkt, run.next)
    IN  /\ q' = PriorityQueuePush(PriorityQueuePop(run.prio, Lcid, Chan), SaveIn(Chan), rest)
        /\ buf' = PushedBuf(PoppedBuf(buf, Lcid), Lcid, Len(rest))
        /\ run' = [run EXCEPT !.at = "lcid", !.visit = Tail(@), !.next = 0]

\* The link may not send more: the rest is saved.
SaveRest ==
    /\ run.at = "frag" /\ run.next <= Pkt.of /\ ~ CanSend(Lcid)
    /\ SaveFragmentData
    /\ UNCHANGED <<inited, open, held, lost, peer, made, fails, refused, unserved>>

\* The DLI refuses the next fragment: the rest is saved, and the run goes on.
NextRefused ==
    /\ run.at = "frag" /\ run.next <= Pkt.of /\ CanSend(Lcid)
    /\ fails < MaxFails /\ fails' = fails + 1
    /\ unserved' = TRUE /\ refused' = TRUE
    /\ SaveFragmentData
    /\ UNCHANGED <<inited, open, held, lost, peer, made>>

\* The rest cannot be saved: it is dropped, and the run ends.
SaveFails ==
    /\ run.at = "frag" /\ run.next <= Pkt.of /\ ~ CanSend(Lcid)
    /\ StopRun
    /\ q' = Rotated(PriorityQueuePop(run.prio, Lcid, Chan)) /\ buf' = PoppedBuf(buf, Lcid)
    /\ UNCHANGED <<inited, open, held, lost, peer, made>>

-----------------------------------------------------------------------------
Handler ==
    \/ SchedulerInit \/ SchedulerDeinit
    \/ \E l \in Links : Connect(l) \/ Disconnect(l)
    \/ \E c \in Channels : ChannelAdd(c) \/ ChannelDown(c)
    \/ \E n \in BufferNums : SetApBufferNum(n)
    \/ \E c \in Channels : DataSendWithPriority(c)
    \/ \E l \in Links : \E n \in 1 .. held[l] : SendComplete(l, n)

SchedulerRun ==
    \/ RunPriority \/ PriorityDone \/ VisitLcid \/ LcidDone
    \/ SendFragment \/ SendRefused \/ SplitData \/ SendNext
    \/ AllSent \/ SaveRest \/ NextRefused \/ SaveFails

Next == Handler \/ SchedulerRun

Spec == Init /\ [][Next]_vars

-----------------------------------------------------------------------------
(* Properties.                                                             *)

\* The packets that wait in the channels cs, and those of link l.
Waiting(queues, cs) == SumFunctionOnSet([c \in AllChannels |-> Len(queues.pkts[c])], cs)
Queued(l) == Waiting(q, {c \in AllChannels : c.lcid = l})

\* The credits the scheduler counts, in total (g_sendNotAckPktCnt) and per link, are the
\* buffers the controller really holds, whatever completes, disconnects or is refused:
\* none is counted twice, and none is lost, so that no link is starved; but for the
\* fragments that the DLI dropped after it had accepted them (DLI_DataSendInner): DTAP is
\* never told, and their credits come back only when their link goes.
CreditsMatch ==
    inited => /\ \A l \in Links : buf.notAck[l] = Counted[l]
              /\ buf.g = SumFunctionOnSet(Counted, Links)

\* Every link has a buffer of its own, and the quotas together never promise more
\* buffers than there are, unless there are more links than buffers (DTAP_AllocLcidQuota).
QuotasShareBuffers ==
    /\ \A l \in ToSet(buf.list) : buf.quota[l] >= 1
    /\ SumFunctionOnSet(buf.quota, ToSet(buf.list)) <= Max({buf.ap, Len(buf.list)})

\* The counts that decide whether a queue or a link is looked at (pktCnt, queuedPktCnt)
\* agree with the packets that wait, after any sequence of pushes, pops, saved
\* fragments, channels taken down and links lost.
CountsMatch ==
    /\ \A p \in Priorities :
         /\ q.cnt[p] = Waiting(q, {c \in AllChannels : Priority(c) = p})
         /\ \A l \in Links :
              q.nodeCnt[p][l] = Waiting(q, {c \in AllChannels : Priority(c) = p /\ c.lcid = l})
    /\ \A l \in ToSet(buf.list) : buf.queued[l] = Queued(l)

\* The peer's DLI hands up whole packets only, and every packet whose last fragment was
\* sent: fragments of two packets of a link never mix (DTAP_SaveFragmentData).
PacketsNeverMix == ~ peer.corrupt /\ peer.arrived = peer.sent

\* They do not mix although the rest of a packet waits for buffers while packets of other
\* priorities come and go, channels are taken down, links are lost, and saved fragments are
\* held back or thrown away; as long as no fragment of a packet just split is refused,
\* and the DLI drops none that it accepted (then the peer may assemble what is left).
PacketsArriveWhole == refused \/ PacketsNeverMix

\* The packets of a channel leave in the order they were given (DTAP_PriorityQueuePop).
ChannelFifo ==
    [][\A x \in peer'.sent \ peer.sent : \A y \in peer.sent :
          x.chan = y.chan => y.num < x.num]_peer

\* When the controller is empty no packet of a connected link is left waiting, for then
\* nothing would run the scheduler again; except after a failed send, after a
\* disconnection gave buffers back (DTAP_DLIDisconnectCbk does not run the scheduler),
\* and while fragments the DLI dropped still count as buffers in use.
NothingStranded ==
    run = Idle /\ ~ unserved /\ (\A l \in Links : held[l] = 0 /\ lost[l] = 0)
        => \A l \in ToSet(buf.list) : Queued(l) = 0
=============================================================================
