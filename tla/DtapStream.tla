------------------------------ MODULE DtapStream ------------------------------
(***************************************************************************)
(* A stream-mode transmission channel (dtap_trans_stream.c): a sender that *)
(* numbers its SDUs and forgets them, a link that loses, repeats and       *)
(* reorders frames, and a receiver that holds what is ahead of the number  *)
(* it expects until the gap closes or its reorder timer expires.  Streams  *)
(* are multicast (cm_icb_mgr.c), so a receiver joins in the middle.        *)
(*                                                                         *)
(* The receiver runs on the CP thread.  The timer's call-back only posts a *)
(* task, so frames are handled between an expiry and its task.  A handle   *)
(* names one timer; the code can lose a handle while its timer runs, and   *)
(* such timers (loose) expire like any other.  Time is a clock of          *)
(* milliseconds that the environment advances; a running timer may expire  *)
(* at any moment.  A frame with a bad CRC is a lost one.                   *)
(***************************************************************************)
EXTENDS DtapSeq, SequencesExt, FiniteSets

CONSTANTS CacheMax,    \* DTAP_STREAM_CACHE_MAX
          JoinAt,      \* SDUs the sender has sent before the receiver joins
          MaxSent,     \* SDUs sent in all (bound)
          MaxClock,    \* time (bound)
          NetCap,      \* frames in flight (bound)
          MaxFaults,   \* frames lost or repeated (bound)
          MaxDel       \* times the receiver leaves and joins again (bound)

ASSUME StreamAssumption == {CacheMax, JoinAt, MaxSent} \subseteq Nat

VARIABLES sent,        \* SDUs sent; its frame number is the sender's frameTxSeq
          net,         \* frames in flight, oldest first: [txSeq, sdu]
          rx,          \* the receiver's half of DTAP_Stream_Channel_S
          running,     \* the timer that rx.handle names is running
          loose,       \* running timers that no handle names
          tasks,       \* DTAP_ReorderStreamFrameTask's in the CP thread's queue
          clock,       \* DP_GetMonoTimeMs
          delivered,   \* SDUs handed up since the receiver joined
          faults, dels \* faults and re-creations so far

timers == <<running, loose, tasks>>
vars == <<sent, net, rx, timers, clock, delivered, faults, dels>>

\* DTAP_StreamChannelCreate
InitRx == [expectedSeq |-> SeqInit, maxExpectedSeq |-> SeqInit, reorderTxSeq |-> 0,
           handle |-> FALSE, rxList |-> <<>>]

Init ==
    /\ sent = JoinAt /\ net = <<>> /\ delivered = <<>>
    /\ rx = InitRx /\ running = FALSE /\ loose = 0 /\ tasks = 0
    /\ clock = 0 /\ faults = 0 /\ dels = 0

-----------------------------------------------------------------------------
(* The sender and the link.                                                *)

\* DTAP_SendStreamFrame, DTAP_PackStreamFrame: the number is taken before DTAP_SendFrame
\* can refuse the frame.
SendStreamFrame ==
    /\ sent < MaxSent /\ Len(net) < NetCap
    /\ sent' = sent + 1
    /\ LET f == [txSeq |-> (sent + 1) % SeqModulus, sdu |-> sent + 1]
       IN  \/ net' = Append(net, f) /\ UNCHANGED faults
           \/ faults < MaxFaults /\ faults' = faults + 1 /\ UNCHANGED net
    /\ UNCHANGED <<rx, timers, clock, delivered, dels>>

\* The link repeats a frame (external).
Repeat ==
    /\ faults < MaxFaults /\ net # <<>> /\ Len(net) < NetCap
    /\ faults' = faults + 1
    /\ net' = Append(net, Last(net))
    /\ UNCHANGED <<sent, rx, timers, clock, delivered, dels>>

Tick ==
    /\ clock < MaxClock
    /\ clock' = clock + 1
    /\ UNCHANGED <<sent, net, rx, timers, delivered, faults, dels>>

-----------------------------------------------------------------------------
(* The receiver's list and timer.                                          *)

\* InsertStreamRxNode: before the first node that follows it.
InsertStreamRxNode(list, node) ==
    LET after == {i \in 1 .. Len(list) : IsFrameSeqSmaller(node.txSeq, list[i].txSeq)}
    IN  InsertAt(list, IF after = {} THEN Len(list) + 1 ELSE Min(after), node)

\* SDF_DListLast(&rxList)->txSeq + 1, not reduced to 14 bits.  The last entry of an
\* empty list is its head, where txSeq falls on the upper half of the size, 0.
LastTxSeqPlus1(list) == IF list = <<>> THEN 1 ELSE Last(list).txSeq + 1

\* Mutant: the numbers are compared without their wrap.
NeedsTimerNoWrap(c) == c.expectedSeq < c.maxExpectedSeq
\* StartReorderTimer starts a timer:
NeedsTimer(c) == c.expectedSeq # c.maxExpectedSeq

\* The rest of StartReorderTimer: the timer is for the node that has waited longest, if
\* there is one that has waited a millisecond.
Oldest(c, now) ==
    LET aged == {i \in 1 .. Len(c.rxList) : c.rxList[i].timeStamp < now}
        i == CHOOSE i \in aged : \A j \in aged :
                \/ c.rxList[i].timeStamp < c.rxList[j].timeStamp
                \/ c.rxList[i].timeStamp = c.rxList[j].timeStamp /\ i <= j
    IN  IF aged = {} THEN c.reorderTxSeq ELSE c.rxList[i].txSeq

\* c, whose handle names no timer, after StartReorderTimer; looseNow is how many
\* timers run without a handle.
StartReorderTimer(c, looseNow, now) ==
    /\ rx' = IF NeedsTimer(c)
             THEN [c EXCEPT !.handle = TRUE, !.reorderTxSeq = Oldest(c, now)] ELSE c
    /\ running' = NeedsTimer(c)
    /\ loose' = looseNow

\* How many nodes at the head of the list follow each other from expectedSeq on.
InSequence(c) ==
    LET ok == {n \in 0 .. Len(c.rxList) :
                  \A i \in 1 .. n : c.rxList[i].txSeq = SeqPlus(c.expectedSeq, i - 1)}
    IN  Max(ok)

\* ReportExpectedStreamFrame
Report(c) == SubSeq(c.rxList, 1, InSequence(c))
ReportExpectedStreamFrame(c) ==
    [c EXCEPT !.rxList = SubSeq(@, InSequence(c) + 1, Len(@)),
              !.expectedSeq = IF InSequence(c) = 0 THEN @ ELSE SeqPlus(@, InSequence(c))]

SdusOf(nodes) == [i \in 1 .. Len(nodes) |-> nodes[i].sdu]

-----------------------------------------------------------------------------
(* DTAP_RecvStreamFrame: the cases of a frame f.                           *)

HasRoom == Len(rx.rxList) <= CacheMax

\* the first frame of the channel: handed up, whatever its number
RecvFirst(f) ==
    /\ HasRoom /\ rx.expectedSeq = SeqInit
    /\ rx' = [rx EXCEPT !.expectedSeq = GetNextFrameSeq(f.txSeq),
                        !.maxExpectedSeq = GetNextFrameSeq(f.txSeq)]
    /\ delivered' = Append(delivered, f.sdu)
    /\ UNCHANGED <<timers, clock>>

\* the expected one: handed up with what follows it, and the timer starts afresh
RecvExpected(f) ==
    /\ HasRoom /\ f.txSeq = rx.expectedSeq
    /\ LET c == [rx EXCEPT !.expectedSeq = GetNextFrameSeq(@)]
       IN  /\ delivered' = Append(delivered, f.sdu) \o SdusOf(Report(c))
           /\ StartReorderTimer([ReportExpectedStreamFrame(c) EXCEPT !.handle = FALSE],
                                loose, clock)
    /\ UNCHANGED <<tasks, clock>>

\* Mutant: a frame that is held already is taken again.
OldOnly(f) == IsFrameSeqSmaller(f.txSeq, rx.expectedSeq)
Duplicate(f) ==
    \/ IsFrameSeqSmaller(f.txSeq, rx.expectedSeq)
    \/ \E i \in 1 .. Len(rx.rxList) : rx.rxList[i].txSeq = f.txSeq

\* one further on: held; the clock may advance before it is read again
RecvAhead(f) ==
    /\ HasRoom /\ rx.expectedSeq \notin {SeqInit, f.txSeq}
    /\ ~ Duplicate(f)
    /\ clock < MaxClock  \* the bound: time is left for the frame to wait
    /\ \E now \in {clock, clock + 1} :
         LET node == [txSeq |-> f.txSeq, sdu |-> f.sdu, timeStamp |-> clock]
             list == InsertStreamRxNode(rx.rxList, node)
             c == [rx EXCEPT !.rxList = list, !.maxExpectedSeq = LastTxSeqPlus1(list)]
         IN  /\ clock' = now
             /\ IF rx.handle THEN rx' = c /\ UNCHANGED <<running, loose>>
                ELSE StartReorderTimer(c, loose, now)
    /\ UNCHANGED <<tasks, delivered>>

\* no room, or a duplicate: dropped
RecvDropped(f) ==
    /\ \/ ~ HasRoom
       \/ rx.expectedSeq \notin {SeqInit, f.txSeq} /\ Duplicate(f)
    /\ UNCHANGED <<rx, timers, clock, delivered>>

RecvStreamFrame ==
    /\ \E i \in 1 .. Len(net) :
         /\ i <= 2  \* a frame overtakes at most one other
         /\ net' = RemoveAt(net, i)
         /\ RecvFirst(net[i]) \/ RecvExpected(net[i]) \/ RecvAhead(net[i]) \/ RecvDropped(net[i])
    /\ UNCHANGED <<sent, faults, dels>>

-----------------------------------------------------------------------------
(* The timer, and the channel's end.                                       *)

\* DTAP_ReorderStreamFrameCbk: the expiry posts a task.
TimerExpires ==
    /\ \/ running /\ running' = FALSE /\ UNCHANGED loose
       \/ loose > 0 /\ loose' = loose - 1 /\ UNCHANGED running
    /\ tasks' = tasks + 1
    /\ UNCHANGED <<sent, net, rx, clock, delivered, faults, dels>>

\* The nodes before the one the timer was for.
Before(c) ==
    LET n == {k \in 0 .. Len(c.rxList) :
                 \A i \in 1 .. k : IsFrameSeqSmaller(c.rxList[i].txSeq, c.reorderTxSeq)}
    IN  Max(n)

\* DTAP_ReorderStreamFrameTask: the nodes before the one the timer was for are handed up,
\* and what follows them in sequence; the timer starts again for what is left.  The
\* handle is forgotten first, also if another timer has been started meanwhile.
ReorderStreamFrameTask ==
    /\ tasks > 0
    /\ tasks' = tasks - 1
    /\ LET n == Before(rx)
           c == [rx EXCEPT !.handle = FALSE,
                           !.rxList = SubSeq(@, n + 1, Len(@)),
                           !.expectedSeq = IF n = 0 THEN @
                                           ELSE GetNextFrameSeq(rx.rxList[n].txSeq)]
           d == ReportExpectedStreamFrame(c)
       IN  /\ delivered' = delivered \o SdusOf(SubSeq(rx.rxList, 1, n)) \o SdusOf(Report(c))
           /\ StartReorderTimer([d EXCEPT !.maxExpectedSeq = LastTxSeqPlus1(d.rxList)],
                                loose + (IF running THEN 1 ELSE 0), clock)
    /\ UNCHANGED <<sent, net, clock, faults, dels>>

\* DTAP_StreamChannelDestroy and DTAP_StreamChannelCreate: the receiver leaves and joins
\* again with the same lcid and tcid.  The timer the handle names is deleted; loose timers
\* and posted tasks find the new channel.
Rejoin ==
    /\ dels < MaxDel
    /\ dels' = dels + 1
    /\ rx' = InitRx /\ running' = FALSE /\ delivered' = <<>>
    /\ UNCHANGED <<sent, net, loose, tasks, clock, faults>>

Next == SendStreamFrame \/ Repeat \/ Tick \/ RecvStreamFrame
           \/ TimerExpires \/ ReorderStreamFrameTask \/ Rejoin

Spec == Init /\ [][Next]_vars

-----------------------------------------------------------------------------
(* Properties.                                                             *)

\* What is handed up is in the order it was sent, and nothing twice, whatever the link
\* loses, repeats or reorders, however stale the expiries, and across the wrap of the
\* numbers (DTAP_RecvStreamFrame, DTAP_ReorderStreamFrameTask).
InOrderOnce ==
    \A i, j \in 1 .. Len(delivered) : i < j => delivered[i] < delivered[j]

\* Frames are never held without a timer that will look at them, or its task: no order
\* of expiries, late tasks and rejoining receivers leaves a gap unwatched.
GapIsTimed == rx.rxList # <<>> => running \/ loose > 0 \/ tasks > 0
=============================================================================
