-------------------------- MODULE DtapSchedulerProofs --------------------------
(***************************************************************************)
(* Proofs about the DTAP scheduler, for any links, channels, priorities,   *)
(* numbers of buffers and packets: the credits and the counts are right    *)
(* (CoreInv), a run passes over nothing it could send (ServedInv), the     *)
(* packets of a channel leave in their order (OrderInv), and the peer puts *)
(* together what was cut (WholeInv).                                       *)
(***************************************************************************)
EXTENDS DtapScheduler, ListLemmas

-----------------------------------------------------------------------------
(* Typing.                                                                 *)

Packets == [chan : Channels, num : Nat \ {0}, of : Nat \ {0}, idx : Nat]

BufTyped(b) ==
    b \in [ap : Nat \ {0}, g : Nat, list : Seq(Links), quota : [Links -> Nat],
           notAck : [Links -> Nat], queued : [Links -> Nat]]

QueuesTyped(qs) ==
    qs \in [lcids : [Priorities -> Seq(Links)],
            chans : [Priorities -> [Links -> Seq(AllChannels)]],
            pkts : [AllChannels -> Seq(Packets)],
            cnt : [Priorities -> Nat],
            nodeCnt : [Priorities -> [Links -> Nat]]]

Runs == [at : {"idle", "prio", "lcid", "chan", "frag"}, prio : Nat, visit : Seq(Links),
         sched : SUBSET Links, next : Nat]

RunTyped == run \in Runs

DliTyped == held \in [Links -> Nat] /\ lost \in [Links -> Nat]

-----------------------------------------------------------------------------
(* The inductive invariant.                                                *)

\* Lists: a channel with packets is listed where its priority and its link say, once,
\* and the link is listed there too.
ListsInv(qs) ==
    /\ \A p \in Priorities :
         /\ IsInjective(qs.lcids[p])
         /\ \A l \in Links :
              /\ IsInjective(qs.chans[p][l])
              /\ \A c \in AllChannels : Contains(qs.chans[p][l], c) => Priority(c) = p /\ c.lcid = l
              /\ qs.chans[p][l] # <<>> => Contains(qs.lcids[p], l)
    /\ \A c \in AllChannels : qs.pkts[c] # <<>> => Contains(qs.chans[Priority(c)][c.lcid], c)

CountsInv(qs) ==
    \A p \in Priorities :
         /\ qs.cnt[p] = Waiting(qs, {c \in AllChannels : Priority(c) = p})
         /\ \A l \in Links :
              qs.nodeCnt[p][l] = Waiting(qs, {c \in AllChannels : Priority(c) = p /\ c.lcid = l})

QueuedInv(qs, b) ==
    \A l \in Links : Connected(b, l) => b.queued[l] = Waiting(qs, {c \in AllChannels : c.lcid = l})

RunInv ==
    /\ run.at = "idle" => run = Idle
    /\ run.at # "idle" => inited
    /\ IsInjective(run.visit)
    /\ run.at \in {"lcid", "chan", "frag"} => run.prio \in Priorities
    /\ run.at \in {"chan", "frag"} => run.visit # <<>> /\ Connected(buf, Lcid)
    /\ run.at = "frag" => /\ Peek(run.prio, Lcid) # 0 /\ Pkt.idx = 0
                          /\ run.next \in 1 .. Pkt.of + 1

\* Link l is still to be visited for the queue of priority p.
ToVisit(p, l) ==
    \/ p > run.prio
    \/ p = run.prio /\ (run.at = "prio" \/ Contains(run.visit, l))

Frags(l) == q.pkts[FragmentChannel(l)]

\* Unless a send failed, what the run has passed waits for a link that may not send; and
\* when no run goes on, packets wait only for buffers that count as used.
Passed(c) == ~ CanSend(c.lcid) \/ ToVisit(Priority(c), c.lcid)
ServedInv ==
    /\ run.at # "idle" /\ ~ unserved => \A c \in AllChannels : q.pkts[c] # <<>> => Passed(c)
    /\ run.at = "idle" /\ ~ unserved =>
         \A c \in AllChannels : q.pkts[c] # <<>> /\ Connected(buf, c.lcid) => \E l \in Links : Counted[l] > 0

\* Order: f before g, as far as they are of one channel.
Before(f, g) ==
    f.chan = g.chan => f.num < g.num \/ (f.num = g.num /\ f.idx < g.idx /\ f.of = g.of)

Sorted(s) == \A i, j \in 1 .. Len(s) : i < j => Before(s[i], s[j])

\* What waits and is still to be sent: a packet is in its list until its last fragment is
\* sent and, for one turn, after that.
Ending == run.at = "frag" /\ run.next > Pkt.of
Unsent == [c \in AllChannels |-> IF Ending /\ c = Chan THEN Tail(q.pkts[c]) ELSE q.pkts[c]]

\* Of each channel the packets that were sent come first, then the one whose fragments are
\* saved, then the ones that wait, in the order in which they were given.
NumbersOK(w, mk, sent) ==
    /\ sent \subseteq [chan : Channels, num : Nat]
    /\ \A c \in AllChannels : Sorted(w[c]) /\ \A f \in ToSet(w[c]) : f.num <= mk[f.chan]
    /\ \A l \in Links : \A f \in ToSet(w[FragmentChannel(l)]) : \A g \in ToSet(w[f.chan]) : f.num < g.num
    /\ \A x \in sent :
         /\ x.num <= mk[x.chan]
         /\ \A g \in ToSet(w[x.chan]) : x.num < g.num
         /\ \A l \in Links : \A f \in ToSet(w[FragmentChannel(l)]) : f.chan = x.chan => x.num < f.num

NumbersInv == NumbersOK(Unsent, made, peer.sent)

\* No packet of a channel leaves while fragments of an earlier one wait: when the run comes
\* to the channel its link may not send, or its saved fragments went before.
Kept(l, f) ==
    LET p == Priority(f.chan)
    IN  \/ ~ CanSend(l) \/ ToVisit(FRAGMENT, l) \/ p < run.prio
        \/ p = run.prio /\ run.at # "prio" /\ ~ Contains(run.visit, l)

OvertakeInv ==
    /\ run.at # "idle" => \A l \in Links : \A f \in ToSet(Frags(l)) : Kept(l, f)
    /\ run.at = "frag" => \A f \in ToSet(Frags(Lcid)) : f.chan # Chan

\* f is fragment k of p; and what is split like it.
FragmentOf(f, p, k) == f = [p EXCEPT !.idx = k]
SameSplit(f, p) == \A i : [f EXCEPT !.idx = i] = [p EXCEPT !.idx = i]

\* The first n fragments of pkt, and the node of the peer that has them.
FirstOf(pkt, n) == [i \in 1 .. n |-> [pkt EXCEPT !.idx = i]]
Part(pkt, n) == [pb |-> IF n = 1 THEN FIRST ELSE MIDDLE, buf |-> FirstOf(pkt, n)]

\* The peer's node is empty or in the middle of a packet.
NodeOK(node) == node = NoNode \/ node.pb \in {FIRST, MIDDLE}

\* The fragments fs are the rest of one packet, and the peer has what comes before.
RestOK(fs, node) ==
    fs # <<>> =>
        LET f == Head(fs)
        IN  f.idx > 1 /\ fs = Fragments(f, f.idx) /\ node = Part(f, f.idx - 1)

\* While no fragment of a packet just split is refused and none is dropped: the fragments a link has saved are
\* the rest of what was sent last, and when a packet is split none are saved.
WholeInv ==
    ~ refused =>
       /\ run.at # "idle" => ~ unserved
       /\ PacketsNeverMix
       /\ DOMAIN peer.node = Links
       /\ \A l \in Links : NodeOK(peer.node[l]) /\ RestOK(Frags(l), peer.node[l])
       /\ run.at = "frag" => /\ Frags(Lcid) = <<>>
                             /\ run.next = 1 => CanSend(Lcid)
                             /\ run.next \in 2 .. Pkt.of => peer.node[Lcid] = Part(Pkt, run.next - 1)

-----------------------------------------------------------------------------
(* Channels, and sums over them.                                           *)

\* The channels with the FRAGMENT channels.
LEMMA ChannelFacts ==
    /\ IsFiniteSet(AllChannels)
    /\ FRAGMENT \in Priorities
    /\ \A c \in AllChannels : c.lcid \in Links /\ Priority(c) \in Priorities
    /\ \A c \in Channels : c \in AllChannels /\ Priority(c) \in Priorities /\ Priority(c) > 0 /\ c.lcid \in Links
    /\ \A l \in Links : /\ FragmentChannel(l) \in AllChannels /\ FragmentChannel(l) \notin Channels
                        /\ Priority(FragmentChannel(l)) = FRAGMENT /\ FragmentChannel(l).lcid = l
    /\ \A c \in AllChannels : c \in Channels \/ c = FragmentChannel(c.lcid)
    /\ \A c \in AllChannels : Priority(c) = FRAGMENT => c = FragmentChannel(c.lcid)
<1> DEFINE F == [l \in Links |-> FragmentChannel(l)]
           T == {FragmentChannel(l) : l \in Links}
<1>1. F \in Surjection(Links, T)
  BY DEF Surjection
<1>2. IsFiniteSet(T)
  <2> HIDE DEF F, T
  <2> QED BY <1>1, FS_Surjection, SchedulerAssumption
<1>3. IsFiniteSet(AllChannels)
  <2>1. AllChannels = Channels \cup T
    BY DEF AllChannels
  <2> HIDE DEF T
  <2> QED BY <2>1, <1>2, FS_Union, SchedulerAssumption
<1>4. FRAGMENT \in Priorities
  BY SchedulerAssumption DEF FRAGMENT, Priorities
<1>5. ASSUME NEW c \in Channels
      PROVE  c \in AllChannels /\ Priority(c) \in Priorities /\ Priority(c) > 0 /\ c.lcid \in Links
  <2>1. Priority(c) = PriorityOf[c] /\ PriorityOf[c] \in 1 .. NumPriorities - 1
    BY SchedulerAssumption DEF Priority
  <2> QED BY <2>1, SchedulerAssumption DEF AllChannels, Priorities
<1>6. ASSUME NEW l \in Links
      PROVE  /\ FragmentChannel(l) \in AllChannels /\ FragmentChannel(l) \notin Channels
             /\ Priority(FragmentChannel(l)) = FRAGMENT /\ FragmentChannel(l).lcid = l
  BY SchedulerAssumption DEF FragmentChannel, AllChannels, Priority
<1>7. \A c \in AllChannels : c \in Channels \/ c = FragmentChannel(c.lcid)
  BY DEF AllChannels, FragmentChannel
<1>8. \A c \in AllChannels : c.lcid \in Links /\ Priority(c) \in Priorities
  <2>1. \A c \in AllChannels : c \in Channels \/ \E l \in Links : c = FragmentChannel(l)
    BY DEF AllChannels
  <2> QED BY <2>1, <1>4, <1>5, <1>6
<1>9. \A c \in AllChannels : Priority(c) = FRAGMENT => c = FragmentChannel(c.lcid)
  BY <1>5, <1>7 DEF FRAGMENT
<1> QED BY <1>3, <1>4, <1>5, <1>6, <1>7, <1>8, <1>9

\* Waiting counts packets: it is zero exactly if all its channels are empty.
LEMMA WaitingType ==
    ASSUME NEW qs, QueuesTyped(qs), NEW S \in SUBSET AllChannels
    PROVE  /\ Waiting(qs, S) \in Nat
           /\ Waiting(qs, S) = 0 <=> \A c \in S : qs.pkts[c] = <<>>
           /\ \A c \in S : Len(qs.pkts[c]) \in Nat /\ Len(qs.pkts[c]) <= Waiting(qs, S)
<1> DEFINE f == [c \in AllChannels |-> Len(qs.pkts[c])]
<1>1. \A c \in AllChannels : qs.pkts[c] \in Seq(Packets)
  BY DEF QueuesTyped
<1>2. \A c \in AllChannels : Len(qs.pkts[c]) \in Nat /\ (Len(qs.pkts[c]) = 0 <=> qs.pkts[c] = <<>>)
  BY <1>1, EmptySeq, LenProperties
<1>3. \A c \in S : f[c] \in Nat /\ f[c] = Len(qs.pkts[c])
  BY <1>2
<1>4. IsFiniteSet(S)
  BY ChannelFacts, FS_Subset
<1>5. Waiting(qs, S) = SumFunctionOnSet(f, S)
  BY DEF Waiting
<1> HIDE DEF f
<1>6. /\ SumFunctionOnSet(f, S) \in Nat
      /\ \A c \in S : f[c] <= SumFunctionOnSet(f, S)
      /\ SumFunctionOnSet(f, S) = 0 <=> \A c \in S : f[c] = 0
  BY <1>3, <1>4, SumType, SumParts
<1> QED BY <1>2, <1>3, <1>5, <1>6

\* What it becomes when one channel changes.
LEMMA WaitingChange ==
    ASSUME NEW qs, QueuesTyped(qs), NEW rs, QueuesTyped(rs), NEW c \in AllChannels,
           \A d \in AllChannels \ {c} : rs.pkts[d] = qs.pkts[d],
           NEW S \in SUBSET AllChannels
    PROVE  Waiting(rs, S) = IF c \in S THEN Waiting(qs, S) - Len(qs.pkts[c]) + Len(rs.pkts[c])
                            ELSE Waiting(qs, S)
<1> DEFINE f == [d \in AllChannels |-> Len(qs.pkts[d])]
           g == [d \in AllChannels |-> Len(rs.pkts[d])]
<1>1. \A d \in AllChannels : Len(qs.pkts[d]) \in Nat /\ Len(rs.pkts[d]) \in Nat
  BY WaitingType
<1>2. \A d \in S : f[d] \in Nat /\ g[d] \in Nat /\ f[d] = Len(qs.pkts[d]) /\ g[d] = Len(rs.pkts[d])
  BY <1>1
<1>3. \A d \in S \ {c} : f[d] = g[d]
  BY <1>2
<1>4. IsFiniteSet(S)
  BY ChannelFacts, FS_Subset
<1>5. Waiting(qs, S) = SumFunctionOnSet(f, S) /\ Waiting(rs, S) = SumFunctionOnSet(g, S)
  BY DEF Waiting
<1> HIDE DEF f, g
<1>6. CASE c \in S
  <2>1. SumFunctionOnSet(g, S) = SumFunctionOnSet(f, S) - f[c] + g[c]
    BY <1>2, <1>3, <1>4, <1>6, SumChange
  <2> QED BY <2>1, <1>2, <1>5, <1>6
<1>7. CASE c \notin S
  <2>1. \A d \in S : f[d] = g[d]
    BY <1>3, <1>7
  <2>2. SumFunctionOnSet(f, S) = SumFunctionOnSet(g, S)
    BY <2>1, <1>4, SumSame
  <2> QED BY <2>2, <1>5, <1>7
<1> QED BY <1>6, <1>7

\* The queues rs differ from qs at channel c only.
SameElsewhere(qs, rs, c) ==
    /\ \A d \in AllChannels \ {c} : rs.pkts[d] = qs.pkts[d]
    /\ \A p \in Priorities \ {Priority(c)} :
         /\ rs.lcids[p] = qs.lcids[p] /\ rs.chans[p] = qs.chans[p]
         /\ rs.cnt[p] = qs.cnt[p] /\ rs.nodeCnt[p] = qs.nodeCnt[p]
    /\ \A l \in Links \ {c.lcid} :
         /\ rs.chans[Priority(c)][l] = qs.chans[Priority(c)][l]
         /\ rs.nodeCnt[Priority(c)][l] = qs.nodeCnt[Priority(c)][l]

\* There the counts follow the packets ...
CountsFollow(qs, rs, c) ==
    /\ rs.cnt[Priority(c)] = qs.cnt[Priority(c)] - Len(qs.pkts[c]) + Len(rs.pkts[c])
    /\ rs.nodeCnt[Priority(c)][c.lcid]
          = qs.nodeCnt[Priority(c)][c.lcid] - Len(qs.pkts[c]) + Len(rs.pkts[c])

\* ... and the lists too.
ListsFollow(qs, rs, c) ==
    LET p == Priority(c)
        l == c.lcid
    IN  /\ IsInjective(rs.lcids[p]) /\ IsInjective(rs.chans[p][l])
        /\ \A m \in Links \ {l} : Contains(qs.lcids[p], m) => Contains(rs.lcids[p], m)
        /\ \A d \in AllChannels \ {c} : Contains(rs.chans[p][l], d) <=> Contains(qs.chans[p][l], d)
        /\ rs.pkts[c] # <<>> => Contains(rs.chans[p][l], c)
        /\ rs.chans[p][l] # <<>> => Contains(rs.lcids[p], l)

\* Counts that follow the change of one channel stay right.
LEMMA CountsChange ==
    ASSUME NEW qs, QueuesTyped(qs), CountsInv(qs), NEW rs, QueuesTyped(rs), NEW c \in AllChannels,
           SameElsewhere(qs, rs, c), CountsFollow(qs, rs, c)
    PROVE  CountsInv(rs)
<1>0. /\ \A d \in AllChannels \ {c} : rs.pkts[d] = qs.pkts[d]
      /\ \A p \in Priorities : rs.cnt[p] =
           IF p = Priority(c) THEN qs.cnt[p] - Len(qs.pkts[c]) + Len(rs.pkts[c]) ELSE qs.cnt[p]
      /\ \A p \in Priorities : \A l \in Links : rs.nodeCnt[p][l] =
           IF p = Priority(c) /\ l = c.lcid
           THEN qs.nodeCnt[p][l] - Len(qs.pkts[c]) + Len(rs.pkts[c]) ELSE qs.nodeCnt[p][l]
  BY DEF SameElsewhere, CountsFollow
<1>1. SUFFICES ASSUME NEW p \in Priorities
               PROVE  /\ rs.cnt[p] = Waiting(rs, {d \in AllChannels : Priority(d) = p})
                      /\ \A l \in Links : rs.nodeCnt[p][l] =
                            Waiting(rs, {d \in AllChannels : Priority(d) = p /\ d.lcid = l})
  BY DEF CountsInv
<1>2. rs.cnt[p] = Waiting(rs, {d \in AllChannels : Priority(d) = p})
  <2> DEFINE S == {d \in AllChannels : Priority(d) = p}
  <2>1. S \in SUBSET AllChannels /\ (c \in S <=> p = Priority(c))
    OBVIOUS
  <2>2. qs.cnt[p] = Waiting(qs, S)
    BY DEF CountsInv
  <2> HIDE DEF S
  <2>3. Waiting(rs, S) = IF c \in S THEN Waiting(qs, S) - Len(qs.pkts[c]) + Len(rs.pkts[c])
                         ELSE Waiting(qs, S)
    BY <1>0, <2>1, WaitingChange
  <2>4. rs.cnt[p] = Waiting(rs, S)
    BY <1>0, <2>1, <2>2, <2>3
  <2> QED BY <2>4 DEF S
<1>3. ASSUME NEW l \in Links
      PROVE  rs.nodeCnt[p][l] = Waiting(rs, {d \in AllChannels : Priority(d) = p /\ d.lcid = l})
  <2> DEFINE S == {d \in AllChannels : Priority(d) = p /\ d.lcid = l}
  <2>1. S \in SUBSET AllChannels /\ (c \in S <=> p = Priority(c) /\ l = c.lcid)
    OBVIOUS
  <2>2. qs.nodeCnt[p][l] = Waiting(qs, S)
    BY DEF CountsInv
  <2> HIDE DEF S
  <2>3. Waiting(rs, S) = IF c \in S THEN Waiting(qs, S) - Len(qs.pkts[c]) + Len(rs.pkts[c])
                         ELSE Waiting(qs, S)
    BY <1>0, <2>1, WaitingChange
  <2>4. rs.nodeCnt[p][l] = Waiting(rs, S)
    BY <1>0, <2>1, <2>2, <2>3
  <2> QED BY <2>4 DEF S
<1> QED BY <1>2, <1>3

-----------------------------------------------------------------------------
(* The operations on the queues.                                           *)

QueuesOK(qs) == QueuesTyped(qs) /\ ListsInv(qs) /\ CountsInv(qs)

\* The fields of typed queues.
LEMMA QueuesFields ==
    ASSUME NEW qs, QueuesTyped(qs)
    PROVE  /\ qs.lcids \in [Priorities -> Seq(Links)]
           /\ qs.chans \in [Priorities -> [Links -> Seq(AllChannels)]]
           /\ qs.pkts \in [AllChannels -> Seq(Packets)]
           /\ qs.cnt \in [Priorities -> Nat]
           /\ qs.nodeCnt \in [Priorities -> [Links -> Nat]]
           /\ \A p \in Priorities : qs.lcids[p] \in Seq(Links) /\ qs.cnt[p] \in Nat
           /\ \A p \in Priorities : \A l \in Links :
                qs.chans[p][l] \in Seq(AllChannels) /\ qs.nodeCnt[p][l] \in Nat
           /\ \A c \in AllChannels : qs.pkts[c] \in Seq(Packets) /\ Len(qs.pkts[c]) \in Nat
<1>1. /\ qs.lcids \in [Priorities -> Seq(Links)]
      /\ qs.chans \in [Priorities -> [Links -> Seq(AllChannels)]]
      /\ qs.pkts \in [AllChannels -> Seq(Packets)]
      /\ qs.cnt \in [Priorities -> Nat]
      /\ qs.nodeCnt \in [Priorities -> [Links -> Nat]]
  BY DEF QueuesTyped
<1>2. \A c \in AllChannels : qs.pkts[c] \in Seq(Packets) /\ Len(qs.pkts[c]) \in Nat
  BY <1>1, LenProperties
<1> QED BY <1>1, <1>2

\* Lists that change at one channel only.
LEMMA ListsChange ==
    ASSUME NEW qs, QueuesTyped(qs), ListsInv(qs), NEW rs, QueuesTyped(rs), NEW c \in AllChannels,
           SameElsewhere(qs, rs, c), ListsFollow(qs, rs, c)
    PROVE  ListsInv(rs)
<1>0. PICK p : p = Priority(c)
  OBVIOUS
<1>1. PICK l : l = c.lcid
  OBVIOUS
<1>2. /\ p \in Priorities /\ l \in Links
      /\ \A d \in AllChannels \ {c} : rs.pkts[d] = qs.pkts[d]
      /\ \A o \in Priorities \ {p} : rs.lcids[o] = qs.lcids[o] /\ rs.chans[o] = qs.chans[o]
      /\ \A m \in Links \ {l} : rs.chans[p][m] = qs.chans[p][m]
  BY <1>0, <1>1, ChannelFacts DEF SameElsewhere
<1>3. /\ IsInjective(rs.lcids[p]) /\ IsInjective(rs.chans[p][l])
      /\ \A m \in Links \ {l} : Contains(qs.lcids[p], m) => Contains(rs.lcids[p], m)
      /\ \A d \in AllChannels \ {c} : Contains(rs.chans[p][l], d) <=> Contains(qs.chans[p][l], d)
      /\ rs.pkts[c] # <<>> => Contains(rs.chans[p][l], c)
      /\ rs.chans[p][l] # <<>> => Contains(rs.lcids[p], l)
  BY <1>0, <1>1 DEF ListsFollow
<1>4. ASSUME NEW o \in Priorities
      PROVE  /\ IsInjective(rs.lcids[o])
             /\ \A m \in Links :
                  /\ IsInjective(rs.chans[o][m])
                  /\ \A d \in AllChannels : Contains(rs.chans[o][m], d) => Priority(d) = o /\ d.lcid = m
                  /\ rs.chans[o][m] # <<>> => Contains(rs.lcids[o], m)
  <2>1. CASE o # p
    <3>1. rs.lcids[o] = qs.lcids[o] /\ rs.chans[o] = qs.chans[o]
      BY <2>1, <1>2
    <3> QED BY <3>1 DEF ListsInv
  <2>2. CASE o = p
    <3>1. ASSUME NEW m \in Links, m # l
          PROVE  /\ IsInjective(rs.chans[o][m])
                 /\ \A d \in AllChannels : Contains(rs.chans[o][m], d) => Priority(d) = o /\ d.lcid = m
                 /\ rs.chans[o][m] # <<>> => Contains(rs.lcids[o], m)
      BY <2>2, <3>1, <1>2, <1>3 DEF ListsInv
    <3>2. \A d \in AllChannels : Contains(rs.chans[p][l], d) => Priority(d) = p /\ d.lcid = l
      BY <1>0, <1>1, <1>2, <1>3 DEF ListsInv
    <3> QED BY <2>2, <3>1, <3>2, <1>3
  <2> QED BY <2>1, <2>2
<1>5. ASSUME NEW d \in AllChannels, rs.pkts[d] # <<>>
      PROVE  Contains(rs.chans[Priority(d)][d.lcid], d)
  <2>1. CASE d = c
    BY <2>1, <1>5, <1>0, <1>1, <1>3
  <2>2. CASE d # c
    <3>1. Contains(qs.chans[Priority(d)][d.lcid], d)
      BY <2>2, <1>5, <1>2 DEF ListsInv
    <3>2. Priority(d) \in Priorities /\ d.lcid \in Links
      BY ChannelFacts
    <3>3. CASE Priority(d) # p
      BY <3>1, <3>2, <3>3, <1>2
    <3>4. CASE Priority(d) = p /\ d.lcid # l
      BY <3>1, <3>2, <3>4, <1>2
    <3>5. CASE Priority(d) = p /\ d.lcid = l
      BY <3>1, <3>5, <2>2, <1>3
    <3> QED BY <3>3, <3>4, <3>5
  <2> QED BY <2>1, <2>2
<1> QED BY <1>4, <1>5 DEF ListsInv

\* What every operation on one channel does to the queues: e has the new values.
Edited(qs, c, e) ==
    [qs EXCEPT !.lcids[Priority(c)] = e.ls, !.chans[Priority(c)][c.lcid] = e.cs, !.pkts[c] = e.ks,
               !.cnt[Priority(c)] = e.n, !.nodeCnt[Priority(c)][c.lcid] = e.k]

Edits == [ls : Seq(Links), cs : Seq(AllChannels), ks : Seq(Packets), n : Nat, k : Nat]

\* The fields of queues changed at one channel.
LEMMA EditedFields ==
    ASSUME NEW qs, QueuesTyped(qs), NEW c \in AllChannels, NEW e \in Edits,
           NEW rs, rs = Edited(qs, c, e)
    PROVE  /\ QueuesTyped(rs) /\ SameElsewhere(qs, rs, c)
           /\ rs.lcids = [qs.lcids EXCEPT ![Priority(c)] = e.ls]
           /\ rs.pkts = [qs.pkts EXCEPT ![c] = e.ks] /\ rs.pkts[c] = e.ks
           /\ rs.lcids[Priority(c)] = e.ls /\ rs.chans[Priority(c)][c.lcid] = e.cs
           /\ rs.cnt[Priority(c)] = e.n /\ rs.nodeCnt[Priority(c)][c.lcid] = e.k
<1>0. PICK p : p = Priority(c)
  OBVIOUS
<1>1. PICK l : l = c.lcid
  OBVIOUS
<1>2. p \in Priorities /\ l \in Links
  BY <1>0, <1>1, ChannelFacts
<1>3. /\ qs.lcids \in [Priorities -> Seq(Links)]
      /\ qs.chans \in [Priorities -> [Links -> Seq(AllChannels)]]
      /\ qs.pkts \in [AllChannels -> Seq(Packets)]
      /\ qs.cnt \in [Priorities -> Nat]
      /\ qs.nodeCnt \in [Priorities -> [Links -> Nat]]
  BY QueuesFields
<1>4. qs = [lcids |-> qs.lcids, chans |-> qs.chans, pkts |-> qs.pkts, cnt |-> qs.cnt,
            nodeCnt |-> qs.nodeCnt]
  BY DEF QueuesTyped
<1>5. rs = [lcids |-> [qs.lcids EXCEPT ![p] = e.ls],
            chans |-> [qs.chans EXCEPT ![p][l] = e.cs],
            pkts |-> [qs.pkts EXCEPT ![c] = e.ks],
            cnt |-> [qs.cnt EXCEPT ![p] = e.n],
            nodeCnt |-> [qs.nodeCnt EXCEPT ![p][l] = e.k]]
  BY <1>0, <1>1, <1>4 DEF Edited
<1>6. /\ rs.lcids = [qs.lcids EXCEPT ![p] = e.ls]
      /\ rs.chans = [qs.chans EXCEPT ![p][l] = e.cs]
      /\ rs.pkts = [qs.pkts EXCEPT ![c] = e.ks]
      /\ rs.cnt = [qs.cnt EXCEPT ![p] = e.n]
      /\ rs.nodeCnt = [qs.nodeCnt EXCEPT ![p][l] = e.k]
      /\ rs = [lcids |-> rs.lcids, chans |-> rs.chans, pkts |-> rs.pkts, cnt |-> rs.cnt,
               nodeCnt |-> rs.nodeCnt]
  BY <1>5
<1>7. e.ls \in Seq(Links) /\ e.cs \in Seq(AllChannels) /\ e.ks \in Seq(Packets) /\ e.n \in Nat /\ e.k \in Nat
  BY DEF Edits
<1>8. /\ rs.lcids \in [Priorities -> Seq(Links)] /\ rs.pkts \in [AllChannels -> Seq(Packets)]
      /\ rs.cnt \in [Priorities -> Nat]
  BY <1>2, <1>3, <1>6, <1>7
<1>9. rs.chans \in [Priorities -> [Links -> Seq(AllChannels)]]
  BY <1>2, <1>3, <1>6, <1>7
<1>10. rs.nodeCnt \in [Priorities -> [Links -> Nat]]
  BY <1>2, <1>3, <1>6, <1>7
<1>11. QueuesTyped(rs)
  BY <1>6, <1>8, <1>9, <1>10 DEF QueuesTyped
<1>12. /\ rs.lcids[p] = e.ls /\ rs.chans[p][l] = e.cs /\ rs.pkts[c] = e.ks
       /\ rs.cnt[p] = e.n /\ rs.nodeCnt[p][l] = e.k
       /\ \A d \in AllChannels \ {c} : rs.pkts[d] = qs.pkts[d]
  BY <1>2, <1>3, <1>6
<1>13. \A o \in Priorities \ {p} :
                /\ rs.lcids[o] = qs.lcids[o] /\ rs.chans[o] = qs.chans[o]
                /\ rs.cnt[o] = qs.cnt[o] /\ rs.nodeCnt[o] = qs.nodeCnt[o]
  BY <1>2, <1>3, <1>6
<1>14. \A m \in Links \ {l} : rs.chans[p][m] = qs.chans[p][m] /\ rs.nodeCnt[p][m] = qs.nodeCnt[p][m]
  BY <1>2, <1>3, <1>6
<1>15. SameElsewhere(qs, rs, c)
  BY <1>0, <1>1, <1>12, <1>13, <1>14 DEF SameElsewhere
<1> QED BY <1>0, <1>1, <1>6, <1>11, <1>12, <1>15

\* The change keeps the counts and the lists right.
EditFollows(qs, c, e) ==
    LET p == Priority(c)
        l == c.lcid
    IN  /\ e.n = qs.cnt[p] - Len(qs.pkts[c]) + Len(e.ks)
        /\ e.k = qs.nodeCnt[p][l] - Len(qs.pkts[c]) + Len(e.ks)
        /\ IsInjective(e.ls) /\ IsInjective(e.cs)
        /\ \A m \in Links \ {l} : Contains(qs.lcids[p], m) => Contains(e.ls, m)
        /\ \A d \in AllChannels \ {c} : Contains(e.cs, d) <=> Contains(qs.chans[p][l], d)
        /\ e.ks # <<>> => Contains(e.cs, c)
        /\ e.cs # <<>> => Contains(e.ls, l)

\* The packets and the links of the queues after it.
AfterEdit(qs, c, e, rs) ==
    /\ rs.pkts = [qs.pkts EXCEPT ![c] = e.ks] /\ rs.pkts[c] = e.ks
    /\ rs.lcids = [qs.lcids EXCEPT ![Priority(c)] = e.ls]

\* Then it keeps the queues well-formed.
LEMMA EditOK ==
    ASSUME NEW qs, QueuesOK(qs), NEW c \in AllChannels, NEW e \in Edits, EditFollows(qs, c, e),
           NEW rs, rs = Edited(qs, c, e)
    PROVE  QueuesOK(rs) /\ AfterEdit(qs, c, e, rs)
<1>1. QueuesTyped(qs)
  BY DEF QueuesOK
<1>2. /\ QueuesTyped(rs) /\ SameElsewhere(qs, rs, c)
      /\ rs.lcids = [qs.lcids EXCEPT ![Priority(c)] = e.ls]
      /\ rs.pkts = [qs.pkts EXCEPT ![c] = e.ks] /\ rs.pkts[c] = e.ks
      /\ rs.lcids[Priority(c)] = e.ls /\ rs.chans[Priority(c)][c.lcid] = e.cs
      /\ rs.cnt[Priority(c)] = e.n /\ rs.nodeCnt[Priority(c)][c.lcid] = e.k
  BY <1>1, EditedFields
<1>3. CountsFollow(qs, rs, c)
  BY <1>2, Zenon DEF CountsFollow, EditFollows
<1>4. ListsFollow(qs, rs, c)
  BY <1>2, Zenon DEF ListsFollow, EditFollows
<1>5. ListsInv(rs) /\ CountsInv(rs)
  BY <1>1, <1>2, <1>3, <1>4, ListsChange, CountsChange DEF QueuesOK
<1> QED BY <1>2, <1>5 DEF QueuesOK, AfterEdit

\* The counts of a channel's queue are not less than its packets.
LEMMA CountsCover ==
    ASSUME NEW qs, QueuesOK(qs), NEW c \in AllChannels, NEW p, p = Priority(c), NEW l, l = c.lcid
    PROVE  /\ p \in Priorities /\ l \in Links
           /\ qs.cnt[p] \in Nat /\ qs.nodeCnt[p][l] \in Nat /\ Len(qs.pkts[c]) \in Nat
           /\ Len(qs.pkts[c]) <= qs.cnt[p] /\ Len(qs.pkts[c]) <= qs.nodeCnt[p][l]
<1>1. QueuesTyped(qs) /\ CountsInv(qs) /\ p \in Priorities /\ l \in Links
  BY ChannelFacts DEF QueuesOK
<1>2. qs.cnt[p] \in Nat /\ qs.nodeCnt[p][l] \in Nat /\ Len(qs.pkts[c]) \in Nat
  BY <1>1, QueuesFields
<1> DEFINE S == {d \in AllChannels : Priority(d) = p}
           T == {d \in AllChannels : Priority(d) = p /\ d.lcid = l}
<1>3. qs.cnt[p] = Waiting(qs, S) /\ qs.nodeCnt[p][l] = Waiting(qs, T)
  BY <1>1 DEF CountsInv
<1>4. c \in S /\ c \in T /\ S \in SUBSET AllChannels /\ T \in SUBSET AllChannels
  OBVIOUS
<1> HIDE DEF S, T
<1>5. Len(qs.pkts[c]) <= Waiting(qs, S) /\ Len(qs.pkts[c]) <= Waiting(qs, T)
  BY <1>1, <1>4, WaitingType
<1> QED BY <1>1, <1>2, <1>3, <1>5

\* The change that DTAP_PriorityQueuePush makes.
LEMMA PushEdit ==
    ASSUME NEW qs, QueuesOK(qs), NEW c \in AllChannels, NEW ps \in Seq(Packets)
    PROVE  \E e \in Edits : /\ PriorityQueuePush(qs, c, ps) = Edited(qs, c, e)
                            /\ EditFollows(qs, c, e)
                            /\ e.ks = qs.pkts[c] \o ps /\ Len(e.ks) = Len(qs.pkts[c]) + Len(ps)
<1>1. PICK p : p = Priority(c)
  OBVIOUS
<1>2. PICK l : l = c.lcid
  OBVIOUS
<1>3. /\ p \in Priorities /\ l \in Links
      /\ qs.cnt[p] \in Nat /\ qs.nodeCnt[p][l] \in Nat /\ Len(qs.pkts[c]) \in Nat
  BY <1>1, <1>2, CountsCover
<1>4. QueuesTyped(qs) /\ ListsInv(qs)
  BY DEF QueuesOK
<1>5. PICK ls : ls = IF Contains(qs.lcids[p], l) THEN qs.lcids[p] ELSE Append(qs.lcids[p], l)
  OBVIOUS
<1>6. PICK cs : cs = IF Contains(qs.chans[p][l], c) THEN qs.chans[p][l] ELSE Append(qs.chans[p][l], c)
  OBVIOUS
<1>7. PICK ks : ks = qs.pkts[c] \o ps
  OBVIOUS
<1>8. PICK e : e = [ls |-> ls, cs |-> cs, ks |-> ks, n |-> qs.cnt[p] + Len(ps),
                    k |-> qs.nodeCnt[p][l] + Len(ps)]
  OBVIOUS
<1>9. PriorityQueuePush(qs, c, ps) = Edited(qs, c, e)
  BY <1>1, <1>2, <1>5, <1>6, <1>7, <1>8 DEF PriorityQueuePush, TailInsert, Edited
<1>10. /\ ls \in Seq(Links) /\ IsInjective(ls) /\ Contains(ls, l)
      /\ \A m : Contains(qs.lcids[p], m) => Contains(ls, m)
  <2>1. qs.lcids[p] \in Seq(Links) /\ IsInjective(qs.lcids[p])
    BY <1>3, <1>4, QueuesFields DEF ListsInv
  <2> QED BY <2>1, <1>3, <1>5, AppendElements, AppendInjectiveList
<1>11. /\ cs \in Seq(AllChannels) /\ IsInjective(cs) /\ Contains(cs, c)
      /\ \A d : d # c => (Contains(cs, d) <=> Contains(qs.chans[p][l], d))
  <2>1. qs.chans[p][l] \in Seq(AllChannels) /\ IsInjective(qs.chans[p][l])
    BY <1>3, <1>4, QueuesFields DEF ListsInv
  <2> QED BY <2>1, <1>6, AppendElements, AppendInjectiveList
<1>12. ks \in Seq(Packets) /\ Len(ks) = Len(qs.pkts[c]) + Len(ps) /\ Len(ps) \in Nat
  <2>1. qs.pkts[c] \in Seq(Packets)
    BY <1>4, QueuesFields
  <2> QED BY <2>1, <1>7, ConcatProperties, LenProperties
<1>13. ASSUME NEW x \in Nat
       PROVE  x + Len(ps) \in Nat /\ x + Len(ps) = x - Len(qs.pkts[c]) + Len(ks)
  <2>1. PICK y \in Nat : y = Len(ps)
    BY <1>12
  <2>2. PICK z \in Nat : z = Len(qs.pkts[c])
    BY <1>3
  <2>3. Len(ks) = z + y
    BY <1>12, <2>1, <2>2
  <2>4. x + y \in Nat /\ x + y = x - z + (z + y)
    OBVIOUS
  <2> QED BY <2>1, <2>2, <2>3, <2>4
<1>14. e \in Edits /\ e.ls = ls /\ e.cs = cs /\ e.ks = ks
       /\ e.n = qs.cnt[p] + Len(ps) /\ e.k = qs.nodeCnt[p][l] + Len(ps)
  <2>1. qs.cnt[p] + Len(ps) \in Nat /\ qs.nodeCnt[p][l] + Len(ps) \in Nat
    BY <1>3, <1>13
  <2> QED BY <2>1, <1>8, <1>10, <1>11, <1>12 DEF Edits
<1>15. EditFollows(qs, c, e)
  <2>1. /\ e.n = qs.cnt[p] - Len(qs.pkts[c]) + Len(e.ks)
        /\ e.k = qs.nodeCnt[p][l] - Len(qs.pkts[c]) + Len(e.ks)
    BY <1>3, <1>13, <1>14, Zenon
  <2> QED BY <2>1, <1>1, <1>2, <1>10, <1>11, <1>14 DEF EditFollows
<1> QED BY <1>7, <1>9, <1>12, <1>14, <1>15

\* The change that DTAP_PriorityQueuePop makes.
LEMMA PopEdit ==
    ASSUME QueuesOK(q), NEW c \in AllChannels, NEW p, p = Priority(c), NEW l, l = c.lcid,
           q.pkts[c] # <<>>
    PROVE  \E e \in Edits : /\ PriorityQueuePop(p, l, c) = Edited(q, c, e)
                            /\ EditFollows(q, c, e)
                            /\ e.ks = Tail(q.pkts[c]) /\ e.ls = q.lcids[p]
                            /\ Len(e.ks) = Len(q.pkts[c]) - 1 /\ Len(q.pkts[c]) \in Nat \ {0}
<1>1. QueuesTyped(q) /\ ListsInv(q)
  BY DEF QueuesOK
<1>2. /\ p \in Priorities /\ l \in Links
      /\ q.cnt[p] \in Nat /\ q.nodeCnt[p][l] \in Nat /\ Len(q.pkts[c]) \in Nat
      /\ Len(q.pkts[c]) <= q.cnt[p] /\ Len(q.pkts[c]) <= q.nodeCnt[p][l]
  BY CountsCover
<1>3. PICK cs : cs = IF Len(q.pkts[c]) > 1 THEN Append(RemoveFirst(q.chans[p][l], c), c) ELSE q.chans[p][l]
  OBVIOUS
<1>4. PICK ks : ks = Tail(q.pkts[c])
  OBVIOUS
<1>5. PICK e : e = [ls |-> q.lcids[p], cs |-> cs, ks |-> ks, n |-> Sub(q.cnt[p], 1),
                    k |-> Sub(q.nodeCnt[p][l], 1)]
  OBVIOUS
<1>6. /\ q.lcids[p] \in Seq(Links) /\ IsInjective(q.lcids[p])
      /\ q.chans[p][l] # <<>> => Contains(q.lcids[p], l)
      /\ [q.lcids EXCEPT ![p] = q.lcids[p]] = q.lcids
  BY <1>1, <1>2, QueuesFields DEF ListsInv
<1>7. PriorityQueuePop(p, l, c) = Edited(q, c, e)
  <2>0. PICK rs : rs = PriorityQueuePop(p, l, c)
    OBVIOUS
  <2>1. rs = [q EXCEPT !.pkts[c] = ks, !.chans[p][l] = cs, !.nodeCnt[p][l] = Sub(q.nodeCnt[p][l], 1),
                       !.cnt[p] = Sub(q.cnt[p], 1)]
    BY <2>0, <1>3, <1>4 DEF PriorityQueuePop
  <2>2. q = [lcids |-> q.lcids, chans |-> q.chans, pkts |-> q.pkts, cnt |-> q.cnt,
             nodeCnt |-> q.nodeCnt]
    BY <1>1 DEF QueuesTyped
  <2>3. rs = [lcids |-> q.lcids, chans |-> [q.chans EXCEPT ![p][l] = cs],
              pkts |-> [q.pkts EXCEPT ![c] = ks], cnt |-> [q.cnt EXCEPT ![p] = Sub(q.cnt[p], 1)],
              nodeCnt |-> [q.nodeCnt EXCEPT ![p][l] = Sub(q.nodeCnt[p][l], 1)]]
    BY <2>1, <2>2
  <2>4. Edited(q, c, e) =
             [lcids |-> [q.lcids EXCEPT ![p] = q.lcids[p]], chans |-> [q.chans EXCEPT ![p][l] = cs],
              pkts |-> [q.pkts EXCEPT ![c] = ks], cnt |-> [q.cnt EXCEPT ![p] = Sub(q.cnt[p], 1)],
              nodeCnt |-> [q.nodeCnt EXCEPT ![p][l] = Sub(q.nodeCnt[p][l], 1)]]
    <3>1. PICK ls, n, k : ls = q.lcids[p] /\ n = Sub(q.cnt[p], 1) /\ k = Sub(q.nodeCnt[p][l], 1)
      OBVIOUS
    <3>2. e.ls = ls /\ e.cs = cs /\ e.ks = ks /\ e.n = n /\ e.k = k
      BY <1>5, <3>1
    <3>3. Edited(q, c, e) = [q EXCEPT !.lcids[p] = ls, !.chans[p][l] = cs, !.pkts[c] = ks,
                                      !.cnt[p] = n, !.nodeCnt[p][l] = k]
      BY <3>2 DEF Edited
    <3>4. Edited(q, c, e) =
             [lcids |-> [q.lcids EXCEPT ![p] = ls], chans |-> [q.chans EXCEPT ![p][l] = cs],
              pkts |-> [q.pkts EXCEPT ![c] = ks], cnt |-> [q.cnt EXCEPT ![p] = n],
              nodeCnt |-> [q.nodeCnt EXCEPT ![p][l] = k]]
      BY <3>3, <2>2, ZenonT(60)
    <3> QED BY <3>1, <3>4
  <2> QED BY <2>0, <2>3, <2>4, <1>6
<1>8. /\ q.pkts[c] \in Seq(Packets) /\ q.chans[p][l] \in Seq(AllChannels) /\ IsInjective(q.chans[p][l])
      /\ Contains(q.chans[p][l], c)
  BY <1>1, <1>2, QueuesFields DEF ListsInv
<1>9. q.chans[p][l] # <<>>
  BY <1>8, EmptyListElements
<1>10. /\ cs \in Seq(AllChannels) /\ IsInjective(cs) /\ Contains(cs, c)
      /\ \A d : d # c => (Contains(cs, d) <=> Contains(q.chans[p][l], d))
  <2>1. PICK s : s = RemoveFirst(q.chans[p][l], c)
    OBVIOUS
  <2>2. /\ s \in Seq(AllChannels) /\ IsInjective(s)
        /\ \A d : Contains(s, d) <=> Contains(q.chans[p][l], d) /\ d # c
    BY <2>1, <1>8, RemoveFirstElements
  <2>3. /\ Append(s, c) \in Seq(AllChannels) /\ IsInjective(Append(s, c))
        /\ \A d : Contains(Append(s, c), d) <=> Contains(s, d) \/ d = c
    BY <2>2, AppendElements, AppendInjectiveList
  <2> QED BY <2>1, <2>2, <2>3, <1>3, <1>8
<1>11. ks \in Seq(Packets) /\ Len(ks) = Len(q.pkts[c]) - 1 /\ Len(q.pkts[c]) \in Nat \ {0}
  BY <1>4, <1>8, TailElements
<1>12. /\ Sub(q.cnt[p], 1) \in Nat /\ Sub(q.nodeCnt[p][l], 1) \in Nat
       /\ Sub(q.cnt[p], 1) = q.cnt[p] - Len(q.pkts[c]) + Len(ks)
       /\ Sub(q.nodeCnt[p][l], 1) = q.nodeCnt[p][l] - Len(q.pkts[c]) + Len(ks)
  <2>1. ASSUME NEW x \in Nat, Len(q.pkts[c]) <= x
        PROVE  Sub(x, 1) \in Nat /\ Sub(x, 1) = x - Len(q.pkts[c]) + Len(ks)
    BY <1>11, <2>1 DEF Sub
  <2> QED BY <1>2, <2>1
<1>13. e \in Edits /\ e.ls = q.lcids[p] /\ e.cs = cs /\ e.ks = ks
       /\ e.n = Sub(q.cnt[p], 1) /\ e.k = Sub(q.nodeCnt[p][l], 1)
  BY <1>5, <1>6, <1>10, <1>11, <1>12 DEF Edits
<1>14. EditFollows(q, c, e)
  BY <1>6, <1>9, <1>10, <1>12, <1>13 DEF EditFollows
<1> QED BY <1>4, <1>7, <1>11, <1>13, <1>14

\* The packets of rs are those of qs, but for channel c.
PktsAre(qs, c, ks, rs) ==
    \A d \in AllChannels : rs.pkts[d] = IF d = c THEN ks ELSE qs.pkts[d]

\* What DTAP_PriorityQueuePush does.
LEMMA Pushed ==
    ASSUME NEW qs, QueuesOK(qs), NEW c \in AllChannels, NEW ps \in Seq(Packets)
    PROVE  /\ QueuesOK(PriorityQueuePush(qs, c, ps))
           /\ PktsAre(qs, c, qs.pkts[c] \o ps, PriorityQueuePush(qs, c, ps))
<1>1. PICK rs : rs = PriorityQueuePush(qs, c, ps)
  OBVIOUS
<1>2. PICK e \in Edits : rs = Edited(qs, c, e) /\ EditFollows(qs, c, e) /\ e.ks = qs.pkts[c] \o ps
  BY <1>1, PushEdit
<1>3. QueuesOK(rs) /\ AfterEdit(qs, c, e, rs)
  BY <1>2, EditOK
<1>4. PktsAre(qs, c, qs.pkts[c] \o ps, rs)
  BY <1>2, <1>3, QueuesFields DEF PktsAre, QueuesOK, AfterEdit
<1> QED BY <1>1, <1>3, <1>4

\* What DTAP_PriorityQueuePop does.
LEMMA Popped ==
    ASSUME QueuesOK(q), NEW c \in AllChannels, q.pkts[c] # <<>>
    PROVE  /\ QueuesOK(PriorityQueuePop(Priority(c), c.lcid, c))
           /\ PktsAre(q, c, Tail(q.pkts[c]), PriorityQueuePop(Priority(c), c.lcid, c))
<1>1. PICK rs : rs = PriorityQueuePop(Priority(c), c.lcid, c)
  OBVIOUS
<1>2. PICK e \in Edits : rs = Edited(q, c, e) /\ EditFollows(q, c, e) /\ e.ks = Tail(q.pkts[c])
  BY <1>1, PopEdit
<1>3. QueuesOK(rs) /\ AfterEdit(q, c, e, rs)
  BY <1>2, EditOK
<1>4. PktsAre(q, c, Tail(q.pkts[c]), rs)
  BY <1>2, <1>3, QueuesFields DEF PktsAre, QueuesOK, AfterEdit
<1> QED BY <1>1, <1>3, <1>4

\* The change that DTAP_ChannelDownProc makes.
LEMMA DownEdit ==
    ASSUME NEW qs, QueuesOK(qs), NEW c \in AllChannels,
           Contains(qs.chans[Priority(c)][c.lcid], c)
    PROVE  \E e \in Edits : /\ ChannelDownProc(qs, c) = Edited(qs, c, e)
                            /\ EditFollows(qs, c, e) /\ e.ks = <<>>
<1>1. PICK p : p = Priority(c)
  OBVIOUS
<1>2. PICK l : l = c.lcid
  OBVIOUS
<1>3. QueuesTyped(qs) /\ ListsInv(qs) /\ CountsInv(qs)
  BY DEF QueuesOK
<1>4. /\ p \in Priorities /\ l \in Links
      /\ qs.cnt[p] \in Nat /\ qs.nodeCnt[p][l] \in Nat /\ Len(qs.pkts[c]) \in Nat
      /\ Len(qs.pkts[c]) <= qs.cnt[p] /\ Len(qs.pkts[c]) <= qs.nodeCnt[p][l]
  BY <1>1, <1>2, CountsCover
<1>5. PICK cs : cs = RemoveFirst(qs.chans[p][l], c)
  OBVIOUS
<1>6. PICK ls : ls = IF cs = <<>> THEN RemoveFirst(qs.lcids[p], l) ELSE qs.lcids[p]
  OBVIOUS
<1>7. PICK n : n = Sub(qs.cnt[p], Len(qs.pkts[c]))
  OBVIOUS
<1>8. PICK k : k = IF cs = <<>> THEN 0 ELSE Sub(qs.nodeCnt[p][l], Len(qs.pkts[c]))
  OBVIOUS
<1>9. PICK e : e = [ls |-> ls, cs |-> cs, ks |-> <<>>, n |-> n, k |-> k]
  OBVIOUS
<1>10. ChannelDownProc(qs, c) = Edited(qs, c, e)
  <2>1. ChannelDownProc(qs, c) =
          [qs EXCEPT !.chans[p][l] = cs, !.pkts[c] = <<>>, !.nodeCnt[p][l] = k, !.cnt[p] = n,
                     !.lcids[p] = ls]
    BY <1>1, <1>2, <1>5, <1>6, <1>7, <1>8 DEF ChannelDownProc, CountDropped
  <2>2. /\ e.ls = ls /\ e.cs = cs /\ e.ks = <<>> /\ e.n = n /\ e.k = k
    BY <1>9
  <2>3. Edited(qs, c, e) =
          [qs EXCEPT !.lcids[p] = ls, !.chans[p][l] = cs, !.pkts[c] = <<>>, !.cnt[p] = n,
                     !.nodeCnt[p][l] = k]
    BY <2>2, <1>1, <1>2 DEF Edited
  <2>4. qs = [lcids |-> qs.lcids, chans |-> qs.chans, pkts |-> qs.pkts, cnt |-> qs.cnt,
              nodeCnt |-> qs.nodeCnt]
    BY <1>3 DEF QueuesTyped
  <2>5. ChannelDownProc(qs, c) =
          [lcids |-> [qs.lcids EXCEPT ![p] = ls], chans |-> [qs.chans EXCEPT ![p][l] = cs],
           pkts |-> [qs.pkts EXCEPT ![c] = <<>>], cnt |-> [qs.cnt EXCEPT ![p] = n],
           nodeCnt |-> [qs.nodeCnt EXCEPT ![p][l] = k]]
    BY <2>1, <2>4
  <2>6. Edited(qs, c, e) =
          [lcids |-> [qs.lcids EXCEPT ![p] = ls], chans |-> [qs.chans EXCEPT ![p][l] = cs],
           pkts |-> [qs.pkts EXCEPT ![c] = <<>>], cnt |-> [qs.cnt EXCEPT ![p] = n],
           nodeCnt |-> [qs.nodeCnt EXCEPT ![p][l] = k]]
    BY <2>3, <2>4
  <2> QED BY <2>5, <2>6, Zenon
<1>11. /\ qs.chans[p][l] \in Seq(AllChannels) /\ IsInjective(qs.chans[p][l])
       /\ qs.lcids[p] \in Seq(Links) /\ IsInjective(qs.lcids[p])
       /\ qs.chans[p][l] # <<>> => Contains(qs.lcids[p], l)
  BY <1>3, <1>4, QueuesFields DEF ListsInv
<1>12. /\ cs \in Seq(AllChannels) /\ IsInjective(cs)
       /\ \A d : Contains(cs, d) <=> Contains(qs.chans[p][l], d) /\ d # c
  BY <1>5, <1>11, RemoveFirstElements
<1>13. /\ ls \in Seq(Links) /\ IsInjective(ls)
       /\ \A m : m # l => (Contains(qs.lcids[p], m) => Contains(ls, m))
  BY <1>6, <1>11, RemoveFirstElements
<1>14. cs # <<>> => Contains(ls, l)
  <2>1. qs.chans[p][l] # <<>>
    BY <1>1, <1>2, EmptyListElements
  <2> QED BY <2>1, <1>6, <1>11
<1>15. n \in Nat /\ n = qs.cnt[p] - Len(qs.pkts[c]) + 0
  <2>1. \A x, y \in Nat : y <= x => Sub(x, y) \in Nat /\ Sub(x, y) = x - y + 0
    BY DEF Sub
  <2> QED BY <2>1, <1>4, <1>7
<1>16. k \in Nat /\ k = qs.nodeCnt[p][l] - Len(qs.pkts[c]) + 0
  <2>1. CASE cs # <<>>
    <3>1. \A x, y \in Nat : y <= x => Sub(x, y) \in Nat /\ Sub(x, y) = x - y + 0
      BY DEF Sub
    <3> QED BY <3>1, <2>1, <1>4, <1>8
  <2>2. CASE cs = <<>>
    <3> DEFINE S == {d \in AllChannels : Priority(d) = p /\ d.lcid = l}
    <3>1. c \in S /\ S \in SUBSET AllChannels /\ qs.nodeCnt[p][l] = Waiting(qs, S)
      BY <1>1, <1>2, <1>3, <1>4 DEF CountsInv
    <3>2. ASSUME NEW d \in S, d # c PROVE qs.pkts[d] = <<>>
      <4>1. d \in AllChannels /\ Priority(d) = p /\ d.lcid = l
        OBVIOUS
      <4>2. ~ Contains(qs.chans[p][l], d)
        BY <3>2, <1>12, <2>2, EmptyListElements
      <4> QED BY <4>1, <4>2, <1>3 DEF ListsInv
    <3> HIDE DEF S
    <3>3. PICK f : f = [d \in AllChannels |-> Len(qs.pkts[d])]
      OBVIOUS
    <3>4. \A d \in S : f[d] = Len(qs.pkts[d]) /\ f[d] \in Nat
      BY <3>1, <3>3, <1>3, QueuesFields
    <3>5. IsFiniteSet(S) /\ IsFiniteSet(S \ {c})
      BY <3>1, ChannelFacts, FS_Subset
    <3>6. \A d \in S \ {c} : f[d] = 0
      BY <3>2, <3>4, EmptySeq
    <3>7. SumFunctionOnSet(f, S \ {c}) = 0
      BY <3>4, <3>5, <3>6, SumParts
    <3>8. SumFunctionOnSet(f, S) = f[c] + SumFunctionOnSet(f, S \ {c})
      BY <3>1, <3>4, <3>5, SumRemove
    <3>9. Waiting(qs, S) = SumFunctionOnSet(f, S)
      BY <3>3 DEF Waiting
    <3>10. qs.nodeCnt[p][l] = Len(qs.pkts[c])
      BY <3>1, <3>4, <3>7, <3>8, <3>9, <1>4
    <3> QED BY <3>10, <1>4, <1>8, <2>2
  <2> QED BY <2>1, <2>2
<1>17. e \in Edits /\ e.ls = ls /\ e.cs = cs /\ e.ks = <<>> /\ e.n = n /\ e.k = k
  <2>1. <<>> \in Seq(Packets)
    BY EmptySeq
  <2> QED BY <2>1, <1>9, <1>12, <1>13, <1>15, <1>16 DEF Edits
<1>18. EditFollows(qs, c, e)
  <2>1. /\ e.n = qs.cnt[p] - Len(qs.pkts[c]) + Len(e.ks)
        /\ e.k = qs.nodeCnt[p][l] - Len(qs.pkts[c]) + Len(e.ks)
    <3>1. Len(e.ks) = 0
      BY <1>17, EmptySeq
    <3> QED BY <3>1, <1>15, <1>16, <1>17
  <2> QED BY <2>1, <1>1, <1>2, <1>12, <1>13, <1>14, <1>17, Zenon DEF EditFollows
<1> QED BY <1>10, <1>17, <1>18

\* What DTAP_ChannelDownProc does.
LEMMA Dropped ==
    ASSUME NEW qs, QueuesOK(qs), NEW c \in AllChannels
    PROVE  QueuesOK(ChannelDownProc(qs, c)) /\ PktsAre(qs, c, <<>>, ChannelDownProc(qs, c))
<1>1. CASE Contains(qs.chans[Priority(c)][c.lcid], c)
  <2>1. PICK rs : rs = ChannelDownProc(qs, c)
    OBVIOUS
  <2>2. PICK e \in Edits : rs = Edited(qs, c, e) /\ EditFollows(qs, c, e) /\ e.ks = <<>>
    BY <1>1, <2>1, DownEdit
  <2>3. QueuesOK(rs) /\ AfterEdit(qs, c, e, rs)
    BY <2>2, EditOK
  <2>4. PktsAre(qs, c, <<>>, rs)
    BY <2>2, <2>3, QueuesFields DEF PktsAre, QueuesOK, AfterEdit
  <2> QED BY <2>1, <2>3, <2>4
<1>2. CASE ~ Contains(qs.chans[Priority(c)][c.lcid], c)
  <2>1. ChannelDownProc(qs, c) = qs
    BY <1>2 DEF ChannelDownProc
  <2>2. qs.pkts[c] = <<>>
    BY <1>2 DEF QueuesOK, ListsInv
  <2> QED BY <2>1, <2>2 DEF PktsAre
<1> QED BY <1>1, <1>2

\* h has the list after each turn of DTAP_SchedulePriority's second loop, up to turn n.
IsMoving(list, moved, n, h) ==
    h = [k \in 0 .. n |-> IF k = 0 THEN list
                          ELSE IF list[k] \in moved THEN Append(RemoveFirst(h[k - 1], list[k]), list[k])
                          ELSE h[k - 1]]

\* The loop has a result.
LEMMA MovingExists ==
    ASSUME NEW list, NEW moved
    PROVE  \A n \in Nat : \E h : IsMoving(list, moved, n, h)
<1> DEFINE B == {n \in Nat : \E h : IsMoving(list, moved, n, h)}
<1>1. 0 \in B
  <2>1. IsMoving(list, moved, 0, [k \in 0 .. 0 |-> list])
    BY DEF IsMoving
  <2> QED BY <2>1
<1>2. ASSUME NEW n \in Nat, n \in B PROVE n + 1 \in B
  <2>1. PICK h : IsMoving(list, moved, n, h)
    BY <1>2
  <2>2. PICK g : g = [k \in 0 .. n + 1 |->
                        IF k = 0 THEN list
                        ELSE IF list[k] \in moved THEN Append(RemoveFirst(h[k - 1], list[k]), list[k])
                        ELSE h[k - 1]]
    OBVIOUS
  <2>3. \A k \in 0 .. n : g[k] = h[k]
    <3>1. \A k \in 0 .. n : k \in 0 .. n + 1
      OBVIOUS
    <3> QED BY <2>1, <2>2, <3>1 DEF IsMoving
  <2>4. \A k \in 0 .. n + 1 : k # 0 => g[k - 1] = h[k - 1]
    <3>1. \A k \in 0 .. n + 1 : k # 0 => k - 1 \in 0 .. n
      OBVIOUS
    <3> QED BY <3>1, <2>3
  <2>5. IsMoving(list, moved, n + 1, g)
    BY <2>2, <2>4 DEF IsMoving
  <2> QED BY <2>5
<1> HIDE DEF B
<1>3. Nat \subseteq B
  BY <1>1, <1>2, NatSetInduction
<1> QED BY <1>3 DEF B

\* It has the same links, each once.
LEMMA MovedToEndElements ==
    ASSUME NEW S, NEW list \in Seq(S), IsInjective(list), NEW moved
    PROVE  /\ MovedToEnd(list, moved) \in Seq(S) /\ IsInjective(MovedToEnd(list, moved))
           /\ \A x : Contains(MovedToEnd(list, moved), x) <=> Contains(list, x)
<1>1. PICK h : h = CHOOSE g : IsMoving(list, moved, Len(list), g)
  OBVIOUS
<1>2. Len(list) \in Nat /\ \A k \in 1 .. Len(list) : list[k] \in S
  BY LenProperties, ElementOfSeq
<1>3. IsMoving(list, moved, Len(list), h)
  BY <1>1, <1>2, MovingExists
<1>4. MovedToEnd(list, moved) = h[Len(list)]
  BY <1>1 DEF MovedToEnd, IsMoving
<1> DEFINE Good(t) == t \in Seq(S) /\ IsInjective(t) /\ \A x : Contains(t, x) <=> Contains(list, x)
           B == {n \in Nat : n <= Len(list) => Good(h[n])}
<1>5. 0 \in B
  BY <1>2, <1>3 DEF IsMoving
<1>6. ASSUME NEW n \in Nat, n \in B PROVE n + 1 \in B
  <2>1. SUFFICES ASSUME n + 1 <= Len(list) PROVE Good(h[n + 1])
    OBVIOUS
  <2>2. Good(h[n]) /\ n + 1 \in 0 .. Len(list) /\ n + 1 # 0 /\ n + 1 - 1 = n /\ n + 1 \in 1 .. Len(list)
    BY <1>2, <1>6, <2>1
  <2>3. PICK k : k = n + 1
    OBVIOUS
  <2>4. h[k] = IF list[k] \in moved THEN Append(RemoveFirst(h[n], list[k]), list[k]) ELSE h[n]
    <3>1. k \in 0 .. Len(list) /\ k # 0 /\ k - 1 = n
      BY <2>2, <2>3
    <3>2. h[k] = IF k = 0 THEN list
                 ELSE IF list[k] \in moved THEN Append(RemoveFirst(h[k - 1], list[k]), list[k])
                 ELSE h[k - 1]
      BY <1>3, <3>1, Zenon DEF IsMoving
    <3> QED BY <3>1, <3>2
  <2>5. CASE list[k] \notin moved
    BY <2>2, <2>3, <2>4, <2>5
  <2>6. CASE list[k] \in moved
    <3>1. PICK x \in S : x = list[k]
      BY <1>2, <2>2, <2>3
    <3>2. Contains(list, x)
      BY <3>1, <2>2, <2>3 DEF Contains
    <3>3. PICK s : s = h[n]
      OBVIOUS
    <3>4. PICK r : r = RemoveFirst(s, x)
      OBVIOUS
    <3>5. s \in Seq(S) /\ IsInjective(s) /\ \A y : Contains(s, y) <=> Contains(list, y)
      BY <2>2, <3>3
    <3>6. r \in Seq(S) /\ IsInjective(r) /\ \A y : Contains(r, y) <=> Contains(s, y) /\ y # x
      BY <3>4, <3>5, RemoveFirstElements
    <3>7. /\ Append(r, x) \in Seq(S) /\ IsInjective(Append(r, x))
          /\ \A y : Contains(Append(r, x), y) <=> Contains(r, y) \/ y = x
      BY <3>6, AppendElements, AppendInjectiveList
    <3>8. h[k] = Append(r, x)
      BY <2>4, <2>6, <3>1, <3>3, <3>4
    <3>9. Good(Append(r, x))
      BY <3>2, <3>5, <3>6, <3>7
    <3> QED BY <2>3, <3>8, <3>9
  <2> QED BY <2>5, <2>6
<1> HIDE DEF B, Good
<1>7. Nat \subseteq B
  BY <1>5, <1>6, NatSetInduction
<1>8. Good(h[Len(list)])
  <2>1. Len(list) \in B /\ Len(list) <= Len(list)
    BY <1>2, <1>7
  <2> QED BY <2>1 DEF B
<1> QED BY <1>4, <1>8 DEF Good

\* What the second loop of DTAP_SchedulePriority does to the queues.
LEMMA RotatedQueues ==
    ASSUME NEW qs, QueuesOK(qs), run.prio \in Priorities
    PROVE  QueuesOK(Rotated(qs)) /\ Rotated(qs).pkts = qs.pkts
<1>1. PICK p \in Priorities : p = run.prio
  OBVIOUS
<1>2. PICK list : list = MovedToEnd(qs.lcids[p], run.sched)
  OBVIOUS
<1>3. QueuesTyped(qs) /\ ListsInv(qs) /\ CountsInv(qs)
  BY DEF QueuesOK
<1>4. /\ qs.lcids \in [Priorities -> Seq(Links)]
      /\ qs.chans \in [Priorities -> [Links -> Seq(AllChannels)]]
      /\ qs.pkts \in [AllChannels -> Seq(Packets)]
      /\ qs.cnt \in [Priorities -> Nat]
      /\ qs.nodeCnt \in [Priorities -> [Links -> Nat]]
      /\ qs.lcids[p] \in Seq(Links) /\ IsInjective(qs.lcids[p])
  BY <1>3, QueuesFields DEF ListsInv
<1>5. list \in Seq(Links) /\ IsInjective(list) /\ \A l : Contains(list, l) <=> Contains(qs.lcids[p], l)
  BY <1>2, <1>4, MovedToEndElements
<1>6. PICK rs : rs = Rotated(qs)
  OBVIOUS
<1>7. rs = [lcids |-> [qs.lcids EXCEPT ![p] = list], chans |-> qs.chans, pkts |-> qs.pkts,
            cnt |-> qs.cnt, nodeCnt |-> qs.nodeCnt]
  <2>1. qs = [lcids |-> qs.lcids, chans |-> qs.chans, pkts |-> qs.pkts, cnt |-> qs.cnt,
              nodeCnt |-> qs.nodeCnt]
    BY <1>3 DEF QueuesTyped
  <2>2. rs = [qs EXCEPT !.lcids[p] = list]
    BY <1>1, <1>2, <1>6 DEF Rotated
  <2> QED BY <2>1, <2>2
<1>8. /\ rs.lcids = [qs.lcids EXCEPT ![p] = list]
      /\ rs.chans = qs.chans /\ rs.pkts = qs.pkts /\ rs.cnt = qs.cnt /\ rs.nodeCnt = qs.nodeCnt
  BY <1>7
<1>9. rs.lcids \in [Priorities -> Seq(Links)]
      /\ \A o \in Priorities : rs.lcids[o] = IF o = p THEN list ELSE qs.lcids[o]
  BY <1>4, <1>5, <1>8
<1>10. QueuesTyped(rs)
  BY <1>4, <1>7, <1>8, <1>9 DEF QueuesTyped
<1>11. \A o \in Priorities : /\ IsInjective(rs.lcids[o])
                             /\ \A l : Contains(rs.lcids[o], l) <=> Contains(qs.lcids[o], l)
  BY <1>3, <1>5, <1>9 DEF ListsInv
<1>12. ListsInv(rs)
  BY <1>3, <1>8, <1>11 DEF ListsInv
<1>13. CountsInv(rs)
  BY <1>3, <1>8 DEF CountsInv, Waiting
<1> QED BY <1>6, <1>8, <1>10, <1>12, <1>13 DEF QueuesOK

-----------------------------------------------------------------------------
(* Quotas.                                                                 *)

QuotasOK(b) ==
    /\ \A l \in ToSet(b.list) : b.quota[l] >= 1
    /\ SumFunctionOnSet(b.quota, ToSet(b.list)) <= Max({b.ap, Len(b.list)})

\* The quotient and the remainder.
LEMMA Quotient ==
    ASSUME NEW x \in Nat, NEW t \in Nat \ {0}
    PROVE  x \div t \in Nat /\ (x \div t) * t <= x /\ x % t \in Nat
<1>1. x \div t \in Nat /\ x % t \in Nat
  OBVIOUS
<1>2. x = t * (x \div t) + (x % t)
  OBVIOUS
<1>3. \A d \in Nat : d * t = t * d /\ t * d \in Nat
  OBVIOUS
<1> QED BY <1>1, <1>2, <1>3

\* A common factor goes.
LEMMA Cancelled ==
    ASSUME NEW a \in Nat, NEW p \in Nat, NEW t \in Nat \ {0}, a * t <= p * t
    PROVE  a <= p
<1>1. SUFFICES ASSUME a >= p + 1 PROVE FALSE
  OBVIOUS
<1>2. PICK d \in Nat : a = p + 1 + d
  <2>1. a - (p + 1) \in Nat /\ a = p + 1 + (a - (p + 1))
    BY <1>1
  <2> QED BY <2>1
<1>3. a * t = p * t + t + d * t
  BY <1>2
<1>4. p * t \in Nat /\ d * t \in Nat
  BY <1>2
<1> QED BY <1>3, <1>4

\* Shares in proportion, cut off, are no more than the pool.
LEMMA SharesBound ==
    ASSUME NEW L, IsFiniteSet(L), NEW w, \A l \in L : w[l] \in Nat,
           NEW pool \in Nat, NEW total \in Nat \ {0}, total = SumFunctionOnSet(w, L),
           NEW share, \A l \in L : share[l] = (pool * w[l]) \div total
    PROVE  /\ \A l \in L : share[l] \in Nat
           /\ SumFunctionOnSet(share, L) \in Nat /\ SumFunctionOnSet(share, L) <= pool
<1>1. ASSUME NEW l \in L PROVE share[l] \in Nat /\ share[l] * total <= pool * w[l]
  <2>1. PICK x \in Nat : x = pool * w[l]
    OBVIOUS
  <2>2. share[l] = x \div total
    BY <2>1
  <2> QED BY <2>1, <2>2, Quotient
<1>2. SumFunctionOnSet(share, L) * total <= pool * SumFunctionOnSet(w, L)
  BY <1>1, SumScaled
<1>3. SumFunctionOnSet(share, L) \in Nat
  BY <1>1, SumType
<1> QED BY <1>1, <1>2, <1>3, Cancelled

\* One more for the rem links with the largest remainders; A[l]: who is before l.
ExtrasOf(L, frac, idx, rem, A, extra) ==
    /\ \A l \in L : frac[l] \in Nat /\ idx[l] \in Nat
    /\ \A l, m \in L : idx[l] = idx[m] => l = m
    /\ A \in [L -> SUBSET L]
    /\ \A l, m \in L : m \in A[l] <=> frac[m] > frac[l] \/ (frac[m] = frac[l] /\ idx[m] < idx[l])
    /\ \A l \in L : extra[l] = IF frac[l] > 0 /\ Cardinality(A[l]) < rem THEN 1 ELSE 0

\* What is left over goes to at most as many links.
LEMMA ExtrasBound ==
    ASSUME NEW L, IsFiniteSet(L), NEW frac, NEW idx, NEW rem \in Nat, NEW A, NEW extra,
           ExtrasOf(L, frac, idx, rem, A, extra)
    PROVE  /\ \A l \in L : extra[l] \in {0, 1}
           /\ SumFunctionOnSet(extra, L) \in Nat /\ SumFunctionOnSet(extra, L) <= rem
<1>0. /\ \A l \in L : frac[l] \in Nat /\ idx[l] \in Nat
      /\ \A l, m \in L : idx[l] = idx[m] => l = m
      /\ A \in [L -> SUBSET L]
      /\ \A l, m \in L : m \in A[l] <=> frac[m] > frac[l] \/ (frac[m] = frac[l] /\ idx[m] < idx[l])
      /\ \A l \in L : extra[l] = IF frac[l] > 0 /\ Cardinality(A[l]) < rem THEN 1 ELSE 0
  BY DEF ExtrasOf
<1>1. /\ A \in [L -> SUBSET L]
      /\ \A x \in L : x \notin A[x]
      /\ \A x, y \in L : x # y => x \in A[y] \/ y \in A[x]
      /\ \A x, y \in L : x \in A[y] => A[x] \subseteq A[y]
  <2>1. \A x \in L : x \notin A[x]
    BY <1>0
  <2>2. \A x, y \in L : x # y => x \in A[y] \/ y \in A[x]
    BY <1>0
  <2>3. ASSUME NEW x \in L, NEW y \in L, x \in A[y] PROVE A[x] \subseteq A[y]
    <3>1. ASSUME NEW z \in A[x] PROVE z \in A[y]
      <4>1. z \in L
        BY <1>0
      <4> QED BY <4>1, <2>3, <1>0
    <3> QED BY <3>1
  <2> QED BY <1>0, <2>1, <2>2, <2>3
<1> DEFINE T == {x \in L : Cardinality(A[x]) < rem}
           Z == {x \in L : extra[x] = 1}
<1>2. Cardinality(T) <= rem
  BY <1>1, Ranked
<1>3. Z \in SUBSET T /\ T \in SUBSET L
  BY <1>0
<1>4. Cardinality(Z) <= Cardinality(T) /\ Cardinality(Z) \in Nat /\ Cardinality(T) \in Nat
  <2> HIDE DEF T, Z
  <2>1. IsFiniteSet(T)
    BY <1>3, FS_Subset
  <2>2. IsFiniteSet(Z) /\ Cardinality(Z) <= Cardinality(T)
    BY <1>3, <2>1, FS_Subset
  <2> QED BY <2>1, <2>2, FS_CardinalityType
<1>5. \A l \in L : extra[l] \in {0, 1}
  BY <1>0
<1>6. SumFunctionOnSet(extra, L) = Cardinality(Z)
  BY <1>5, SumCount
<1> HIDE DEF T, Z
<1> QED BY <1>2, <1>4, <1>5, <1>6

\* Max of the buffers and the links, and the pool.
LEMMA PoolMax ==
    ASSUME NEW ap \in Nat, NEW n \in Nat
    PROVE  Sub(ap, n) \in Nat /\ n + Sub(ap, n) = Max({ap, n})
<1>1. CASE ap > n
  <2>1. Max({ap, n}) = ap
    BY <1>1 DEF Max
  <2> QED BY <1>1, <2>1 DEF Sub
<1>2. CASE ~ (ap > n)
  <2>1. Max({ap, n}) = n
    BY <1>2 DEF Max
  <2> QED BY <1>2, <2>1 DEF Sub
<1> QED BY <1>1, <1>2

\* One each, the shares, the extras.
QuotaOf(L, share, extra, quota) ==
    \A l \in L : share[l] \in Nat /\ extra[l] \in {0, 1} /\ quota[l] = 1 + share[l] + extra[l]

\* The sum of the quotas.
LEMMA QuotaSum ==
    ASSUME NEW L, IsFiniteSet(L), NEW pool \in Nat, NEW share, NEW extra, NEW quota,
           QuotaOf(L, share, extra, quota),
           SumFunctionOnSet(share, L) \in Nat,
           SumFunctionOnSet(extra, L) \in Nat,
           SumFunctionOnSet(share, L) + SumFunctionOnSet(extra, L) <= pool
    PROVE  SumFunctionOnSet(quota, L) <= Cardinality(L) + pool
<1> DEFINE one == [l \in L |-> 1]
           both == [l \in L |-> 1 + share[l]]
<1>1. \A l \in L : one[l] \in {0, 1} /\ one[l] = 1
  OBVIOUS
<1>2. \A l \in L : both[l] = one[l] + share[l] /\ both[l] \in Nat /\ share[l] \in Nat
  BY DEF QuotaOf
<1>3. \A l \in L : quota[l] = both[l] + extra[l] /\ extra[l] \in Nat
  BY DEF QuotaOf
<1> HIDE DEF one, both
<1>4. SumFunctionOnSet(one, L) = Cardinality(L) /\ Cardinality(L) \in Nat
  <2>1. {l \in L : one[l] = 1} = L
    BY <1>1
  <2> QED BY <1>1, <2>1, SumCount, FS_CardinalityType
<1>5. SumFunctionOnSet(both, L) = SumFunctionOnSet(one, L) + SumFunctionOnSet(share, L)
  BY <1>1, <1>2, SumAdd
<1>6. SumFunctionOnSet(quota, L) = SumFunctionOnSet(both, L) + SumFunctionOnSet(extra, L)
  BY <1>2, <1>3, SumAdd
<1> QED BY <1>4, <1>5, <1>6

\* The fields of typed buffers.
LEMMA BufFields ==
    ASSUME NEW b, BufTyped(b)
    PROVE  /\ b.ap \in Nat \ {0} /\ b.g \in Nat /\ b.list \in Seq(Links)
           /\ b.quota \in [Links -> Nat] /\ b.notAck \in [Links -> Nat] /\ b.queued \in [Links -> Nat]
           /\ Len(b.list) \in Nat /\ ToSet(b.list) \in SUBSET Links
           /\ \A l : Connected(b, l) <=> l \in ToSet(b.list)
           /\ \A l : Connected(b, l) => l \in Links
<1>1. /\ b.ap \in Nat \ {0} /\ b.g \in Nat /\ b.list \in Seq(Links)
      /\ b.quota \in [Links -> Nat] /\ b.notAck \in [Links -> Nat] /\ b.queued \in [Links -> Nat]
  BY DEF BufTyped
<1>2. \A l : Connected(b, l) <=> l \in ToSet(b.list)
  BY <1>1, InjectiveList DEF Connected
<1>3. \A l : Connected(b, l) => l \in Links
  BY <1>1, InjectiveList DEF Connected
<1>4. Len(b.list) \in Nat
  BY <1>1, LenProperties
<1> QED BY <1>1, <1>2, <1>3, <1>4

\* DTAP_AllocLcidQuota gives every link a buffer, and no more in sum than there are.
LEMMA AllocQuota ==
    ASSUME NEW b, BufTyped(b), IsInjective(b.list), NEW total \in Nat \ {0},
           total = CalcTotalQueuedPktCnt(b)
    PROVE  \E quota \in [Links -> Nat] :
              /\ quota = AllocLcidQuota(b, total)
              /\ \A l \in ToSet(b.list) : quota[l] >= 1
              /\ SumFunctionOnSet(quota, ToSet(b.list)) <= Max({b.ap, Len(b.list)})
<1>1. /\ b.ap \in Nat /\ b.list \in Seq(Links) /\ Len(b.list) \in Nat
      /\ b.queued \in [Links -> Nat] /\ ToSet(b.list) \in SUBSET Links
      /\ \A l : Connected(b, l) <=> l \in ToSet(b.list)
  BY BufFields
<1> DEFINE pool == Sub(b.ap, Len(b.list))
           L == ToSet(b.list)
           Bonus(l) == (pool * b.queued[l]) \div total
           Frac(l) == (pool * b.queued[l]) % total
           rem == pool - SumFunctionOnSet([l \in L |-> Bonus(l)], L)
           Idx(m) == SelectInSeq(b.list, LAMBDA x : x = m)
           Ahead(l) == {m \in L : \/ Frac(m) > Frac(l)
                                  \/ Frac(m) = Frac(l) /\ Idx(m) < Idx(l)}
           Extra(l) == IF Frac(l) > 0 /\ Cardinality(Ahead(l)) < rem THEN 1 ELSE 0
           share == [l \in L |-> Bonus(l)]
           frac == [l \in L |-> Frac(l)]
           idx == [l \in L |-> Idx(l)]
           A == [l \in L |-> Ahead(l)]
           extra == [l \in L |-> Extra(l)]
           quota == [l \in Links |-> IF l \in L THEN 1 + Bonus(l) + Extra(l) ELSE 0]
<1>2. quota = AllocLcidQuota(b, total)
  BY DEF AllocLcidQuota
<1>3. IsFiniteSet(L) /\ Cardinality(L) = Len(b.list)
  BY <1>1, InjectiveListSize
<1>4. pool \in Nat /\ Len(b.list) + pool = Max({b.ap, Len(b.list)})
  BY <1>1, PoolMax
<1>5. \A l \in L : b.queued[l] \in Nat
  BY <1>1
<1>6. \A l \in L : /\ share[l] = Bonus(l) /\ frac[l] = Frac(l) /\ idx[l] = Idx(l) /\ A[l] = Ahead(l)
                   /\ extra[l] = Extra(l)
  OBVIOUS
<1>7. /\ \A l \in L : share[l] \in Nat
      /\ SumFunctionOnSet(share, L) \in Nat /\ SumFunctionOnSet(share, L) <= pool
  <2>1. \A l \in L : share[l] = (pool * b.queued[l]) \div total
    OBVIOUS
  <2>2. total = SumFunctionOnSet(b.queued, L)
    BY DEF CalcTotalQueuedPktCnt
  <2> HIDE DEF share, L, pool
  <2> QED BY <2>1, <2>2, <1>3, <1>4, <1>5, SharesBound
<1>8. rem \in Nat /\ SumFunctionOnSet(share, L) + rem = pool
  BY <1>4, <1>7
<1>9. /\ \A l \in L : frac[l] \in Nat /\ idx[l] \in Nat
      /\ \A l, m \in L : idx[l] = idx[m] => l = m
  <2>1. ASSUME NEW l \in L PROVE frac[l] \in Nat
    <3>1. frac[l] = (pool * b.queued[l]) % total
      OBVIOUS
    <3>2. PICK x \in Nat : x = pool * b.queued[l]
      BY <1>4, <1>5
    <3> QED BY <3>1, <3>2, Quotient
  <2>2. ASSUME NEW l \in L PROVE idx[l] \in Nat /\ b.list[idx[l]] = l
    <3>1. Contains(b.list, l)
      BY <1>1 DEF Connected
    <3>2. Idx(l) \in 1 .. Len(b.list) /\ b.list[Idx(l)] = l
      BY <3>1, <1>1, SelectIndex
    <3> QED BY <3>2, <1>1, <1>6
  <2> QED BY <2>1, <2>2
<1>10. /\ A \in [L -> SUBSET L]
       /\ \A l, m \in L : m \in A[l] <=> frac[m] > frac[l] \/ (frac[m] = frac[l] /\ idx[m] < idx[l])
       /\ \A l \in L : extra[l] = IF frac[l] > 0 /\ Cardinality(A[l]) < rem THEN 1 ELSE 0
  <2> HIDE DEF Idx, Frac, rem, L
  <2> QED BY <1>6
<1>11. /\ \A l \in L : quota[l] = 1 + share[l] + extra[l]
       /\ \A l \in Links : l \notin L => quota[l] = 0
       /\ quota = [l \in Links |-> quota[l]]
  <2> HIDE DEF Bonus, Extra, L
  <2>1. ASSUME NEW l \in L PROVE quota[l] = 1 + share[l] + extra[l]
    <3>1. l \in Links
      BY <1>1 DEF L
    <3> HIDE DEF share, extra
    <3>2. quota[l] = 1 + Bonus(l) + Extra(l)
      BY <3>1
    <3> QED BY <1>6, <3>2
  <2>2. \A l \in Links : l \notin L => quota[l] = 0
    OBVIOUS
  <2>3. quota = [l \in Links |-> quota[l]]
    OBVIOUS
  <2> QED BY <2>1, <2>2, <2>3
<1> HIDE DEF pool, L, share, frac, idx, A, extra, rem, Bonus, Frac, Idx, Ahead, Extra, quota
<1>12. /\ \A l \in L : extra[l] \in {0, 1}
       /\ SumFunctionOnSet(extra, L) \in Nat /\ SumFunctionOnSet(extra, L) <= rem
  <2>1. ExtrasOf(L, frac, idx, rem, A, extra)
    BY <1>9, <1>10 DEF ExtrasOf
  <2> QED BY <2>1, <1>3, <1>8, ExtrasBound
<1>13. \A l \in L : quota[l] \in Nat /\ quota[l] >= 1
  BY <1>7, <1>11, <1>12
<1>14. SumFunctionOnSet(share, L) + SumFunctionOnSet(extra, L) <= pool
  BY <1>4, <1>7, <1>8, <1>12
<1>15. SumFunctionOnSet(quota, L) <= Cardinality(L) + pool
  <2>1. QuotaOf(L, share, extra, quota)
    BY <1>7, <1>11, <1>12 DEF QuotaOf
  <2> QED BY <2>1, <1>3, <1>4, <1>7, <1>12, <1>14, QuotaSum
<1>16. quota \in [Links -> Nat]
  BY <1>11, <1>13
<1>17. SumFunctionOnSet(quota, L) <= Max({b.ap, Len(b.list)})
  BY <1>3, <1>4, <1>15
<1> QED BY <1>2, <1>13, <1>16, <1>17 DEF L

\* Buffers with a list without duplicates and quotas that share them.
BufOK(b) == BufTyped(b) /\ IsInjective(b.list) /\ QuotasOK(b)

SameButQuota(b, r) ==
    r.ap = b.ap /\ r.g = b.g /\ r.list = b.list /\ r.notAck = b.notAck /\ r.queued = b.queued

\* A new quota and nothing else.
LEMMA NewQuota ==
    ASSUME NEW b, BufTyped(b), IsInjective(b.list), NEW quota \in [Links -> Nat],
           \A l \in ToSet(b.list) : quota[l] >= 1,
           SumFunctionOnSet(quota, ToSet(b.list)) <= Max({b.ap, Len(b.list)})
    PROVE  BufOK([b EXCEPT !.quota = quota]) /\ SameButQuota(b, [b EXCEPT !.quota = quota])
<1>1. PICK r : r = [b EXCEPT !.quota = quota]
  OBVIOUS
<1>2. BufTyped(r)
  BY <1>1 DEF BufTyped
<1>3. SameButQuota(b, r) /\ r.quota = quota
  BY <1>1 DEF BufTyped, SameButQuota
<1>4. r.list = b.list /\ r.ap = b.ap /\ r.quota = quota
  BY <1>3 DEF SameButQuota
<1>5. BufOK(r)
  BY <1>2, <1>4 DEF BufOK, QuotasOK
<1> QED BY <1>1, <1>3, <1>5

\* The quotas DTAP_RecalcLcidQuota computes are right whatever it is called for.
LEMMA Recalculated ==
    ASSUME NEW b, BufTyped(b), IsInjective(b.list)
    PROVE  BufOK(RecalcLcidQuota(b)) /\ SameButQuota(b, RecalcLcidQuota(b))
<1>1. PICK total : total = CalcTotalQueuedPktCnt(b)
  OBVIOUS
<1>2. PICK quota : quota = IF total # 0 THEN AllocLcidQuota(b, total)
                           ELSE [l \in Links |-> IF Connected(b, l) THEN 1 ELSE 0]
  OBVIOUS
<1>3. RecalcLcidQuota(b) = [b EXCEPT !.quota = quota]
  BY <1>1, <1>2 DEF RecalcLcidQuota
<1>4. PICK L : L = ToSet(b.list)
  OBVIOUS
<1>5. /\ L \in SUBSET Links /\ b.ap \in Nat /\ Len(b.list) \in Nat /\ b.queued \in [Links -> Nat]
      /\ \A l : Connected(b, l) <=> l \in L
  BY <1>4, BufFields
<1>6. IsFiniteSet(L) /\ Cardinality(L) = Len(b.list)
  BY <1>4, InjectiveListSize, BufFields
<1>7. total \in Nat
  <2>1. total = SumFunctionOnSet(b.queued, L)
    BY <1>1, <1>4 DEF CalcTotalQueuedPktCnt
  <2> QED BY <2>1, <1>5, <1>6, SumType
<1>8. /\ quota \in [Links -> Nat]
      /\ \A l \in L : quota[l] >= 1
      /\ SumFunctionOnSet(quota, L) <= Max({b.ap, Len(b.list)})
  <2>1. CASE total # 0
    <3>1. \E s \in [Links -> Nat] :
              /\ s = AllocLcidQuota(b, total)
              /\ \A l \in ToSet(b.list) : s[l] >= 1
              /\ SumFunctionOnSet(s, ToSet(b.list)) <= Max({b.ap, Len(b.list)})
      BY <1>1, <1>7, <2>1, AllocQuota
    <3>2. quota = AllocLcidQuota(b, total)
      BY <1>2, <2>1
    <3> QED BY <3>1, <3>2, <1>4
  <2>2. CASE total = 0
    <3>1. quota = [l \in Links |-> IF l \in L THEN 1 ELSE 0]
      BY <1>2, <1>5, <2>2
    <3>2. \A l \in L : quota[l] \in {0, 1} /\ quota[l] = 1
      BY <3>1, <1>5
    <3>3. {l \in L : quota[l] = 1} = L
      BY <3>2
    <3>4. SumFunctionOnSet(quota, L) = Len(b.list)
      BY <3>2, <3>3, <1>6, SumCount
    <3>5. Sub(b.ap, Len(b.list)) \in Nat /\ Len(b.list) + Sub(b.ap, Len(b.list)) = Max({b.ap, Len(b.list)})
      BY <1>5, PoolMax
    <3>6. SumFunctionOnSet(quota, L) <= Max({b.ap, Len(b.list)})
      BY <3>4, <3>5, <1>5
    <3> QED BY <3>1, <3>2, <3>6
  <2> QED BY <2>1, <2>2
<1> QED BY <1>3, <1>4, <1>8, NewQuota

\* New counts of what waits and of what is not acknowledged, and nothing else.
SameButCounts(b, r) == r.ap = b.ap /\ r.list = b.list /\ r.quota = b.quota

\* The quotas stay right until something they depend on changes.
LEMMA NewCounts ==
    ASSUME NEW b, BufOK(b), NEW r, BufTyped(r), SameButCounts(b, r)
    PROVE  BufOK(r)
<1>1. r.ap = b.ap /\ r.list = b.list /\ r.quota = b.quota
  BY DEF SameButCounts
<1> QED BY <1>1 DEF BufOK, QuotasOK

-----------------------------------------------------------------------------
(* Credits.                                                                *)

\* The credits of b are the buffers h the controller holds; i: initialised.
CreditsOK(i, b, h) ==
    /\ ~ i => b.list = <<>>
    /\ b.notAck = h
    /\ \A l \in Links : ~ Connected(b, l) => h[l] = 0
    /\ i => b.g = SumFunctionOnSet(h, Links)

\* They do not depend on quotas or on what waits.
LEMMA SameCredits ==
    ASSUME NEW i, NEW h, NEW b, CreditsOK(i, b, h), NEW r,
           r.g = b.g, r.list = b.list, r.notAck = b.notAck
    PROVE  CreditsOK(i, r, h)
BY DEF CreditsOK, Connected

\* Before anything is sent there are none.
LEMMA NoCredits ==
    ASSUME NEW i, NEW b, BufTyped(b), b.list = <<>>, b.notAck = [l \in Links |-> 0], i => b.g = 0
    PROVE  CreditsOK(i, b, [l \in Links |-> 0])
<1> DEFINE h == [l \in Links |-> 0]
<1>1. \A l \in Links : h[l] \in Nat /\ h[l] = 0
  OBVIOUS
<1>2. b.notAck = h
  OBVIOUS
<1> HIDE DEF h
<1>3. SumFunctionOnSet(h, Links) = 0
  BY <1>1, SchedulerAssumption, SumParts
<1>4. CreditsOK(i, b, h)
  BY <1>1, <1>2, <1>3 DEF CreditsOK
<1> QED BY <1>4 DEF h

\* One link's credits change, and the total with them.
LEMMA CreditsChange ==
    ASSUME NEW b, BufTyped(b), NEW h \in [Links -> Nat], CreditsOK(TRUE, b, h),
           NEW l \in Links, NEW k \in Nat,
           NEW r, r.notAck = [b.notAck EXCEPT ![l] = k], r.g = b.g - h[l] + k,
           \A m \in Links : Connected(b, m) /\ ~ Connected(r, m) => m = l,
           ~ Connected(r, l) => k = 0
    PROVE  CreditsOK(TRUE, r, [h EXCEPT ![l] = k])
<1>1. PICK s : s = [h EXCEPT ![l] = k]
  OBVIOUS
<1>2. s \in [Links -> Nat] /\ s[l] = k /\ \A m \in Links \ {l} : s[m] = h[m]
  BY <1>1
<1>3. SumFunctionOnSet(s, Links) = SumFunctionOnSet(h, Links) - h[l] + s[l]
  BY <1>2, SchedulerAssumption, SumChange
<1>4. /\ b.notAck = h /\ b.g = SumFunctionOnSet(h, Links)
      /\ \A m \in Links : ~ Connected(b, m) => h[m] = 0
  BY DEF CreditsOK
<1>5. r.notAck = s
  BY <1>1, <1>4
<1>6. r.g = SumFunctionOnSet(s, Links)
  BY <1>2, <1>3, <1>4
<1>7. ASSUME NEW m \in Links, ~ Connected(r, m) PROVE s[m] = 0
  BY <1>2, <1>4, <1>7
<1>8. CreditsOK(TRUE, r, s)
  BY <1>5, <1>6, <1>7 DEF CreditsOK
<1> QED BY <1>1, <1>8

\* The total is no less than what one link has.
LEMMA CreditsCover ==
    ASSUME NEW i, NEW b, BufTyped(b), NEW h \in [Links -> Nat], CreditsOK(i, b, h),
           NEW l \in Links, Connected(b, l)
    PROVE  i /\ b.notAck[l] = h[l] /\ h[l] \in Nat /\ h[l] <= b.g
<1>1. i
  BY EmptyListElements DEF CreditsOK, Connected
<1>2. b.notAck = h /\ b.g = SumFunctionOnSet(h, Links)
  BY <1>1 DEF CreditsOK
<1>3. h[l] <= SumFunctionOnSet(h, Links)
  BY SchedulerAssumption, SumParts
<1> QED BY <1>1, <1>2, <1>3

\* What the buffers, the credits and the controller keep to.
BufGood(i, b, h) == i \in BOOLEAN /\ h \in [Links -> Nat] /\ BufOK(b) /\ CreditsOK(i, b, h)

\* The links of r were links of b, with as much that waits.
Stays(b, r) == \A l \in Links : Connected(r, l) => Connected(b, l) /\ r.queued[l] = b.queued[l]

\* So they are after DTAP_RecalcLcidQuota.
LEMMA RecalcStays ==
    ASSUME NEW b, NEW r, BufTyped(r), IsInjective(r.list),
           \A l \in Links : Connected(r, l) => Connected(b, l) /\ r.queued[l] = b.queued[l]
    PROVE  Stays(b, RecalcLcidQuota(r))
<1>1. PICK s : s = RecalcLcidQuota(r)
  OBVIOUS
<1>2. SameButQuota(r, s)
  BY <1>1, Recalculated
<1>3. s.list = r.list /\ s.queued = r.queued
  BY <1>2 DEF SameButQuota
<1>4. Stays(b, s)
  BY <1>3 DEF Connected, Stays
<1> QED BY <1>1, <1>4

\* Quotas computed anew.
LEMMA RecalcGood ==
    ASSUME NEW i \in BOOLEAN, NEW h \in [Links -> Nat], NEW b, BufTyped(b), IsInjective(b.list),
           CreditsOK(i, b, h)
    PROVE  BufGood(i, RecalcLcidQuota(b), h)
<1>1. PICK r : r = RecalcLcidQuota(b)
  OBVIOUS
<1>2. BufOK(r) /\ SameButQuota(b, r)
  BY <1>1, Recalculated
<1>3. r.g = b.g /\ r.list = b.list /\ r.notAck = b.notAck
  BY <1>2 DEF SameButQuota
<1>4. CreditsOK(i, r, h)
  BY <1>3, SameCredits
<1> QED BY <1>1, <1>2, <1>4 DEF BufGood

\* What waits is counted anew.
LEMMA QueuedGood ==
    ASSUME NEW i, NEW h, NEW b, BufGood(i, b, h), NEW w \in [Links -> Nat]
    PROVE  BufGood(i, [b EXCEPT !.queued = w], h)
<1>1. PICK r : r = [b EXCEPT !.queued = w]
  OBVIOUS
<1>2. BufTyped(b)
  BY DEF BufGood, BufOK
<1>3. BufTyped(r) /\ r.ap = b.ap /\ r.list = b.list /\ r.quota = b.quota /\ r.g = b.g /\ r.notAck = b.notAck
  BY <1>1, <1>2 DEF BufTyped
<1>4. BufOK(r)
  BY <1>3, NewCounts DEF SameButCounts, BufGood
<1>5. CreditsOK(i, r, h)
  BY <1>3, SameCredits DEF BufGood
<1> QED BY <1>1, <1>4, <1>5 DEF BufGood

\* The buffers at the start.
LEMMA InitBufGood ==
    ASSUME NEW i \in BOOLEAN, NEW ap \in Nat \ {0}, NEW g \in Nat, i => g = 0
    PROVE  BufGood(i, [InitBuf(ap) EXCEPT !.g = g], [l \in Links |-> 0])
<1>1. PICK b : b = [InitBuf(ap) EXCEPT !.g = g]
  OBVIOUS
<1>2. /\ BufTyped(b) /\ b.list = <<>> /\ b.notAck = [l \in Links |-> 0] /\ b.g = g /\ b.ap = ap
      /\ b.quota = [l \in Links |-> 0]
  <2>1. b = [ap |-> ap, g |-> g, list |-> <<>>, quota |-> [l \in Links |-> 0],
             notAck |-> [l \in Links |-> 0], queued |-> [l \in Links |-> 0]]
    BY <1>1 DEF InitBuf
  <2>2. <<>> \in Seq(Links) /\ [l \in Links |-> 0] \in [Links -> Nat]
    OBVIOUS
  <2> QED BY <2>1, <2>2 DEF BufTyped
<1>3. IsInjective(b.list)
  BY <1>2, EmptyListElements
<1>4. QuotasOK(b)
  <2>1. ToSet(b.list) = {} /\ Len(b.list) = 0
    BY <1>2 DEF ToSet
  <2>2. SumFunctionOnSet(b.quota, {}) = 0
    BY SumEmpty
  <2>3. Sub(ap, 0) \in Nat /\ 0 + Sub(ap, 0) = Max({ap, 0})
    BY PoolMax
  <2>4. Max({b.ap, Len(b.list)}) \in Nat
    BY <1>2, <2>1, <2>3
  <2>5. SumFunctionOnSet(b.quota, ToSet(b.list)) <= Max({b.ap, Len(b.list)})
    BY <2>1, <2>2, <2>4
  <2> QED BY <2>1, <2>5 DEF QuotasOK
<1>5. CreditsOK(i, b, [l \in Links |-> 0])
  BY <1>2, NoCredits
<1> QED BY <1>1, <1>2, <1>3, <1>4, <1>5 DEF BufGood, BufOK

\* The links of r were links of b, or nothing waits for them.
NewLink(b, r, l) ==
    \A m \in Links : Connected(r, m) =>
        IF m = l THEN r.queued[m] = 0 ELSE Connected(b, m) /\ r.queued[m] = b.queued[m]

\* A link that is not connected comes first or comes back.
LEMMA ConnectGood ==
    ASSUME NEW h, NEW b, BufGood(TRUE, b, h), NEW l \in Links, ~ Connected(b, l)
    PROVE  LET r == RecalcLcidQuota([b EXCEPT !.list = Append(@, l), !.notAck[l] = 0, !.queued[l] = 0])
           IN  BufGood(TRUE, r, h) /\ NewLink(b, r, l)
<1>1. PICK r : r = [b EXCEPT !.list = Append(@, l), !.notAck[l] = 0, !.queued[l] = 0]
  OBVIOUS
<1>2. BufTyped(b) /\ h \in [Links -> Nat] /\ IsInjective(b.list) /\ CreditsOK(TRUE, b, h)
  BY DEF BufGood, BufOK
<1>3. /\ BufTyped(r) /\ r.list = Append(b.list, l) /\ r.notAck = [b.notAck EXCEPT ![l] = 0] /\ r.g = b.g
      /\ r.queued = [b.queued EXCEPT ![l] = 0]
  <2>1. /\ b.ap \in Nat \ {0} /\ b.g \in Nat /\ b.list \in Seq(Links)
        /\ b.quota \in [Links -> Nat] /\ b.notAck \in [Links -> Nat] /\ b.queued \in [Links -> Nat]
    BY <1>2, BufFields
  <2>2. Append(b.list, l) \in Seq(Links)
    BY <2>1, AppendElements
  <2>3. r = [ap |-> b.ap, g |-> b.g, list |-> Append(b.list, l), quota |-> b.quota,
             notAck |-> [b.notAck EXCEPT ![l] = 0], queued |-> [b.queued EXCEPT ![l] = 0]]
    BY <1>1, <1>2 DEF BufTyped
  <2> QED BY <2>1, <2>2, <2>3 DEF BufTyped
<1>4. IsInjective(r.list)
  BY <1>2, <1>3, AppendInjectiveList, BufFields DEF Connected
<1>5. b.notAck = h /\ h[l] = 0 /\ b.g = SumFunctionOnSet(h, Links)
      /\ \A m \in Links : ~ Connected(b, m) => h[m] = 0
  BY <1>2 DEF CreditsOK
<1>6. r.notAck = h
  BY <1>2, <1>3, <1>5
<1>7. ASSUME NEW m \in Links, ~ Connected(r, m) PROVE h[m] = 0
  <2>1. b.list \in Seq(Links)
    BY <1>2, BufFields
  <2>2. \A e : Contains(b.list, e) => Contains(Append(b.list, l), e)
    BY <2>1, AppendElements
  <2> QED BY <2>2, <1>3, <1>5, <1>7 DEF Connected
<1>8. CreditsOK(TRUE, r, h)
  BY <1>3, <1>5, <1>6, <1>7 DEF CreditsOK
<1>9. PICK s : s = RecalcLcidQuota(r)
  OBVIOUS
<1>10. SameButQuota(r, s)
  BY <1>3, <1>4, <1>9, Recalculated
<1>11. NewLink(b, s, l)
  <2>1. s.list = Append(b.list, l) /\ s.queued = [b.queued EXCEPT ![l] = 0]
    BY <1>3, <1>10 DEF SameButQuota
  <2>2. b.list \in Seq(Links) /\ b.queued \in [Links -> Nat]
    BY <1>2, BufFields
  <2>3. \A m : Connected(s, m) => Connected(b, m) \/ m = l
    BY <2>1, <2>2, AppendElements DEF Connected
  <2> QED BY <2>1, <2>2, <2>3 DEF NewLink
<1>12. BufGood(TRUE, s, h)
  BY <1>2, <1>3, <1>4, <1>8, <1>9, RecalcGood
<1> QED BY <1>1, <1>9, <1>11, <1>12

\* A link goes, and the buffers it had are given back.
LEMMA DisconnectGood ==
    ASSUME NEW i, NEW h, NEW b, BufGood(i, b, h), NEW l \in Links, Connected(b, l)
    PROVE  LET r == RecalcLcidQuota(
                       [b EXCEPT !.g = CreditsBack(b, l), !.list = RemoveFirst(@, l), !.quota[l] = 0,
                                 !.notAck[l] = 0, !.queued[l] = 0])
           IN  BufGood(i, r, [h EXCEPT ![l] = 0]) /\ Stays(b, r)
<1>1. PICK r : r = [b EXCEPT !.g = CreditsBack(b, l), !.list = RemoveFirst(@, l), !.quota[l] = 0,
                            !.notAck[l] = 0, !.queued[l] = 0]
  OBVIOUS
<1>2. BufTyped(b) /\ h \in [Links -> Nat] /\ IsInjective(b.list) /\ CreditsOK(i, b, h) /\ i \in BOOLEAN
  BY DEF BufGood, BufOK
<1>3. i /\ b.notAck[l] = h[l] /\ h[l] \in Nat /\ h[l] <= b.g /\ i = TRUE
  BY <1>2, CreditsCover
<1>4. b.list \in Seq(Links) /\ b.g \in Nat
  BY <1>2, BufFields
<1>5. CreditsBack(b, l) = b.g - h[l] /\ b.g - h[l] \in Nat
  BY <1>3, <1>4 DEF CreditsBack, Sub
<1>6. /\ RemoveFirst(b.list, l) \in Seq(Links) /\ IsInjective(RemoveFirst(b.list, l))
      /\ \A e : Contains(RemoveFirst(b.list, l), e) <=> Contains(b.list, e) /\ e # l
  BY <1>2, <1>4, RemoveFirstElements
<1>7. /\ BufTyped(r) /\ r.list = RemoveFirst(b.list, l) /\ r.notAck = [b.notAck EXCEPT ![l] = 0]
      /\ r.g = b.g - h[l] + 0 /\ \A m \in Links \ {l} : r.queued[m] = b.queued[m]
  <2>1. /\ b.ap \in Nat \ {0} /\ b.g \in Nat /\ b.list \in Seq(Links)
        /\ b.quota \in [Links -> Nat] /\ b.notAck \in [Links -> Nat] /\ b.queued \in [Links -> Nat]
    BY <1>2, BufFields
  <2>2. r = [ap |-> b.ap, g |-> CreditsBack(b, l), list |-> RemoveFirst(b.list, l),
             quota |-> [b.quota EXCEPT ![l] = 0],
             notAck |-> [b.notAck EXCEPT ![l] = 0], queued |-> [b.queued EXCEPT ![l] = 0]]
    BY <1>1, <1>2 DEF BufTyped
  <2>3. [b.quota EXCEPT ![l] = 0] \in [Links -> Nat] /\ [b.notAck EXCEPT ![l] = 0] \in [Links -> Nat]
        /\ [b.queued EXCEPT ![l] = 0] \in [Links -> Nat]
    BY <2>1
  <2>4. BufTyped(r)
    BY <2>1, <2>2, <2>3, <1>5, <1>6 DEF BufTyped
  <2>5. r.list = RemoveFirst(b.list, l) /\ r.notAck = [b.notAck EXCEPT ![l] = 0] /\ r.g = CreditsBack(b, l)
    BY <2>2
  <2>6. \A m \in Links \ {l} : r.queued[m] = b.queued[m]
    BY <2>1, <2>2
  <2> QED BY <2>4, <2>5, <2>6, <1>5
<1>8. \A m \in Links : Connected(b, m) /\ ~ Connected(r, m) => m = l
  BY <1>6, <1>7 DEF Connected
<1>9. CreditsOK(TRUE, r, [h EXCEPT ![l] = 0])
  BY <1>2, <1>3, <1>7, <1>8, CreditsChange
<1>10. [h EXCEPT ![l] = 0] \in [Links -> Nat] /\ IsInjective(r.list)
  BY <1>2, <1>6, <1>7
<1>11. \A m \in Links : Connected(r, m) => Connected(b, m) /\ r.queued[m] = b.queued[m]
  BY <1>6, <1>7 DEF Connected
<1>12. PICK s : s = RecalcLcidQuota(r)
  OBVIOUS
<1>13. Stays(b, s)
  BY <1>7, <1>10, <1>11, <1>12, RecalcStays
<1>14. BufGood(i, s, [h EXCEPT ![l] = 0])
  BY <1>3, <1>7, <1>9, <1>10, <1>12, RecalcGood
<1> QED BY <1>1, <1>12, <1>13, <1>14

\* The controller completes n fragments.
LEMMA CompleteGood ==
    ASSUME NEW i, NEW h, NEW b, BufGood(i, b, h), NEW l \in Links, Connected(b, l), NEW n \in 1 .. h[l]
    PROVE  LET r == RecalcLcidQuota([b EXCEPT !.g = Sub(@, n), !.notAck[l] = Sub(@, n)])
           IN  BufGood(i, r, [h EXCEPT ![l] = @ - n]) /\ Stays(b, r)
<1>1. PICK r : r = [b EXCEPT !.g = Sub(@, n), !.notAck[l] = Sub(@, n)]
  OBVIOUS
<1>2. BufTyped(b) /\ h \in [Links -> Nat] /\ IsInjective(b.list) /\ CreditsOK(i, b, h) /\ i \in BOOLEAN
  BY DEF BufGood, BufOK
<1>3. i /\ b.notAck[l] = h[l] /\ h[l] \in Nat /\ h[l] <= b.g /\ i = TRUE
  BY <1>2, CreditsCover
<1>4. b.list \in Seq(Links) /\ b.g \in Nat
  BY <1>2, BufFields
<1>5. Sub(b.g, n) = b.g - n /\ b.g - n \in Nat /\ Sub(b.notAck[l], n) = h[l] - n /\ h[l] - n \in Nat
  BY <1>3, <1>4 DEF Sub
<1>6. /\ BufTyped(r) /\ r.list = b.list /\ r.notAck = [b.notAck EXCEPT ![l] = h[l] - n]
      /\ r.g = b.g - n /\ r.queued = b.queued
  BY <1>1, <1>2, <1>5 DEF BufTyped
<1>7. r.g = b.g - h[l] + (h[l] - n)
  BY <1>3, <1>4, <1>5, <1>6
<1>8. \A m \in Links : Connected(b, m) <=> Connected(r, m)
  BY <1>6 DEF Connected
<1>9. PICK k \in Nat : k = h[l] - n
  BY <1>5
<1>10. CreditsOK(TRUE, r, [h EXCEPT ![l] = k])
  BY <1>2, <1>3, <1>6, <1>7, <1>8, <1>9, CreditsChange
<1>11. [h EXCEPT ![l] = k] \in [Links -> Nat] /\ IsInjective(r.list)
  BY <1>2, <1>6
<1>12. [h EXCEPT ![l] = @ - n] = [h EXCEPT ![l] = k]
  BY <1>2, <1>9
<1>13. \A m \in Links : Connected(r, m) => Connected(b, m) /\ r.queued[m] = b.queued[m]
  BY <1>6, <1>8
<1>14. PICK s : s = RecalcLcidQuota(r)
  OBVIOUS
<1>15. Stays(b, s)
  BY <1>6, <1>11, <1>13, <1>14, RecalcStays
<1>16. BufGood(i, s, [h EXCEPT ![l] = @ - n])
  BY <1>3, <1>6, <1>10, <1>11, <1>12, <1>14, RecalcGood
<1> QED BY <1>1, <1>14, <1>15, <1>16

\* A fragment goes to the controller.
LEMMA SendGood ==
    ASSUME NEW i, NEW h, NEW b, BufGood(i, b, h), NEW l \in Links, Connected(b, l)
    PROVE  BufGood(i, [b EXCEPT !.g = @ + 1, !.notAck[l] = @ + 1], [h EXCEPT ![l] = @ + 1])
<1>1. PICK r : r = [b EXCEPT !.g = @ + 1, !.notAck[l] = @ + 1]
  OBVIOUS
<1>2. BufTyped(b) /\ h \in [Links -> Nat] /\ IsInjective(b.list) /\ CreditsOK(i, b, h) /\ i \in BOOLEAN
  BY DEF BufGood, BufOK
<1>3. i /\ b.notAck[l] = h[l] /\ h[l] \in Nat /\ h[l] <= b.g /\ i = TRUE
  BY <1>2, CreditsCover
<1>4. b.g \in Nat
  BY <1>2, BufFields
<1>5. PICK k \in Nat : k = h[l] + 1
  BY <1>3
<1>6. /\ BufTyped(r) /\ r.list = b.list /\ r.ap = b.ap /\ r.quota = b.quota
      /\ r.notAck = [b.notAck EXCEPT ![l] = k] /\ r.g = b.g + 1
  <2>1. /\ b.ap \in Nat \ {0} /\ b.g \in Nat /\ b.list \in Seq(Links)
        /\ b.quota \in [Links -> Nat] /\ b.notAck \in [Links -> Nat] /\ b.queued \in [Links -> Nat]
    BY <1>2, BufFields
  <2>2. r = [ap |-> b.ap, g |-> b.g + 1, list |-> b.list, quota |-> b.quota,
             notAck |-> [b.notAck EXCEPT ![l] = @ + 1], queued |-> b.queued]
    BY <1>1, <1>2 DEF BufTyped
  <2>3. [b.notAck EXCEPT ![l] = @ + 1] = [b.notAck EXCEPT ![l] = k] /\ [b.notAck EXCEPT ![l] = k] \in [Links -> Nat]
    BY <2>1, <1>3, <1>5
  <2> QED BY <2>1, <2>2, <2>3 DEF BufTyped
<1>7. r.g = b.g - h[l] + k
  BY <1>3, <1>4, <1>5, <1>6
<1>8. \A m \in Links : Connected(b, m) <=> Connected(r, m)
  BY <1>6 DEF Connected
<1>9. CreditsOK(TRUE, r, [h EXCEPT ![l] = k])
  BY <1>2, <1>3, <1>6, <1>7, <1>8, CreditsChange
<1>10. BufOK(r)
  BY <1>6, NewCounts DEF SameButCounts, BufGood
<1>11. [h EXCEPT ![l] = @ + 1] = [h EXCEPT ![l] = k] /\ [h EXCEPT ![l] = k] \in [Links -> Nat]
  BY <1>2, <1>5
<1> QED BY <1>1, <1>3, <1>9, <1>10, <1>11 DEF BufGood

-----------------------------------------------------------------------------
(* What waits, and how the operations change it.                           *)

\* A whole packet waits in its own channel, fragments in the FRAGMENT channel of its link;
\* o: the channels that are open.
PacketOK(o, c, f) ==
    /\ f.chan \in o /\ f.chan.lcid = c.lcid
    /\ c \in Channels => f.chan = c /\ f.idx = 0
    /\ c \notin Channels => f.idx \in 1 .. f.of

PacketsOK(qs, o) == \A c \in AllChannels : \A i \in 1 .. Len(qs.pkts[c]) : PacketOK(o, c, qs.pkts[c][i])

\* The packets of one channel change.
LEMMA PacketsChange ==
    ASSUME NEW o, NEW qs, PacketsOK(qs, o), NEW c \in AllChannels, NEW ks, NEW rs,
           PktsAre(qs, c, ks, rs), \A i \in 1 .. Len(ks) : PacketOK(o, c, ks[i])
    PROVE  PacketsOK(rs, o)
<1>1. ASSUME NEW d \in AllChannels PROVE \A i \in 1 .. Len(rs.pkts[d]) : PacketOK(o, d, rs.pkts[d][i])
  <2>1. rs.pkts[d] = IF d = c THEN ks ELSE qs.pkts[d]
    BY DEF PktsAre
  <2>2. CASE d = c
    BY <2>1, <2>2
  <2>3. CASE d # c
    BY <2>1, <2>3 DEF PacketsOK
  <2> QED BY <2>2, <2>3
<1> QED BY <1>1 DEF PacketsOK

\* The count of link l changes as much as n to k, and no link is new.
QueuedFollows(b, r, l, n, k) ==
    \A m \in Links : Connected(r, m) =>
        Connected(b, m) /\ r.queued[m] = IF m = l THEN b.queued[m] - n + k ELSE b.queued[m]

\* The count of the link follows.
LEMMA QueuedChange ==
    ASSUME NEW qs, QueuesOK(qs), NEW rs, QueuesOK(rs), NEW c \in AllChannels, NEW ks,
           PktsAre(qs, c, ks, rs), NEW b, QueuedInv(qs, b), NEW r,
           QueuedFollows(b, r, c.lcid, Len(qs.pkts[c]), Len(ks))
    PROVE  QueuedInv(rs, r)
<1>1. QueuesTyped(qs) /\ QueuesTyped(rs)
  BY DEF QueuesOK
<1>2. (\A d \in AllChannels \ {c} : rs.pkts[d] = qs.pkts[d]) /\ rs.pkts[c] = ks
  BY DEF PktsAre
<1>3. ASSUME NEW l \in Links, Connected(r, l)
      PROVE  r.queued[l] = Waiting(rs, {d \in AllChannels : d.lcid = l})
  <2> DEFINE S == {d \in AllChannels : d.lcid = l}
  <2>1. S \in SUBSET AllChannels /\ (c \in S <=> l = c.lcid)
    OBVIOUS
  <2>2. b.queued[l] = Waiting(qs, S)
    BY <1>3 DEF QueuedInv, QueuedFollows
  <2> HIDE DEF S
  <2>3. Waiting(rs, S) = IF c \in S THEN Waiting(qs, S) - Len(qs.pkts[c]) + Len(rs.pkts[c])
                         ELSE Waiting(qs, S)
    BY <1>1, <1>2, <2>1, WaitingChange
  <2>4. r.queued[l] = Waiting(rs, S)
    BY <1>2, <1>3, <2>1, <2>2, <2>3 DEF QueuedFollows
  <2> QED BY <2>4 DEF S
<1> QED BY <1>3 DEF QueuedInv

\* A link's count covers each of its channels.
LEMMA QueuedCover ==
    ASSUME NEW qs, QueuesOK(qs), NEW b, QueuedInv(qs, b), NEW c \in AllChannels, Connected(b, c.lcid)
    PROVE  b.queued[c.lcid] \in Nat /\ Len(qs.pkts[c]) \in Nat /\ Len(qs.pkts[c]) <= b.queued[c.lcid]
<1> DEFINE S == {d \in AllChannels : d.lcid = c.lcid}
<1>1. S \in SUBSET AllChannels /\ c \in S /\ c.lcid \in Links
  BY ChannelFacts
<1>2. b.queued[c.lcid] = Waiting(qs, S)
  BY <1>1 DEF QueuedInv
<1>3. QueuesTyped(qs)
  BY DEF QueuesOK
<1> HIDE DEF S
<1> QED BY <1>1, <1>2, <1>3, WaitingType

\* The state of the scheduler, without the run.
Core(i, b, h, qs, o) == BufGood(i, b, h) /\ QueuesOK(qs) /\ QueuedInv(qs, b) /\ PacketsOK(qs, o)

\* New counts of what waits.
LEMMA QueuedFields ==
    ASSUME NEW b, BufTyped(b), NEW l \in Links, NEW n \in Nat, NEW r,
           r = [b EXCEPT !.queued[l] = n]
    PROVE  /\ r = [b EXCEPT !.queued = [b.queued EXCEPT ![l] = n]]
           /\ [b.queued EXCEPT ![l] = n] \in [Links -> Nat]
           /\ r.list = b.list /\ r.queued[l] = n /\ \A m \in Links \ {l} : r.queued[m] = b.queued[m]
           /\ \A m : Connected(r, m) <=> Connected(b, m)
<1>1. b.queued \in [Links -> Nat]
  BY BufFields
<1>2. r = [b EXCEPT !.queued = [b.queued EXCEPT ![l] = n]]
  BY DEF BufTyped
<1>3. r.list = b.list /\ r.queued = [b.queued EXCEPT ![l] = n]
  BY <1>2 DEF BufTyped
<1>4. \A m : Connected(r, m) <=> Connected(b, m)
  BY <1>3 DEF Connected
<1> QED BY <1>1, <1>2, <1>3, <1>4

\* A packet is taken off its channel.
LEMMA PopCore ==
    ASSUME NEW i, NEW b, NEW h, NEW o, Core(i, b, h, q, o), NEW c \in AllChannels, q.pkts[c] # <<>>
    PROVE  Core(i, PoppedBuf(b, c.lcid), h, PriorityQueuePop(Priority(c), c.lcid, c), o)
<1>1. PICK rs : rs = PriorityQueuePop(Priority(c), c.lcid, c)
  OBVIOUS
<1>2. PICK l \in Links : l = c.lcid
  BY ChannelFacts
<1>3. BufGood(i, b, h) /\ QueuesOK(q) /\ QueuedInv(q, b) /\ PacketsOK(q, o) /\ BufTyped(b)
  BY DEF Core, BufGood, BufOK
<1>4. QueuesOK(rs) /\ PktsAre(q, c, Tail(q.pkts[c]), rs)
  BY <1>1, <1>3, Popped
<1>5. q.pkts[c] \in Seq(Packets) /\ QueuesTyped(q)
  BY <1>3, QueuesFields DEF QueuesOK
<1>6. PICK ks : ks = Tail(q.pkts[c])
  OBVIOUS
<1>7. /\ Len(q.pkts[c]) \in Nat \ {0} /\ Len(ks) = Len(q.pkts[c]) - 1
      /\ \A j \in 1 .. Len(q.pkts[c]) - 1 : ks[j] = q.pkts[c][j + 1]
  BY <1>5, <1>6, TailElements
<1>8. \A j \in 1 .. Len(ks) : PacketOK(o, c, ks[j])
  <2>1. ASSUME NEW j \in 1 .. Len(ks) PROVE PacketOK(o, c, ks[j])
    <3>1. j + 1 \in 1 .. Len(q.pkts[c]) /\ ks[j] = q.pkts[c][j + 1]
      BY <1>7
    <3> QED BY <3>1, <1>3 DEF PacketsOK
  <2> QED BY <2>1
<1>9. PacketsOK(rs, o)
  BY <1>3, <1>4, <1>6, <1>8, PacketsChange
<1>10. PICK r : r = PoppedBuf(b, l)
  OBVIOUS
<1>11. b.queued \in [Links -> Nat]
  BY <1>3, BufFields
<1>12. PICK n \in Nat : n = Sub(b.queued[l], 1)
  <2>1. Sub(b.queued[l], 1) \in Nat
    BY <1>11 DEF Sub
  <2> QED BY <2>1
<1>13. r = [b EXCEPT !.queued[l] = n]
  BY <1>3, <1>10, <1>12 DEF PoppedBuf, BufTyped
<1>14. /\ r = [b EXCEPT !.queued = [b.queued EXCEPT ![l] = n]]
       /\ [b.queued EXCEPT ![l] = n] \in [Links -> Nat]
       /\ r.list = b.list /\ r.queued[l] = n /\ \A m \in Links \ {l} : r.queued[m] = b.queued[m]
       /\ \A m : Connected(r, m) <=> Connected(b, m)
  BY <1>3, <1>13, QueuedFields
<1>15. BufGood(i, r, h)
  BY <1>3, <1>14, QueuedGood
<1>16. Connected(b, l) => n = b.queued[l] - Len(q.pkts[c]) + Len(ks)
  <2>1. SUFFICES ASSUME Connected(b, l) PROVE n = b.queued[l] - Len(q.pkts[c]) + Len(ks)
    OBVIOUS
  <2>2. b.queued[l] \in Nat /\ Len(q.pkts[c]) <= b.queued[l]
    BY <2>1, <1>2, <1>3, QueuedCover
  <2> QED BY <2>2, <1>7, <1>12 DEF Sub
<1>17. QueuedInv(rs, r)
  <2>1. QueuedFollows(b, r, c.lcid, Len(q.pkts[c]), Len(ks))
    BY <1>2, <1>14, <1>16 DEF QueuedFollows
  <2> QED BY <1>3, <1>4, <1>6, <2>1, QueuedChange
<1>18. Core(i, r, h, rs, o)
  BY <1>4, <1>9, <1>15, <1>17 DEF Core
<1> QED BY <1>1, <1>2, <1>10, <1>18

\* Packets are put at the end of a channel.
LEMMA PushCore ==
    ASSUME NEW i, NEW b, NEW h, NEW o, NEW qs, Core(i, b, h, qs, o), NEW c \in AllChannels,
           NEW ps \in Seq(Packets), \A j \in 1 .. Len(ps) : PacketOK(o, c, ps[j])
    PROVE  Core(i, PushedBuf(b, c.lcid, Len(ps)), h, PriorityQueuePush(qs, c, ps), o)
<1>1. PICK rs : rs = PriorityQueuePush(qs, c, ps)
  OBVIOUS
<1>2. PICK l \in Links : l = c.lcid
  BY ChannelFacts
<1>3. BufGood(i, b, h) /\ QueuesOK(qs) /\ QueuedInv(qs, b) /\ PacketsOK(qs, o) /\ BufTyped(b)
  BY DEF Core, BufGood, BufOK
<1>4. PICK ks : ks = qs.pkts[c] \o ps
  OBVIOUS
<1>5. QueuesOK(rs) /\ PktsAre(qs, c, ks, rs)
  BY <1>1, <1>3, <1>4, Pushed
<1>6. qs.pkts[c] \in Seq(Packets)
  BY <1>3, QueuesFields DEF QueuesOK
<1>7. /\ Len(qs.pkts[c]) \in Nat /\ Len(ps) \in Nat /\ Len(ks) = Len(qs.pkts[c]) + Len(ps)
      /\ \A j \in 1 .. Len(qs.pkts[c]) + Len(ps) :
           ks[j] = IF j <= Len(qs.pkts[c]) THEN qs.pkts[c][j] ELSE ps[j - Len(qs.pkts[c])]
  BY <1>4, <1>6, ConcatProperties, LenProperties
<1>8. \A j \in 1 .. Len(ks) : PacketOK(o, c, ks[j])
  <2>1. ASSUME NEW j \in 1 .. Len(ks) PROVE PacketOK(o, c, ks[j])
    <3>1. CASE j <= Len(qs.pkts[c])
      <4>1. j \in 1 .. Len(qs.pkts[c]) /\ ks[j] = qs.pkts[c][j]
        BY <3>1, <1>7
      <4> QED BY <4>1, <1>3 DEF PacketsOK
    <3>2. CASE ~ (j <= Len(qs.pkts[c]))
      <4>1. PICK x \in Nat, y \in Nat : x = Len(qs.pkts[c]) /\ y = Len(ps)
        BY <1>7
      <4>2. j \in 1 .. x + y /\ ~ (j <= x)
        BY <3>2, <4>1, <1>7
      <4>3. j - x \in 1 .. Len(ps)
        BY <4>1, <4>2
      <4>4. ks[j] = ps[j - x]
        BY <4>1, <4>2, <1>7
      <4> QED BY <4>3, <4>4
    <3> QED BY <3>1, <3>2
  <2> QED BY <2>1
<1>9. PacketsOK(rs, o)
  BY <1>3, <1>5, <1>8, PacketsChange
<1>10. PICK r : r = PushedBuf(b, l, Len(ps))
  OBVIOUS
<1>11. CASE ~ Connected(b, l)
  <2>1. r = b
    BY <1>10, <1>11 DEF PushedBuf
  <2>2. QueuedFollows(b, r, c.lcid, Len(qs.pkts[c]), Len(ks))
    BY <1>2, <1>11, <2>1 DEF QueuedFollows
  <2>3. QueuedInv(rs, r)
    BY <1>3, <1>5, <2>2, QueuedChange
  <2>4. Core(i, r, h, rs, o)
    BY <1>3, <1>5, <1>9, <2>1, <2>3 DEF Core
  <2> QED BY <1>1, <1>2, <1>10, <2>4
<1>12. CASE Connected(b, l)
  <2>1. b.queued \in [Links -> Nat]
    BY <1>3, BufFields
  <2>2. PICK n \in Nat : n = b.queued[l] + Len(ps)
    BY <2>1, <1>7
  <2>3. r = [b EXCEPT !.queued[l] = n]
    BY <1>3, <1>10, <1>12, <2>2 DEF PushedBuf, BufTyped
  <2>4. /\ r = [b EXCEPT !.queued = [b.queued EXCEPT ![l] = n]]
        /\ [b.queued EXCEPT ![l] = n] \in [Links -> Nat]
        /\ r.list = b.list /\ r.queued[l] = n /\ \A m \in Links \ {l} : r.queued[m] = b.queued[m]
        /\ \A m : Connected(r, m) <=> Connected(b, m)
    BY <1>3, <2>3, QueuedFields
  <2>5. BufGood(i, r, h)
    BY <1>3, <2>4, QueuedGood
  <2>6. n = b.queued[l] - Len(qs.pkts[c]) + Len(ks)
    <3>1. PICK x \in Nat, y \in Nat, z \in Nat :
             x = b.queued[l] /\ y = Len(ps) /\ z = Len(qs.pkts[c])
      BY <2>1, <1>7
    <3>2. n = x + y /\ Len(ks) = z + y
      BY <2>2, <3>1, <1>7
    <3>3. n = x - z + (z + y)
      BY <3>2
    <3> QED BY <3>1, <3>2, <3>3
  <2>7. QueuedFollows(b, r, c.lcid, Len(qs.pkts[c]), Len(ks))
    BY <1>2, <2>4, <2>6 DEF QueuedFollows
  <2>8. QueuedInv(rs, r)
    BY <1>3, <1>5, <2>7, QueuedChange
  <2>9. Core(i, r, h, rs, o)
    BY <1>5, <1>9, <2>5, <2>8 DEF Core
  <2> QED BY <1>1, <1>2, <1>10, <2>9
<1> QED BY <1>11, <1>12

\* What waits does not depend on the credits or the quotas.
LEMMA BufCore ==
    ASSUME NEW i, NEW b, NEW h, NEW qs, NEW o, Core(i, b, h, qs, o), NEW k, NEW g, NEW r,
           BufGood(k, r, g), Stays(b, r)
    PROVE  Core(k, r, g, qs, o)
BY DEF Core, QueuedInv, Stays

\* A fragment goes to the controller.
LEMMA SendCore ==
    ASSUME NEW i, NEW b, NEW h, NEW qs, NEW o, Core(i, b, h, qs, o), NEW l \in Links, Connected(b, l)
    PROVE  Core(i, [b EXCEPT !.g = @ + 1, !.notAck[l] = @ + 1], [h EXCEPT ![l] = @ + 1], qs, o)
<1>1. BufGood(i, b, h) /\ BufTyped(b)
  BY DEF Core, BufGood, BufOK
<1>2. PICK r : r = [b EXCEPT !.g = @ + 1, !.notAck[l] = @ + 1]
  OBVIOUS
<1>3. BufGood(i, r, [h EXCEPT ![l] = @ + 1])
  BY <1>1, <1>2, SendGood
<1>4. r.list = b.list /\ r.queued = b.queued
  BY <1>1, <1>2 DEF BufTyped
<1>5. Stays(b, r)
  BY <1>4 DEF Connected, Stays
<1>6. Core(i, r, [h EXCEPT ![l] = @ + 1], qs, o)
  BY <1>3, <1>5, BufCore
<1> QED BY <1>2, <1>6

\* The links of a priority change places.
LEMMA RotatedCore ==
    ASSUME NEW i, NEW b, NEW h, NEW qs, NEW o, Core(i, b, h, qs, o), run.prio \in Priorities
    PROVE  Core(i, b, h, Rotated(qs), o)
<1>1. PICK rs : rs = Rotated(qs)
  OBVIOUS
<1>2. QueuesOK(rs) /\ rs.pkts = qs.pkts
  BY <1>1, RotatedQueues DEF Core
<1>3. PacketsOK(rs, o) /\ QueuedInv(rs, b)
  BY <1>2 DEF Core, PacketsOK, QueuedInv, Waiting
<1>4. Core(i, b, h, rs, o)
  BY <1>2, <1>3 DEF Core
<1> QED BY <1>1, <1>4

\* The count of link l without n dropped packets.
DroppedBuf(b, l, n) == IF Connected(b, l) THEN [b EXCEPT !.queued[l] = Sub(@, n)] ELSE b

\* A channel loses its packets.
LEMMA DropCore ==
    ASSUME NEW i, NEW b, NEW h, NEW o, NEW qs, Core(i, b, h, qs, o), NEW c \in AllChannels
    PROVE  Core(i, DroppedBuf(b, c.lcid, Len(qs.pkts[c])), h, ChannelDownProc(qs, c), o)
<1>1. PICK rs : rs = ChannelDownProc(qs, c)
  OBVIOUS
<1>2. PICK l \in Links : l = c.lcid
  BY ChannelFacts
<1>3. BufGood(i, b, h) /\ QueuesOK(qs) /\ QueuedInv(qs, b) /\ PacketsOK(qs, o) /\ BufTyped(b)
  BY DEF Core, BufGood, BufOK
<1>4. QueuesOK(rs) /\ PktsAre(qs, c, <<>>, rs)
  BY <1>1, <1>3, Dropped
<1>5. Len(<<>>) = 0 /\ 1 .. 0 = {}
  OBVIOUS
<1>6. PacketsOK(rs, o)
  BY <1>3, <1>4, <1>5, PacketsChange
<1>7. PICK r : r = DroppedBuf(b, l, Len(qs.pkts[c]))
  OBVIOUS
<1>8. CASE ~ Connected(b, l)
  <2>1. r = b
    BY <1>7, <1>8 DEF DroppedBuf
  <2>2. QueuedFollows(b, r, c.lcid, Len(qs.pkts[c]), Len(<<>>))
    BY <1>2, <1>8, <2>1 DEF QueuedFollows
  <2>3. QueuedInv(rs, r)
    BY <1>3, <1>4, <2>2, QueuedChange
  <2>4. Core(i, r, h, rs, o)
    BY <1>3, <1>4, <1>6, <2>1, <2>3 DEF Core
  <2> QED BY <1>1, <1>2, <1>7, <2>4
<1>9. CASE Connected(b, l)
  <2>1. b.queued \in [Links -> Nat]
    BY <1>3, BufFields
  <2>2. b.queued[l] \in Nat /\ Len(qs.pkts[c]) \in Nat /\ Len(qs.pkts[c]) <= b.queued[l]
    BY <1>2, <1>3, <1>9, QueuedCover
  <2>3. PICK n \in Nat : n = b.queued[l] - Len(qs.pkts[c]) /\ n = Sub(b.queued[l], Len(qs.pkts[c]))
    BY <2>2 DEF Sub
  <2>4. r = [b EXCEPT !.queued[l] = n]
    BY <1>3, <1>7, <1>9, <2>3 DEF DroppedBuf, BufTyped
  <2>5. /\ r = [b EXCEPT !.queued = [b.queued EXCEPT ![l] = n]]
        /\ [b.queued EXCEPT ![l] = n] \in [Links -> Nat]
        /\ r.list = b.list /\ r.queued[l] = n /\ \A m \in Links \ {l} : r.queued[m] = b.queued[m]
        /\ \A m : Connected(r, m) <=> Connected(b, m)
    BY <1>3, <2>4, QueuedFields
  <2>6. BufGood(i, r, h)
    BY <1>3, <2>5, QueuedGood
  <2>7. n = b.queued[l] - Len(qs.pkts[c]) + Len(<<>>)
    BY <2>2, <2>3, <1>5
  <2>8. QueuedFollows(b, r, c.lcid, Len(qs.pkts[c]), Len(<<>>))
    BY <1>2, <2>5, <2>7 DEF QueuedFollows
  <2>9. QueuedInv(rs, r)
    BY <1>3, <1>4, <2>8, QueuedChange
  <2>10. Core(i, r, h, rs, o)
    BY <1>4, <1>6, <2>6, <2>9 DEF Core
  <2> QED BY <1>1, <1>2, <1>7, <2>10
<1> QED BY <1>8, <1>9

\* Two drops are one.
LEMMA DroppedTwice ==
    ASSUME NEW b, BufTyped(b), NEW l \in Links, NEW n \in Nat, NEW k \in Nat
    PROVE  DroppedBuf(DroppedBuf(b, l, n), l, k) = DroppedBuf(b, l, n + k)
<1>1. CASE ~ Connected(b, l)
  BY <1>1 DEF DroppedBuf
<1>2. CASE Connected(b, l)
  <2>1. b.queued \in [Links -> Nat]
    BY BufFields
  <2>2. PICK x \in Nat : x = Sub(b.queued[l], n)
    BY <2>1 DEF Sub
  <2>3. PICK r : r = DroppedBuf(b, l, n)
    OBVIOUS
  <2>4. r = [b EXCEPT !.queued[l] = x]
    BY <1>2, <2>2, <2>3 DEF DroppedBuf, BufTyped
  <2>5. /\ r = [b EXCEPT !.queued = [b.queued EXCEPT ![l] = x]]
        /\ r.queued[l] = x /\ Connected(r, l)
    BY <1>2, <2>4, QueuedFields
  <2>6. Sub(x, k) = Sub(b.queued[l], n + k)
    BY <2>1, <2>2 DEF Sub
  <2>7. PICK y : y = Sub(x, k)
    OBVIOUS
  <2>8. DroppedBuf(r, l, k) = [r EXCEPT !.queued[l] = y]
    BY <2>4, <2>5, <2>7 DEF DroppedBuf, BufTyped
  <2>9. DroppedBuf(b, l, n + k) = [b EXCEPT !.queued[l] = y]
    BY <1>2, <2>6, <2>7 DEF DroppedBuf, BufTyped
  <2>10. [r EXCEPT !.queued[l] = y] = [b EXCEPT !.queued[l] = y]
    BY <2>1, <2>4 DEF BufTyped
  <2> QED BY <2>3, <2>8, <2>9, <2>10
<1> QED BY <1>1, <1>2

\* DTAP_ChannelDown: nothing of the channel waits any more.
LEMMA DownCore ==
    ASSUME NEW i, NEW b, NEW h, NEW o, NEW qs, Core(i, b, h, qs, o), NEW c \in Channels, NEW n,
           n = Len(qs.pkts[c]) + Len(qs.pkts[FragmentChannel(c.lcid)])
    PROVE  Core(i, DroppedBuf(b, c.lcid, n), h,
                ChannelDownProc(ChannelDownProc(qs, FragmentChannel(c.lcid)), c), o \ {c})
<1>1. PICK l \in Links : l = c.lcid
  BY ChannelFacts
<1>2. PICK f \in AllChannels : f = FragmentChannel(l) /\ f.lcid = l /\ f \notin Channels
  BY <1>1, ChannelFacts
<1>3. c \in AllChannels /\ c # f
  BY <1>2, ChannelFacts
<1>4. QueuesOK(qs) /\ BufTyped(b)
  BY DEF Core, BufGood, BufOK
<1>5. PICK rs : rs = ChannelDownProc(qs, f)
  OBVIOUS
<1>6. PICK ss : ss = ChannelDownProc(rs, c)
  OBVIOUS
<1>7. QueuesOK(rs) /\ PktsAre(qs, f, <<>>, rs)
  BY <1>4, <1>5, Dropped
<1>8. QueuesOK(ss) /\ PktsAre(rs, c, <<>>, ss)
  BY <1>3, <1>6, <1>7, Dropped
<1>9. rs.pkts[c] = qs.pkts[c]
  BY <1>3, <1>7 DEF PktsAre
<1>10. PICK x \in Nat : x = Len(qs.pkts[f])
  BY <1>4, QueuesFields DEF QueuesOK
<1>11. PICK y \in Nat : y = Len(qs.pkts[c])
  BY <1>3, <1>4, QueuesFields DEF QueuesOK
<1>12. PICK r : r = DroppedBuf(b, l, x)
  OBVIOUS
<1>13. Core(i, r, h, rs, o)
  BY <1>2, <1>5, <1>10, <1>12, DropCore
<1>14. Core(i, DroppedBuf(r, l, y), h, ss, o)
  BY <1>1, <1>3, <1>6, <1>9, <1>11, <1>13, DropCore
<1>15. DroppedBuf(r, l, y) = DroppedBuf(b, c.lcid, n)
  <2>1. DroppedBuf(r, l, y) = DroppedBuf(b, l, x + y)
    BY <1>4, <1>12, DroppedTwice
  <2>2. n = x + y
    <3>1. FragmentChannel(c.lcid) = f
      BY <1>1, <1>2
    <3>2. n = y + x
      BY <3>1, <1>10, <1>11
    <3>3. \A u, v \in Nat : u + v = v + u
      OBVIOUS
    <3> QED BY <3>2, <3>3, Zenon
  <2> QED BY <2>1, <2>2, <1>1
<1>16. PacketsOK(ss, o \ {c})
  <2>1. SUFFICES ASSUME NEW d \in AllChannels, NEW j \in 1 .. Len(ss.pkts[d])
                 PROVE  PacketOK(o \ {c}, d, ss.pkts[d][j])
    BY DEF PacketsOK
  <2>2. PacketOK(o, d, ss.pkts[d][j])
    BY <1>14 DEF Core, PacketsOK
  <2>3. ss.pkts[c] = <<>> /\ ss.pkts[f] = <<>>
    BY <1>2, <1>3, <1>7, <1>8 DEF PktsAre
  <2>4. d # c /\ d # f
    <3>1. 1 .. Len(<<>>) = {}
      OBVIOUS
    <3> QED BY <2>3, <3>1
  <2>5. ss.pkts[d][j].chan # c
    <3>1. CASE d \in Channels
      BY <2>2, <2>4, <3>1 DEF PacketOK
    <3>2. CASE d \notin Channels
      <4>1. d = FragmentChannel(d.lcid)
        BY <3>2, ChannelFacts
      <4>2. d.lcid # l
        BY <4>1, <2>4, <1>2
      <4> QED BY <4>2, <2>2, <1>1 DEF PacketOK
    <3> QED BY <3>1, <3>2
  <2> QED BY <2>2, <2>5 DEF PacketOK
<1>17. Core(i, DroppedBuf(b, c.lcid, n), h, ss, o \ {c})
  BY <1>14, <1>15, <1>16 DEF Core
<1> QED BY <1>1, <1>2, <1>5, <1>6, <1>17

-----------------------------------------------------------------------------
(* The steps.                                                              *)

CoreInv ==
    /\ Core(inited, buf, Counted, q, open)
    /\ open \in SUBSET Channels /\ made \in [Channels -> Nat] /\ DliTyped
    /\ RunTyped /\ RunInv

\* The channel and the packet whose turn it is.
LEMMA Turn ==
    ASSUME QueuesOK(q), PacketsOK(q, open), RunTyped, run.prio \in Priorities, run.visit # <<>>,
           Peek(run.prio, Lcid) # 0
    PROVE  /\ Lcid \in Links /\ Chan \in AllChannels /\ Chan.lcid = Lcid /\ Priority(Chan) = run.prio
           /\ q.pkts[Chan] # <<>> /\ q.pkts[Chan] \in Seq(Packets) /\ Len(q.pkts[Chan]) \in Nat \ {0}
           /\ Pkt = q.pkts[Chan][1] /\ Pkt \in Packets /\ PacketOK(open, Chan, Pkt)
<1>1. PICK l \in Links : l = Lcid
  <2>1. run.visit \in Seq(Links)
    BY DEF RunTyped, Runs
  <2> QED BY <2>1, HeadTailProperties DEF Lcid
<1>2. PICK p \in Priorities : p = run.prio
  OBVIOUS
<1>3. PICK cs \in Seq(AllChannels) : cs = q.chans[p][l]
  BY QueuesFields DEF QueuesOK
<1> DEFINE I == {i \in 1 .. Len(cs) : q.pkts[cs[i]] # <<>>}
<1>4. I \subseteq Nat
  OBVIOUS
<1>5. Peek(run.prio, Lcid) = IF I # {} THEN Min(I) ELSE 0
  <2>1. Peek(p, l) # 0
    BY <1>1, <1>2
  <2>2. q.nodeCnt[p][l] # 0
    BY <2>1 DEF Peek
  <2>3. Peek(p, l) = IF I # {} THEN Min(I) ELSE 0
    BY <2>2, <1>3 DEF Peek, SelectInSeq
  <2> QED BY <2>3, <1>1, <1>2
<1>6. PICK k \in I : k = Peek(run.prio, Lcid)
  <2>1. I # {}
    BY <1>5
  <2>2. Min(I) \in I
    <3> HIDE DEF I
    <3> QED BY <2>1, <1>4, MinProperties
  <2> QED BY <2>1, <2>2, <1>5
<1>7. k \in 1 .. Len(cs) /\ q.pkts[cs[k]] # <<>>
  BY <1>6
<1>8. Chan = cs[k]
  BY <1>1, <1>2, <1>3, <1>6 DEF Chan
<1>9. Chan \in AllChannels /\ Contains(cs, Chan)
  BY <1>7, <1>8, ElementOfSeq DEF Contains
<1>10. Priority(Chan) = p /\ Chan.lcid = l
  BY <1>3, <1>9 DEF QueuesOK, ListsInv
<1>11. q.pkts[Chan] \in Seq(Packets)
  BY <1>9, QueuesFields DEF QueuesOK
<1>12. PICK ks \in Seq(Packets) : ks = q.pkts[Chan]
  BY <1>11
<1>13. ks # <<>> /\ Pkt = Head(ks)
  BY <1>7, <1>8, <1>12 DEF Pkt
<1>14. Len(ks) \in Nat \ {0} /\ Pkt = ks[1] /\ Pkt \in Packets
  BY <1>13, TailElements, HeadTailProperties
<1>15. PacketOK(open, Chan, Pkt)
  BY <1>9, <1>12, <1>14 DEF PacketsOK
<1> QED BY <1>1, <1>2, <1>7, <1>8, <1>9, <1>10, <1>11, <1>12, <1>14, <1>15

\* What the invariant says of a turn.
LEMMA TurnFacts ==
    ASSUME CoreInv, run.at \in {"chan", "frag"}, Peek(run.prio, Lcid) # 0
    PROVE  /\ Lcid \in Links /\ Chan \in AllChannels /\ Chan.lcid = Lcid /\ Priority(Chan) = run.prio
           /\ q.pkts[Chan] # <<>> /\ q.pkts[Chan] \in Seq(Packets) /\ Len(q.pkts[Chan]) \in Nat \ {0}
           /\ Pkt = q.pkts[Chan][1] /\ Pkt \in Packets /\ PacketOK(open, Chan, Pkt)
           /\ run.prio \in Priorities /\ Connected(buf, Lcid)
<1>1. QueuesOK(q) /\ PacketsOK(q, open)
  BY DEF CoreInv, Core
<1>2. RunTyped /\ RunInv
  BY DEF CoreInv
<1>3. run.prio \in Priorities /\ run.visit # <<>> /\ Connected(buf, Lcid)
  BY <1>2 DEF RunInv
<1> QED BY <1>1, <1>2, <1>3, Turn

\* While the fragments of a packet are sent it waits, whole, in its own channel.
LEMMA FragFacts ==
    ASSUME CoreInv, run.at = "frag"
    PROVE  /\ Peek(run.prio, Lcid) # 0 /\ Pkt.idx = 0 /\ Pkt.chan = Chan /\ Chan \in Channels /\ Chan \in open
           /\ run.next \in 1 .. Pkt.of + 1 /\ Pkt.of \in Nat \ {0} /\ run.next \in Nat
<1>1. Peek(run.prio, Lcid) # 0 /\ Pkt.idx = 0 /\ run.next \in 1 .. Pkt.of + 1
  BY DEF CoreInv, RunInv
<1>2. PacketOK(open, Chan, Pkt) /\ Pkt \in Packets
  BY <1>1, TurnFacts
<1>3. Chan \in Channels
  BY <1>1, <1>2 DEF PacketOK
<1>4. run.next \in Nat
  BY DEF CoreInv, RunTyped, Runs
<1> QED BY <1>1, <1>2, <1>3, <1>4 DEF PacketOK, Packets

\* The fragments that are saved.
LEMMA RestFacts ==
    ASSUME NEW o, NEW c \in Channels, NEW pkt \in Packets, PacketOK(o, c, pkt), NEW n \in 1 .. pkt.of
    PROVE  /\ Fragments(pkt, n) \in Seq(Packets) /\ Len(Fragments(pkt, n)) = pkt.of - n + 1
           /\ \A i \in 1 .. Len(Fragments(pkt, n)) :
                PacketOK(o, FragmentChannel(c.lcid), Fragments(pkt, n)[i])
<1>1. PICK fs : fs = Fragments(pkt, n)
  OBVIOUS
<1>2. pkt.of \in Nat \ {0} /\ pkt.of - n + 1 \in Nat /\ n \in Nat
  BY DEF Packets
<1>3. PICK k \in Nat : k = pkt.of - n + 1
  BY <1>2
<1>4. fs = [i \in 1 .. k |-> [pkt EXCEPT !.idx = n + i - 1]]
  BY <1>1, <1>3 DEF Fragments
<1>5. ASSUME NEW i \in 1 .. k
      PROVE  /\ [pkt EXCEPT !.idx = n + i - 1] \in Packets
             /\ PacketOK(o, FragmentChannel(c.lcid), [pkt EXCEPT !.idx = n + i - 1])
  <2>1. n + i - 1 \in Nat /\ n + i - 1 \in 1 .. pkt.of
    BY <1>2, <1>3
  <2>2. PICK f : f = [pkt EXCEPT !.idx = n + i - 1]
    OBVIOUS
  <2>3. f \in Packets /\ f.chan = pkt.chan /\ f.of = pkt.of /\ f.idx = n + i - 1
    BY <2>1, <2>2 DEF Packets
  <2>4. FragmentChannel(c.lcid) \notin Channels /\ FragmentChannel(c.lcid).lcid = c.lcid
    BY ChannelFacts
  <2>5. PacketOK(o, FragmentChannel(c.lcid), f)
    BY <2>1, <2>3, <2>4 DEF PacketOK
  <2> QED BY <2>2, <2>3, <2>5
<1>6. fs \in Seq(Packets) /\ Len(fs) = k
  BY <1>4, <1>5
<1>7. \A i \in 1 .. k : fs[i] = [pkt EXCEPT !.idx = n + i - 1]
  BY <1>4
<1>8. \A i \in 1 .. Len(fs) : PacketOK(o, FragmentChannel(c.lcid), fs[i])
  BY <1>5, <1>6, <1>7
<1> QED BY <1>1, <1>3, <1>6, <1>8

CoreNext ==
    /\ Core(inited, buf, Counted, q, open)'
    /\ (open \in SUBSET Channels)' /\ (made \in [Channels -> Nat])' /\ DliTyped'

\* What the DLI has done with the fragments that count: nothing, ...
LEMMA CountedSame ==
    ASSUME CoreInv, UNCHANGED <<held, lost>>
    PROVE  Counted' = Counted /\ DliTyped'
BY DEF Counted, DliTyped, CoreInv

\* ... taken one to the controller or dropped it, ...
LEMMA CountedSent ==
    ASSUME CoreInv, Lcid \in Links, NEW f, Deliver(f) \/ Drop
    PROVE  Counted' = [Counted EXCEPT ![Lcid] = @ + 1] /\ DliTyped'
<1>1. PICK l \in Links : l = Lcid
  OBVIOUS
<1>2. held \in [Links -> Nat] /\ lost \in [Links -> Nat]
  BY DEF CoreInv, DliTyped
<1>3. \/ held' = [held EXCEPT ![l] = @ + 1] /\ lost' = lost
      \/ lost' = [lost EXCEPT ![l] = @ + 1] /\ held' = held
  BY <1>1 DEF Deliver, Drop
<1>4. held' \in [Links -> Nat] /\ lost' \in [Links -> Nat]
  BY <1>2, <1>3
<1>5. ASSUME NEW m \in Links
      PROVE  held'[m] + lost'[m] = IF m = l THEN held[m] + lost[m] + 1 ELSE held[m] + lost[m]
  BY <1>2, <1>3
<1>6. [m \in Links |-> held'[m] + lost'[m]] = [[m \in Links |-> held[m] + lost[m]] EXCEPT ![l] = @ + 1]
  BY <1>5
<1> QED BY <1>1, <1>4, <1>6 DEF Counted, DliTyped

\* ... lost them with their link, ...
LEMMA CountedGone ==
    ASSUME CoreInv, NEW l \in Links,
           held' = [held EXCEPT ![l] = 0], lost' = [lost EXCEPT ![l] = 0]
    PROVE  Counted' = [Counted EXCEPT ![l] = 0] /\ DliTyped'
<1>1. held \in [Links -> Nat] /\ lost \in [Links -> Nat]
  BY DEF CoreInv, DliTyped
<1>2. held' \in [Links -> Nat] /\ lost' \in [Links -> Nat]
  BY <1>1
<1>3. ASSUME NEW m \in Links
      PROVE  held'[m] + lost'[m] = IF m = l THEN 0 ELSE held[m] + lost[m]
  BY <1>1
<1>4. [m \in Links |-> held'[m] + lost'[m]] = [[m \in Links |-> held[m] + lost[m]] EXCEPT ![l] = 0]
  BY <1>3
<1> QED BY <1>2, <1>4 DEF Counted, DliTyped

\* ... or the controller has completed n of them.
LEMMA CountedDone ==
    ASSUME CoreInv, NEW l \in Links, NEW n \in 1 .. held[l],
           held' = [held EXCEPT ![l] = @ - n], lost' = lost
    PROVE  n \in 1 .. Counted[l] /\ Counted' = [Counted EXCEPT ![l] = @ - n] /\ DliTyped'
<1>1. held \in [Links -> Nat] /\ lost \in [Links -> Nat]
  BY DEF CoreInv, DliTyped
<1>2. held[l] \in Nat /\ lost[l] \in Nat /\ n \in Nat /\ held[l] - n \in Nat
  BY <1>1
<1>3. n \in 1 .. held[l] + lost[l]
  BY <1>2
<1>4. held' \in [Links -> Nat] /\ lost' \in [Links -> Nat]
  BY <1>1, <1>2
<1>5. ASSUME NEW m \in Links
      PROVE  held'[m] + lost'[m] = IF m = l THEN held[m] + lost[m] - n ELSE held[m] + lost[m]
  BY <1>1, <1>2
<1>6. [m \in Links |-> held'[m] + lost'[m]] = [[m \in Links |-> held[m] + lost[m]] EXCEPT ![l] = @ - n]
  <2>1. PICK c : c = [m \in Links |-> held[m] + lost[m]]
    OBVIOUS
  <2>2. c[l] = held[l] + lost[l] /\ c[l] \in Int
    BY <1>2, <2>1
  <2>3. PICK k : k = c[l] - n
    OBVIOUS
  <2>4. [m \in Links |-> held'[m] + lost'[m]] = [c EXCEPT ![l] = k]
    BY <1>2, <1>5, <2>1, <2>2, <2>3
  <2>5. [m \in Links |-> held'[m] + lost'[m]] = [c EXCEPT ![l] = @ - n]
    BY <2>3, <2>4
  <2> QED BY <2>1, <2>5
<1> QED BY <1>3, <1>4, <1>6 DEF Counted, DliTyped

\* The queues at the start.
LEMMA InitQueuesOK ==
    QueuesOK(InitQueues) /\ \A o : PacketsOK(InitQueues, o)
<1>1. PICK qs : qs = InitQueues
  OBVIOUS
<1>2. /\ QueuesTyped(qs)
      /\ \A p \in Priorities : qs.lcids[p] = <<>> /\ qs.cnt[p] = 0
      /\ \A p \in Priorities : \A l \in Links : qs.chans[p][l] = <<>> /\ qs.nodeCnt[p][l] = 0
      /\ \A c \in AllChannels : qs.pkts[c] = <<>>
  BY <1>1 DEF InitQueues, QueuesTyped
<1>3. ListsInv(qs)
  <2>1. \A p \in Priorities : IsInjective(qs.lcids[p])
    BY <1>2, EmptyListElements
  <2>2. \A p \in Priorities : \A l \in Links :
          /\ IsInjective(qs.chans[p][l]) /\ qs.chans[p][l] = <<>>
          /\ \A c : ~ Contains(qs.chans[p][l], c)
    BY <1>2, EmptyListElements
  <2> QED BY <1>2, <2>1, <2>2 DEF ListsInv
<1>4. CountsInv(qs)
  <2>1. ASSUME NEW S \in SUBSET AllChannels PROVE Waiting(qs, S) = 0
    BY <1>2, WaitingType
  <2> QED BY <1>2, <2>1 DEF CountsInv
<1>5. \A o : PacketsOK(qs, o)
  <2>1. 1 .. Len(<<>>) = {}
    OBVIOUS
  <2> QED BY <1>2, <2>1 DEF PacketsOK
<1> QED BY <1>1, <1>2, <1>3, <1>4, <1>5 DEF QueuesOK

\* Nothing waits, nobody is connected.
LEMMA FreshCore ==
    ASSUME NEW i \in BOOLEAN, NEW ap \in Nat \ {0}, NEW g \in Nat, i => g = 0, NEW o
    PROVE  Core(i, [InitBuf(ap) EXCEPT !.g = g], [l \in Links |-> 0], InitQueues, o)
<1>1. PICK b : b = [InitBuf(ap) EXCEPT !.g = g]
  OBVIOUS
<1>2. BufGood(i, b, [l \in Links |-> 0])
  BY <1>1, InitBufGood
<1>3. b.list = <<>>
  BY <1>1 DEF InitBuf
<1>4. QueuedInv(InitQueues, b)
  BY <1>3, EmptyListElements DEF QueuedInv, Connected
<1>5. Core(i, b, [l \in Links |-> 0], InitQueues, o)
  BY <1>2, <1>4, InitQueuesOK DEF Core
<1> QED BY <1>1, <1>5

\* DTAP_SchedulerInit, DTAP_SchedulerDeinit.
LEMMA InitDeinitCore ==
    ASSUME CoreInv, SchedulerInit \/ SchedulerDeinit
    PROVE  CoreNext
<1>1. BufGood(inited, buf, Counted) /\ BufTyped(buf) /\ inited \in BOOLEAN /\ Counted \in [Links -> Nat]
  BY DEF CoreInv, Core, BufGood, BufOK
<1>2. buf.ap \in Nat \ {0} /\ buf.g \in Nat
  BY <1>1, BufFields
<1>3. CASE SchedulerInit
  <2>1. ~ inited /\ inited' = TRUE /\ buf' = InitBuf(buf.ap) /\ q' = InitQueues
        /\ open' = open /\ Counted' = Counted /\ made' = made /\ DliTyped'
    BY <1>3, CountedSame DEF SchedulerInit
  <2>2. buf.list = <<>> /\ \A l \in Links : ~ Connected(buf, l) => Counted[l] = 0
    BY <1>1, <2>1 DEF BufGood, CreditsOK
  <2>3. \A l \in Links : Counted[l] = 0
    BY <2>2, EmptyListElements DEF Connected
  <2>4. Counted = [l \in Links |-> 0]
    BY <1>1, <2>3
  <2>5. InitBuf(buf.ap) = [InitBuf(buf.ap) EXCEPT !.g = 0]
    BY DEF InitBuf
  <2>6. Core(TRUE, [InitBuf(buf.ap) EXCEPT !.g = 0], [l \in Links |-> 0], InitQueues, open)
    BY <1>2, FreshCore
  <2>7. Core(inited', buf', Counted', q', open')
    BY <2>1, <2>4, <2>5, <2>6
  <2> QED BY <2>1, <2>7 DEF CoreNext, CoreInv
<1>4. CASE SchedulerDeinit
  <2>1. inited' = FALSE /\ buf' = [InitBuf(buf.ap) EXCEPT !.g = buf.g] /\ q' = InitQueues
        /\ open' = {} /\ Counted' = [l \in Links |-> 0] /\ made' = made /\ DliTyped'
    BY <1>4 DEF SchedulerDeinit, Counted, DliTyped
  <2>2. Core(FALSE, [InitBuf(buf.ap) EXCEPT !.g = buf.g], [l \in Links |-> 0], InitQueues, {})
    BY <1>2, FreshCore
  <2>3. Core(inited', buf', Counted', q', open')
    BY <2>1, <2>2
  <2> QED BY <2>1, <2>3 DEF CoreNext, CoreInv
<1> QED BY <1>3, <1>4

\* DTAP_DLIConnectCbk, DTAP_DLIDisconnectCbk.
LEMMA ConnectCore ==
    ASSUME CoreInv, NEW l \in Links, Connect(l) \/ Disconnect(l)
    PROVE  CoreNext
<1>1. Core(inited, buf, Counted, q, open) /\ BufGood(inited, buf, Counted) /\ QueuesOK(q) /\ inited \in BOOLEAN
  BY DEF CoreInv, Core, BufGood
<1>2. CASE Connect(l)
  <2>1. /\ inited = TRUE /\ inited' = inited /\ q' = q /\ open' = open /\ Counted' = Counted /\ made' = made
        /\ DliTyped'
        /\ ~ Connected(buf, l) /\ \A c \in open : c.lcid # l
        /\ buf' = RecalcLcidQuota([buf EXCEPT !.list = Append(@, l), !.notAck[l] = 0, !.queued[l] = 0])
    BY <1>1, <1>2, CountedSame DEF Connect
  <2>2. BufGood(TRUE, buf', Counted) /\ NewLink(buf, buf', l)
    BY <1>1, <2>1, ConnectGood
  <2>3. Waiting(q, {c \in AllChannels : c.lcid = l}) = 0
    <3>1. ASSUME NEW c \in AllChannels, c.lcid = l PROVE q.pkts[c] = <<>>
      <4>1. SUFFICES ASSUME q.pkts[c] # <<>> PROVE FALSE
        OBVIOUS
      <4>2. q.pkts[c] \in Seq(Packets)
        BY <1>1, QueuesFields DEF QueuesOK
      <4>3. Len(q.pkts[c]) \in Nat /\ Len(q.pkts[c]) # 0
        BY <4>1, <4>2, EmptySeq, LenProperties
      <4>4. PacketOK(open, c, q.pkts[c][1])
        BY <4>3, <1>1 DEF Core, PacketsOK
      <4> QED BY <4>4, <3>1, <2>1 DEF PacketOK
    <3>2. QueuesTyped(q)
      BY <1>1 DEF QueuesOK
    <3> DEFINE S == {c \in AllChannels : c.lcid = l}
    <3>3. S \in SUBSET AllChannels /\ \A c \in S : q.pkts[c] = <<>>
      BY <3>1
    <3> HIDE DEF S
    <3>4. Waiting(q, S) = 0
      BY <3>2, <3>3, WaitingType
    <3> QED BY <3>4 DEF S
  <2>4. QueuedInv(q, buf')
    BY <1>1, <2>2, <2>3 DEF NewLink, QueuedInv, Core
  <2>5. Core(TRUE, buf', Counted, q, open)
    BY <1>1, <2>2, <2>4 DEF Core
  <2>6. Core(inited', buf', Counted', q', open')
    BY <2>1, <2>5
  <2> QED BY <2>1, <2>6 DEF CoreNext, CoreInv
<1>3. CASE Disconnect(l)
  <2>1. /\ inited' = inited /\ q' = q /\ open' = open /\ made' = made
        /\ Connected(buf, l) /\ Counted' = [Counted EXCEPT ![l] = 0] /\ DliTyped'
        /\ buf' = RecalcLcidQuota(
                [buf EXCEPT !.g = CreditsBack(buf, l), !.list = RemoveFirst(@, l), !.quota[l] = 0,
                            !.notAck[l] = 0, !.queued[l] = 0])
    BY <1>3, CountedGone DEF Disconnect
  <2>2. BufGood(inited, buf', [Counted EXCEPT ![l] = 0]) /\ Stays(buf, buf')
    BY <1>1, <2>1, DisconnectGood
  <2>3. Core(inited, buf', [Counted EXCEPT ![l] = 0], q, open)
    BY <1>1, <2>2, BufCore
  <2>4. Core(inited', buf', Counted', q', open')
    BY <2>1, <2>3
  <2> QED BY <2>1, <2>4 DEF CoreNext, CoreInv
<1> QED BY <1>2, <1>3

\* DTAP_ChannelAdd, DTAP_ChannelDel.
LEMMA ChannelCore ==
    ASSUME CoreInv, NEW c \in Channels, ChannelAdd(c) \/ ChannelDown(c)
    PROVE  CoreNext
<1>1. Core(inited, buf, Counted, q, open)
  BY DEF CoreInv
<1>2. CASE ChannelAdd(c)
  <2>1. /\ inited' = inited /\ q' = q /\ open' = open \cup {c} /\ made' = made /\ Counted' = Counted /\ buf' = buf
        /\ DliTyped'
    BY <1>2, CountedSame DEF ChannelAdd
  <2>2. PacketsOK(q, open \cup {c})
    BY <1>1 DEF Core, PacketsOK, PacketOK
  <2>3. Core(inited, buf, Counted, q, open \cup {c})
    BY <1>1, <2>2 DEF Core
  <2>4. Core(inited', buf', Counted', q', open')
    BY <2>1, <2>3
  <2> QED BY <2>1, <2>4 DEF CoreNext, CoreInv
<1>3. CASE ChannelDown(c)
  <2>1. PICK n : n = Len(q.pkts[c]) + Len(q.pkts[FragmentChannel(c.lcid)])
    OBVIOUS
  <2>2. /\ inited' = inited /\ open' = open \ {c} /\ made' = made /\ Counted' = Counted /\ DliTyped'
        /\ q' = ChannelDownProc(ChannelDownProc(q, FragmentChannel(c.lcid)), c)
        /\ buf' = DroppedBuf(buf, c.lcid, n)
    BY <1>3, <2>1, CountedSame DEF ChannelDown, DroppedBuf
  <2>3. Core(inited, DroppedBuf(buf, c.lcid, n), Counted,
             ChannelDownProc(ChannelDownProc(q, FragmentChannel(c.lcid)), c), open \ {c})
    BY <1>1, <2>1, DownCore
  <2>4. Core(inited', buf', Counted', q', open')
    BY <2>2, <2>3
  <2> QED BY <2>2, <2>4 DEF CoreNext, CoreInv
<1> QED BY <1>2, <1>3

\* DTAP_SetApBufferNum.
LEMMA SetApCore ==
    ASSUME CoreInv, NEW n \in BufferNums, SetApBufferNum(n)
    PROVE  CoreNext
<1>1. Core(inited, buf, Counted, q, open) /\ BufGood(inited, buf, Counted) /\ BufTyped(buf)
      /\ IsInjective(buf.list) /\ CreditsOK(inited, buf, Counted) /\ inited \in BOOLEAN /\ Counted \in [Links -> Nat]
  BY DEF CoreInv, Core, BufGood, BufOK
<1>2. PICK r : r = [buf EXCEPT !.ap = n]
  OBVIOUS
<1>3. n \in Nat \ {0}
  BY SchedulerAssumption
<1>4. BufTyped(r) /\ r.list = buf.list /\ r.g = buf.g /\ r.notAck = buf.notAck /\ r.queued = buf.queued
  BY <1>1, <1>2, <1>3 DEF BufTyped
<1>5. /\ inited' = inited /\ q' = q /\ open' = open /\ made' = made /\ Counted' = Counted /\ DliTyped'
      /\ buf' = RecalcLcidQuota(r)
  BY <1>2, CountedSame DEF SetApBufferNum
<1>6. CreditsOK(inited, r, Counted)
  BY <1>1, <1>4, SameCredits
<1>7. BufGood(inited, buf', Counted)
  BY <1>1, <1>4, <1>5, <1>6, RecalcGood
<1>8. Stays(buf, buf')
  <2>1. \A l \in Links : Connected(r, l) => Connected(buf, l) /\ r.queued[l] = buf.queued[l]
    BY <1>4 DEF Connected
  <2> QED BY <2>1, <1>1, <1>4, <1>5, RecalcStays
<1>9. Core(inited, buf', Counted, q, open)
  BY <1>1, <1>7, <1>8, BufCore
<1>10. Core(inited', buf', Counted', q', open')
  BY <1>5, <1>9
<1> QED BY <1>5, <1>10 DEF CoreNext, CoreInv

\* DTAP_RecalcLcidQuota where nothing else has changed.
LEMMA RecalcCore ==
    ASSUME NEW i, NEW b, NEW h, NEW qs, NEW o, Core(i, b, h, qs, o)
    PROVE  Core(i, RecalcLcidQuota(b), h, qs, o)
<1>1. BufGood(i, b, h) /\ BufTyped(b) /\ IsInjective(b.list) /\ CreditsOK(i, b, h)
      /\ i \in BOOLEAN /\ h \in [Links -> Nat]
  BY DEF Core, BufGood, BufOK
<1>2. BufGood(i, RecalcLcidQuota(b), h)
  BY <1>1, RecalcGood
<1>3. Stays(b, RecalcLcidQuota(b))
  BY <1>1, RecalcStays
<1> QED BY <1>2, <1>3, BufCore

\* DTAP_DataSendWithPriority.
LEMMA DataSendCore ==
    ASSUME CoreInv, NEW c \in Channels, DataSendWithPriority(c)
    PROVE  CoreNext
<1>1. Core(inited, buf, Counted, q, open) /\ made \in [Channels -> Nat]
  BY DEF CoreInv
<1>2. PICK k : k = Packet(c, made[c] + 1, ToSend[c][made[c] + 1])
  OBVIOUS
<1>3. PICK r : r = PushedBuf(buf, c.lcid, 1)
  OBVIOUS
<1>4. /\ inited' = inited /\ open' = open /\ Counted' = Counted /\ made' = [made EXCEPT ![c] = @ + 1]
      /\ DliTyped'
      /\ c \in open /\ made[c] < Len(ToSend[c])
      /\ q' = PriorityQueuePush(q, c, <<k>>)
      /\ buf' = r \/ buf' = RecalcLcidQuota(r)
  BY <1>2, <1>3, CountedSame DEF DataSendWithPriority
<1>5. k \in Packets
  <2>1. ToSend[c] \in Seq(Nat \ {0})
    BY SchedulerAssumption
  <2>2. made[c] + 1 \in 1 .. Len(ToSend[c])
    BY <1>1, <1>4, <2>1, LenProperties
  <2>3. ToSend[c][made[c] + 1] \in Nat \ {0}
    BY <2>1, <2>2, ElementOfSeq
  <2>4. made[c] + 1 \in Nat \ {0}
    BY <1>1
  <2> QED BY <1>2, <2>3, <2>4 DEF Packet, Packets
<1>6. PacketOK(open, c, k)
  BY <1>2, <1>4 DEF PacketOK, Packet
<1>7. <<k>> \in Seq(Packets) /\ Len(<<k>>) = 1 /\ \A j \in 1 .. Len(<<k>>) : PacketOK(open, c, <<k>>[j])
  BY <1>5, <1>6
<1>8. c \in AllChannels
  BY ChannelFacts
<1>9. PICK ps \in Seq(Packets) : ps = <<k>> /\ Len(ps) = 1 /\ \A j \in 1 .. Len(ps) : PacketOK(open, c, ps[j])
  BY <1>7
<1>10. Core(inited, PushedBuf(buf, c.lcid, Len(ps)), Counted, PriorityQueuePush(q, c, ps), open)
  BY <1>1, <1>8, <1>9, PushCore
<1>11. Core(inited, r, Counted, q', open)
  BY <1>3, <1>4, <1>9, <1>10
<1>12. Core(inited, buf', Counted, q', open)
  BY <1>4, <1>11, RecalcCore
<1>13. Core(inited', buf', Counted', q', open')
  BY <1>4, <1>12
<1>14. made' \in [Channels -> Nat]
  BY <1>1, <1>4
<1> QED BY <1>4, <1>13, <1>14 DEF CoreNext, CoreInv

\* DTAP_SendCompleteCbk.
LEMMA SendCompleteCore ==
    ASSUME CoreInv, NEW l \in Links, NEW n \in 1 .. held[l], SendComplete(l, n)
    PROVE  CoreNext
<1>1. Core(inited, buf, Counted, q, open) /\ BufGood(inited, buf, Counted)
  BY DEF CoreInv, Core
<1>2. /\ inited' = inited /\ q' = q /\ open' = open /\ made' = made
      /\ Connected(buf, l) /\ Counted' = [Counted EXCEPT ![l] = @ - n]
      /\ n \in 1 .. Counted[l] /\ DliTyped'
      /\ buf' = RecalcLcidQuota([buf EXCEPT !.g = Sub(@, n), !.notAck[l] = Sub(@, n)])
  BY CountedDone DEF SendComplete
<1>3. BufGood(inited, buf', [Counted EXCEPT ![l] = @ - n]) /\ Stays(buf, buf')
  BY <1>1, <1>2, CompleteGood
<1>4. Core(inited, buf', [Counted EXCEPT ![l] = @ - n], q, open)
  BY <1>1, <1>3, BufCore
<1>5. Core(inited', buf', Counted', q', open')
  BY <1>2, <1>4
<1> QED BY <1>2, <1>5 DEF CoreNext, CoreInv

\* The turns of DTAP_SchedulerRun that send and save nothing.
LEMMA LoopCore ==
    ASSUME CoreInv, RunPriority \/ PriorityDone \/ VisitLcid \/ LcidDone \/ SendRefused \/ SplitData
    PROVE  CoreNext
<1>1. Core(inited, buf, Counted, q, open)
  BY DEF CoreInv
<1>2. /\ inited' = inited /\ buf' = buf /\ Counted' = Counted /\ open' = open /\ made' = made
      /\ DliTyped'
      /\ q' = q \/ (q' = Rotated(q) /\ run.at \in {"lcid", "chan"})
  BY CountedSame DEF RunPriority, PriorityDone, VisitLcid, LcidDone, SendRefused, SplitData
<1>3. CASE q' = q
  <2>1. Core(inited', buf', Counted', q', open')
    BY <1>1, <1>2, <1>3
  <2> QED BY <1>2, <2>1 DEF CoreNext, CoreInv
<1>4. CASE q' = Rotated(q) /\ run.at \in {"lcid", "chan"}
  <2>1. run.prio \in Priorities
    BY <1>4 DEF CoreInv, RunInv
  <2>2. Core(inited, buf, Counted, Rotated(q), open)
    BY <1>1, <2>1, RotatedCore
  <2>3. Core(inited', buf', Counted', q', open')
    BY <1>2, <1>4, <2>2
  <2> QED BY <1>2, <2>3 DEF CoreNext, CoreInv
<1> QED BY <1>2, <1>3, <1>4

\* A saved fragment is sent.
LEMMA SendFragmentCore ==
    ASSUME CoreInv, SendFragment
    PROVE  CoreNext
<1>1. Core(inited, buf, Counted, q, open)
  BY DEF CoreInv
<1>2. run.at = "chan" /\ Peek(run.prio, Lcid) # 0
  BY DEF SendFragment, CanSchedule
<1>3. /\ Lcid \in Links /\ Chan \in AllChannels /\ Chan.lcid = Lcid /\ Priority(Chan) = run.prio
      /\ q.pkts[Chan] # <<>> /\ Connected(buf, Lcid)
  BY <1>2, TurnFacts
<1>4. PICK l \in Links : l = Lcid
  BY <1>3
<1>5. PICK b : b = PoppedBuf(buf, l)
  OBVIOUS
<1>6. /\ inited' = inited /\ open' = open /\ made' = made
      /\ buf' = [b EXCEPT !.g = @ + 1, !.notAck[l] = @ + 1]
      /\ Counted' = [Counted EXCEPT ![l] = @ + 1] /\ DliTyped'
      /\ q' = PriorityQueuePop(run.prio, Lcid, Chan)
  BY <1>3, <1>4, <1>5, CountedSent DEF SendFragment, SendData
<1>7. Core(inited, PoppedBuf(buf, Chan.lcid), Counted, PriorityQueuePop(Priority(Chan), Chan.lcid, Chan), open)
  BY <1>1, <1>3, PopCore
<1>8. Core(inited, b, Counted, q', open)
  BY <1>3, <1>4, <1>5, <1>6, <1>7
<1>9. Connected(b, l)
  <2>1. BufTyped(buf)
    BY <1>1 DEF Core, BufGood, BufOK
  <2>2. b.list = buf.list
    BY <1>5, <2>1 DEF PoppedBuf, BufTyped
  <2> QED BY <1>3, <1>4, <2>2 DEF Connected
<1>10. Core(inited, [b EXCEPT !.g = @ + 1, !.notAck[l] = @ + 1], [Counted EXCEPT ![l] = @ + 1], q', open)
  BY <1>8, <1>9, SendCore
<1>11. Core(inited', buf', Counted', q', open')
  BY <1>6, <1>10
<1> QED BY <1>6, <1>11 DEF CoreNext, CoreInv

\* A fragment of a packet just split is sent.
LEMMA SendNextCore ==
    ASSUME CoreInv, SendNext
    PROVE  CoreNext
<1>1. Core(inited, buf, Counted, q, open)
  BY DEF CoreInv
<1>2. run.at = "frag"
  BY DEF SendNext
<1>3. Lcid \in Links /\ Connected(buf, Lcid)
  BY <1>2, TurnFacts, FragFacts
<1>4. PICK l \in Links : l = Lcid
  BY <1>3
<1>5. /\ inited' = inited /\ open' = open /\ made' = made /\ q' = q
      /\ buf' = [buf EXCEPT !.g = @ + 1, !.notAck[l] = @ + 1]
      /\ Counted' = [Counted EXCEPT ![l] = @ + 1] /\ DliTyped'
  BY <1>3, <1>4, CountedSent DEF SendNext, SendData
<1>6. Core(inited, [buf EXCEPT !.g = @ + 1, !.notAck[l] = @ + 1], [Counted EXCEPT ![l] = @ + 1], q, open)
  BY <1>1, <1>3, <1>4, SendCore
<1>7. Core(inited', buf', Counted', q', open')
  BY <1>5, <1>6
<1> QED BY <1>5, <1>7 DEF CoreNext, CoreInv

\* The packet is done with, or its rest is dropped.
LEMMA PacketDoneCore ==
    ASSUME CoreInv, AllSent \/ SaveFails
    PROVE  CoreNext
<1>1. Core(inited, buf, Counted, q, open)
  BY DEF CoreInv
<1>2. run.at = "frag"
  BY DEF AllSent, SaveFails
<1>3. /\ Lcid \in Links /\ Chan \in AllChannels /\ Chan.lcid = Lcid /\ Priority(Chan) = run.prio
      /\ q.pkts[Chan] # <<>> /\ run.prio \in Priorities
  BY <1>2, TurnFacts, FragFacts
<1>4. PICK rs : rs = PriorityQueuePop(run.prio, Lcid, Chan)
  OBVIOUS
<1>5. /\ inited' = inited /\ open' = open /\ made' = made /\ Counted' = Counted /\ DliTyped'
      /\ buf' = PoppedBuf(buf, Lcid) /\ (q' = rs \/ q' = Rotated(rs))
  BY <1>4, CountedSame DEF AllSent, SaveFails
<1>6. Core(inited, PoppedBuf(buf, Chan.lcid), Counted, PriorityQueuePop(Priority(Chan), Chan.lcid, Chan), open)
  BY <1>1, <1>3, PopCore
<1>7. Core(inited, buf', Counted, rs, open)
  BY <1>3, <1>4, <1>5, <1>6
<1>8. Core(inited, buf', Counted, Rotated(rs), open)
  BY <1>3, <1>7, RotatedCore
<1>9. Core(inited', buf', Counted', q', open')
  BY <1>5, <1>7, <1>8
<1> QED BY <1>5, <1>9 DEF CoreNext, CoreInv

\* The rest of a packet is saved.
LEMMA SaveCore ==
    ASSUME CoreInv, SaveRest \/ NextRefused
    PROVE  CoreNext
<1>1. Core(inited, buf, Counted, q, open)
  BY DEF CoreInv
<1>2. run.at = "frag" /\ run.next <= Pkt.of
  BY DEF SaveRest, NextRefused
<1>3. /\ Lcid \in Links /\ Chan \in AllChannels /\ Chan.lcid = Lcid /\ Priority(Chan) = run.prio
      /\ q.pkts[Chan] # <<>> /\ Pkt \in Packets /\ PacketOK(open, Chan, Pkt)
  BY <1>2, TurnFacts, FragFacts
<1>4. Chan \in Channels /\ run.next \in 1 .. Pkt.of
  BY <1>2, FragFacts
<1>5. PICK rs : rs = PriorityQueuePop(run.prio, Lcid, Chan)
  OBVIOUS
<1>6. PICK rest \in Seq(Packets) :
         /\ rest = Fragments(Pkt, run.next)
         /\ \A j \in 1 .. Len(rest) : PacketOK(open, FragmentChannel(Chan.lcid), rest[j])
  BY <1>3, <1>4, RestFacts
<1>7. PICK f \in AllChannels : f = FragmentChannel(Chan.lcid) /\ f.lcid = Lcid
  BY <1>3, ChannelFacts
<1>8. PICK b : b = PoppedBuf(buf, Lcid)
  OBVIOUS
<1>9. /\ inited' = inited /\ open' = open /\ made' = made /\ Counted' = Counted /\ DliTyped'
      /\ q' = PriorityQueuePush(rs, f, rest)
      /\ buf' = PushedBuf(b, Lcid, Len(rest))
  BY <1>5, <1>6, <1>7, <1>8, CountedSame DEF SaveRest, NextRefused, SaveFragmentData, SaveIn
<1>10. Core(inited, PoppedBuf(buf, Chan.lcid), Counted, PriorityQueuePop(Priority(Chan), Chan.lcid, Chan), open)
  BY <1>1, <1>3, PopCore
<1>11. Core(inited, b, Counted, rs, open)
  BY <1>3, <1>5, <1>8, <1>10
<1>12. \A j \in 1 .. Len(rest) : PacketOK(open, f, rest[j])
  BY <1>6, <1>7
<1>13. Core(inited, PushedBuf(b, f.lcid, Len(rest)), Counted, PriorityQueuePush(rs, f, rest), open)
  BY <1>11, <1>12, PushCore
<1>14. Core(inited', buf', Counted', q', open')
  BY <1>7, <1>9, <1>13
<1> QED BY <1>9, <1>14 DEF CoreNext, CoreInv

\* Every step.
LEMMA CoreStep ==
    ASSUME CoreInv, Next
    PROVE  CoreNext
<1>1. CASE Handler
  BY <1>1, InitDeinitCore, ConnectCore, ChannelCore, SetApCore, DataSendCore, SendCompleteCore DEF Handler
<1>2. CASE SchedulerRun
  BY <1>2, LoopCore, SendFragmentCore, SendNextCore, PacketDoneCore, SaveCore DEF SchedulerRun
<1> QED BY <1>1, <1>2 DEF Next

RunNext == RunTyped' /\ RunInv'

\* No run.
LEMMA IdleRun ==
    ASSUME run' = Idle
    PROVE  RunNext
<1>1. run'.at = "idle" /\ run'.visit = <<>> /\ run'.next = 0 /\ run'.prio = 0 /\ run'.sched = {}
  BY DEF Idle
<1>2. RunTyped'
  BY DEF RunTyped, Runs, Idle
<1>3. IsInjective(run'.visit)
  BY <1>1, EmptyListElements
<1> QED BY <1>1, <1>2, <1>3 DEF RunNext, RunInv

\* A run at its start.
LEMMA StartRunFields ==
    ASSUME NEW p \in Nat
    PROVE  /\ [StartRun EXCEPT !.prio = p] = [at |-> "prio", prio |-> p, visit |-> <<>>, sched |-> {}, next |-> 0]
           /\ [StartRun EXCEPT !.prio = p] \in Runs
           /\ StartRun = [StartRun EXCEPT !.prio = 0]
<1>0. <<>> \in Seq(Links)
  OBVIOUS
<1>1. PICK v \in Seq(Links) : v = <<>>
  BY <1>0, Zenon
<1>2. PICK z \in SUBSET Links : z = {}
  OBVIOUS
<1>3. PICK s : s = StartRun
  OBVIOUS
<1>4. s = [at |-> "prio", prio |-> 0, visit |-> v, sched |-> z, next |-> 0]
  BY <1>1, <1>2, <1>3 DEF StartRun, Idle
<1>5. [s EXCEPT !.prio = p] = [at |-> "prio", prio |-> p, visit |-> v, sched |-> z, next |-> 0]
  BY <1>4
<1>6. [s EXCEPT !.prio = 0] = s
  BY <1>4
<1>7. [at |-> "prio", prio |-> p, visit |-> v, sched |-> z, next |-> 0] \in Runs
  BY DEF Runs
<1> QED BY <1>1, <1>2, <1>3, <1>5, <1>6, <1>7

\* A run that looks for the next priority.
LEMMA PrioRun ==
    ASSUME NEW p \in Nat, run' = [StartRun EXCEPT !.prio = p], inited'
    PROVE  RunNext
<1>0. run' = [at |-> "prio", prio |-> p, visit |-> <<>>, sched |-> {}, next |-> 0]
  BY StartRunFields
<1>1. run'.at = "prio" /\ run'.visit = <<>> /\ run'.next = 0 /\ run'.prio = p /\ run'.sched = {}
  BY <1>0
<1>2. RunTyped'
  BY StartRunFields DEF RunTyped
<1>3. IsInjective(run'.visit)
  BY <1>1, EmptyListElements
<1> QED BY <1>1, <1>2, <1>3 DEF RunNext, RunInv

\* The handlers leave no run, or start one.
LEMMA HandlerRun ==
    ASSUME CoreInv, Handler
    PROVE  RunNext
<1>1. run = Idle
  BY DEF Handler, MainThreadFree, SchedulerInit, SchedulerDeinit, Connect, Disconnect, ChannelAdd,
         ChannelDown, SetApBufferNum, DataSendWithPriority, SendComplete
<1>2. run' = Idle \/ run' = StartRun
  BY <1>1 DEF Handler, SchedulerInit, SchedulerDeinit, Connect, Disconnect, ChannelAdd,
              ChannelDown, SetApBufferNum, DataSendWithPriority, SendComplete, RunAfterCompletion
<1>3. CASE run' = Idle
  BY <1>3, IdleRun
<1>4. CASE run' = StartRun /\ run' # Idle
  <2>1. inited' = inited
    BY <1>1, <1>4 DEF Handler, SchedulerInit, SchedulerDeinit, Connect, Disconnect, ChannelAdd,
              ChannelDown, SetApBufferNum, DataSendWithPriority, SendComplete
  <2>2. inited
    <3>1. CASE \E c \in Channels : DataSendWithPriority(c)
      BY <3>1 DEF DataSendWithPriority
    <3>2. CASE \E l \in Links : \E n \in 1 .. held[l] : SendComplete(l, n)
      <4>1. PICK l \in Links : Connected(buf, l)
        BY <3>2 DEF SendComplete
      <4>2. ~ inited => buf.list = <<>>
        BY DEF CoreInv, Core, BufGood, CreditsOK
      <4> QED BY <4>1, <4>2, EmptyListElements DEF Connected
    <3> QED BY <3>1, <3>2, <1>1, <1>4 DEF Handler, SchedulerInit, SchedulerDeinit, Connect, Disconnect,
              ChannelAdd, ChannelDown, SetApBufferNum
  <2>3. StartRun = [StartRun EXCEPT !.prio = 0]
    BY StartRunFields
  <2> QED BY <1>4, <2>1, <2>2, <2>3, PrioRun
<1> QED BY <1>2, <1>3, <1>4

\* The lists of the queues, one link after the other.
LEMMA LoopRun ==
    ASSUME CoreInv, RunPriority \/ PriorityDone \/ VisitLcid \/ LcidDone
    PROVE  RunNext
<1>1. RunTyped /\ RunInv /\ QueuesOK(q)
  BY DEF CoreInv, Core
<1>2. run.visit \in Seq(Links) /\ run.prio \in Nat /\ run.sched \in SUBSET Links /\ run.next \in Nat
      /\ IsInjective(run.visit)
  BY <1>1 DEF RunTyped, Runs, RunInv
<1>3. CASE RunPriority
  <2> DEFINE left == {p \in run.prio .. NumPriorities - 1 : q.cnt[p] > 0}
  <2>1. run.at = "prio" /\ inited' = inited /\ inited
    BY <1>1, <1>3 DEF RunPriority, RunInv
  <2>2. PICK m : m = Min(left)
    OBVIOUS
  <2>3. CASE run' = Idle
    BY <2>3, IdleRun
  <2>4. CASE run' # Idle
    <3>1. left # {} /\ run' = [run EXCEPT !.at = "lcid", !.prio = m, !.visit = q.lcids[m]]
      BY <1>3, <2>2, <2>4 DEF RunPriority
    <3>2. left \subseteq Nat
      BY <1>2, SchedulerAssumption
    <3>3. m \in left
      <4> HIDE DEF left
      <4> QED BY <3>1, <3>2, <2>2, MinProperties
    <3>4. m \in Priorities /\ m \in Nat
      BY <3>2, <3>3, <1>2, SchedulerAssumption DEF Priorities
    <3>5. q.lcids[m] \in Seq(Links) /\ IsInjective(q.lcids[m])
      BY <1>1, <3>4, QueuesFields DEF QueuesOK, ListsInv
    <3>6. run'.at = "lcid" /\ run'.prio = m /\ run'.visit = q.lcids[m]
      BY <1>1, <3>1 DEF RunTyped, Runs
    <3>7. RunTyped'
      BY <1>1, <3>1, <3>4, <3>5 DEF RunTyped, Runs
    <3> QED BY <2>1, <3>4, <3>5, <3>6, <3>7 DEF RunNext, RunInv
  <2> QED BY <2>3, <2>4
<1>4. CASE PriorityDone
  <2>1. run' = [StartRun EXCEPT !.prio = run.prio + 1] /\ inited' = inited /\ inited
    BY <1>1, <1>4 DEF PriorityDone, RunInv
  <2>2. run.prio + 1 \in Nat
    BY <1>2
  <2> QED BY <2>1, <2>2, PrioRun
<1>5. CASE VisitLcid
  <2>1. run.at = "lcid" /\ run.visit # <<>> /\ inited' = inited /\ inited /\ buf' = buf /\ run.prio \in Priorities
    BY <1>1, <1>5 DEF VisitLcid, RunInv
  <2>2. PICK l \in Links : l = Head(run.visit)
    BY <1>2, <2>1, HeadTailProperties
  <2>3. CASE CanSend(l)
    <3>1. run' = [run EXCEPT !.at = "chan", !.sched = @ \cup {l}]
      BY <1>5, <2>2, <2>3 DEF VisitLcid
    <3>2. RunTyped'
      BY <1>1, <3>1 DEF RunTyped, Runs
    <3>3. run'.at = "chan" /\ run'.visit = run.visit /\ run'.prio = run.prio
      BY <1>1, <3>1 DEF RunTyped, Runs
    <3>4. Connected(buf, l)
      BY <2>3 DEF CanSend
    <3>5. Connected(buf, Lcid)'
      BY <2>1, <2>2, <3>3, <3>4 DEF Lcid, Connected
    <3> QED BY <1>2, <2>1, <3>2, <3>3, <3>5 DEF RunNext, RunInv
  <2>4. CASE ~ CanSend(l)
    <3>1. run' = [run EXCEPT !.visit = Tail(@)]
      BY <1>5, <2>2, <2>4 DEF VisitLcid
    <3>2. Tail(run.visit) \in Seq(Links) /\ IsInjective(Tail(run.visit))
      BY <1>2, <2>1, TailInjectiveList, TailElements
    <3>3. RunTyped'
      BY <1>1, <3>1, <3>2 DEF RunTyped, Runs
    <3>4. run'.at = "lcid" /\ run'.visit = Tail(run.visit) /\ run'.prio = run.prio
      BY <1>1, <2>1, <3>1 DEF RunTyped, Runs
    <3> QED BY <2>1, <3>2, <3>3, <3>4 DEF RunNext, RunInv
  <2> QED BY <2>3, <2>4
<1>6. CASE LcidDone
  <2>1. run.at = "chan" /\ run.visit # <<>> /\ inited' = inited /\ inited /\ run.prio \in Priorities
    BY <1>1, <1>6 DEF LcidDone, RunInv
  <2>2. run' = [run EXCEPT !.at = "lcid", !.visit = Tail(@)]
    BY <1>6 DEF LcidDone
  <2>3. Tail(run.visit) \in Seq(Links) /\ IsInjective(Tail(run.visit))
    BY <1>2, <2>1, TailInjectiveList, TailElements
  <2>4. RunTyped'
    BY <1>1, <2>2, <2>3 DEF RunTyped, Runs
  <2>5. run'.at = "lcid" /\ run'.visit = Tail(run.visit) /\ run'.prio = run.prio
    BY <1>1, <2>1, <2>2 DEF RunTyped, Runs
  <2> QED BY <2>1, <2>3, <2>4, <2>5 DEF RunNext, RunInv
<1> QED BY <1>3, <1>4, <1>5, <1>6

\* The links of the buffers do not change while packets are counted.
LEMMA CountedList ==
    ASSUME NEW b, BufTyped(b), NEW l \in Links, NEW n
    PROVE  /\ PoppedBuf(b, l).list = b.list /\ PushedBuf(b, l, n).list = b.list
           /\ [b EXCEPT !.g = @ + 1, !.notAck[l] = @ + 1].list = b.list
BY DEF PoppedBuf, PushedBuf, BufTyped

\* Whose turn it is depends on the queues and the visit.
LEMMA SameTurn ==
    ASSUME run'.prio = run.prio, run'.visit = run.visit, q' = q
    PROVE  Lcid' = Lcid /\ Peek(run.prio, Lcid)' = Peek(run.prio, Lcid) /\ Chan' = Chan /\ Pkt' = Pkt
<1>1. Lcid' = Lcid
  BY DEF Lcid
<1>2. Peek(run.prio, Lcid)' = Peek(run.prio, Lcid)
  BY <1>1 DEF Peek, SelectInSeq
<1>3. Chan' = Chan
  BY <1>1, <1>2 DEF Chan
<1> QED BY <1>1, <1>2, <1>3 DEF Pkt

\* A packet is sent, or a fragment; the run goes on or stops.
LEMMA SendRun ==
    ASSUME CoreInv, SendFragment \/ SendRefused \/ SplitData \/ SendNext \/ AllSent
    PROVE  RunNext
<1>1. RunTyped /\ RunInv /\ BufTyped(buf)
  BY DEF CoreInv, Core, BufGood, BufOK
<1>2. run.at \in {"chan", "frag"} /\ inited' = inited
  BY DEF SendFragment, SendRefused, SplitData, SendNext, AllSent
<1>3. inited /\ IsInjective(run.visit) /\ run.prio \in Priorities /\ run.visit # <<>> /\ Connected(buf, Lcid)
  BY <1>1, <1>2 DEF RunInv
<1>4. PICK l \in Links : l = Lcid
  <2>1. run.visit \in Seq(Links)
    BY <1>1 DEF RunTyped, Runs
  <2> QED BY <2>1, <1>3, HeadTailProperties DEF Lcid
<1>5. CASE SendRefused
  BY <1>5, IdleRun DEF SendRefused, StopRun
<1>6. CASE ~ SendRefused
  <2>1. buf'.list = buf.list
    <3>1. PICK b : b = PoppedBuf(buf, l)
      OBVIOUS
    <3>2. BufTyped(b) /\ b.list = buf.list
      <4>1. BufGood(inited, buf, Counted) /\ buf.queued \in [Links -> Nat]
        BY <1>1, BufFields DEF CoreInv, Core
      <4>2. b = [buf EXCEPT !.queued[l] = Sub(buf.queued[l], 1)]
        BY <1>1, <3>1 DEF PoppedBuf, BufTyped
      <4>3. Sub(buf.queued[l], 1) \in Nat
        BY <4>1 DEF Sub
      <4>4. /\ b = [buf EXCEPT !.queued = [buf.queued EXCEPT ![l] = Sub(buf.queued[l], 1)]]
            /\ [buf.queued EXCEPT ![l] = Sub(buf.queued[l], 1)] \in [Links -> Nat]
            /\ b.list = buf.list
        BY <1>1, <4>2, <4>3, QueuedFields
      <4>5. BufGood(inited, b, Counted)
        BY <4>1, <4>4, QueuedGood
      <4> QED BY <4>4, <4>5 DEF BufGood, BufOK
    <3>3. CASE SendFragment
      <4>1. buf' = [b EXCEPT !.g = @ + 1, !.notAck[l] = @ + 1]
        BY <3>3, <3>1, <1>4 DEF SendFragment, SendData
      <4> QED BY <4>1, <3>2, CountedList
    <3>4. CASE SplitData
      BY <3>4 DEF SplitData
    <3>5. CASE SendNext
      <4>1. buf' = [buf EXCEPT !.g = @ + 1, !.notAck[l] = @ + 1]
        BY <3>5, <1>4 DEF SendNext, SendData
      <4> QED BY <4>1, <1>1, CountedList
    <3>6. CASE AllSent
      BY <3>6, <3>1, <3>2, <1>4 DEF AllSent
    <3> QED BY <3>3, <3>4, <3>5, <3>6, <1>6
  <2>2. \E a \in {"chan", "frag"}, n \in Nat : run' = [run EXCEPT !.at = a, !.next = n]
    <3>1. run = [run EXCEPT !.at = run.at, !.next = run.next] /\ run.next \in Nat
      BY <1>1 DEF RunTyped, Runs
    <3>2. CASE SendFragment
      BY <3>1, <3>2, <1>2 DEF SendFragment
    <3>3. CASE SplitData
      BY <3>3 DEF SplitData
    <3>4. CASE SendNext
      <4>1. run' = [run EXCEPT !.next = @ + 1]
        BY <3>4 DEF SendNext
      <4>2. run' = [run EXCEPT !.at = run.at, !.next = run.next + 1]
        BY <4>1, <1>1 DEF RunTyped, Runs
      <4>3. PICK a : a = run.at /\ a \in {"chan", "frag"}
        BY <1>2
      <4>4. PICK k \in Nat : k = run.next + 1
        BY <3>1
      <4>5. run' = [run EXCEPT !.at = a, !.next = k]
        BY <4>2, <4>3, <4>4
      <4> QED BY <4>3, <4>5
    <3>5. CASE AllSent
      BY <3>5 DEF AllSent
    <3> QED BY <3>2, <3>3, <3>4, <3>5, <1>6
  <2>3. PICK a \in {"chan", "frag"}, n \in Nat : run' = [run EXCEPT !.at = a, !.next = n]
    BY <2>2
  <2>4. run'.at = a /\ run'.visit = run.visit /\ run'.prio = run.prio /\ run'.next = n
    BY <1>1, <2>3 DEF RunTyped, Runs
  <2>5. RunTyped'
    BY <1>1, <2>3 DEF RunTyped, Runs
  <2>6. Lcid' = Lcid
    BY <2>4 DEF Lcid
  <2>7. Connected(buf, Lcid)'
    BY <2>1, <2>6, <1>3 DEF Connected
  <2>8. run'.at = "frag" => /\ Peek(run.prio, Lcid)' # 0 /\ Pkt'.idx = 0
                            /\ run'.next \in 1 .. Pkt'.of + 1
    <3>1. CASE SplitData
      <4>1. Peek(run.prio, Lcid) # 0 /\ Pkt.idx = 0 /\ run' = [run EXCEPT !.at = "frag", !.next = 1]
            /\ run.at = "chan" /\ q' = q
        BY <3>1 DEF SplitData, CanSchedule
      <4>2. run'.next = 1
        BY <4>1, <1>1 DEF RunTyped, Runs
      <4>3. Pkt \in Packets
        BY <4>1, TurnFacts
      <4>4. 1 \in 1 .. Pkt.of + 1
        BY <4>3 DEF Packets
      <4>5. Peek(run.prio, Lcid)' = Peek(run.prio, Lcid) /\ Pkt' = Pkt
        BY <2>4, <4>1, SameTurn
      <4> QED BY <4>1, <4>2, <4>4, <4>5
    <3>2. CASE SendNext
      <4>1. run.at = "frag" /\ run.next <= Pkt.of /\ run' = [run EXCEPT !.next = @ + 1] /\ q' = q
        BY <3>2 DEF SendNext
      <4>2. run'.next = run.next + 1
        BY <4>1, <1>1 DEF RunTyped, Runs
      <4>3. /\ Peek(run.prio, Lcid) # 0 /\ Pkt.idx = 0
            /\ run.next \in 1 .. Pkt.of + 1 /\ Pkt.of \in Nat \ {0} /\ run.next \in Nat
        BY <4>1, FragFacts
      <4>4. Peek(run.prio, Lcid)' = Peek(run.prio, Lcid) /\ Pkt' = Pkt
        BY <2>4, <4>1, SameTurn
      <4>5. run.next + 1 \in 1 .. Pkt.of + 1
        BY <4>1, <4>3
      <4> QED BY <4>2, <4>3, <4>4, <4>5
    <3>3. CASE SendFragment
      BY <3>3 DEF SendFragment
    <3>4. CASE AllSent
      BY <3>4, <1>1 DEF AllSent, RunTyped, Runs
    <3> QED BY <3>1, <3>2, <3>3, <3>4, <1>6
  <2> QED BY <1>2, <1>3, <2>3, <2>4, <2>5, <2>7, <2>8 DEF RunNext, RunInv
<1> QED BY <1>5, <1>6

\* The rest of a packet is saved or dropped.
LEMMA SaveRun ==
    ASSUME CoreInv, SaveRest \/ NextRefused \/ SaveFails
    PROVE  RunNext
<1>1. RunTyped /\ RunInv
  BY DEF CoreInv
<1>2. run.at = "frag" /\ inited' = inited
  BY DEF SaveRest, NextRefused, SaveFails
<1>3. inited /\ IsInjective(run.visit) /\ run.prio \in Priorities /\ run.visit # <<>>
  BY <1>1, <1>2 DEF RunInv
<1>4. CASE SaveFails
  BY <1>4, IdleRun DEF SaveFails, StopRun
<1>5. CASE SaveRest \/ NextRefused
  <2>1. run' = [run EXCEPT !.at = "lcid", !.visit = Tail(@), !.next = 0]
    BY <1>5 DEF SaveRest, NextRefused, SaveFragmentData
  <2>2. run.visit \in Seq(Links)
    BY <1>1 DEF RunTyped, Runs
  <2>3. Tail(run.visit) \in Seq(Links) /\ IsInjective(Tail(run.visit))
    BY <1>3, <2>2, TailInjectiveList, TailElements
  <2>4. RunTyped'
    BY <1>1, <2>1, <2>3 DEF RunTyped, Runs
  <2>5. run'.at = "lcid" /\ run'.visit = Tail(run.visit) /\ run'.prio = run.prio
    BY <1>1, <2>1 DEF RunTyped, Runs
  <2> QED BY <1>2, <1>3, <2>3, <2>4, <2>5 DEF RunNext, RunInv
<1> QED BY <1>4, <1>5

\* The invariant is inductive.
LEMMA CoreInvStep ==
    ASSUME CoreInv, [Next]_vars
    PROVE  CoreInv'
<1>1. CASE UNCHANGED vars
  <2>1. inited' = inited /\ buf' = buf /\ Counted' = Counted /\ q' = q /\ open' = open /\ run' = run /\ made' = made
        /\ DliTyped'
    BY <1>1, CountedSame DEF vars
  <2>2. Core(inited, buf, Counted, q, open)'
    BY <2>1 DEF CoreInv
  <2>3. Lcid' = Lcid /\ Peek(run.prio, Lcid)' = Peek(run.prio, Lcid) /\ Pkt' = Pkt
    BY <2>1, SameTurn
  <2>4. RunTyped' /\ RunInv'
    BY <2>1, <2>3 DEF CoreInv, RunTyped, RunInv, Connected
  <2> QED BY <2>1, <2>2, <2>4 DEF CoreInv
<1>2. CASE Next
  <2>1. CoreNext
    BY <1>2, CoreStep
  <2>2. RunNext
    BY <1>2, HandlerRun, LoopRun, SendRun, SaveRun DEF Next, SchedulerRun
  <2> QED BY <2>1, <2>2 DEF CoreNext, RunNext, CoreInv
<1> QED BY <1>1, <1>2

\* It holds at the start.
LEMMA CoreInvInit == Init => CoreInv
<1>1. SUFFICES ASSUME Init PROVE CoreInv
  OBVIOUS
<1>2. /\ inited = FALSE /\ buf = InitBuf(1) /\ q = InitQueues /\ open = {} /\ run = Idle
      /\ Counted = [l \in Links |-> 0] /\ made = [c \in Channels |-> 0] /\ DliTyped
  BY <1>1 DEF Init, Counted, DliTyped
<1>3. InitBuf(1) = [InitBuf(1) EXCEPT !.g = 0]
  BY DEF InitBuf
<1>4. Core(FALSE, [InitBuf(1) EXCEPT !.g = 0], [l \in Links |-> 0], InitQueues, {})
  <2>1. FALSE \in BOOLEAN /\ 1 \in Nat \ {0} /\ 0 \in Nat
    OBVIOUS
  <2> QED BY <2>1, FreshCore, Zenon
<1>5. Core(inited, buf, Counted, q, open)
  BY <1>2, <1>3, <1>4
<1>6. run.at = "idle" /\ run.visit = <<>>
  BY <1>2 DEF Idle
<1>7. RunTyped
  BY <1>2 DEF RunTyped, Runs, Idle
<1>8. RunInv
  BY <1>2, <1>6, EmptyListElements DEF RunInv
<1> QED BY <1>2, <1>5, <1>7, <1>8 DEF CoreInv

\* The inductive invariant holds in every state.
THEOREM CoreInvariant == Spec => []CoreInv
BY CoreInvInit, CoreInvStep, PTL DEF Spec

\* The credits DTAP counts (g_sendNotAckPktCnt and the links' notAck counts) are the
\* buffers the controller holds and the fragments the DLI dropped after accepting them,
\* whatever is sent, completed, disconnected or refused, for any links and channels.
THEOREM CreditsAlwaysMatch == Spec => []CreditsMatch
<1>1. ASSUME CoreInv PROVE CreditsMatch
  <2>1. CreditsOK(inited, buf, Counted)
    BY <1>1 DEF CoreInv, Core, BufGood
  <2> QED BY <2>1 DEF CreditsMatch, CreditsOK
<1> QED BY <1>1, CoreInvariant, PTL

\* DTAP_AllocLcidQuota never promises more buffers than there are, and leaves no link
\* without one, for any number of buffers and whatever waits.
THEOREM QuotasAlwaysShareBuffers == Spec => []QuotasShareBuffers
<1>1. ASSUME CoreInv PROVE QuotasShareBuffers
  <2>1. QuotasOK(buf)
    BY <1>1 DEF CoreInv, Core, BufGood, BufOK
  <2> QED BY <2>1 DEF QuotasShareBuffers, QuotasOK
<1> QED BY <1>1, CoreInvariant, PTL

\* pktCnt of every queue and of every link in it, and queuedPktCnt of every link, are the
\* packets that wait, after any pushes, pops, saves and drops.
THEOREM CountsAlwaysMatch == Spec => []CountsMatch
<1>1. ASSUME CoreInv PROVE CountsMatch
  <2>1. CountsInv(q) /\ QueuedInv(q, buf) /\ BufTyped(buf)
    BY <1>1 DEF CoreInv, Core, QueuesOK, BufGood, BufOK
  <2>2. \A l \in ToSet(buf.list) : l \in Links /\ Connected(buf, l)
    BY <2>1, BufFields
  <2>3. \A l \in ToSet(buf.list) : buf.queued[l] = Queued(l)
    BY <2>1, <2>2 DEF QueuedInv, Queued
  <2> QED BY <2>1, <2>3 DEF CountsMatch, CountsInv
<1> QED BY <1>1, CoreInvariant, PTL

-----------------------------------------------------------------------------
(* What the steps do to what waits, and to who may send.                   *)

\* A link may send no more than before.
BufLess ==
    /\ buf'.list = buf.list /\ buf'.ap = buf.ap /\ buf'.quota = buf.quota
    /\ buf.g \in Nat /\ buf'.g \in Nat /\ buf'.g >= buf.g
    /\ buf.ap \in Nat \ {0} /\ buf.quota \in [Links -> Nat]
    /\ \A l \in Links : buf.notAck[l] \in Nat /\ buf'.notAck[l] \in Nat /\ buf'.notAck[l] >= buf.notAck[l]

\* So it is when packets or fragments are counted.
LEMMA CountedLess ==
    ASSUME BufTyped(buf), NEW l \in Links, NEW n \in Nat, NEW b,
           b \in {buf, PoppedBuf(buf, l), PushedBuf(PoppedBuf(buf, l), l, n)},
           buf' = b \/ buf' = [b EXCEPT !.g = @ + 1, !.notAck[l] = @ + 1]
    PROVE  BufLess
<1>1. /\ buf.ap \in Nat \ {0} /\ buf.g \in Nat /\ buf.quota \in [Links -> Nat] /\ buf.notAck \in [Links -> Nat]
  BY BufFields
<1>2. PICK r : r = PoppedBuf(buf, l)
  OBVIOUS
<1>3. r.ap = buf.ap /\ r.g = buf.g /\ r.list = buf.list /\ r.quota = buf.quota /\ r.notAck = buf.notAck
      /\ BufTyped(r)
  <2>1. buf.queued \in [Links -> Nat]
    BY BufFields
  <2>2. PICK k \in Nat : k = Sub(buf.queued[l], 1)
    BY <2>1 DEF Sub
  <2>3. r = [buf EXCEPT !.queued[l] = k]
    BY <1>2, <2>2 DEF PoppedBuf, BufTyped
  <2> QED BY <2>3 DEF BufTyped
<1>4. PICK s : s = PushedBuf(r, l, n)
  OBVIOUS
<1>5. s.ap = r.ap /\ s.g = r.g /\ s.list = r.list /\ s.quota = r.quota /\ s.notAck = r.notAck
      /\ BufTyped(s)
  <2>1. r.queued \in [Links -> Nat]
    BY <1>3, BufFields
  <2>2. PICK k \in Nat : k = r.queued[l] + n
    BY <2>1
  <2>3. s = r \/ s = [r EXCEPT !.queued[l] = k]
    BY <1>3, <1>4, <2>2 DEF PushedBuf, BufTyped
  <2>4. CASE s = r
    BY <1>3, <2>4
  <2>5. CASE s = [r EXCEPT !.queued[l] = k]
    <3>1. BufTyped(r)
      BY <1>3
    <3> QED BY <2>5, <3>1 DEF BufTyped
  <2> QED BY <2>3, <2>4, <2>5
<1>6. /\ b.ap = buf.ap /\ b.g = buf.g /\ b.list = buf.list /\ b.quota = buf.quota /\ b.notAck = buf.notAck
      /\ BufTyped(b)
  BY <1>2, <1>3, <1>4, <1>5
<1>7. CASE buf' = b
  BY <1>1, <1>6, <1>7 DEF BufLess
<1>8. CASE buf' = [b EXCEPT !.g = @ + 1, !.notAck[l] = @ + 1]
  <2>1. /\ buf'.ap = b.ap /\ buf'.g = b.g + 1 /\ buf'.list = b.list /\ buf'.quota = b.quota
        /\ buf'.notAck = [b.notAck EXCEPT ![l] = @ + 1]
    BY <1>6, <1>8 DEF BufTyped
  <2> QED BY <1>1, <1>6, <2>1 DEF BufLess
<1> QED BY <1>7, <1>8

\* During a run.
LEMMA RunBuf ==
    ASSUME CoreInv, SchedulerRun
    PROVE  BufLess
<1>1. BufTyped(buf) /\ RunTyped /\ RunInv
  BY DEF CoreInv, Core, BufGood, BufOK
<1>2. CASE buf' = buf
  <2>1. /\ buf.ap \in Nat \ {0} /\ buf.g \in Nat /\ buf.quota \in [Links -> Nat] /\ buf.notAck \in [Links -> Nat]
    BY <1>1, BufFields
  <2> QED BY <1>2, <2>1 DEF BufLess
<1>3. CASE buf' # buf
  <2>1. run.at \in {"chan", "frag"}
    BY <1>3 DEF SchedulerRun, RunPriority, PriorityDone, VisitLcid, LcidDone, SendFragment, SendRefused,
                SplitData, SendNext, AllSent, SaveRest, NextRefused, SaveFails
  <2>2. PICK l \in Links : l = Lcid
    <3>1. run.visit \in Seq(Links) /\ run.visit # <<>>
      BY <1>1, <2>1 DEF RunTyped, Runs, RunInv
    <3> QED BY <3>1, HeadTailProperties DEF Lcid
  <2>3. CASE SendFragment
    <3>1. buf' = [PoppedBuf(buf, l) EXCEPT !.g = @ + 1, !.notAck[l] = @ + 1]
      BY <2>2, <2>3 DEF SendFragment, SendData
    <3>2. 0 \in Nat
      OBVIOUS
    <3> QED BY <1>1, <3>1, <3>2, CountedLess
  <2>4. CASE SendNext
    <3>1. buf' = [buf EXCEPT !.g = @ + 1, !.notAck[l] = @ + 1]
      BY <2>2, <2>4 DEF SendNext, SendData
    <3>2. 0 \in Nat
      OBVIOUS
    <3> QED BY <1>1, <3>1, <3>2, CountedLess
  <2>5. CASE AllSent \/ SaveFails
    <3>1. buf' = PoppedBuf(buf, l)
      BY <2>2, <2>5 DEF AllSent, SaveFails
    <3>2. 0 \in Nat
      OBVIOUS
    <3> QED BY <1>1, <3>1, <3>2, CountedLess
  <2>6. CASE SaveRest \/ NextRefused
    <3>1. run.at = "frag" /\ run.next <= Pkt.of
      BY <2>6 DEF SaveRest, NextRefused
    <3>2. Pkt \in Packets /\ PacketOK(open, Chan, Pkt) /\ Chan \in Channels /\ run.next \in 1 .. Pkt.of
      BY <3>1, FragFacts, TurnFacts
    <3>3. PICK n \in Nat : n = Len(Fragments(Pkt, run.next))
      <4>1. Fragments(Pkt, run.next) \in Seq(Packets)
        BY <3>2, RestFacts
      <4> QED BY <4>1, LenProperties
    <3>4. buf' = PushedBuf(PoppedBuf(buf, l), l, n)
      BY <2>2, <2>6, <3>3 DEF SaveRest, NextRefused, SaveFragmentData
    <3> QED BY <1>1, <3>4, CountedLess
  <2> QED BY <1>3, <2>3, <2>4, <2>5, <2>6 DEF SchedulerRun, RunPriority, PriorityDone, VisitLcid, LcidDone,
                SendRefused, SplitData
<1> QED BY <1>2, <1>3

\* Who may send.
LEMMA LessCanSend ==
    ASSUME BufLess, NEW l \in Links, CanSend(l)'
    PROVE  CanSend(l)
BY DEF BufLess, CanSend, Connected

PktsKept == \A d \in AllChannels : q'.pkts[d] = q.pkts[d]
PktsPopped == PktsAre(q, Chan, Tail(q.pkts[Chan]), q')
PktsSaved ==
    \A d \in AllChannels :
        q'.pkts[d] = IF d = Chan THEN Tail(q.pkts[d])
                     ELSE IF d = FragmentChannel(Lcid) THEN q.pkts[d] \o Fragments(Pkt, run.next)
                     ELSE q.pkts[d]

\* What waits after a turn of the run.
LEMMA RunPkts ==
    ASSUME CoreInv
    PROVE  /\ RunPriority \/ PriorityDone \/ VisitLcid \/ LcidDone \/ SendRefused \/ SplitData \/ SendNext => PktsKept
           /\ SendFragment \/ AllSent \/ SaveFails => PktsPopped
           /\ SaveRest \/ NextRefused => PktsSaved
<1>1. QueuesOK(q)
  BY DEF CoreInv, Core
<1>2. ASSUME RunPriority \/ PriorityDone \/ VisitLcid \/ LcidDone \/ SendRefused \/ SplitData \/ SendNext
      PROVE  PktsKept
  <2>1. q' = q \/ (q' = Rotated(q) /\ run.at \in {"lcid", "chan"})
    BY <1>2 DEF RunPriority, PriorityDone, VisitLcid, LcidDone, SendRefused, SplitData, SendNext
  <2>2. CASE q' = q
    BY <2>2 DEF PktsKept
  <2>3. CASE q' = Rotated(q) /\ run.at \in {"lcid", "chan"}
    <3>1. run.prio \in Priorities
      BY <2>3 DEF CoreInv, RunInv
    <3>2. q'.pkts = q.pkts
      BY <1>1, <2>3, <3>1, RotatedQueues
    <3> QED BY <3>2 DEF PktsKept
  <2> QED BY <2>1, <2>2, <2>3
<1>3. ASSUME SendFragment \/ AllSent \/ SaveFails PROVE PktsPopped
  <2>1. PICK rs : rs = PriorityQueuePop(run.prio, Lcid, Chan)
    OBVIOUS
  <2>2. q' = rs \/ q' = Rotated(rs)
    BY <1>3, <2>1 DEF SendFragment, AllSent, SaveFails
  <2>3. run.at \in {"chan", "frag"} /\ Peek(run.prio, Lcid) # 0
    BY <1>3, FragFacts DEF SendFragment, AllSent, SaveFails, CanSchedule
  <2>4. Chan \in AllChannels /\ Chan.lcid = Lcid /\ Priority(Chan) = run.prio
        /\ q.pkts[Chan] # <<>> /\ run.prio \in Priorities
    BY <2>3, TurnFacts
  <2>5. QueuesOK(rs) /\ PktsAre(q, Chan, Tail(q.pkts[Chan]), rs)
    BY <1>1, <2>1, <2>4, Popped
  <2>6. Rotated(rs).pkts = rs.pkts
    BY <2>4, <2>5, RotatedQueues
  <2>7. q'.pkts = rs.pkts
    BY <2>2, <2>6
  <2> QED BY <2>5, <2>7 DEF PktsPopped, PktsAre
<1>4. ASSUME SaveRest \/ NextRefused PROVE PktsSaved
  <2>1. PICK rs : rs = PriorityQueuePop(run.prio, Lcid, Chan)
    OBVIOUS
  <2>2. run.at = "frag" /\ run.next <= Pkt.of
    BY <1>4 DEF SaveRest, NextRefused
  <2>3. /\ Lcid \in Links /\ Chan \in AllChannels /\ Chan.lcid = Lcid /\ Priority(Chan) = run.prio
        /\ q.pkts[Chan] # <<>> /\ Pkt \in Packets /\ PacketOK(open, Chan, Pkt)
    BY <2>2, TurnFacts, FragFacts
  <2>4. Chan \in Channels /\ run.next \in 1 .. Pkt.of
    BY <2>2, FragFacts
  <2>5. PICK rest \in Seq(Packets) : rest = Fragments(Pkt, run.next)
    BY <2>3, <2>4, RestFacts
  <2>6. PICK f \in AllChannels : f = FragmentChannel(Lcid) /\ f # Chan
    BY <2>3, <2>4, ChannelFacts
  <2>7. q' = PriorityQueuePush(rs, f, rest)
    BY <1>4, <2>1, <2>3, <2>5, <2>6 DEF SaveRest, NextRefused, SaveFragmentData, SaveIn
  <2>8. QueuesOK(rs) /\ PktsAre(q, Chan, Tail(q.pkts[Chan]), rs)
    BY <1>1, <2>1, <2>3, Popped
  <2>9. PktsAre(rs, f, rs.pkts[f] \o rest, q')
    BY <2>7, <2>8, Pushed
  <2>10. rs.pkts[f] = q.pkts[f]
    BY <2>6, <2>8 DEF PktsAre
  <2>11. ASSUME NEW d \in AllChannels
         PROVE  q'.pkts[d] = IF d = Chan THEN Tail(q.pkts[d])
                             ELSE IF d = FragmentChannel(Lcid) THEN q.pkts[d] \o Fragments(Pkt, run.next)
                             ELSE q.pkts[d]
    <3>1. CASE d = f
      BY <3>1, <2>5, <2>6, <2>9, <2>10 DEF PktsAre
    <3>2. CASE d # f
      BY <3>2, <2>6, <2>8, <2>9 DEF PktsAre
    <3> QED BY <3>1, <3>2
  <2> QED BY <2>11 DEF PktsSaved
<1> QED BY <1>2, <1>3, <1>4

\* What waits after a handler; a channel that goes takes the fragments of its link along.
LEMMA HandlerPkts ==
    ASSUME CoreInv
    PROVE  /\ \A l \in Links : Connect(l) \/ Disconnect(l) => PktsKept
           /\ \A c \in Channels : ChannelAdd(c) => PktsKept
           /\ \A n \in BufferNums : SetApBufferNum(n) => PktsKept
           /\ \A l \in Links, n \in Nat : SendComplete(l, n) => PktsKept
           /\ SchedulerInit \/ SchedulerDeinit => \A d \in AllChannels : q'.pkts[d] = <<>>
           /\ \A c \in Channels : ChannelDown(c) =>
                \A d \in AllChannels :
                   q'.pkts[d] = IF d = c \/ d = FragmentChannel(c.lcid) THEN <<>> ELSE q.pkts[d]
           /\ \A c \in Channels : DataSendWithPriority(c) =>
                PktsAre(q, c, q.pkts[c] \o <<Packet(c, made[c] + 1, ToSend[c][made[c] + 1])>>, q')
<1>1. QueuesOK(q)
  BY DEF CoreInv, Core
<1>2. /\ \A l \in Links : Connect(l) \/ Disconnect(l) => PktsKept
      /\ \A c \in Channels : ChannelAdd(c) => PktsKept
      /\ \A n \in BufferNums : SetApBufferNum(n) => PktsKept
      /\ \A l \in Links, n \in Nat : SendComplete(l, n) => PktsKept
  BY DEF Connect, Disconnect, ChannelAdd, SetApBufferNum, SendComplete, PktsKept
<1>3. ASSUME SchedulerInit \/ SchedulerDeinit, NEW d \in AllChannels PROVE q'.pkts[d] = <<>>
  BY <1>3 DEF SchedulerInit, SchedulerDeinit, InitQueues
<1>4. ASSUME NEW c \in Channels, ChannelDown(c), NEW d \in AllChannels
      PROVE  q'.pkts[d] = IF d = c \/ d = FragmentChannel(c.lcid) THEN <<>> ELSE q.pkts[d]
  <2>1. PICK f \in AllChannels : f = FragmentChannel(c.lcid)
    BY ChannelFacts
  <2>2. c \in AllChannels
    BY ChannelFacts
  <2>3. PICK rs : rs = ChannelDownProc(q, f)
    OBVIOUS
  <2>4. q' = ChannelDownProc(rs, c)
    BY <1>4, <2>1, <2>3 DEF ChannelDown
  <2>5. QueuesOK(rs) /\ PktsAre(q, f, <<>>, rs)
    BY <1>1, <2>3, Dropped
  <2>6. PktsAre(rs, c, <<>>, q')
    BY <2>2, <2>4, <2>5, Dropped
  <2> QED BY <2>1, <2>5, <2>6 DEF PktsAre
<1>5. ASSUME NEW c \in Channels, DataSendWithPriority(c)
      PROVE  PktsAre(q, c, q.pkts[c] \o <<Packet(c, made[c] + 1, ToSend[c][made[c] + 1])>>, q')
  <2>1. PICK k : k = Packet(c, made[c] + 1, ToSend[c][made[c] + 1])
    OBVIOUS
  <2>2. /\ made[c] < Len(ToSend[c]) /\ q' = PriorityQueuePush(q, c, <<k>>)
    BY <1>5, <2>1 DEF DataSendWithPriority
  <2>3. k \in Packets
    <3>1. ToSend[c] \in Seq(Nat \ {0}) /\ made[c] \in Nat
      BY SchedulerAssumption DEF CoreInv
    <3>2. made[c] + 1 \in 1 .. Len(ToSend[c])
      BY <2>2, <3>1, LenProperties
    <3>3. ToSend[c][made[c] + 1] \in Nat \ {0}
      BY <3>1, <3>2, ElementOfSeq
    <3> QED BY <2>1, <3>1, <3>3 DEF Packet, Packets
  <2>4. c \in AllChannels /\ <<k>> \in Seq(Packets)
    BY <2>3, ChannelFacts
  <2>5. PktsAre(q, c, q.pkts[c] \o <<k>>, q')
    BY <1>1, <2>2, <2>4, Pushed
  <2> QED BY <2>1, <2>5
<1> QED BY <1>2, <1>3, <1>4, <1>5

-----------------------------------------------------------------------------
(* Nothing is stranded.                                                    *)

\* A channel with packets is found in its queue.
LEMMA WaitingFound ==
    ASSUME QueuesOK(q), NEW c \in AllChannels, q.pkts[c] # <<>>
    PROVE  /\ Priority(c) \in Priorities /\ c.lcid \in Links /\ q.cnt[Priority(c)] > 0
           /\ Contains(q.lcids[Priority(c)], c.lcid) /\ Peek(Priority(c), c.lcid) # 0
<1>1. PICK p : p = Priority(c)
  OBVIOUS
<1>2. PICK l : l = c.lcid
  OBVIOUS
<1>3. /\ p \in Priorities /\ l \in Links
      /\ q.cnt[p] \in Nat /\ q.nodeCnt[p][l] \in Nat /\ Len(q.pkts[c]) \in Nat
      /\ Len(q.pkts[c]) <= q.cnt[p] /\ Len(q.pkts[c]) <= q.nodeCnt[p][l]
  BY <1>1, <1>2, CountsCover
<1>4. Len(q.pkts[c]) # 0
  <2>1. q.pkts[c] \in Seq(Packets)
    BY QueuesFields DEF QueuesOK
  <2> QED BY <2>1, EmptySeq
<1>5. q.cnt[p] > 0 /\ q.nodeCnt[p][l] # 0
  BY <1>3, <1>4
<1>6. PICK cs \in Seq(AllChannels) : cs = q.chans[p][l]
  BY <1>3, QueuesFields DEF QueuesOK
<1>7. Contains(cs, c)
  BY <1>1, <1>2, <1>6 DEF QueuesOK, ListsInv
<1>8. cs # <<>>
  BY <1>7, EmptyListElements
<1>9. Contains(q.lcids[p], l)
  BY <1>3, <1>6, <1>8 DEF QueuesOK, ListsInv
<1> DEFINE I == {i \in 1 .. Len(cs) : q.pkts[cs[i]] # <<>>}
<1>10. I \subseteq Nat /\ I # {}
  BY <1>7 DEF Contains
<1>11. Peek(p, l) = Min(I)
  <2>1. Peek(p, l) = IF I # {} THEN Min(I) ELSE 0
    BY <1>5, <1>6 DEF Peek, SelectInSeq
  <2> QED BY <2>1, <1>10
<1>12. Min(I) \in I
  <2> HIDE DEF I
  <2> QED BY <1>10, MinProperties
<1>13. Peek(p, l) # 0
  BY <1>11, <1>12
<1> QED BY <1>1, <1>2, <1>3, <1>5, <1>9, <1>13

\* No run: what waits now waited before, and the buffers were in use before.
LEMMA StillServed ==
    ASSUME ServedInv, run = Idle, run' = Idle, ~ unserved' => ~ unserved,
           ~ unserved' => \A c \in AllChannels : q'.pkts[c] # <<>> /\ Connected(buf', c.lcid) =>
                             q.pkts[c] # <<>> /\ Connected(buf, c.lcid),
           ~ unserved' => \A l \in Links : Counted[l] > 0 => Counted'[l] > 0
    PROVE  ServedInv'
<1>1. run.at = "idle" /\ run'.at = "idle"
  BY DEF Idle
<1>2. ASSUME ~ unserved', NEW c \in AllChannels, q'.pkts[c] # <<>>, Connected(buf', c.lcid)
      PROVE  \E l \in Links : Counted'[l] > 0
  BY <1>1, <1>2 DEF ServedInv
<1> QED BY <1>1, <1>2 DEF ServedInv

\* A run that starts has everything to visit.
LEMMA StartServed ==
    ASSUME run' = StartRun
    PROVE  ServedInv'
<1>1. run' = [at |-> "prio", prio |-> 0, visit |-> <<>>, sched |-> {}, next |-> 0]
  <2>1. 0 \in Nat
    OBVIOUS
  <2> QED BY <2>1, StartRunFields
<1>2. run'.at = "prio" /\ run'.prio = 0
  BY <1>1
<1>3. ASSUME NEW c \in AllChannels PROVE Passed(c)'
  <2>1. Priority(c) \in Priorities
    BY ChannelFacts
  <2>2. Priority(c) > 0 \/ Priority(c) = 0
    BY <2>1, SchedulerAssumption DEF Priorities
  <2> QED BY <1>2, <2>2 DEF Passed, ToVisit
<1> QED BY <1>2, <1>3 DEF ServedInv

\* The handlers that start no run leave nothing waiting that a completion would not serve.
LEMMA HandlerServed ==
    ASSUME CoreInv, ServedInv, Handler
    PROVE  ServedInv'
<1>1. BufGood(inited, buf, Counted) /\ BufTyped(buf) /\ QueuesOK(q) /\ PacketsOK(q, open) /\ inited \in BOOLEAN
      /\ Counted \in [Links -> Nat] /\ IsInjective(buf.list)
  BY DEF CoreInv, Core, BufGood, BufOK
<1>2. \A c \in AllChannels : c.lcid \in Links
  BY ChannelFacts
<1>3. CASE \E c \in Channels : DataSendWithPriority(c)
  BY <1>3, StartServed DEF DataSendWithPriority
<1>4. CASE \E l \in Links : \E n \in 1 .. held[l] : SendComplete(l, n)
  BY <1>4, StartServed DEF SendComplete, RunAfterCompletion
<1>5. CASE SchedulerInit \/ SchedulerDeinit
  <2>1. run = Idle /\ run' = Idle
    BY <1>5 DEF SchedulerInit, SchedulerDeinit, MainThreadFree
  <2>2. \A d \in AllChannels : q'.pkts[d] = <<>>
    BY <1>5, HandlerPkts
  <2>3. run'.at = "idle"
    BY <2>1 DEF Idle
  <2> QED BY <2>2, <2>3 DEF ServedInv
<1>6. ASSUME NEW l \in Links, Connect(l) PROVE ServedInv'
  <2>1. /\ run = Idle /\ run' = Idle /\ unserved' = unserved /\ Counted' = Counted /\ inited = TRUE
        /\ ~ Connected(buf, l) /\ \A c \in open : c.lcid # l
        /\ buf' = RecalcLcidQuota([buf EXCEPT !.list = Append(@, l), !.notAck[l] = 0, !.queued[l] = 0])
        /\ q' = q
    BY <1>1, <1>6, CountedSame DEF Connect, MainThreadFree
  <2>2. NewLink(buf, buf', l)
    BY <1>1, <2>1, ConnectGood
  <2>3. ASSUME NEW c \in AllChannels, q.pkts[c] # <<>> PROVE c.lcid # l
    <3>1. q.pkts[c] \in Seq(Packets)
      BY <1>1, QueuesFields DEF QueuesOK
    <3>2. Len(q.pkts[c]) \in Nat /\ Len(q.pkts[c]) # 0
      BY <2>3, <3>1, EmptySeq, LenProperties
    <3>3. PacketOK(open, c, q.pkts[c][1])
      BY <3>2, <1>1 DEF PacketsOK
    <3> QED BY <3>3, <2>1 DEF PacketOK
  <2>4. \A c \in AllChannels : q'.pkts[c] # <<>> /\ Connected(buf', c.lcid) =>
                             q.pkts[c] # <<>> /\ Connected(buf, c.lcid)
    BY <1>2, <2>1, <2>2, <2>3 DEF NewLink
  <2> QED BY <2>1, <2>4, StillServed
<1>7. ASSUME NEW l \in Links, Disconnect(l) PROVE ServedInv'
  <2>1. /\ run = Idle /\ run' = Idle /\ q' = q
        /\ Connected(buf, l) /\ Counted' = [Counted EXCEPT ![l] = 0]
        /\ buf' = RecalcLcidQuota(
                [buf EXCEPT !.g = CreditsBack(buf, l), !.list = RemoveFirst(@, l), !.quota[l] = 0,
                            !.notAck[l] = 0, !.queued[l] = 0])
    BY <1>7, CountedGone DEF Disconnect, MainThreadFree
  <2>2. Stays(buf, buf')
    BY <1>1, <2>1, DisconnectGood
  <2>3. \A c \in AllChannels : q'.pkts[c] # <<>> /\ Connected(buf', c.lcid) =>
                             q.pkts[c] # <<>> /\ Connected(buf, c.lcid)
    BY <1>2, <2>1, <2>2 DEF Stays
  <2>4. ~ unserved' => ~ unserved /\ ~ (Counted[l] > 0)
    BY <1>7 DEF Disconnect
  <2>5. ~ unserved' => \A m \in Links : Counted[m] > 0 => Counted'[m] > 0
    BY <1>1, <2>1, <2>4
  <2> QED BY <2>1, <2>3, <2>4, <2>5, StillServed
<1>8. ASSUME NEW c \in Channels, ChannelAdd(c) \/ ChannelDown(c) PROVE ServedInv'
  <2>1. /\ run = Idle /\ run' = Idle /\ unserved' = unserved /\ Counted' = Counted
    BY <1>8, CountedSame DEF ChannelAdd, ChannelDown, MainThreadFree
  <2>2. buf'.list = buf.list
    <3>1. CASE ChannelAdd(c)
      BY <3>1 DEF ChannelAdd
    <3>2. CASE ChannelDown(c)
      <4>1. PICK n : n = Len(q.pkts[c]) + Len(q.pkts[FragmentChannel(c.lcid)])
        OBVIOUS
      <4>2. buf' = IF Connected(buf, c.lcid) THEN [buf EXCEPT !.queued[c.lcid] = Sub(@, n)] ELSE buf
        BY <3>2, <4>1 DEF ChannelDown
      <4>3. buf.list \in Seq(Links) /\ DOMAIN buf = {"ap", "g", "list", "quota", "notAck", "queued"}
        BY <1>1 DEF BufTyped
      <4> QED BY <1>1, <4>2 DEF BufTyped
    <3> QED BY <1>8, <3>1, <3>2
  <2>3. \A d \in AllChannels : q'.pkts[d] = q.pkts[d] \/ q'.pkts[d] = <<>>
    BY <1>8, HandlerPkts DEF PktsKept
  <2>4. \A d \in AllChannels : q'.pkts[d] # <<>> /\ Connected(buf', d.lcid) =>
                             q.pkts[d] # <<>> /\ Connected(buf, d.lcid)
    BY <2>2, <2>3 DEF Connected
  <2> QED BY <2>1, <2>4, StillServed
<1>9. ASSUME NEW n \in BufferNums, SetApBufferNum(n) PROVE ServedInv'
  <2>1. /\ run = Idle /\ run' = Idle /\ unserved' = unserved /\ Counted' = Counted /\ q' = q
        /\ buf' = RecalcLcidQuota([buf EXCEPT !.ap = n])
    BY <1>9, CountedSame DEF SetApBufferNum, MainThreadFree
  <2>2. PICK r : r = [buf EXCEPT !.ap = n]
    OBVIOUS
  <2>3. n \in Nat \ {0}
    BY SchedulerAssumption
  <2>4. BufTyped(r) /\ r.list = buf.list
    BY <1>1, <2>2, <2>3 DEF BufTyped
  <2>5. SameButQuota(r, buf')
    BY <1>1, <2>1, <2>2, <2>4, Recalculated
  <2>6. buf'.list = buf.list
    BY <2>4, <2>5 DEF SameButQuota
  <2>7. \A c \in AllChannels : q'.pkts[c] # <<>> /\ Connected(buf', c.lcid) =>
                             q.pkts[c] # <<>> /\ Connected(buf, c.lcid)
    BY <2>1, <2>6 DEF Connected
  <2> QED BY <2>1, <2>7, StillServed
<1> QED BY <1>3, <1>4, <1>5, <1>6, <1>7, <1>8, <1>9 DEF Handler

\* A run that ends with room for no more leaves buffers to be completed.
LEMMA RunEndServed ==
    ASSUME CoreInv, ServedInv, RunPriority, run' = Idle
    PROVE  ServedInv'
<1>1. /\ run.at = "prio" /\ q' = q /\ buf' = buf /\ Counted' = Counted /\ unserved' = unserved
      /\ (\E p \in run.prio .. NumPriorities - 1 : q.cnt[p] > 0) => buf.g >= buf.ap
  <2> DEFINE left == {p \in run.prio .. NumPriorities - 1 : q.cnt[p] > 0}
  <2>1. /\ run.at = "prio" /\ q' = q /\ buf' = buf /\ Counted' = Counted /\ unserved' = unserved
        /\ run' = IF left = {} \/ buf.g >= buf.ap THEN Idle
                  ELSE [run EXCEPT !.at = "lcid", !.prio = Min(left), !.visit = q.lcids[Min(left)]]
    BY CountedSame DEF RunPriority
  <2>2. CASE left = {} \/ buf.g >= buf.ap
    BY <2>1, <2>2
  <2>3. CASE ~ (left = {} \/ buf.g >= buf.ap)
    <3>1. Idle = [run EXCEPT !.at = "lcid", !.prio = Min(left), !.visit = q.lcids[Min(left)]]
      BY <2>1, <2>3
    <3>2. PICK m : m = Min(left)
      OBVIOUS
    <3>3. Idle = [run EXCEPT !.at = "lcid", !.prio = m, !.visit = q.lcids[m]]
      BY <3>1, <3>2
    <3>4. Idle.at = "lcid"
      <4> HIDE DEF left
      <4> QED BY <3>3 DEF CoreInv, RunTyped, Runs
    <3> QED BY <3>4 DEF Idle
  <2> QED BY <2>1, <2>2, <2>3
<1>2. QueuesOK(q) /\ BufTyped(buf) /\ CreditsOK(inited, buf, Counted) /\ Counted \in [Links -> Nat] /\ inited
      /\ QuotasOK(buf) /\ run.prio \in Nat
  BY <1>1 DEF CoreInv, Core, BufGood, BufOK, RunInv, RunTyped, Runs
<1>3. /\ buf.ap \in Nat \ {0} /\ buf.g \in Nat /\ buf.quota \in [Links -> Nat] /\ buf.notAck \in [Links -> Nat]
      /\ \A l : Connected(buf, l) <=> l \in ToSet(buf.list)
  BY <1>2, BufFields
<1>4. buf.notAck = Counted /\ buf.g = SumFunctionOnSet(Counted, Links)
  BY <1>2 DEF CreditsOK
<1>5. run'.at = "idle"
  BY DEF Idle
<1>6. ASSUME ~ unserved, NEW c \in AllChannels, q.pkts[c] # <<>>, Connected(buf, c.lcid)
      PROVE  \E l \in Links : Counted[l] > 0
  <2>1. CASE buf.g >= buf.ap
    <3>1. SumFunctionOnSet(Counted, Links) # 0
      BY <1>3, <1>4, <2>1
    <3>2. \E l \in Links : Counted[l] # 0
      BY <1>2, <3>1, SchedulerAssumption, SumParts
    <3> QED BY <1>2, <3>2
  <2>2. CASE ~ (buf.g >= buf.ap)
    <3>1. Priority(c) \in Priorities /\ c.lcid \in Links /\ q.cnt[Priority(c)] > 0
      BY <1>2, <1>6, WaitingFound
    <3>2. Priority(c) < run.prio
      BY <1>1, <1>2, <2>2, <3>1, SchedulerAssumption DEF Priorities
    <3>3. ~ ToVisit(Priority(c), c.lcid)
      BY <1>2, <3>1, <3>2, SchedulerAssumption DEF ToVisit, Priorities
    <3>4. ~ CanSend(c.lcid)
      BY <1>1, <1>6, <3>3 DEF ServedInv, Passed
    <3>5. ~ (buf.notAck[c.lcid] < buf.quota[c.lcid])
      BY <1>3, <1>6, <2>2, <3>4 DEF CanSend
    <3>6. buf.quota[c.lcid] >= 1
      BY <1>2, <1>3, <1>6 DEF QuotasOK
    <3>7. Counted[c.lcid] > 0
      BY <1>3, <1>4, <3>1, <3>5, <3>6
    <3> QED BY <3>1, <3>7
  <2> QED BY <2>1, <2>2
<1> QED BY <1>1, <1>5, <1>6 DEF ServedInv, Connected

\* The next queue: its links are to be visited, and nothing waits between.
LEMMA NextQueueServed ==
    ASSUME CoreInv, ServedInv, RunPriority, run' # Idle
    PROVE  ServedInv'
<1> DEFINE left == {p \in run.prio .. NumPriorities - 1 : q.cnt[p] > 0}
<1>1. PICK m : m = Min(left)
  OBVIOUS
<1>2. /\ run.at = "prio" /\ q' = q /\ buf' = buf /\ unserved' = unserved
      /\ left # {} /\ run' = [run EXCEPT !.at = "lcid", !.prio = m, !.visit = q.lcids[m]]
  BY <1>1 DEF RunPriority
<1>3. QueuesOK(q) /\ run.prio \in Nat /\ RunTyped
  BY DEF CoreInv, Core, RunTyped, Runs
<1>4. left \subseteq Nat
  BY <1>3, SchedulerAssumption
<1>5. m \in left /\ \A p \in left : p >= m
  <2> HIDE DEF left
  <2> QED BY <1>1, <1>2, <1>4, MinProperties
<1>6. run'.at = "lcid" /\ run'.prio = m /\ run'.visit = q.lcids[m]
  BY <1>2, <1>3 DEF RunTyped, Runs
<1>7. ASSUME ~ unserved, NEW c \in AllChannels, q.pkts[c] # <<>> PROVE Passed(c)'
  <2>1. Priority(c) \in Priorities /\ c.lcid \in Links /\ q.cnt[Priority(c)] > 0
        /\ Contains(q.lcids[Priority(c)], c.lcid)
    BY <1>3, <1>7, WaitingFound
  <2>2. Passed(c)
    BY <1>2, <1>7 DEF ServedInv
  <2>3. CASE ~ CanSend(c.lcid)
    BY <1>2, <2>3 DEF Passed, CanSend, Connected
  <2>4. CASE ToVisit(Priority(c), c.lcid)
    <3>1. Priority(c) \in left
      BY <1>3, <2>1, <2>4, SchedulerAssumption DEF ToVisit, Priorities
    <3>2. Priority(c) > m \/ Priority(c) = m
      BY <1>4, <1>5, <3>1
    <3> QED BY <1>6, <2>1, <3>2 DEF Passed, ToVisit
  <2> QED BY <2>2, <2>3, <2>4 DEF Passed
<1> QED BY <1>2, <1>6, <1>7 DEF ServedInv

\* A run that goes on: what waits now waited before, or waits for a link that may not send,
\* and who is no longer to be visited may not send or has nothing.
LEMMA RunStillServed ==
    ASSUME ServedInv, run.at # "idle", run'.at # "idle", ~ unserved' => ~ unserved,
           ~ unserved' => \A c \in AllChannels : q'.pkts[c] # <<>> /\ CanSend(c.lcid)' =>
               /\ q.pkts[c] # <<>> /\ CanSend(c.lcid)
               /\ ToVisit(Priority(c), c.lcid) => ToVisit(Priority(c), c.lcid)'
    PROVE  ServedInv'
<1>1. ASSUME ~ unserved', NEW c \in AllChannels, q'.pkts[c] # <<>> PROVE Passed(c)'
  <2>1. CASE ~ CanSend(c.lcid)'
    BY <2>1 DEF Passed
  <2>2. CASE CanSend(c.lcid)'
    <3>1. q.pkts[c] # <<>> /\ CanSend(c.lcid) /\ (ToVisit(Priority(c), c.lcid) => ToVisit(Priority(c), c.lcid)')
      BY <1>1, <2>2
    <3>2. Passed(c)
      BY <1>1, <3>1 DEF ServedInv
    <3> QED BY <3>1, <3>2 DEF Passed
  <2> QED BY <2>1, <2>2
<1> QED BY <1>1 DEF ServedInv

\* A run that stops because a send or an allocation failed promises nothing.
LEMMA StopServed ==
    ASSUME unserved' = TRUE
    PROVE  ServedInv'
BY DEF ServedInv

\* One link after the other.
LEMMA LoopServed ==
    ASSUME CoreInv, ServedInv, PriorityDone \/ VisitLcid \/ LcidDone
    PROVE  ServedInv'
<1>1. RunTyped /\ RunInv /\ QueuesOK(q)
  BY DEF CoreInv, Core
<1>2. run.visit \in Seq(Links) /\ run.prio \in Nat /\ IsInjective(run.visit)
  BY <1>1 DEF RunTyped, Runs, RunInv
<1>3. PktsKept
  BY RunPkts
<1>4. buf' = buf /\ unserved' = unserved /\ run.at \in {"lcid", "chan"}
  BY DEF PriorityDone, VisitLcid, LcidDone
<1>5. \A l : CanSend(l)' <=> CanSend(l)
  BY <1>4 DEF CanSend, Connected
<1>6. CASE PriorityDone
  <2>1. run.visit = <<>> /\ run.at = "lcid"
    BY <1>6 DEF PriorityDone
  <2>2. run' = [at |-> "prio", prio |-> run.prio + 1, visit |-> <<>>, sched |-> {}, next |-> 0]
    <3>1. run.prio + 1 \in Nat
      BY <1>2
    <3> QED BY <1>6, <3>1, StartRunFields DEF PriorityDone
  <2>3. run'.at = "prio" /\ run'.prio = run.prio + 1
    BY <2>2
  <2>4. ASSUME NEW c \in AllChannels, ToVisit(Priority(c), c.lcid) PROVE ToVisit(Priority(c), c.lcid)'
    <3>1. Priority(c) \in Nat
      BY ChannelFacts, SchedulerAssumption DEF Priorities
    <3>2. Priority(c) > run.prio
      BY <2>1, <2>4, EmptyListElements DEF ToVisit
    <3>3. Priority(c) > run.prio + 1 \/ Priority(c) = run.prio + 1
      BY <1>2, <3>1, <3>2
    <3> QED BY <2>3, <3>3 DEF ToVisit
  <2> QED BY <1>3, <1>4, <1>5, <2>1, <2>3, <2>4, RunStillServed DEF PktsKept
<1>7. CASE VisitLcid
  <2>1. run.at = "lcid" /\ run.visit # <<>>
    BY <1>7 DEF VisitLcid
  <2>2. PICK l \in Links : l = Head(run.visit)
    BY <1>2, <2>1, HeadTailProperties
  <2>3. CASE CanSend(l)
    <3>1. run' = [run EXCEPT !.at = "chan", !.sched = @ \cup {l}]
      BY <1>7, <2>2, <2>3 DEF VisitLcid
    <3>2. run'.at = "chan" /\ run'.visit = run.visit /\ run'.prio = run.prio
      BY <1>1, <3>1 DEF RunTyped, Runs
    <3>3. ASSUME NEW c \in AllChannels, ToVisit(Priority(c), c.lcid) PROVE ToVisit(Priority(c), c.lcid)'
      BY <2>1, <3>2, <3>3 DEF ToVisit
    <3> QED BY <1>3, <1>4, <1>5, <2>1, <3>2, <3>3, RunStillServed DEF PktsKept
  <2>4. CASE ~ CanSend(l)
    <3>1. run' = [run EXCEPT !.visit = Tail(@)]
      BY <1>7, <2>2, <2>4 DEF VisitLcid
    <3>2. run'.at = "lcid" /\ run'.visit = Tail(run.visit) /\ run'.prio = run.prio
      BY <1>1, <2>1, <3>1 DEF RunTyped, Runs
    <3>3. ASSUME NEW c \in AllChannels, ToVisit(Priority(c), c.lcid), CanSend(c.lcid)
          PROVE  ToVisit(Priority(c), c.lcid)'
      <4>1. c.lcid # Head(run.visit)
        BY <2>2, <2>4, <3>3
      <4>2. Contains(run.visit, c.lcid) => Contains(Tail(run.visit), c.lcid)
        BY <1>2, <2>1, <4>1, TailInjectiveList
      <4> QED BY <2>1, <3>2, <3>3, <4>2 DEF ToVisit
    <3> QED BY <1>3, <1>4, <1>5, <2>1, <3>2, <3>3, RunStillServed DEF PktsKept
  <2> QED BY <2>3, <2>4
<1>8. CASE LcidDone
  <2>1. run.at = "chan" /\ run.visit # <<>> /\ ~ (CanSend(Lcid) /\ Peek(run.prio, Lcid) # 0)
    BY <1>1, <1>8 DEF LcidDone, RunInv, CanSchedule
  <2>2. run' = [run EXCEPT !.at = "lcid", !.visit = Tail(@)]
    BY <1>8 DEF LcidDone
  <2>3. run'.at = "lcid" /\ run'.visit = Tail(run.visit) /\ run'.prio = run.prio
    BY <1>1, <2>1, <2>2 DEF RunTyped, Runs
  <2>4. ASSUME NEW c \in AllChannels, q.pkts[c] # <<>>, ToVisit(Priority(c), c.lcid), CanSend(c.lcid)
        PROVE  ToVisit(Priority(c), c.lcid)'
    <3>1. Peek(Priority(c), c.lcid) # 0
      BY <1>1, <2>4, WaitingFound
    <3>2. ~ (Priority(c) = run.prio /\ c.lcid = Lcid)
      BY <2>1, <2>4, <3>1
    <3>3. Contains(run.visit, c.lcid) /\ c.lcid # Lcid => Contains(Tail(run.visit), c.lcid)
      BY <1>2, <2>1, TailInjectiveList DEF Lcid
    <3> QED BY <2>1, <2>3, <2>4, <3>2, <3>3 DEF ToVisit
  <2> QED BY <1>3, <1>4, <1>5, <2>1, <2>3, <2>4, RunStillServed DEF PktsKept
<1> QED BY <1>6, <1>7, <1>8

\* What waits after a packet is taken is less.
LEMMA TakenLess ==
    ASSUME CoreInv, PktsKept \/ (PktsPopped /\ q.pkts[Chan] # <<>>), NEW d \in AllChannels, q'.pkts[d] # <<>>
    PROVE  q.pkts[d] # <<>>
BY DEF PktsKept, PktsPopped, PktsAre

\* The packets and fragments of one link.
LEMMA SendServed ==
    ASSUME CoreInv, ServedInv, SendFragment \/ SplitData \/ SendNext \/ AllSent
    PROVE  ServedInv'
<1>1. RunTyped /\ RunInv
  BY DEF CoreInv
<1>2. run.at \in {"chan", "frag"} /\ unserved' = unserved
  BY DEF SendFragment, SplitData, SendNext, AllSent
<1>3. run'.at \in {"chan", "frag"} /\ run'.visit = run.visit /\ run'.prio = run.prio
  BY <1>1, <1>2 DEF SendFragment, SplitData, SendNext, AllSent, RunTyped, Runs
<1>4. BufLess
  BY RunBuf DEF SchedulerRun
<1>5. Peek(run.prio, Lcid) # 0
  <2>1. run.at = "frag" => Peek(run.prio, Lcid) # 0
    BY FragFacts
  <2> QED BY <2>1 DEF SendFragment, SplitData, SendNext, AllSent, CanSchedule
<1>6. q.pkts[Chan] # <<>>
  BY <1>2, <1>5, TurnFacts
<1>7. PktsKept \/ PktsPopped
  BY RunPkts
<1>8. ASSUME NEW c \in AllChannels, q'.pkts[c] # <<>>, CanSend(c.lcid)'
      PROVE  q.pkts[c] # <<>> /\ CanSend(c.lcid)
  <2>1. q.pkts[c] # <<>>
    BY <1>6, <1>7, <1>8, TakenLess
  <2>2. c.lcid \in Links
    BY ChannelFacts
  <2> QED BY <1>4, <1>8, <2>1, <2>2, LessCanSend
<1>9. \A c \in AllChannels : ToVisit(Priority(c), c.lcid) => ToVisit(Priority(c), c.lcid)'
  BY <1>2, <1>3 DEF ToVisit
<1> QED BY <1>2, <1>3, <1>8, <1>9, RunStillServed

\* The rest of a packet waits for a link that may not send.
LEMMA SaveServed ==
    ASSUME CoreInv, ServedInv, SaveRest
    PROVE  ServedInv'
<1>1. RunTyped /\ RunInv
  BY DEF CoreInv
<1>2. run.at = "frag" /\ unserved' = unserved /\ ~ CanSend(Lcid)
      /\ run' = [run EXCEPT !.at = "lcid", !.visit = Tail(@), !.next = 0]
  BY DEF SaveRest, SaveFragmentData
<1>3. run'.at = "lcid" /\ run'.visit = Tail(run.visit) /\ run'.prio = run.prio
  BY <1>1, <1>2 DEF RunTyped, Runs
<1>4. run.visit \in Seq(Links) /\ run.visit # <<>> /\ IsInjective(run.visit)
  BY <1>1, <1>2 DEF RunTyped, Runs, RunInv
<1>5. BufLess
  BY RunBuf DEF SchedulerRun
<1>6. Lcid \in Links /\ q.pkts[Chan] # <<>> /\ FragmentChannel(Lcid).lcid = Lcid
  <2>1. Peek(run.prio, Lcid) # 0
    BY <1>2, FragFacts
  <2>2. Lcid \in Links /\ q.pkts[Chan] # <<>>
    BY <1>2, <2>1, TurnFacts
  <2> QED BY <2>2 DEF FragmentChannel
<1>7. PktsSaved
  BY RunPkts
<1>8. ASSUME NEW c \in AllChannels, q'.pkts[c] # <<>>, CanSend(c.lcid)'
      PROVE  /\ q.pkts[c] # <<>> /\ CanSend(c.lcid)
             /\ ToVisit(Priority(c), c.lcid) => ToVisit(Priority(c), c.lcid)'
  <2>1. CanSend(c.lcid)
    <3>1. c.lcid \in Links
      BY ChannelFacts
    <3> QED BY <1>5, <1>8, <3>1, LessCanSend
  <2>2. c.lcid # Lcid
    BY <1>2, <2>1
  <2>3. c # FragmentChannel(Lcid)
    BY <1>6, <2>2
  <2>4. q.pkts[c] # <<>>
    BY <1>6, <1>7, <1>8, <2>3 DEF PktsSaved
  <2>5. Contains(run.visit, c.lcid) => Contains(Tail(run.visit), c.lcid)
    BY <1>4, <2>2, TailInjectiveList DEF Lcid
  <2>6. ToVisit(Priority(c), c.lcid) => ToVisit(Priority(c), c.lcid)'
    BY <1>2, <1>3, <2>5 DEF ToVisit
  <2> QED BY <2>1, <2>4, <2>6
<1> QED BY <1>2, <1>3, <1>8, RunStillServed

\* Every step.
LEMMA ServedStep ==
    ASSUME CoreInv, ServedInv, [Next]_vars
    PROVE  ServedInv'
<1>1. CASE Handler
  BY <1>1, HandlerServed
<1>2. CASE RunPriority
  BY <1>2, RunEndServed, NextQueueServed
<1>3. CASE PriorityDone \/ VisitLcid \/ LcidDone
  BY <1>3, LoopServed
<1>4. CASE SendFragment \/ SplitData \/ SendNext \/ AllSent
  BY <1>4, SendServed
<1>5. CASE SaveRest
  BY <1>5, SaveServed
<1>6. CASE SendRefused \/ NextRefused \/ SaveFails
  BY <1>6, StopServed DEF SendRefused, NextRefused, SaveFails, StopRun
<1>7. CASE UNCHANGED vars
  BY <1>7, CountedSame DEF vars, ServedInv, Passed, ToVisit, CanSend, Connected
<1> QED BY <1>1, <1>2, <1>3, <1>4, <1>5, <1>6, <1>7 DEF Next, SchedulerRun

\* Packets are passed over only while their link may not send.
THEOREM ServedInvariant == Spec => []ServedInv
<1>1. Init => ServedInv
  BY DEF Init, InitQueues, ServedInv, Idle
<1> QED BY <1>1, CoreInvariant, ServedStep, PTL DEF Spec

\* When the controller is empty and no run is going on, no packet of a connected link
\* waits, unless a send failed, a disconnection gave buffers back, or a dropped fragment
\* still counts: every other way a packet can be left behind ends in a completion that
\* runs the scheduler.
THEOREM NothingEverStranded == Spec => []NothingStranded
<1>1. ASSUME CoreInv, ServedInv PROVE NothingStranded
  <2>1. SUFFICES ASSUME run = Idle, ~ unserved, \A l \in Links : Counted[l] = 0, NEW l \in ToSet(buf.list)
                 PROVE  Queued(l) = 0
    BY <1>1 DEF NothingStranded, Counted, CoreInv, DliTyped
  <2>2. QueuesTyped(q) /\ BufTyped(buf)
    BY <1>1 DEF CoreInv, Core, QueuesOK, BufGood, BufOK
  <2>3. Connected(buf, l) /\ run.at = "idle"
    BY <2>1, <2>2, BufFields DEF Idle
  <2>4. \A c \in AllChannels : c.lcid = l => q.pkts[c] = <<>>
    BY <1>1, <2>1, <2>3 DEF ServedInv
  <2> DEFINE S == {c \in AllChannels : c.lcid = l}
  <2>5. S \in SUBSET AllChannels /\ \A c \in S : q.pkts[c] = <<>>
    BY <2>4
  <2> HIDE DEF S
  <2>6. Waiting(q, S) = 0
    BY <2>2, <2>5, WaitingType
  <2> QED BY <2>6 DEF S, Queued
<1> QED BY <1>1, CoreInvariant, ServedInvariant, PTL

-----------------------------------------------------------------------------
(* The order of what waits.                                                *)

\* The elements of a list.
LEMMA ListSet ==
    ASSUME NEW s \in Seq(Packets)
    PROVE  /\ \A e : e \in ToSet(s) <=> \E i \in 1 .. Len(s) : e = s[i]
           /\ ToSet(s) \subseteq Packets /\ Len(s) \in Nat
<1>1. DOMAIN s = 1 .. Len(s) /\ Len(s) \in Nat
  BY LenProperties
<1>2. \A i \in 1 .. Len(s) : s[i] \in Packets
  BY ElementOfSeq
<1> QED BY <1>1, <1>2 DEF ToSet

\* The empty list.
LEMMA EmptySet ==
    ToSet(<<>>) = {} /\ Sorted(<<>>)
<1>1. DOMAIN <<>> = {} /\ Len(<<>>) = 0
  OBVIOUS
<1> QED BY <1>1 DEF ToSet, Sorted

\* Without its first element a list is sorted, and that one comes before all others.
LEMMA SortedTail ==
    ASSUME NEW s \in Seq(Packets), s # <<>>, Sorted(s)
    PROVE  /\ Tail(s) \in Seq(Packets) /\ Sorted(Tail(s)) /\ ToSet(Tail(s)) \subseteq ToSet(s)
           /\ Head(s) \in ToSet(s) /\ \A e \in ToSet(Tail(s)) : Before(Head(s), e)
<1>1. PICK t \in Seq(Packets) : t = Tail(s)
  BY TailElements
<1>2. PICK n \in Nat \ {0} : n = Len(s)
  BY TailElements
<1>3. Len(t) = n - 1 /\ (\A i \in 1 .. n - 1 : t[i] = s[i + 1]) /\ Head(s) = s[1]
  BY <1>1, <1>2, TailElements
<1>4. \A e : e \in ToSet(t) <=> \E i \in 1 .. n - 1 : e = t[i]
  BY <1>3, ListSet
<1>5. \A e : e \in ToSet(s) <=> \E i \in 1 .. n : e = s[i]
  BY <1>2, ListSet
<1>6. \A i, j \in 1 .. n : i < j => Before(s[i], s[j])
  BY <1>2 DEF Sorted
<1>7. \A i \in 1 .. n - 1 : i + 1 \in 1 .. n /\ 1 < i + 1 /\ 1 \in 1 .. n
  OBVIOUS
<1>8. ASSUME NEW e \in ToSet(t) PROVE e \in ToSet(s) /\ Before(Head(s), e)
  <2>1. PICK i \in 1 .. n - 1 : e = s[i + 1]
    BY <1>3, <1>4
  <2> QED BY <1>3, <1>5, <1>6, <1>7, <2>1
<1>9. Sorted(t)
  <2>1. ASSUME NEW i \in 1 .. n - 1, NEW j \in 1 .. n - 1, i < j PROVE Before(t[i], t[j])
    <3>1. i + 1 < j + 1
      BY <2>1
    <3> QED BY <1>3, <1>6, <1>7, <3>1
  <2> QED BY <1>3, <2>1 DEF Sorted
<1>10. Head(s) \in ToSet(s)
  BY <1>3, <1>5
<1> QED BY <1>1, <1>8, <1>9, <1>10

\* Two lists, one behind the other.
LEMMA SortedConcat ==
    ASSUME NEW s \in Seq(Packets), NEW t \in Seq(Packets), Sorted(s), Sorted(t),
           \A e \in ToSet(s) : \A f \in ToSet(t) : Before(e, f)
    PROVE  /\ s \o t \in Seq(Packets) /\ Sorted(s \o t)
           /\ \A e \in ToSet(s \o t) : e \in ToSet(s) \/ e \in ToSet(t)
<1>1. PICK u : u = s \o t
  OBVIOUS
<1>2. PICK n \in Nat : n = Len(s)
  BY LenProperties
<1>3. PICK m \in Nat : m = Len(t)
  BY LenProperties
<1>4. u \in Seq(Packets) /\ Len(u) = n + m
      /\ \A i \in 1 .. n + m : u[i] = IF i <= n THEN s[i] ELSE t[i - n]
  BY <1>1, <1>2, <1>3, ConcatProperties
<1>5. \A i \in 1 .. n + m : (i <= n => i \in 1 .. n) /\ (~ (i <= n) => i - n \in 1 .. m)
  OBVIOUS
<1>6. \A i \in 1 .. n : s[i] \in ToSet(s)
  BY <1>2, ListSet
<1>7. \A i \in 1 .. m : t[i] \in ToSet(t)
  BY <1>3, ListSet
<1>8. ASSUME NEW e \in ToSet(u) PROVE e \in ToSet(s) \/ e \in ToSet(t)
  <2>1. PICK i \in 1 .. n + m : e = u[i]
    BY <1>4, ListSet
  <2> QED BY <1>4, <1>5, <1>6, <1>7, <2>1
<1>9. ASSUME NEW i \in 1 .. n + m, NEW j \in 1 .. n + m, i < j PROVE Before(u[i], u[j])
  <2>1. CASE j <= n
    <3>1. i <= n /\ i \in 1 .. n /\ j \in 1 .. n
      BY <1>9, <2>1
    <3> QED BY <1>2, <1>4, <1>9, <2>1, <3>1 DEF Sorted
  <2>2. CASE ~ (j <= n) /\ i <= n
    BY <1>4, <1>5, <1>6, <1>7, <2>2
  <2>3. CASE ~ (i <= n)
    <3>1. ~ (j <= n) /\ i - n \in 1 .. m /\ j - n \in 1 .. m /\ i - n < j - n
      BY <1>9, <2>3
    <3> QED BY <1>3, <1>4, <2>3, <3>1 DEF Sorted
  <2> QED BY <2>1, <2>2, <2>3
<1>10. Sorted(u)
  BY <1>4, <1>9 DEF Sorted
<1> QED BY <1>1, <1>4, <1>8, <1>10

\* One packet.
LEMMA SortedOne ==
    ASSUME NEW k \in Packets
    PROVE  <<k>> \in Seq(Packets) /\ Sorted(<<k>>) /\ ToSet(<<k>>) = {k}
<1>1. <<k>> \in Seq(Packets) /\ Len(<<k>>) = 1 /\ <<k>>[1] = k
  OBVIOUS
<1>2. PICK s \in Seq(Packets) : s = <<k>>
  BY <1>1, Zenon
<1>3. Len(s) = 1 /\ s[1] = k
  BY <1>1, <1>2
<1>4. \A e : e \in ToSet(s) <=> e = k
  BY <1>3, ListSet
<1>5. Sorted(s)
  BY <1>3 DEF Sorted
<1> QED BY <1>2, <1>4, <1>5

\* The fragments of a packet.
LEMMA SortedFragments ==
    ASSUME NEW pkt \in Packets, NEW n \in 1 .. pkt.of
    PROVE  /\ Fragments(pkt, n) \in Seq(Packets) /\ Sorted(Fragments(pkt, n))
           /\ \A f \in ToSet(Fragments(pkt, n)) : f.chan = pkt.chan /\ f.num = pkt.num /\ f.of = pkt.of
                                                  /\ f.idx \in n .. pkt.of
<1>1. PICK fs : fs = Fragments(pkt, n)
  OBVIOUS
<1>2. pkt.of \in Nat \ {0} /\ pkt.of - n + 1 \in Nat /\ n \in Nat
  BY DEF Packets
<1>3. PICK k \in Nat : k = pkt.of - n + 1
  BY <1>2
<1>4. fs = [i \in 1 .. k |-> [pkt EXCEPT !.idx = n + i - 1]]
  BY <1>1, <1>3 DEF Fragments
<1>5. ASSUME NEW i \in 1 .. k
      PROVE  /\ [pkt EXCEPT !.idx = n + i - 1] \in Packets
             /\ fs[i].chan = pkt.chan /\ fs[i].num = pkt.num /\ fs[i].of = pkt.of /\ fs[i].idx = n + i - 1
             /\ n + i - 1 \in n .. pkt.of
  <2>1. PICK j \in Nat : j = n + i - 1 /\ j \in n .. pkt.of
    BY <1>2, <1>3
  <2>2. fs[i] = [pkt EXCEPT !.idx = j]
    BY <1>4, <2>1
  <2>3. fs[i] \in Packets /\ fs[i].chan = pkt.chan /\ fs[i].num = pkt.num /\ fs[i].of = pkt.of /\ fs[i].idx = j
    BY <2>1, <2>2 DEF Packets
  <2> QED BY <2>1, <2>2, <2>3
<1>6. fs \in Seq(Packets) /\ Len(fs) = k
  BY <1>4, <1>5
<1>7. Sorted(fs)
  <2>1. ASSUME NEW i \in 1 .. k, NEW j \in 1 .. k, i < j PROVE Before(fs[i], fs[j])
    <3>1. n + i - 1 < n + j - 1
      BY <1>2, <2>1
    <3> QED BY <1>5, <3>1 DEF Before
  <2> QED BY <1>6, <2>1 DEF Sorted
<1>8. \A f \in ToSet(fs) : \E i \in 1 .. k : f = fs[i]
  BY <1>6, ListSet
<1>9. ASSUME NEW f \in ToSet(fs)
      PROVE  f.chan = pkt.chan /\ f.num = pkt.num /\ f.of = pkt.of /\ f.idx \in n .. pkt.of
  <2>1. PICK i \in 1 .. k : f = fs[i]
    BY <1>8
  <2> QED BY <1>5, <2>1
<1> QED BY <1>1, <1>6, <1>7, <1>9

\* Lists of packets and fragments, each in its place.
Placed(c, f) ==
    /\ f \in Packets /\ f.chan.lcid = c.lcid
    /\ c \in Channels => f.chan = c /\ f.idx = 0
    /\ c \notin Channels => f.idx \in 1 .. f.of

ListsOK(w) ==
    /\ w \in [AllChannels -> Seq(Packets)]
    /\ \A c \in AllChannels : \A f \in ToSet(w[c]) : Placed(c, f)

\* Fewer packets wait.
LEMMA NumbersLess ==
    ASSUME NEW w, NEW mk, NEW sent, NumbersOK(w, mk, sent), ListsOK(w), NEW v,
           \A c \in AllChannels : Sorted(v[c]) /\ ToSet(v[c]) \subseteq ToSet(w[c])
    PROVE  NumbersOK(v, mk, sent)
<1>1. \A l \in Links : FragmentChannel(l) \in AllChannels
  BY ChannelFacts
<1>2. \A c \in Channels : c \in AllChannels
  BY ChannelFacts
<1>3. /\ sent \subseteq [chan : Channels, num : Nat]
      /\ \A c \in AllChannels : \A f \in ToSet(w[c]) : f.num <= mk[f.chan]
      /\ \A l \in Links : \A f \in ToSet(w[FragmentChannel(l)]) : \A g \in ToSet(w[f.chan]) : f.num < g.num
      /\ \A x \in sent :
         /\ x.num <= mk[x.chan]
         /\ \A g \in ToSet(w[x.chan]) : x.num < g.num
         /\ \A l \in Links : \A f \in ToSet(w[FragmentChannel(l)]) : f.chan = x.chan => x.num < f.num
  BY DEF NumbersOK
<1>4. \A c \in AllChannels : \A f \in ToSet(w[c]) : f.chan \in AllChannels
  BY <1>2 DEF ListsOK, Placed, Packets
<1>5. \A x \in sent : x.chan \in AllChannels
  BY <1>2, <1>3
<1>6. \A c \in AllChannels : Sorted(v[c]) /\ \A f \in ToSet(v[c]) : f.num <= mk[f.chan]
  BY <1>3
<1>7. \A l \in Links : \A f \in ToSet(v[FragmentChannel(l)]) : \A g \in ToSet(v[f.chan]) : f.num < g.num
  BY <1>1, <1>3, <1>4
<1>8. \A x \in sent :
         /\ x.num <= mk[x.chan]
         /\ \A g \in ToSet(v[x.chan]) : x.num < g.num
         /\ \A l \in Links : \A f \in ToSet(v[FragmentChannel(l)]) : f.chan = x.chan => x.num < f.num
  BY <1>1, <1>3, <1>5
<1> QED BY <1>3, <1>6, <1>7, <1>8 DEF NumbersOK

\* A packet has been sent that all that wait come after.
LEMMA NumbersSent ==
    ASSUME NEW w, NEW mk, NEW sent, NumbersOK(w, mk, sent), NEW x \in [chan : Channels, num : Nat],
           x.num <= mk[x.chan], \A g \in ToSet(w[x.chan]) : x.num < g.num,
           \A l \in Links : \A f \in ToSet(w[FragmentChannel(l)]) : f.chan = x.chan => x.num < f.num
    PROVE  NumbersOK(w, mk, sent \cup {x})
BY DEF NumbersOK

\* The packet c starts with is taken off.
TakenOff(w, c, v) ==
    \A d \in AllChannels : v[d] = IF d = c THEN Tail(w[d]) ELSE w[d]

\* It is no longer there.
LEMMA NumbersTaken ==
    ASSUME NEW w, NEW mk, NEW sent, NumbersOK(w, mk, sent), ListsOK(w), NEW v,
           NEW c \in AllChannels, w[c] # <<>>, TakenOff(w, c, v)
    PROVE  /\ NumbersOK(v, mk, sent) /\ Head(w[c]) \in ToSet(w[c]) /\ Placed(c, Head(w[c]))
           /\ \A g \in ToSet(v[c]) : Before(Head(w[c]), g) /\ Placed(c, g)
<1>1. w[c] \in Seq(Packets) /\ Sorted(w[c])
  BY DEF NumbersOK, ListsOK
<1>2. /\ Sorted(Tail(w[c])) /\ ToSet(Tail(w[c])) \subseteq ToSet(w[c])
      /\ Head(w[c]) \in ToSet(w[c]) /\ \A e \in ToSet(Tail(w[c])) : Before(Head(w[c]), e)
  BY <1>1, SortedTail
<1>3. ASSUME NEW d \in AllChannels PROVE Sorted(v[d]) /\ ToSet(v[d]) \subseteq ToSet(w[d])
  <2>1. CASE d = c
    BY <1>2, <2>1 DEF TakenOff
  <2>2. CASE d # c
    BY <2>2 DEF TakenOff, NumbersOK
  <2> QED BY <2>1, <2>2
<1>4. NumbersOK(v, mk, sent)
  BY <1>3, NumbersLess
<1>5. v[c] = Tail(w[c])
  BY DEF TakenOff
<1> QED BY <1>2, <1>4, <1>5 DEF ListsOK

\* A packet is sent: no fragment of its channel waits.
LEMMA NumbersPacketSent ==
    ASSUME NEW w, NEW mk, NEW sent, NumbersOK(w, mk, sent), ListsOK(w), NEW v,
           NEW c \in Channels, w[c] # <<>>, TakenOff(w, c, v),
           \A f \in ToSet(w[FragmentChannel(c.lcid)]) : f.chan # c
    PROVE  NumbersOK(v, mk, sent \cup {IdOf(Head(w[c]))})
<1>1. c \in AllChannels /\ c.lcid \in Links
  BY ChannelFacts
<1>2. PICK f : f = Head(w[c])
  OBVIOUS
<1>3. NumbersOK(v, mk, sent) /\ f \in ToSet(w[c]) /\ Placed(c, f)
      /\ \A g \in ToSet(v[c]) : Before(f, g) /\ Placed(c, g)
  BY <1>1, <1>2, NumbersTaken
<1>4. f \in Packets /\ f.chan = c /\ f.idx = 0 /\ f.num <= mk[c]
  BY <1>1, <1>3 DEF Placed, NumbersOK
<1>5. PICK x : x = IdOf(f)
  OBVIOUS
<1>6. x.chan = c /\ x.num = f.num /\ x \in [chan : Channels, num : Nat]
  BY <1>4, <1>5 DEF IdOf, Packets
<1>7. ASSUME NEW g \in ToSet(v[c]) PROVE f.num < g.num
  <2>1. Before(f, g) /\ g.chan = c /\ g.idx = 0
    BY <1>3 DEF Placed
  <2> QED BY <1>4, <2>1 DEF Before
<1>8. ASSUME NEW l \in Links, NEW g \in ToSet(v[FragmentChannel(l)]), g.chan = c PROVE FALSE
  <2>1. FragmentChannel(l) \in AllChannels /\ FragmentChannel(l).lcid = l /\ FragmentChannel(l) # c
    BY ChannelFacts
  <2>2. v[FragmentChannel(l)] = w[FragmentChannel(l)]
    BY <2>1 DEF TakenOff
  <2>3. Placed(FragmentChannel(l), g)
    BY <1>8, <2>1, <2>2 DEF ListsOK
  <2>4. c.lcid = l
    BY <1>8, <2>1, <2>3 DEF Placed
  <2> QED BY <1>8, <2>2, <2>4
<1>9. NumbersOK(v, mk, sent \cup {x})
  BY <1>3, <1>4, <1>6, <1>7, <1>8, NumbersSent
<1> QED BY <1>2, <1>5, <1>9

\* The last fragment of a packet is sent.
LEMMA NumbersLastSent ==
    ASSUME NEW w, NEW mk, NEW sent, NumbersOK(w, mk, sent), ListsOK(w), NEW v, NEW k \in Links,
           NEW c, c = FragmentChannel(k), w[c] # <<>>, TakenOff(w, c, v), Head(w[c]).idx = Head(w[c]).of
    PROVE  NumbersOK(v, mk, sent \cup {IdOf(Head(w[c]))})
<1>1. c \in AllChannels /\ c.lcid = k /\ c \notin Channels
  BY ChannelFacts
<1>2. PICK f : f = Head(w[c])
  OBVIOUS
<1>3. NumbersOK(v, mk, sent) /\ f \in ToSet(w[c]) /\ Placed(c, f)
      /\ \A g \in ToSet(v[c]) : Before(f, g) /\ Placed(c, g)
  BY <1>1, <1>2, NumbersTaken
<1>4. f \in Packets /\ f.chan \in Channels /\ f.chan.lcid = k /\ f.idx = f.of /\ f.num <= mk[f.chan]
  BY <1>1, <1>2, <1>3 DEF Placed, NumbersOK, Packets
<1>5. PICK x : x = IdOf(f)
  OBVIOUS
<1>6. x.chan = f.chan /\ x.num = f.num /\ x \in [chan : Channels, num : Nat]
  BY <1>4, <1>5 DEF IdOf, Packets
<1>7. ASSUME NEW g \in ToSet(v[f.chan]) PROVE f.num < g.num
  <2>1. f.chan \in AllChannels /\ f.chan # c
    BY <1>1, <1>4, ChannelFacts
  <2>2. v[f.chan] = w[f.chan]
    BY <2>1 DEF TakenOff
  <2> QED BY <1>3, <2>2 DEF NumbersOK
<1>8. ASSUME NEW l \in Links, NEW g \in ToSet(v[FragmentChannel(l)]), g.chan = f.chan PROVE f.num < g.num
  <2>1. FragmentChannel(l) \in AllChannels /\ FragmentChannel(l).lcid = l
    BY ChannelFacts
  <2>2. CASE l = k
    <3>1. Before(f, g) /\ Placed(c, g)
      BY <1>3, <1>8, <2>2
    <3>2. g.idx \in 1 .. g.of /\ g \in Packets
      BY <1>1, <3>1 DEF Placed
    <3> QED BY <1>4, <1>8, <3>1, <3>2 DEF Before, Packets
  <2>3. CASE l # k
    <3>1. v[FragmentChannel(l)] = w[FragmentChannel(l)]
      BY <1>1, <2>1, <2>3 DEF TakenOff
    <3>2. g.chan.lcid = l
      BY <1>8, <2>1, <3>1 DEF ListsOK, Placed
    <3> QED BY <1>4, <1>8, <2>3, <3>2
  <2> QED BY <2>2, <2>3
<1>9. NumbersOK(v, mk, sent \cup {x})
  BY <1>3, <1>4, <1>6, <1>7, <1>8, NumbersSent
<1> QED BY <1>2, <1>5, <1>9

\* The next packet k of c is given to it.
Given(c, k, mk, new, w, v) ==
    /\ c \in Channels /\ k \in Packets /\ k.chan = c /\ k.idx = 0 /\ k.num = mk[c] + 1
    /\ mk \in [Channels -> Nat] /\ new = [mk EXCEPT ![c] = @ + 1]
    /\ \A d \in AllChannels : v[d] = IF d = c THEN w[d] \o <<k>> ELSE w[d]

\* It comes after all others.
LEMMA NumbersPushed ==
    ASSUME NEW w, NEW mk, NEW sent, NumbersOK(w, mk, sent), ListsOK(w),
           NEW c, NEW k, NEW new, NEW v, Given(c, k, mk, new, w, v)
    PROVE  NumbersOK(v, new, sent)
<1>0. PICK ks : ks = <<k>>
  OBVIOUS
<1>1. /\ c \in Channels /\ k \in Packets /\ k.chan = c /\ k.idx = 0 /\ k.num = mk[c] + 1
      /\ mk \in [Channels -> Nat] /\ new = [mk EXCEPT ![c] = @ + 1]
      /\ \A d \in AllChannels : v[d] = IF d = c THEN w[d] \o ks ELSE w[d]
  BY <1>0 DEF Given
<1>2. new \in [Channels -> Nat] /\ new[c] = mk[c] + 1 /\ \A d \in Channels : mk[d] <= new[d] /\ mk[d] \in Nat
  BY <1>1
<1>3. c \in AllChannels /\ w[c] \in Seq(Packets) /\ Sorted(w[c])
  BY <1>1, ChannelFacts DEF ListsOK, NumbersOK
<1>4. ASSUME NEW d \in AllChannels, NEW f \in ToSet(w[d])
      PROVE  f.chan \in Channels /\ f.num <= mk[f.chan] /\ f.num \in Nat /\ f.num <= new[f.chan]
  <2>1. f \in Packets /\ f.num <= mk[f.chan]
    BY <1>4 DEF ListsOK, Placed, NumbersOK
  <2>2. f.chan \in Channels /\ f.num \in Nat
    BY <2>1 DEF Packets
  <2> QED BY <1>2, <2>1, <2>2
<1>5. ks \in Seq(Packets) /\ Sorted(ks) /\ ToSet(ks) = {k}
  BY <1>0, <1>1, SortedOne
<1>6. \A e \in ToSet(w[c]) : e.chan = c
  BY <1>1, <1>3 DEF ListsOK, Placed
<1>7. \A e \in ToSet(w[c]) : e.num < k.num
  BY <1>1, <1>2, <1>3, <1>4, <1>6
<1>8. \A e \in ToSet(w[c]) : \A f \in ToSet(ks) : Before(e, f)
  BY <1>5, <1>7 DEF Before
<1>9. Sorted(v[c]) /\ \A e \in ToSet(v[c]) : e \in ToSet(w[c]) \/ e = k
  BY <1>1, <1>3, <1>5, <1>8, SortedConcat
<1>10. \A d \in AllChannels : d # c => v[d] = w[d]
  BY <1>1
<1>11. ASSUME NEW d \in AllChannels
       PROVE  Sorted(v[d]) /\ \A f \in ToSet(v[d]) : f.num <= new[f.chan]
  <2>1. CASE d = c
    BY <1>1, <1>2, <1>3, <1>4, <1>9, <2>1
  <2>2. CASE d # c
    BY <1>4, <1>10, <2>2 DEF NumbersOK
  <2> QED BY <2>1, <2>2
<1>12. ASSUME NEW l \in Links PROVE FragmentChannel(l) \in AllChannels /\ v[FragmentChannel(l)] = w[FragmentChannel(l)]
  <2>1. FragmentChannel(l) \in AllChannels /\ FragmentChannel(l) # c
    BY <1>1, ChannelFacts
  <2> QED BY <1>10, <2>1
<1>13. ASSUME NEW l \in Links, NEW f \in ToSet(v[FragmentChannel(l)]), NEW g \in ToSet(v[f.chan])
       PROVE  f.num < g.num
  <2>1. f \in ToSet(w[FragmentChannel(l)]) /\ FragmentChannel(l) \in AllChannels
    BY <1>12
  <2>2. f.chan \in Channels /\ f.num <= mk[f.chan] /\ f.num \in Nat
    BY <1>4, <2>1
  <2>3. f.chan \in AllChannels
    BY <2>2, ChannelFacts
  <2>4. CASE f.chan = c /\ g = k
    BY <1>1, <1>2, <2>2, <2>4
  <2>5. CASE ~ (f.chan = c /\ g = k)
    <3>1. g \in ToSet(w[f.chan])
      BY <1>9, <1>10, <2>3, <2>5
    <3> QED BY <2>1, <3>1 DEF NumbersOK
  <2> QED BY <2>4, <2>5
<1>14. ASSUME NEW x \in sent
       PROVE  /\ x.num <= new[x.chan]
              /\ \A g \in ToSet(v[x.chan]) : x.num < g.num
              /\ \A l \in Links : \A f \in ToSet(v[FragmentChannel(l)]) : f.chan = x.chan => x.num < f.num
  <2>1. x.chan \in Channels /\ x.num \in Nat /\ x.num <= mk[x.chan] /\ x.chan \in AllChannels
    BY ChannelFacts DEF NumbersOK
  <2>2. x.num <= new[x.chan]
    BY <1>2, <2>1
  <2>3. ASSUME NEW g \in ToSet(v[x.chan]) PROVE x.num < g.num
    <3>1. CASE x.chan = c /\ g = k
      BY <1>1, <1>2, <2>1, <3>1
    <3>2. CASE ~ (x.chan = c /\ g = k)
      <4>1. g \in ToSet(w[x.chan])
        BY <1>9, <1>10, <2>1, <3>2
      <4> QED BY <4>1 DEF NumbersOK
    <3> QED BY <3>1, <3>2
  <2> QED BY <1>12, <2>2, <2>3 DEF NumbersOK
<1> QED BY <1>11, <1>13, <1>14 DEF NumbersOK

\* The rest of a packet is saved: no fragment of its channel waits.
LEMMA NumbersSaved ==
    ASSUME NEW w, NEW mk, NEW sent, NumbersOK(w, mk, sent), ListsOK(w), NEW v,
           NEW c \in Channels, w[c] # <<>>, NEW n \in 1 .. Head(w[c]).of,
           \A f \in ToSet(w[FragmentChannel(c.lcid)]) : f.chan # c,
           \A d \in AllChannels :
              v[d] = IF d = c THEN Tail(w[d])
                     ELSE IF d = FragmentChannel(c.lcid) THEN w[d] \o Fragments(Head(w[c]), n)
                     ELSE w[d]
    PROVE  NumbersOK(v, mk, sent)
<1>1. c \in AllChannels /\ c.lcid \in Links
  BY ChannelFacts
<1>2. PICK u : u = [w EXCEPT ![c] = Tail(@)]
  OBVIOUS
<1>3. TakenOff(w, c, u) /\ u[c] = Tail(w[c])
  BY <1>1, <1>2 DEF TakenOff, ListsOK
<1>4. PICK p : p = Head(w[c])
  OBVIOUS
<1>5. NumbersOK(u, mk, sent) /\ p \in ToSet(w[c]) /\ Placed(c, p)
      /\ \A g \in ToSet(u[c]) : Before(p, g) /\ Placed(c, g)
  BY <1>1, <1>3, <1>4, NumbersTaken
<1>6. p \in Packets /\ p.chan = c /\ p.idx = 0 /\ p.num <= mk[c]
  BY <1>1, <1>5 DEF Placed, NumbersOK
<1>7. PICK fc : fc = FragmentChannel(c.lcid)
  OBVIOUS
<1>8. fc \in AllChannels /\ fc # c /\ fc.lcid = c.lcid /\ fc \notin Channels
  BY <1>1, <1>7, ChannelFacts
<1>9. PICK rest : rest = Fragments(p, n)
  OBVIOUS
<1>10. rest \in Seq(Packets) /\ Sorted(rest) /\ \A f \in ToSet(rest) : f.chan = c /\ f.num = p.num
  BY <1>4, <1>6, <1>9, SortedFragments
<1>11. w[fc] \in Seq(Packets) /\ Sorted(w[fc]) /\ \A f \in ToSet(w[fc]) : f.chan # c
  BY <1>7, <1>8 DEF ListsOK, NumbersOK
<1>12. \A e \in ToSet(w[fc]) : \A f \in ToSet(rest) : Before(e, f)
  BY <1>10, <1>11 DEF Before
<1>13. Sorted(w[fc] \o rest) /\ \A e \in ToSet(w[fc] \o rest) : e \in ToSet(w[fc]) \/ e \in ToSet(rest)
  BY <1>10, <1>11, <1>12, SortedConcat
<1>14. /\ u[fc] = w[fc] /\ v[fc] = w[fc] \o rest
       /\ \A d \in AllChannels : d # fc => v[d] = u[d]
  BY <1>1, <1>3, <1>4, <1>7, <1>8, <1>9 DEF TakenOff
<1>15. ASSUME NEW l \in Links, NEW f \in ToSet(v[FragmentChannel(l)])
       PROVE  f \in ToSet(u[FragmentChannel(l)]) \/ (f.chan = c /\ f.num = p.num)
  <2>1. FragmentChannel(l) \in AllChannels
    BY ChannelFacts
  <2> QED BY <1>10, <1>13, <1>14, <2>1
<1>16. ASSUME NEW d \in Channels PROVE v[d] = u[d]
  <2>1. d \in AllChannels
    BY ChannelFacts
  <2> QED BY <1>8, <1>14, <2>1
<1>17. ASSUME NEW d \in AllChannels PROVE Sorted(v[d]) /\ \A f \in ToSet(v[d]) : f.num <= mk[f.chan]
  <2>1. CASE d = fc
    BY <1>6, <1>8, <1>10, <1>13, <1>14, <2>1 DEF NumbersOK
  <2>2. CASE d # fc
    BY <1>5, <1>14, <2>2 DEF NumbersOK
  <2> QED BY <2>1, <2>2
<1>18. ASSUME NEW g \in ToSet(u[c]) PROVE p.num < g.num
  <2>1. Before(p, g) /\ g.chan = c /\ g.idx = 0
    BY <1>5 DEF Placed
  <2> QED BY <1>6, <2>1 DEF Before
<1>19. ASSUME NEW l \in Links, NEW f \in ToSet(v[FragmentChannel(l)]), NEW g \in ToSet(v[f.chan])
       PROVE  f.num < g.num
  <2>1. CASE f.chan = c /\ f.num = p.num
    BY <1>16, <1>18, <2>1
  <2>2. CASE f \in ToSet(u[FragmentChannel(l)])
    <3>1. f.chan \in Channels
      <4>1. FragmentChannel(l) \in AllChannels /\ FragmentChannel(l) # c
        BY ChannelFacts
      <4>2. f \in ToSet(w[FragmentChannel(l)])
        BY <1>3, <2>2, <4>1 DEF TakenOff
      <4>3. f \in Packets
        BY <4>1, <4>2 DEF ListsOK, Placed
      <4> QED BY <4>3 DEF Packets
    <3> QED BY <1>5, <1>16, <2>2, <3>1 DEF NumbersOK
  <2> QED BY <1>15, <2>1, <2>2
<1>20. ASSUME NEW x \in sent
       PROVE  /\ x.num <= mk[x.chan]
              /\ \A g \in ToSet(v[x.chan]) : x.num < g.num
              /\ \A l \in Links : \A f \in ToSet(v[FragmentChannel(l)]) : f.chan = x.chan => x.num < f.num
  <2>1. x.chan \in Channels
    BY DEF NumbersOK
  <2>2. ASSUME x.chan = c PROVE x.num < p.num
    BY <1>5, <2>2 DEF NumbersOK
  <2> QED BY <1>5, <1>15, <1>16, <2>1, <2>2 DEF NumbersOK
<1> QED BY <1>5, <1>17, <1>19, <1>20 DEF NumbersOK

-----------------------------------------------------------------------------
(* The packets of a channel leave in order.                                *)

\* What is still to be sent, by where the run is.
LEMMA UnsentFacts ==
    ASSUME CoreInv
    PROVE  /\ ListsOK(Unsent)
           /\ ~ Ending => \A c \in AllChannels : Unsent[c] = q.pkts[c]
           /\ Ending => TakenOff(q.pkts, Chan, Unsent)
           /\ \A l \in Links : Frags(l) = Unsent[FragmentChannel(l)]
<1>1. QueuesOK(q) /\ PacketsOK(q, open) /\ open \in SUBSET Channels
  BY DEF CoreInv, Core
<1>2. ASSUME NEW c \in AllChannels
      PROVE  q.pkts[c] \in Seq(Packets) /\ \A f \in ToSet(q.pkts[c]) : Placed(c, f)
  <2>1. q.pkts[c] \in Seq(Packets)
    BY <1>1, QueuesFields DEF QueuesOK
  <2>2. ASSUME NEW f \in ToSet(q.pkts[c]) PROVE Placed(c, f)
    <3>1. PICK i \in 1 .. Len(q.pkts[c]) : f = q.pkts[c][i]
      BY <2>1, ListSet
    <3>2. PacketOK(open, c, f) /\ f \in Packets
      BY <1>1, <2>1, <3>1, ElementOfSeq DEF PacketsOK
    <3> QED BY <3>2 DEF PacketOK, Placed
  <2> QED BY <2>1, <2>2
<1>3. Ending => Chan \in Channels /\ Chan \in AllChannels /\ q.pkts[Chan] # <<>>
  <2>1. SUFFICES ASSUME Ending PROVE Chan \in Channels /\ Chan \in AllChannels /\ q.pkts[Chan] # <<>>
    OBVIOUS
  <2>2. run.at = "frag"
    BY <2>1 DEF Ending
  <2> QED BY <2>2, FragFacts, TurnFacts
<1>4. \A c \in AllChannels : Unsent[c] = IF Ending /\ c = Chan THEN Tail(q.pkts[c]) ELSE q.pkts[c]
  BY DEF Unsent
<1>5. ASSUME NEW c \in AllChannels
      PROVE  Unsent[c] \in Seq(Packets) /\ ToSet(Unsent[c]) \subseteq ToSet(q.pkts[c])
  <2>1. CASE Ending /\ c = Chan
    <3>1. PICK s \in Seq(Packets) : s = q.pkts[c] /\ s # <<>>
      BY <1>2, <1>3, <2>1
    <3>2. PICK t \in Seq(Packets) : t = Tail(s)
      BY <3>1, TailElements
    <3>3. Len(t) = Len(s) - 1 /\ Len(s) \in Nat \ {0} /\ \A i \in 1 .. Len(s) - 1 : t[i] = s[i + 1]
      BY <3>1, <3>2, TailElements
    <3>4. ASSUME NEW e \in ToSet(t) PROVE e \in ToSet(s)
      <4>1. PICK i \in 1 .. Len(s) - 1 : e = s[i + 1]
        BY <3>3, ListSet
      <4>2. i + 1 \in 1 .. Len(s)
        BY <3>3
      <4> QED BY <4>1, <4>2, ListSet
    <3> QED BY <1>4, <2>1, <3>1, <3>2, <3>4
  <2>2. CASE ~ (Ending /\ c = Chan)
    BY <1>2, <1>4, <2>2
  <2> QED BY <2>1, <2>2
<1>6. Unsent \in [AllChannels -> Seq(Packets)]
  <2>1. Unsent = [c \in AllChannels |-> Unsent[c]]
    BY DEF Unsent
  <2> QED BY <1>5, <2>1
<1>7. ListsOK(Unsent)
  BY <1>2, <1>5, <1>6 DEF ListsOK
<1>8. ASSUME NEW l \in Links PROVE Frags(l) = Unsent[FragmentChannel(l)]
  <2>1. FragmentChannel(l) \in AllChannels /\ FragmentChannel(l) \notin Channels
    BY ChannelFacts
  <2> QED BY <1>3, <1>4, <2>1 DEF Frags
<1>9. ~ Ending => \A c \in AllChannels : Unsent[c] = q.pkts[c]
  BY <1>4
<1>10. Ending => TakenOff(q.pkts, Chan, Unsent)
  BY <1>4 DEF TakenOff
<1> QED BY <1>7, <1>8, <1>9, <1>10

\* The same, after the step.
LEMMA UnsentNext ==
    /\ ~ Ending' => \A c \in AllChannels : Unsent'[c] = q'.pkts[c]
    /\ Ending' => \A c \in AllChannels : Unsent'[c] = IF c = Chan' THEN Tail(q'.pkts[c]) ELSE q'.pkts[c]
BY DEF Unsent

\* Nothing is taken, given or sent.
LEMMA NumbersKept ==
    ASSUME CoreInv, NumbersInv, ~ Ending, ~ Ending', made' = made, peer' = peer,
           \A c \in AllChannels : q'.pkts[c] = q.pkts[c] \/ q'.pkts[c] = <<>>
    PROVE  NumbersInv'
<1>1. NumbersOK(Unsent, made, peer.sent) /\ ListsOK(Unsent)
  BY UnsentFacts DEF NumbersInv
<1>2. ASSUME NEW c \in AllChannels PROVE Sorted(Unsent'[c]) /\ ToSet(Unsent'[c]) \subseteq ToSet(Unsent[c])
  <2>1. Unsent[c] = q.pkts[c] /\ Unsent'[c] = q'.pkts[c] /\ Sorted(Unsent[c])
    BY <1>1, UnsentFacts, UnsentNext DEF NumbersOK
  <2>2. CASE q'.pkts[c] = q.pkts[c]
    BY <2>1, <2>2
  <2>3. CASE q'.pkts[c] = <<>>
    <3>1. Unsent'[c] = <<>>
      BY <2>1, <2>3
    <3>2. Sorted(<<>>) /\ ToSet(<<>>) = {}
      BY EmptySet
    <3> QED BY <3>1, <3>2, Zenon
  <2> QED BY <2>2, <2>3
<1>3. NumbersOK(Unsent', made, peer.sent)
  BY <1>1, <1>2, NumbersLess
<1> QED BY <1>3 DEF NumbersInv

\* The handlers.
LEMMA HandlerNumbers ==
    ASSUME CoreInv, NumbersInv, Handler
    PROVE  NumbersInv'
<1>1. run = Idle /\ (run' = Idle \/ run' = StartRun) /\ peer' = peer
  BY DEF Handler, MainThreadFree, SchedulerInit, SchedulerDeinit, Connect, Disconnect, ChannelAdd,
         ChannelDown, SetApBufferNum, DataSendWithPriority, SendComplete, RunAfterCompletion
<1>2. ~ Ending /\ ~ Ending'
  BY <1>1 DEF Ending, Idle, StartRun
<1>3. CASE \E c \in Channels : DataSendWithPriority(c)
  <2>1. PICK c \in Channels : DataSendWithPriority(c)
    BY <1>3
  <2>2. PICK k : k = Packet(c, made[c] + 1, ToSend[c][made[c] + 1])
    OBVIOUS
  <2>3. made' = [made EXCEPT ![c] = @ + 1] /\ made[c] < Len(ToSend[c]) /\ made \in [Channels -> Nat]
    BY <2>1 DEF DataSendWithPriority, CoreInv
  <2>4. k \in Packets /\ k.chan = c /\ k.idx = 0 /\ k.num = made[c] + 1
    <3>1. ToSend[c] \in Seq(Nat \ {0}) /\ made[c] \in Nat
      BY <2>3, SchedulerAssumption
    <3>2. made[c] + 1 \in 1 .. Len(ToSend[c])
      BY <2>3, <3>1, LenProperties
    <3>3. ToSend[c][made[c] + 1] \in Nat \ {0}
      BY <3>1, <3>2, ElementOfSeq
    <3> QED BY <2>2, <3>1, <3>3 DEF Packet, Packets
  <2>5. PktsAre(q, c, q.pkts[c] \o <<k>>, q')
    BY <2>1, <2>2, HandlerPkts
  <2>6. \A d \in AllChannels : Unsent'[d] = IF d = c THEN Unsent[d] \o <<k>> ELSE Unsent[d]
    BY <1>2, <2>5, UnsentFacts, UnsentNext DEF PktsAre
  <2>7. NumbersOK(Unsent, made, peer.sent) /\ ListsOK(Unsent)
    BY UnsentFacts DEF NumbersInv
  <2>8. NumbersOK(Unsent', made', peer.sent)
    <3>1. Given(c, k, made, made', Unsent, Unsent')
      BY <2>3, <2>4, <2>6 DEF Given
    <3> QED BY <2>7, <3>1, NumbersPushed
  <2> QED BY <1>1, <2>3, <2>8 DEF NumbersInv
<1>4. CASE ~ \E c \in Channels : DataSendWithPriority(c)
  <2>1. made' = made
    BY <1>4 DEF Handler, SchedulerInit, SchedulerDeinit, Connect, Disconnect, ChannelAdd,
                ChannelDown, SetApBufferNum, SendComplete
  <2>2. ASSUME NEW l \in Links, Connect(l) \/ Disconnect(l) PROVE PktsKept
    BY <2>2, HandlerPkts
  <2>3. ASSUME NEW c \in Channels, ChannelAdd(c) PROVE PktsKept
    BY <2>3, HandlerPkts
  <2>4. ASSUME NEW n \in BufferNums, SetApBufferNum(n) PROVE PktsKept
    BY <2>4, HandlerPkts
  <2>5. ASSUME NEW l \in Links, NEW n \in 1 .. held[l], SendComplete(l, n) PROVE PktsKept
    BY <2>5 DEF SendComplete, PktsKept
  <2>6. ASSUME NEW c \in Channels, ChannelDown(c)
        PROVE  \A d \in AllChannels : q'.pkts[d] = q.pkts[d] \/ q'.pkts[d] = <<>>
    BY <2>6, HandlerPkts
  <2>7. ASSUME SchedulerInit \/ SchedulerDeinit PROVE \A d \in AllChannels : q'.pkts[d] = <<>>
    BY <2>7, HandlerPkts
  <2>8. \A d \in AllChannels : q'.pkts[d] = q.pkts[d] \/ q'.pkts[d] = <<>>
    BY <1>4, <2>2, <2>3, <2>4, <2>5, <2>6, <2>7 DEF Handler, PktsKept
  <2> QED BY <1>1, <1>2, <2>1, <2>8, NumbersKept
<1> QED BY <1>3, <1>4

\* What the peer is sent.
LEMMA PeerSent ==
    ASSUME NEW b, NEW f, SendData(b, f)
    PROVE  peer'.sent = peer.sent \/ (f.idx = f.of /\ peer'.sent = peer.sent \cup {IdOf(f)})
<1>1. CASE Deliver(f)
  BY <1>1 DEF Deliver
<1>2. CASE Drop
  BY <1>2 DEF Drop
<1> QED BY <1>1, <1>2 DEF SendData

\* A saved fragment.
LEMMA SendFragmentNumbers ==
    ASSUME CoreInv, NumbersInv, SendFragment
    PROVE  NumbersInv' /\ \A x \in peer'.sent \ peer.sent : \A y \in peer.sent : x.chan = y.chan => y.num < x.num
<1>1. run.at = "chan" /\ Peek(run.prio, Lcid) # 0 /\ Pkt.idx # 0 /\ made' = made /\ run' = run
      /\ SendData(PoppedBuf(buf, Lcid), Pkt)
  BY DEF SendFragment, CanSchedule
<1>2. Lcid \in Links /\ Chan \in AllChannels /\ Chan.lcid = Lcid /\ q.pkts[Chan] # <<>> /\ PacketOK(open, Chan, Pkt)
  BY <1>1, TurnFacts
<1>3. Chan = FragmentChannel(Lcid) /\ Pkt.idx \in 1 .. Pkt.of
  <2>1. Chan \notin Channels
    BY <1>1, <1>2 DEF PacketOK
  <2> QED BY <1>2, <2>1 DEF AllChannels, FragmentChannel, PacketOK
<1>4. ~ Ending /\ ~ Ending'
  BY <1>1 DEF Ending
<1>5. PktsPopped
  BY RunPkts
<1>6. TakenOff(Unsent, Chan, Unsent') /\ Unsent[Chan] = q.pkts[Chan]
  BY <1>2, <1>4, <1>5, UnsentFacts, UnsentNext DEF PktsPopped, PktsAre, TakenOff
<1>7. NumbersOK(Unsent, made, peer.sent) /\ ListsOK(Unsent) /\ Unsent[Chan] # <<>> /\ Pkt = Head(Unsent[Chan])
  BY <1>2, <1>6, UnsentFacts DEF NumbersInv, Pkt
<1>8. peer'.sent = peer.sent \/ (Pkt.idx = Pkt.of /\ peer'.sent = peer.sent \cup {IdOf(Pkt)})
  BY <1>1, PeerSent
<1>9. NumbersOK(Unsent', made, peer.sent) /\ Pkt \in ToSet(Unsent[Chan])
  BY <1>2, <1>6, <1>7, NumbersTaken
<1>10. Pkt.idx = Pkt.of => NumbersOK(Unsent', made, peer.sent \cup {IdOf(Pkt)})
  BY <1>2, <1>3, <1>6, <1>7, NumbersLastSent
<1>11. NumbersInv'
  BY <1>1, <1>8, <1>9, <1>10 DEF NumbersInv
<1>12. ASSUME NEW x \in peer'.sent \ peer.sent, NEW y \in peer.sent, x.chan = y.chan PROVE y.num < x.num
  <2>1. x = IdOf(Pkt)
    BY <1>8, <1>12
  <2>2. x.chan = Pkt.chan /\ x.num = Pkt.num
    BY <2>1 DEF IdOf
  <2>3. Pkt \in ToSet(Unsent[FragmentChannel(Lcid)])
    BY <1>3, <1>9
  <2> QED BY <1>2, <1>7, <1>12, <2>2, <2>3 DEF NumbersOK
<1> QED BY <1>11, <1>12

\* A fragment of the packet just split.
LEMMA SendNextNumbers ==
    ASSUME CoreInv, NumbersInv, OvertakeInv, SendNext
    PROVE  NumbersInv' /\ \A x \in peer'.sent \ peer.sent : \A y \in peer.sent : x.chan = y.chan => y.num < x.num
<1>1. /\ run.at = "frag" /\ run.next <= Pkt.of /\ made' = made /\ q' = q /\ RunTyped
      /\ run' = [run EXCEPT !.next = @ + 1] /\ SendData(buf, [Pkt EXCEPT !.idx = run.next])
  BY DEF SendNext, CoreInv
<1>2. /\ Peek(run.prio, Lcid) # 0 /\ Pkt.idx = 0 /\ Pkt.chan = Chan /\ Chan \in Channels
      /\ Pkt.of \in Nat \ {0} /\ run.next \in Nat
  BY <1>1, FragFacts
<1>3. Lcid \in Links /\ Chan \in AllChannels /\ Chan.lcid = Lcid /\ q.pkts[Chan] # <<>> /\ Pkt \in Packets
  BY <1>1, <1>2, TurnFacts
<1>4. run'.at = "frag" /\ run'.prio = run.prio /\ run'.visit = run.visit /\ run'.next = run.next + 1
  BY <1>1 DEF RunTyped, Runs
<1>5. Chan' = Chan /\ Pkt' = Pkt
  BY <1>1, <1>4, SameTurn
<1>6. ~ Ending /\ (Ending' <=> run.next = Pkt.of)
  BY <1>1, <1>2, <1>4, <1>5 DEF Ending
<1>7. NumbersOK(Unsent, made, peer.sent) /\ ListsOK(Unsent) /\ Unsent[Chan] = q.pkts[Chan] /\ Pkt = Head(Unsent[Chan])
  BY <1>3, <1>6, UnsentFacts DEF NumbersInv, Pkt
<1>8. \A g \in ToSet(Unsent[FragmentChannel(Chan.lcid)]) : g.chan # Chan
  BY <1>1, <1>3, UnsentFacts DEF OvertakeInv
<1>9. PICK f : f = [Pkt EXCEPT !.idx = run.next]
  OBVIOUS
<1>10. f.idx = run.next /\ f.of = Pkt.of /\ IdOf(f) = IdOf(Pkt)
  BY <1>3, <1>9 DEF IdOf, Packets
<1>11. peer'.sent = peer.sent \/ (f.idx = f.of /\ peer'.sent = peer.sent \cup {IdOf(f)})
  BY <1>1, <1>9, PeerSent
<1>12. peer'.sent = peer.sent \/ (run.next = Pkt.of /\ peer'.sent = peer.sent \cup {IdOf(Pkt)})
  BY <1>10, <1>11
<1>13. CASE run.next = Pkt.of
  <2>1. TakenOff(Unsent, Chan, Unsent')
    BY <1>1, <1>5, <1>6, <1>13, UnsentFacts, UnsentNext DEF TakenOff
  <2>2. NumbersOK(Unsent', made, peer.sent \cup {IdOf(Pkt)})
    BY <1>2, <1>3, <1>7, <1>8, <2>1, NumbersPacketSent
  <2>3. /\ NumbersOK(Unsent, made, peer.sent) /\ Pkt \in ToSet(Unsent[Chan])
        /\ NumbersOK(Unsent', made, peer.sent)
    BY <1>3, <1>7, <2>1, NumbersTaken
  <2>4. ASSUME NEW x \in peer'.sent \ peer.sent, NEW y \in peer.sent, x.chan = y.chan PROVE y.num < x.num
    <3>1. x = IdOf(Pkt)
      BY <1>12, <2>4
    <3>2. x.chan = Chan /\ x.num = Pkt.num
      BY <1>2, <3>1 DEF IdOf
    <3> QED BY <2>3, <2>4, <3>2 DEF NumbersOK
  <2> QED BY <1>1, <1>12, <1>13, <2>2, <2>3, <2>4 DEF NumbersInv
<1>14. CASE run.next # Pkt.of
  <2>1. \A c \in AllChannels : Unsent'[c] = Unsent[c]
    BY <1>1, <1>6, <1>14, UnsentFacts, UnsentNext
  <2>2. \A c \in AllChannels : Sorted(Unsent'[c]) /\ ToSet(Unsent'[c]) \subseteq ToSet(Unsent[c])
    BY <1>7, <2>1 DEF NumbersOK
  <2>3. NumbersOK(Unsent', made, peer.sent)
    BY <1>7, <2>2, NumbersLess
  <2> QED BY <1>1, <1>12, <1>14, <2>3 DEF NumbersInv
<1> QED BY <1>13, <1>14

\* The rest of a packet, saved or lost.
LEMMA SaveNumbers ==
    ASSUME CoreInv, NumbersInv, OvertakeInv, SaveRest \/ NextRefused \/ SaveFails
    PROVE  NumbersInv'
<1>1. /\ run.at = "frag" /\ run.next <= Pkt.of /\ made' = made /\ peer' = peer /\ RunTyped
  BY DEF SaveRest, NextRefused, SaveFails, CoreInv
<1>2. /\ Peek(run.prio, Lcid) # 0 /\ Chan \in Channels /\ run.next \in 1 .. Pkt.of
      /\ Pkt.of \in Nat \ {0} /\ run.next \in Nat
  BY <1>1, FragFacts
<1>3. Lcid \in Links /\ Chan \in AllChannels /\ Chan.lcid = Lcid /\ q.pkts[Chan] # <<>> /\ Pkt \in Packets
  BY <1>1, <1>2, TurnFacts
<1>4. ~ Ending
  BY <1>1, <1>2 DEF Ending
<1>5. ~ Ending'
  <2>1. run' = Idle \/ run' = [run EXCEPT !.at = "lcid", !.visit = Tail(@), !.next = 0]
    BY DEF SaveRest, NextRefused, SaveFails, SaveFragmentData, StopRun
  <2>2. CASE run' = Idle
    BY <2>2 DEF Ending, Idle
  <2>3. CASE run' = [run EXCEPT !.at = "lcid", !.visit = Tail(@), !.next = 0]
    <3>1. run'.at = "lcid"
      BY <1>1, <2>3 DEF RunTyped, Runs
    <3> QED BY <3>1 DEF Ending
  <2> QED BY <2>1, <2>2, <2>3
<1>6. NumbersOK(Unsent, made, peer.sent) /\ ListsOK(Unsent) /\ Unsent[Chan] = q.pkts[Chan] /\ Pkt = Head(Unsent[Chan])
  BY <1>3, <1>4, UnsentFacts DEF NumbersInv, Pkt
<1>7. \A g \in ToSet(Unsent[FragmentChannel(Chan.lcid)]) : g.chan # Chan
  BY <1>1, <1>3, UnsentFacts DEF OvertakeInv
<1>8. CASE SaveFails
  <2>1. PktsPopped
    BY <1>8, RunPkts
  <2>2. TakenOff(Unsent, Chan, Unsent')
    BY <1>3, <1>4, <1>5, <2>1, UnsentFacts, UnsentNext DEF PktsPopped, PktsAre, TakenOff
  <2>3. NumbersOK(Unsent', made, peer.sent)
    BY <1>3, <1>6, <2>2, NumbersTaken
  <2> QED BY <1>1, <2>3 DEF NumbersInv
<1>9. CASE SaveRest \/ NextRefused
  <2>1. PktsSaved
    BY <1>9, RunPkts
  <2>2. \A d \in AllChannels :
              Unsent'[d] = IF d = Chan THEN Tail(Unsent[d])
                     ELSE IF d = FragmentChannel(Chan.lcid) THEN Unsent[d] \o Fragments(Head(Unsent[Chan]), run.next)
                     ELSE Unsent[d]
    BY <1>3, <1>4, <1>5, <1>6, <2>1, UnsentFacts, UnsentNext DEF PktsSaved
  <2>3. NumbersOK(Unsent', made, peer.sent)
    BY <1>2, <1>3, <1>6, <1>7, <2>2, NumbersSaved
  <2> QED BY <1>1, <2>3 DEF NumbersInv
<1> QED BY <1>8, <1>9

\* Every step keeps the order, and what is sent comes after what was sent.
LEMMA NumbersStep ==
    ASSUME CoreInv, NumbersInv, OvertakeInv, [Next]_vars
    PROVE  NumbersInv' /\ \A x \in peer'.sent \ peer.sent : \A y \in peer.sent : x.chan = y.chan => y.num < x.num
<1>1. CASE Handler
  <2>1. peer' = peer
    BY <1>1 DEF Handler, SchedulerInit, SchedulerDeinit, Connect, Disconnect, ChannelAdd,
         ChannelDown, SetApBufferNum, DataSendWithPriority, SendComplete
  <2> QED BY <1>1, <2>1, HandlerNumbers
<1>2. CASE RunPriority \/ PriorityDone \/ VisitLcid \/ LcidDone \/ SendRefused \/ SplitData
  <2>1. run.at # "frag" /\ made' = made /\ peer' = peer /\ RunTyped
    BY <1>2 DEF RunPriority, PriorityDone, VisitLcid, LcidDone, SendRefused, SplitData, CoreInv
  <2>2. PktsKept
    BY <1>2, RunPkts
  <2>3. ~ Ending
    BY <2>1 DEF Ending
  <2>4. ~ Ending'
    <3>1. CASE SplitData
      <4>1. run.at = "chan" /\ Peek(run.prio, Lcid) # 0 /\ q' = q /\ run' = [run EXCEPT !.at = "frag", !.next = 1]
        BY <3>1 DEF SplitData, CanSchedule
      <4>2. run'.prio = run.prio /\ run'.visit = run.visit /\ run'.next = 1
        BY <2>1, <4>1 DEF RunTyped, Runs
      <4>3. Pkt' = Pkt /\ Pkt \in Packets
        BY <4>1, <4>2, SameTurn, TurnFacts
      <4> QED BY <4>2, <4>3 DEF Ending, Packets
    <3>2. CASE RunPriority
      <4>1. PICK m : m = Min({p \in run.prio .. NumPriorities - 1 : q.cnt[p] > 0})
        OBVIOUS
      <4>2. run' = Idle \/ run' = [run EXCEPT !.at = "lcid", !.prio = m, !.visit = q.lcids[m]]
        BY <3>2, <4>1 DEF RunPriority
      <4>3. CASE run' = Idle
        BY <4>3 DEF Ending, Idle
      <4>4. CASE run' = [run EXCEPT !.at = "lcid", !.prio = m, !.visit = q.lcids[m]]
        <5>1. run'.at = "lcid"
          BY <2>1, <4>4 DEF RunTyped, Runs
        <5> QED BY <5>1 DEF Ending
      <4> QED BY <4>2, <4>3, <4>4
    <3>3. CASE PriorityDone \/ VisitLcid \/ LcidDone \/ SendRefused
      <4>1. \/ run' = Idle \/ run' = [StartRun EXCEPT !.prio = run.prio + 1]
            \/ run' = [run EXCEPT !.at = "chan", !.sched = @ \cup {Lcid}]
            \/ run' = [run EXCEPT !.visit = Tail(@)] \/ run' = [run EXCEPT !.at = "lcid", !.visit = Tail(@)]
        BY <3>3 DEF PriorityDone, VisitLcid, LcidDone, SendRefused, StopRun, Lcid
      <4>2. CASE run' = Idle
        BY <4>2 DEF Ending, Idle
      <4>3. CASE run' = [StartRun EXCEPT !.prio = run.prio + 1]
        <5>1. run.prio + 1 \in Nat
          BY <2>1 DEF RunTyped, Runs
        <5>2. run' = [at |-> "prio", prio |-> run.prio + 1, visit |-> <<>>, sched |-> {}, next |-> 0]
          BY <4>3, <5>1, StartRunFields
        <5>3. run'.at = "prio"
          BY <5>2
        <5> QED BY <5>3 DEF Ending
      <4>4. CASE \/ run' = [run EXCEPT !.at = "chan", !.sched = @ \cup {Lcid}]
                 \/ run' = [run EXCEPT !.visit = Tail(@)] \/ run' = [run EXCEPT !.at = "lcid", !.visit = Tail(@)]
        <5>1. run'.at # "frag"
          BY <2>1, <4>4 DEF RunTyped, Runs
        <5> QED BY <5>1 DEF Ending
      <4> QED BY <4>1, <4>2, <4>3, <4>4
    <3> QED BY <1>2, <3>1, <3>2, <3>3
  <2>5. NumbersInv'
    BY <2>1, <2>2, <2>3, <2>4, NumbersKept DEF PktsKept
  <2> QED BY <2>1, <2>5
<1>3. CASE SendFragment
  BY <1>3, SendFragmentNumbers
<1>4. CASE SendNext
  BY <1>4, SendNextNumbers
<1>5. CASE AllSent
  <2>1. /\ run.at = "frag" /\ run.next > Pkt.of /\ made' = made /\ peer' = peer /\ RunTyped
        /\ run' = [run EXCEPT !.at = "chan", !.next = 0]
    BY <1>5 DEF AllSent, CoreInv
  <2>2. Ending /\ ~ Ending'
    BY <2>1 DEF Ending, RunTyped, Runs
  <2>3. PktsPopped
    BY <1>5, RunPkts
  <2>4. \A c \in AllChannels : Unsent'[c] = Unsent[c]
    BY <2>2, <2>3, UnsentFacts, UnsentNext DEF PktsPopped, PktsAre, TakenOff
  <2>5. NumbersOK(Unsent, made, peer.sent) /\ ListsOK(Unsent)
    BY UnsentFacts DEF NumbersInv
  <2>6. \A c \in AllChannels : Sorted(Unsent'[c]) /\ ToSet(Unsent'[c]) \subseteq ToSet(Unsent[c])
    BY <2>4, <2>5 DEF NumbersOK
  <2>7. NumbersOK(Unsent', made, peer.sent)
    BY <2>5, <2>6, NumbersLess
  <2> QED BY <2>1, <2>7 DEF NumbersInv
<1>6. CASE SaveRest \/ NextRefused \/ SaveFails
  <2>1. peer' = peer
    BY <1>6 DEF SaveRest, NextRefused, SaveFails
  <2> QED BY <1>6, <2>1, SaveNumbers
<1>7. CASE UNCHANGED vars
  <2>1. run' = run /\ q' = q /\ made' = made /\ peer' = peer
    BY <1>7 DEF vars
  <2>2. Chan' = Chan /\ Pkt' = Pkt
    BY <2>1, SameTurn
  <2>3. Unsent' = Unsent
    BY <2>1, <2>2 DEF Unsent, Ending
  <2> QED BY <2>1, <2>3 DEF NumbersInv
<1> QED BY <1>1, <1>2, <1>3, <1>4, <1>5, <1>6, <1>7 DEF Next, SchedulerRun

\* A saved fragment that was kept is kept.
LEMMA StillKept ==
    ASSUME NEW l \in Links, NEW f, Kept(l, f), CanSend(l)' => CanSend(l),
           run.at \in {"lcid", "chan", "frag"}, run'.at \in {"lcid", "chan", "frag"}, run'.prio = run.prio,
           \/ run'.visit = run.visit
           \/ /\ Contains(run'.visit, l) => Contains(run.visit, l)
              /\ CanSend(l)' /\ run.prio = FRAGMENT => (Contains(run.visit, l) => Contains(run'.visit, l))
    PROVE  Kept(l, f)'
<1>1. CASE ~ CanSend(l)'
  BY <1>1 DEF Kept
<1>2. CASE CanSend(l)'
  <2>1. CanSend(l)
    BY <1>2
  <2>2. CASE ToVisit(FRAGMENT, l)
    <3>1. FRAGMENT > run.prio \/ (FRAGMENT = run.prio /\ Contains(run.visit, l))
      BY <2>2 DEF ToVisit
    <3>2. FRAGMENT > run'.prio \/ (FRAGMENT = run'.prio /\ Contains(run'.visit, l))
      BY <1>2, <3>1
    <3>3. ToVisit(FRAGMENT, l)'
      BY <3>2 DEF ToVisit, FRAGMENT
    <3> QED BY <3>3 DEF Kept
  <2>3. CASE Priority(f.chan) < run.prio
    BY <2>3 DEF Kept, Priority, FRAGMENT
  <2>4. CASE Priority(f.chan) = run.prio /\ ~ Contains(run.visit, l)
    BY <2>4 DEF Kept, Priority, FRAGMENT
  <2> QED BY <2>1, <2>2, <2>3, <2>4 DEF Kept
<1> QED BY <1>1, <1>2

\* Handlers.
LEMMA HandlerOvertake ==
    ASSUME CoreInv, Handler
    PROVE  OvertakeInv'
<1>1. run' = Idle \/ run' = StartRun
  BY DEF Handler, MainThreadFree, SchedulerInit, SchedulerDeinit, Connect, Disconnect, ChannelAdd,
         ChannelDown, SetApBufferNum, DataSendWithPriority, SendComplete, RunAfterCompletion
<1>2. CASE run' = Idle
  BY <1>2 DEF OvertakeInv, Idle
<1>3. CASE run' = StartRun
  <2>1. run' = [at |-> "prio", prio |-> 0, visit |-> <<>>, sched |-> {}, next |-> 0]
    <3>1. 0 \in Nat
      OBVIOUS
    <3> QED BY <1>3, <3>1, StartRunFields
  <2>2. run'.at = "prio" /\ run'.prio = 0
    BY <2>1
  <2>3. \A l : ToVisit(FRAGMENT, l)'
    BY <2>2 DEF ToVisit, FRAGMENT
  <2>4. \A l, f : Kept(l, f)'
    BY <2>3 DEF Kept
  <2> QED BY <2>2, <2>4 DEF OvertakeInv
<1> QED BY <1>1, <1>2, <1>3

\* A link with saved fragments is listed in the FRAGMENT queue.
LEMMA SavedFound ==
    ASSUME CoreInv, NEW l \in Links, NEW f \in ToSet(Frags(l))
    PROVE  /\ q.cnt[FRAGMENT] > 0 /\ Contains(q.lcids[FRAGMENT], l) /\ Peek(FRAGMENT, l) # 0
           /\ Priority(f.chan) \in Priorities /\ f.chan \in Channels /\ f.chan.lcid = l
<1>1. PICK c \in AllChannels : c = FragmentChannel(l) /\ c.lcid = l /\ Priority(c) = FRAGMENT /\ c \notin Channels
  BY ChannelFacts
<1>2. q.pkts[c] # <<>>
  BY <1>1, EmptySet DEF Frags
<1>3. QueuesOK(q)
  BY DEF CoreInv, Core
<1>4. q.cnt[FRAGMENT] > 0 /\ Contains(q.lcids[FRAGMENT], l) /\ Peek(FRAGMENT, l) # 0
  BY <1>1, <1>2, <1>3, WaitingFound
<1>5. f \in ToSet(Unsent[c])
  BY <1>1, UnsentFacts
<1>6. Placed(c, f)
  BY <1>5, UnsentFacts DEF ListsOK
<1>7. f.chan \in Channels /\ f.chan.lcid = l
  BY <1>1, <1>6 DEF Placed, Packets
<1> QED BY <1>4, <1>7, ChannelFacts

\* The next queue.
LEMMA NextQueueOvertake ==
    ASSUME CoreInv, OvertakeInv, RunPriority
    PROVE  OvertakeInv'
<1>1. CASE run' = Idle
  BY <1>1 DEF OvertakeInv, Idle
<1>2. CASE run' # Idle
  <2> DEFINE left == {p \in run.prio .. NumPriorities - 1 : q.cnt[p] > 0}
  <2>1. PICK m : m = Min(left)
    OBVIOUS
  <2>2. /\ run.at = "prio" /\ q' = q /\ buf' = buf
        /\ left # {} /\ run' = [run EXCEPT !.at = "lcid", !.prio = m, !.visit = q.lcids[m]]
    BY <1>2, <2>1 DEF RunPriority
  <2>3. run.prio \in Nat /\ RunTyped
    BY DEF CoreInv, RunTyped, Runs
  <2>4. left \subseteq Nat
    BY <2>3, SchedulerAssumption
  <2>5. m \in left /\ \A p \in left : p >= m
    <3> HIDE DEF left
    <3> QED BY <2>1, <2>2, <2>4, MinProperties
  <2>6. run'.at = "lcid" /\ run'.prio = m /\ run'.visit = q.lcids[m]
    BY <2>2, <2>3 DEF RunTyped, Runs
  <2>7. m >= run.prio /\ m \in Nat
    BY <2>3, <2>4, <2>5
  <2>8. ASSUME NEW l \in Links, NEW f \in ToSet(Frags(l)) PROVE Kept(l, f)'
    <3>1. /\ q.cnt[FRAGMENT] > 0 /\ Contains(q.lcids[FRAGMENT], l)
          /\ Priority(f.chan) \in Priorities
      BY SavedFound
    <3>2. Kept(l, f)
      BY <2>2 DEF OvertakeInv
    <3>3. CASE ~ CanSend(l)
      BY <2>2, <3>3 DEF Kept, CanSend, Connected
    <3>4. CASE ToVisit(FRAGMENT, l)
      <4>1. run.prio = 0
        BY <2>3, <3>4 DEF ToVisit, FRAGMENT
      <4>2. 0 \in left
        BY <3>1, <4>1, SchedulerAssumption DEF FRAGMENT
      <4>3. m = 0
        BY <2>5, <2>7, <4>2
      <4>4. ToVisit(FRAGMENT, l)'
        BY <2>6, <3>1, <4>3 DEF ToVisit, FRAGMENT
      <4> QED BY <4>4 DEF Kept
    <3>5. CASE Priority(f.chan) < run.prio
      <4>1. Priority(f.chan) \in Nat
        BY <3>1, SchedulerAssumption DEF Priorities
      <4>2. Priority(f.chan) < m
        BY <2>3, <2>7, <3>5, <4>1
      <4> QED BY <2>6, <4>2 DEF Kept, Priority, FRAGMENT
    <3> QED BY <2>2, <3>2, <3>3, <3>4, <3>5 DEF Kept
  <2>9. \A l \in Links : Frags(l)' = Frags(l)
    BY <2>2 DEF Frags
  <2> QED BY <2>6, <2>8, <2>9 DEF OvertakeInv
<1> QED BY <1>1, <1>2

\* One link after the other.
LEMMA LoopOvertake ==
    ASSUME CoreInv, OvertakeInv, PriorityDone \/ VisitLcid \/ LcidDone
    PROVE  OvertakeInv'
<1>1. RunTyped /\ RunInv
  BY DEF CoreInv
<1>2. run.visit \in Seq(Links) /\ run.prio \in Nat /\ IsInjective(run.visit)
  BY <1>1 DEF RunTyped, Runs, RunInv
<1>3. \A l \in Links : Frags(l)' = Frags(l)
  <2>1. PktsKept
    BY RunPkts
  <2>2. \A l \in Links : FragmentChannel(l) \in AllChannels
    BY ChannelFacts
  <2> QED BY <2>1, <2>2 DEF PktsKept, Frags
<1>4. buf' = buf /\ run.at \in {"lcid", "chan"}
  BY DEF PriorityDone, VisitLcid, LcidDone
<1>5. \A l : CanSend(l)' <=> CanSend(l)
  BY <1>4 DEF CanSend, Connected
<1>6. CASE PriorityDone
  <2>1. run.visit = <<>> /\ run.at = "lcid"
    BY <1>6 DEF PriorityDone
  <2>2. run' = [at |-> "prio", prio |-> run.prio + 1, visit |-> <<>>, sched |-> {}, next |-> 0]
    <3>1. run.prio + 1 \in Nat
      BY <1>2
    <3> QED BY <1>6, <3>1, StartRunFields DEF PriorityDone
  <2>3. run'.at = "prio" /\ run'.prio = run.prio + 1
    BY <2>2
  <2>4. ASSUME NEW l \in Links, NEW f \in ToSet(Frags(l)) PROVE Kept(l, f)'
    <3>1. Kept(l, f) /\ Priority(f.chan) \in Nat
      BY <1>4, SavedFound, SchedulerAssumption DEF OvertakeInv, Priorities
    <3>2. ~ Contains(run.visit, l)
      BY <2>1, EmptyListElements
    <3>3. ~ ToVisit(FRAGMENT, l)
      BY <1>2, <2>1, <3>2 DEF ToVisit, FRAGMENT
    <3>4. ~ CanSend(l) \/ Priority(f.chan) < run.prio + 1
      BY <1>2, <3>1, <3>3 DEF Kept
    <3>5. Priority(f.chan)' = Priority(f.chan)
      BY DEF Priority, FRAGMENT
    <3> QED BY <1>5, <2>3, <3>4, <3>5 DEF Kept
  <2> QED BY <1>3, <2>3, <2>4 DEF OvertakeInv
<1>7. CASE VisitLcid
  <2>1. run.at = "lcid" /\ run.visit # <<>>
    BY <1>7 DEF VisitLcid
  <2>2. PICK k \in Links : k = Head(run.visit)
    BY <1>2, <2>1, HeadTailProperties
  <2>3. CASE CanSend(k)
    <3>1. run' = [run EXCEPT !.at = "chan", !.sched = @ \cup {k}]
      BY <1>7, <2>2, <2>3 DEF VisitLcid
    <3>2. run'.at = "chan" /\ run'.visit = run.visit /\ run'.prio = run.prio
      BY <1>1, <3>1 DEF RunTyped, Runs
    <3>3. ASSUME NEW l \in Links, NEW f \in ToSet(Frags(l)) PROVE Kept(l, f)'
      <4>1. Kept(l, f)
        BY <1>4 DEF OvertakeInv
      <4> QED BY <1>5, <2>1, <3>2, <4>1, StillKept
    <3> QED BY <1>3, <3>2, <3>3 DEF OvertakeInv
  <2>4. CASE ~ CanSend(k)
    <3>1. run' = [run EXCEPT !.visit = Tail(@)]
      BY <1>7, <2>2, <2>4 DEF VisitLcid
    <3>2. run'.at = "lcid" /\ run'.visit = Tail(run.visit) /\ run'.prio = run.prio
      BY <1>1, <2>1, <3>1 DEF RunTyped, Runs
    <3>3. ASSUME NEW l \in Links, NEW f \in ToSet(Frags(l)) PROVE Kept(l, f)'
      <4>1. Kept(l, f)
        BY <1>4 DEF OvertakeInv
      <4>2. Contains(Tail(run.visit), l) <=> Contains(run.visit, l) /\ l # k
        BY <1>2, <2>1, <2>2, TailInjectiveList
      <4>3. CanSend(l)' => l # k
        BY <1>5, <2>4
      <4> QED BY <1>5, <2>1, <3>2, <4>1, <4>2, <4>3, StillKept
    <3> QED BY <1>3, <3>2, <3>3 DEF OvertakeInv
  <2> QED BY <2>3, <2>4
<1>8. CASE LcidDone
  <2>1. run.at = "chan" /\ run.visit # <<>> /\ ~ (CanSend(Lcid) /\ Peek(run.prio, Lcid) # 0)
    BY <1>1, <1>8 DEF LcidDone, RunInv, CanSchedule
  <2>2. run' = [run EXCEPT !.at = "lcid", !.visit = Tail(@)]
    BY <1>8 DEF LcidDone
  <2>3. run'.at = "lcid" /\ run'.visit = Tail(run.visit) /\ run'.prio = run.prio
    BY <1>1, <2>1, <2>2 DEF RunTyped, Runs
  <2>4. ASSUME NEW l \in Links, NEW f \in ToSet(Frags(l)) PROVE Kept(l, f)'
    <3>1. Kept(l, f) /\ Peek(FRAGMENT, l) # 0
      BY <1>4, SavedFound DEF OvertakeInv
    <3>2. Contains(Tail(run.visit), l) <=> Contains(run.visit, l) /\ l # Lcid
      BY <1>2, <2>1, TailInjectiveList DEF Lcid
    <3>3. CanSend(l)' /\ run.prio = FRAGMENT => l # Lcid
      BY <1>5, <2>1, <3>1
    <3> QED BY <1>5, <2>1, <2>3, <3>1, <3>2, <3>3, StillKept
  <2> QED BY <1>3, <2>3, <2>4 DEF OvertakeInv
<1> QED BY <1>6, <1>7, <1>8

\* What is saved for the links.
LEMMA FragsNext ==
    ASSUME CoreInv
    PROVE  /\ SplitData \/ SendNext \/ AllSent => \A l \in Links : Frags(l)' = Frags(l)
           /\ SendFragment => \A l \in Links : ToSet(Frags(l)') \subseteq ToSet(Frags(l))
           /\ SaveRest \/ NextRefused =>
                \A l \in Links : Frags(l)' = IF l = Lcid THEN Frags(l) \o Fragments(Pkt, run.next) ELSE Frags(l)
<1>1. ASSUME NEW l \in Links
      PROVE  /\ FragmentChannel(l) \in AllChannels /\ FragmentChannel(l) \notin Channels /\ FragmentChannel(l).lcid = l
             /\ Frags(l) \in Seq(Packets)
  <2>1. FragmentChannel(l) \in AllChannels /\ FragmentChannel(l) \notin Channels /\ FragmentChannel(l).lcid = l
    BY ChannelFacts
  <2>2. QueuesTyped(q)
    BY DEF CoreInv, Core, QueuesOK
  <2> QED BY <2>1, <2>2, QueuesFields DEF Frags
<1>2. ASSUME SplitData \/ SendNext, NEW l \in Links PROVE Frags(l)' = Frags(l)
  <2>1. PktsKept
    BY <1>2, RunPkts
  <2> QED BY <1>1, <2>1 DEF PktsKept, Frags
<1>3. ASSUME run.at = "frag" PROVE Chan \in Channels /\ Lcid \in Links /\ Chan.lcid = Lcid
  BY <1>3, FragFacts, TurnFacts
<1>4. ASSUME AllSent, NEW l \in Links PROVE Frags(l)' = Frags(l)
  <2>1. PktsPopped /\ run.at = "frag"
    BY <1>4, RunPkts DEF AllSent
  <2>2. FragmentChannel(l) # Chan
    BY <1>1, <1>3, <2>1
  <2> QED BY <1>1, <2>1, <2>2 DEF PktsPopped, PktsAre, Frags
<1>5. ASSUME SendFragment, NEW l \in Links PROVE ToSet(Frags(l)') \subseteq ToSet(Frags(l))
  <2>1. PktsPopped /\ run.at = "chan" /\ Peek(run.prio, Lcid) # 0
    BY <1>5, RunPkts DEF SendFragment, CanSchedule
  <2>2. q.pkts[Chan] # <<>> /\ q.pkts[Chan] \in Seq(Packets)
    BY <2>1, TurnFacts
  <2>3. CASE FragmentChannel(l) = Chan
    <3>1. PICK s \in Seq(Packets) : s = Frags(l) /\ s # <<>>
      BY <2>2, <2>3 DEF Frags
    <3>2. Frags(l)' = Tail(s)
      BY <1>1, <2>1, <2>3, <3>1 DEF PktsPopped, PktsAre, Frags
    <3>3. \A e : Contains(Tail(s), e) => Contains(s, e)
      BY <3>1, TailElements
    <3>4. Tail(s) \in Seq(Packets)
      BY <3>1, TailElements
    <3> QED BY <3>1, <3>2, <3>3, <3>4, InjectiveList
  <2>4. CASE FragmentChannel(l) # Chan
    BY <1>1, <2>1, <2>4 DEF PktsPopped, PktsAre, Frags
  <2> QED BY <2>3, <2>4
<1>6. ASSUME SaveRest \/ NextRefused
      PROVE  \A l \in Links : Frags(l)' = IF l = Lcid THEN Frags(l) \o Fragments(Pkt, run.next) ELSE Frags(l)
  <2>1. PktsSaved /\ run.at = "frag"
    BY <1>6, RunPkts DEF SaveRest, NextRefused
  <2>2. Chan \in Channels /\ Lcid \in Links
    BY <1>3, <2>1
  <2>3. PICK k \in Links : k = Lcid
    BY <2>2
  <2>4. q'.pkts[FragmentChannel(k)] = q.pkts[FragmentChannel(k)] \o Fragments(Pkt, run.next)
    BY <1>1, <2>1, <2>2, <2>3 DEF PktsSaved
  <2>5. \A l \in Links : l # k => q'.pkts[FragmentChannel(l)] = q.pkts[FragmentChannel(l)]
    <3>1. ASSUME NEW l \in Links, l # k PROVE q'.pkts[FragmentChannel(l)] = q.pkts[FragmentChannel(l)]
      <4>1. FragmentChannel(l) # FragmentChannel(k) /\ FragmentChannel(l) # Chan
        BY <1>1, <2>2, <3>1
      <4> QED BY <1>1, <2>1, <2>3, <4>1 DEF PktsSaved
    <3> QED BY <3>1
  <2> QED BY <2>3, <2>4, <2>5 DEF Frags
<1> QED BY <1>2, <1>4, <1>5, <1>6

\* The packets and fragments of one link.
LEMMA SendOvertake ==
    ASSUME CoreInv, OvertakeInv, SendFragment \/ SplitData \/ SendNext \/ AllSent
    PROVE  OvertakeInv'
<1>1. RunTyped /\ RunInv
  BY DEF CoreInv
<1>2. run.at \in {"chan", "frag"}
  BY DEF SendFragment, SplitData, SendNext, AllSent
<1>3. run'.at \in {"chan", "frag"} /\ run'.visit = run.visit /\ run'.prio = run.prio
      /\ (run'.at = "frag" => SplitData \/ SendNext)
  BY <1>1, <1>2 DEF SendFragment, SplitData, SendNext, AllSent, RunTyped, Runs
<1>4. BufLess
  BY RunBuf DEF SchedulerRun
<1>5. ASSUME NEW l \in Links, NEW f \in ToSet(Frags(l)') PROVE Kept(l, f)'
  <2>1. f \in ToSet(Frags(l))
    <3>1. CASE SendFragment
      BY <1>5, <3>1, FragsNext
    <3>2. CASE SplitData \/ SendNext \/ AllSent
      <4>1. Frags(l)' = Frags(l)
        BY <3>2, FragsNext
      <4> QED BY <1>5, <4>1
    <3> QED BY <3>1, <3>2
  <2>2. Kept(l, f)
    BY <1>2, <2>1 DEF OvertakeInv
  <2>3. CanSend(l)' => CanSend(l)
    BY <1>4, LessCanSend
  <2> QED BY <1>2, <1>3, <2>2, <2>3, StillKept
<1>6. ASSUME run'.at = "frag" PROVE \A f \in ToSet(Frags(Lcid)') : f.chan # Chan'
  <2>1. SplitData \/ SendNext
    BY <1>3, <1>6
  <2>2. q' = q
    BY <2>1 DEF SplitData, SendNext
  <2>3. Chan' = Chan /\ Lcid' = Lcid
    BY <1>3, <2>2, SameTurn
  <2>4. Frags(Lcid)' = Frags(Lcid)
    BY <2>2, <2>3 DEF Frags
  <2>5. CASE SendNext
    <3>1. run.at = "frag"
      BY <2>5 DEF SendNext
    <3> QED BY <2>3, <2>4, <3>1 DEF OvertakeInv
  <2>6. CASE SplitData
    <3>1. run.at = "chan" /\ CanSend(Lcid) /\ Peek(run.prio, Lcid) # 0 /\ Pkt.idx = 0 /\ run.visit # <<>>
      BY <1>1, <2>6 DEF SplitData, CanSchedule, RunInv
    <3>2. /\ Lcid \in Links /\ Chan \in AllChannels /\ Chan.lcid = Lcid /\ Priority(Chan) = run.prio
          /\ PacketOK(open, Chan, Pkt) /\ run.prio \in Priorities
      BY <3>1, TurnFacts
    <3>3. Chan \in Channels
      BY <3>1, <3>2 DEF PacketOK
    <3>4. Priority(Chan) > 0 /\ run.prio \in Nat
      BY <3>2, <3>3, ChannelFacts, SchedulerAssumption DEF Priorities
    <3>5. Contains(run.visit, Lcid)
      <4>1. run.visit \in Seq(Links)
        BY <1>1 DEF RunTyped, Runs
      <4> QED BY <3>1, <4>1, TailElements DEF Lcid
    <3>6. ASSUME NEW f \in ToSet(Frags(Lcid)), f.chan = Chan PROVE FALSE
      <4>1. Kept(Lcid, f)
        BY <3>1, <3>2, <3>6 DEF OvertakeInv
      <4>2. ~ ToVisit(FRAGMENT, Lcid)
        BY <3>2, <3>4 DEF ToVisit, FRAGMENT
      <4> QED BY <3>1, <3>2, <3>4, <3>5, <3>6, <4>1, <4>2 DEF Kept
    <3> QED BY <2>3, <2>4, <3>6
  <2> QED BY <2>1, <2>5, <2>6
<1> QED BY <1>3, <1>5, <1>6 DEF OvertakeInv

\* The rest of a packet is saved when its channel's turn has passed.
LEMMA SaveOvertake ==
    ASSUME CoreInv, OvertakeInv, SaveRest \/ NextRefused
    PROVE  OvertakeInv'
<1>1. RunTyped /\ RunInv
  BY DEF CoreInv
<1>2. run.at = "frag" /\ run.next <= Pkt.of /\ run' = [run EXCEPT !.at = "lcid", !.visit = Tail(@), !.next = 0]
  BY DEF SaveRest, NextRefused, SaveFragmentData
<1>3. run'.at = "lcid" /\ run'.visit = Tail(run.visit) /\ run'.prio = run.prio
  BY <1>1, <1>2 DEF RunTyped, Runs
<1>4. run.visit \in Seq(Links) /\ run.visit # <<>> /\ IsInjective(run.visit)
  BY <1>1, <1>2 DEF RunTyped, Runs, RunInv
<1>5. BufLess
  BY RunBuf DEF SchedulerRun
<1>6. /\ Peek(run.prio, Lcid) # 0 /\ Chan \in Channels /\ run.next \in 1 .. Pkt.of /\ Pkt.chan = Chan
  BY <1>2, FragFacts
<1>7. Lcid \in Links /\ Chan.lcid = Lcid /\ Pkt \in Packets /\ Priority(Chan) = run.prio /\ run.prio \in Priorities
  BY <1>2, <1>6, TurnFacts
<1>8. run.prio > 0 /\ run.prio \in Nat
  BY <1>6, <1>7, ChannelFacts, SchedulerAssumption DEF Priorities
<1>9. \A l : Contains(Tail(run.visit), l) <=> Contains(run.visit, l) /\ l # Lcid
  BY <1>4, TailInjectiveList DEF Lcid
<1>10. PICK rest \in Seq(Packets) : rest = Fragments(Pkt, run.next) /\ \A f \in ToSet(rest) : f.chan = Chan
  BY <1>6, <1>7, SortedFragments
<1>11. ASSUME NEW l \in Links, NEW f \in ToSet(Frags(l)') PROVE Kept(l, f)'
  <2>1. Frags(l)' = IF l = Lcid THEN Frags(l) \o rest ELSE Frags(l)
    BY <1>10, FragsNext
  <2>2. Frags(l) \in Seq(Packets)
    <3>1. QueuesTyped(q) /\ FragmentChannel(l) \in AllChannels
      BY ChannelFacts DEF CoreInv, Core, QueuesOK
    <3> QED BY <3>1, QueuesFields DEF Frags
  <2>3. f \in ToSet(Frags(l)) \/ (l = Lcid /\ f \in ToSet(rest))
    <3>1. CASE l = Lcid
      <4>1. PICK s \in Seq(Packets) : s = Frags(l)
        BY <2>2
      <4>2. PICK i \in 1 .. Len(s \o rest) : f = (s \o rest)[i]
        <5>1. s \o rest \in Seq(Packets) /\ Frags(l)' = s \o rest
          BY <1>10, <2>1, <3>1, <4>1, ConcatProperties
        <5> QED BY <1>11, <5>1, ListSet
      <4>3. Len(s) \in Nat /\ Len(rest) \in Nat
        BY LenProperties
      <4>4. i \in 1 .. Len(s) + Len(rest) /\ f = IF i <= Len(s) THEN s[i] ELSE rest[i - Len(s)]
        BY <4>2, ConcatProperties
      <4>5. CASE i <= Len(s)
        <5>1. i \in 1 .. Len(s) /\ f = s[i]
          BY <4>3, <4>4, <4>5
        <5> QED BY <4>1, <5>1, ListSet
      <4>6. CASE ~ (i <= Len(s))
        <5>1. i - Len(s) \in 1 .. Len(rest) /\ f = rest[i - Len(s)]
          BY <4>3, <4>4, <4>6
        <5> QED BY <3>1, <5>1, ListSet
      <4> QED BY <4>5, <4>6
    <3>2. CASE l # Lcid
      BY <1>11, <2>1, <3>2
    <3> QED BY <3>1, <3>2
  <2>4. CASE f \in ToSet(Frags(l))
    <3>1. Kept(l, f)
      BY <1>2, <2>4 DEF OvertakeInv
    <3>2. CanSend(l)' => CanSend(l)
      BY <1>5, LessCanSend
    <3>3. run.prio # FRAGMENT
      BY <1>8 DEF FRAGMENT
    <3> QED BY <1>2, <1>3, <1>9, <3>1, <3>2, <3>3, StillKept
  <2>5. CASE l = Lcid /\ f \in ToSet(rest)
    <3>1. Priority(f.chan) = run'.prio /\ ~ Contains(run'.visit, l)
      BY <1>3, <1>7, <1>9, <1>10, <2>5
    <3>2. Priority(f.chan)' = Priority(f.chan)
      BY DEF Priority, FRAGMENT
    <3> QED BY <1>3, <3>1, <3>2 DEF Kept
  <2> QED BY <2>3, <2>4, <2>5
<1> QED BY <1>3, <1>11 DEF OvertakeInv

\* Every step.
LEMMA OvertakeStep ==
    ASSUME CoreInv, OvertakeInv, [Next]_vars
    PROVE  OvertakeInv'
<1>1. CASE Handler
  BY <1>1, HandlerOvertake
<1>2. CASE RunPriority
  BY <1>2, NextQueueOvertake
<1>3. CASE PriorityDone \/ VisitLcid \/ LcidDone
  BY <1>3, LoopOvertake
<1>4. CASE SendFragment \/ SplitData \/ SendNext \/ AllSent
  BY <1>4, SendOvertake
<1>5. CASE SaveRest \/ NextRefused
  BY <1>5, SaveOvertake
<1>6. CASE SendRefused \/ SaveFails
  BY <1>6 DEF SendRefused, SaveFails, StopRun, OvertakeInv, Idle
<1>7. CASE UNCHANGED vars
  <2>1. run' = run /\ q' = q /\ buf' = buf
    BY <1>7 DEF vars
  <2>2. Chan' = Chan /\ Lcid' = Lcid
    BY <2>1, SameTurn
  <2>3. \A l, f : Kept(l, f)' <=> Kept(l, f)
    BY <2>1 DEF Kept, ToVisit, CanSend, Connected, Priority, FRAGMENT
  <2>4. \A l : Frags(l)' = Frags(l)
    BY <2>1 DEF Frags
  <2>5. Frags(Lcid)' = Frags(Lcid)
    BY <2>1, <2>2 DEF Frags
  <2> QED BY <2>1, <2>2, <2>3, <2>4, <2>5 DEF OvertakeInv
<1> QED BY <1>1, <1>2, <1>3, <1>4, <1>5, <1>6, <1>7 DEF Next, SchedulerRun

\* The order of what was sent, what is saved and what waits.
OrderInv == CoreInv /\ NumbersInv /\ OvertakeInv

\* It holds at the start.
LEMMA OrderInit == Init => OrderInv
<1>1. SUFFICES ASSUME Init PROVE OrderInv
  OBVIOUS
<1>2. CoreInv
  BY <1>1, CoreInvInit
<1>3. run = Idle /\ peer.sent = {} /\ \A c \in AllChannels : q.pkts[c] = <<>>
  BY <1>1 DEF Init, InitQueues
<1>4. run.at = "idle"
  BY <1>3 DEF Idle
<1>5. \A c \in AllChannels : Unsent[c] = <<>>
  BY <1>2, <1>3, <1>4, UnsentFacts DEF Ending
<1>6. ASSUME NEW c \in AllChannels PROVE Sorted(Unsent[c]) /\ ToSet(Unsent[c]) = {}
  <2>1. Sorted(<<>>) /\ ToSet(<<>>) = {}
    BY EmptySet
  <2> QED BY <1>5, <2>1, Zenon
<1>7. \A l \in Links : FragmentChannel(l) \in AllChannels
  BY ChannelFacts
<1>8. NumbersInv
  BY <1>3, <1>6, <1>7 DEF NumbersInv, NumbersOK
<1>9. OvertakeInv
  BY <1>4 DEF OvertakeInv
<1> QED BY <1>2, <1>8, <1>9 DEF OrderInv

\* Of every channel the packets sent precede the one whose fragments are saved, and that
\* one the packets that wait.
THEOREM OrderInvariant == Spec => []OrderInv
<1>1. OrderInv /\ [Next]_vars => OrderInv'
  BY CoreInvStep, NumbersStep, OvertakeStep DEF OrderInv
<1> QED BY <1>1, OrderInit, PTL DEF Spec

\* The packets of a channel leave in the order they were given, although the rest of a
\* packet waits in another queue than the packets behind it, links are passed over, and
\* sends are refused.
THEOREM ChannelAlwaysFifo == Spec => ChannelFifo
<1>1. OrderInv /\ [Next]_vars =>
        [\A x \in peer'.sent \ peer.sent : \A y \in peer.sent : x.chan = y.chan => y.num < x.num]_peer
  BY NumbersStep DEF OrderInv
<1> QED BY <1>1, OrderInvariant, PTL DEF Spec, ChannelFifo

-----------------------------------------------------------------------------
(* Packets arrive whole.                                                   *)

\* The rest of a packet, by its first fragment.
LEMMA FragmentsSplit ==
    ASSUME NEW p \in Packets, NEW n \in 1 .. p.of
    PROVE  /\ Fragments(p, n) # <<>> /\ Head(Fragments(p, n)) = [p EXCEPT !.idx = n]
           /\ Tail(Fragments(p, n)) = Fragments(p, n + 1)
           /\ n = p.of => Fragments(p, n + 1) = <<>>
<1>1. p.of \in Nat \ {0} /\ n \in Nat /\ p.of - n + 1 \in Nat \ {0} /\ p.of - (n + 1) + 1 = p.of - n
      /\ p.of - n \in Nat
  BY DEF Packets
<1>2. PICK k \in Nat \ {0} : k = p.of - n + 1
  BY <1>1
<1>3. PICK fs : fs = Fragments(p, n)
  OBVIOUS
<1>4. fs = [i \in 1 .. k |-> [p EXCEPT !.idx = n + i - 1]]
  BY <1>2, <1>3 DEF Fragments
<1>5. fs \in Seq(Packets)
  BY <1>3, SortedFragments
<1>6. Len(fs) = k /\ fs[1] = [p EXCEPT !.idx = n]
  <2>1. n + 1 - 1 = n /\ 1 \in 1 .. k
    BY <1>1, <1>2
  <2> QED BY <1>1, <1>4, <1>5, <2>1
<1>7. fs # <<>>
  BY <1>6
<1>8. PICK t \in Seq(Packets) : t = Tail(fs)
  BY <1>5, <1>7, TailElements
<1>9. Len(t) = k - 1 /\ (\A i \in 1 .. k - 1 : t[i] = fs[i + 1]) /\ Head(fs) = fs[1]
  BY <1>5, <1>6, <1>7, <1>8, TailElements
<1>10. PICK us : us = Fragments(p, n + 1)
  OBVIOUS
<1>11. us = [i \in 1 .. k - 1 |-> [p EXCEPT !.idx = n + 1 + i - 1]]
  <2>1. p.of - (n + 1) + 1 = k - 1
    BY <1>1, <1>2
  <2> QED BY <1>10, <2>1 DEF Fragments
<1>12. ASSUME NEW i \in 1 .. k - 1 PROVE t[i] = us[i]
  <2>1. i + 1 \in 1 .. k /\ n + (i + 1) - 1 = n + 1 + i - 1
    BY <1>1
  <2>2. fs[i + 1] = [p EXCEPT !.idx = n + (i + 1) - 1]
    BY <1>4, <2>1
  <2>3. us[i] = [p EXCEPT !.idx = n + 1 + i - 1]
    BY <1>11
  <2> QED BY <1>9, <2>1, <2>2, <2>3
<1>13. t = [i \in 1 .. k - 1 |-> t[i]]
  <2>1. DOMAIN t = 1 .. Len(t) /\ t = [i \in DOMAIN t |-> t[i]]
    BY <1>8, LenProperties
  <2> QED BY <1>9, <2>1
<1>14. us = [i \in 1 .. k - 1 |-> us[i]]
  BY <1>11
<1>15. t = us
  BY <1>12, <1>13, <1>14
<1>16. n = p.of => t = <<>>
  <2>1. n = p.of => Len(t) = 0
    BY <1>1, <1>2, <1>9
  <2> QED BY <2>1, <1>8, EmptySeq
<1> QED BY <1>3, <1>6, <1>7, <1>8, <1>9, <1>10, <1>15, <1>16

\* A function on 1 .. n is a list of length n.
LEMMA ListOf ==
    ASSUME NEW S, NEW n \in Nat, NEW b, b = [i \in 1 .. n |-> b[i]], \A i \in 1 .. n : b[i] \in S
    PROVE  b \in Seq(S) /\ Len(b) = n
<1>1. b \in [1 .. n -> S]
  OBVIOUS
<1> QED BY <1>1

\* A packet and its fragments stand for the same.
LEMMA SamePacket ==
    ASSUME NEW p \in Packets, NEW k \in Nat, NEW f, FragmentOf(f, p, k)
    PROVE  /\ f \in Packets /\ f.idx = k /\ f.of = p.of /\ f.chan = p.chan /\ f.num = p.num
           /\ IdOf(f) = IdOf(p) /\ SameSplit(f, p)
<1>0. f = [p EXCEPT !.idx = k]
  BY DEF FragmentOf
<1>1. f \in Packets /\ f.idx = k /\ f.of = p.of /\ f.chan = p.chan /\ f.num = p.num
  BY <1>0 DEF Packets
<1>2. p = [chan |-> p.chan, num |-> p.num, of |-> p.of, idx |-> p.idx]
  BY DEF Packets
<1>3. f = [chan |-> p.chan, num |-> p.num, of |-> p.of, idx |-> k]
  BY <1>0, <1>2
<1>4. SameSplit(f, p)
  BY <1>2, <1>3 DEF SameSplit
<1> QED BY <1>1, <1>4 DEF IdOf

\* So do what the peer has of it and what is left of it.
LEMMA SameParts ==
    ASSUME NEW p, NEW f, f.of = p.of, SameSplit(f, p), NEW n \in Nat
    PROVE  Part(f, n) = Part(p, n) /\ Fragments(f, n) = Fragments(p, n)
BY DEF Part, FirstOf, Fragments, SameSplit

\* The first fragments of a packet are a list.
LEMMA FirstList ==
    ASSUME NEW f \in Packets, NEW n \in Nat, NEW b, b = FirstOf(f, n)
    PROVE  /\ b \in Seq(Packets) /\ Len(b) = n /\ b = [i \in 1 .. n |-> b[i]]
           /\ \A i \in 1 .. n : b[i] = [f EXCEPT !.idx = i]
<1>1. \A i \in 1 .. n : b[i] = [f EXCEPT !.idx = i]
  BY DEF FirstOf
<1>2. b = [i \in 1 .. n |-> b[i]]
  BY DEF FirstOf
<1>3. \A i \in 1 .. n : [f EXCEPT !.idx = i] \in Packets
  BY DEF Packets
<1>4. \A i \in 1 .. n : b[i] \in Packets
  BY <1>1, <1>3
<1> QED BY <1>1, <1>2, <1>4, ListOf

\* One fragment more.
LEMMA PartNext ==
    ASSUME NEW f \in Packets, NEW n \in Nat \ {0}, f.idx = n + 1
    PROVE  /\ Append(Part(f, n).buf, f) = FirstOf(f, n + 1)
           /\ Part(f, n).pb \in {FIRST, MIDDLE} /\ Part(f, n) # NoNode
<1>1. PICK b : b = FirstOf(f, n)
  OBVIOUS
<1>2. Part(f, n).buf = b /\ Part(f, n).pb \in {FIRST, MIDDLE}
  BY <1>1 DEF Part
<1>3. n \in Nat /\ n + 1 \in Nat
  OBVIOUS
<1>4. b \in Seq(Packets) /\ Len(b) = n /\ \A i \in 1 .. n : b[i] = [f EXCEPT !.idx = i]
  <2>1. /\ b \in Seq(Packets) /\ Len(b) = n /\ b = [i \in 1 .. n |-> b[i]]
        /\ \A i \in 1 .. n : b[i] = [f EXCEPT !.idx = i]
    BY <1>1, <1>3, FirstList, SMTT(30)
  <2> QED BY <2>1
<1>5. [f EXCEPT !.idx = n + 1] = f
  <2>1. f = [chan |-> f.chan, num |-> f.num, of |-> f.of, idx |-> n + 1]
    BY DEF Packets
  <2> QED BY <2>1
<1>6. PICK a : a = Append(b, f)
  OBVIOUS
<1>7. a \in Seq(Packets) /\ Len(a) = n + 1 /\ \A i \in 1 .. n + 1 : a[i] = IF i \in 1 .. n THEN b[i] ELSE f
  BY <1>4, <1>6, AppendElements
<1>8. ASSUME NEW i \in 1 .. n + 1 PROVE a[i] = [f EXCEPT !.idx = i]
  <2>1. CASE i \in 1 .. n
    BY <1>4, <1>7, <2>1
  <2>2. CASE i \notin 1 .. n
    <3>1. i = n + 1
      BY <2>2
    <3> QED BY <1>5, <1>7, <2>2, <3>1
  <2> QED BY <2>1, <2>2
<1>9. a = [i \in 1 .. n + 1 |-> a[i]]
  <2>1. DOMAIN a = 1 .. Len(a) /\ a = [i \in DOMAIN a |-> a[i]]
    BY <1>7, LenProperties
  <2> QED BY <1>7, <2>1
<1>10. a = FirstOf(f, n + 1)
  BY <1>8, <1>9 DEF FirstOf
<1>11. Part(f, n) # NoNode
  BY <1>2 DEF NoNode, FULL, FIRST, MIDDLE
<1> QED BY <1>2, <1>6, <1>10, <1>11

\* All fragments of a packet are that packet.
LEMMA WholePacket ==
    ASSUME NEW f \in Packets, NEW up, up = FirstOf(f, f.of)
    PROVE  up # <<>> /\ IsPacket(up) /\ IdOf(up[1]) = IdOf(f)
<1>1. PICK n \in Nat : n = f.of /\ n # 0
  BY DEF Packets
<1>2. up = FirstOf(f, n)
  BY <1>1
<1>3. /\ up \in Seq(Packets) /\ Len(up) = n
      /\ \A i \in 1 .. n : up[i] = [f EXCEPT !.idx = i]
  BY <1>2, FirstList
<1>4. 1 \in 1 .. n
  BY <1>1
<1>5. PICK g : g = up[1]
  OBVIOUS
<1>6. FragmentOf(g, f, 1)
  BY <1>3, <1>4, <1>5 DEF FragmentOf
<1>7. g.of = n /\ IdOf(g) = IdOf(f) /\ SameSplit(g, f)
  <2>1. 1 \in Nat
    OBVIOUS
  <2> QED BY <1>1, <1>6, <2>1, SamePacket
<1>8. \A i \in 1 .. n : up[i] = [g EXCEPT !.idx = i]
  BY <1>3, <1>7 DEF SameSplit
<1>9. IsPacket(up)
  BY <1>3, <1>5, <1>7, <1>8 DEF IsPacket
<1>10. up # <<>>
  BY <1>1, <1>3
<1> QED BY <1>5, <1>7, <1>9, <1>10

\* What the peer's DLI makes of the next fragment of a packet.
LEMMA Received ==
    ASSUME NEW f \in Packets, f.idx \in 1 .. f.of, NEW node, NodeOK(node),
           f.idx > 1 => node = Part(f, f.idx - 1), NEW r, r = AcbPacketReceived(node, f)
    PROVE  /\ NodeOK(r.node)
           /\ f.idx < f.of => r.up = <<>> /\ r.node = Part(f, f.idx)
           /\ f.idx = f.of => r.up # <<>> /\ IsPacket(r.up) /\ IdOf(r.up[1]) = IdOf(f)
<1>1. f.of \in Nat \ {0} /\ f.idx \in Nat
  BY DEF Packets
<1>2. PICK all : all = FirstOf(f, f.idx)
  OBVIOUS
<1>3. f = [f EXCEPT !.idx = f.idx]
  BY DEF Packets
<1>4. f.idx = 1 => all = <<f>>
  <2>1. f.idx = 1 => all = [i \in 1 .. 1 |-> [f EXCEPT !.idx = i]]
    BY <1>2 DEF FirstOf
  <2>2. f.idx = 1 => [i \in 1 .. 1 |-> [f EXCEPT !.idx = i]] = [i \in 1 .. 1 |-> f]
    BY <1>3
  <2>3. [i \in 1 .. 1 |-> f] = <<f>>
    OBVIOUS
  <2> QED BY <2>1, <2>2, <2>3
<1>5. CASE f.idx = 1 /\ f.of = 1
  <2>1. PdFlagGet(f) = FULL
    BY <1>5 DEF PdFlagGet
  <2>2. r = [node |-> node, up |-> <<f>>]
    BY <2>1 DEF AcbPacketReceived, FULL, LAST
  <2>3. r.node = node /\ r.up = all
    BY <1>4, <1>5, <2>2
  <2>4. all # <<>> /\ IsPacket(all) /\ IdOf(all[1]) = IdOf(f)
    BY <1>2, <1>5, WholePacket
  <2> QED BY <1>5, <2>3, <2>4
<1>6. CASE f.idx = 1 /\ f.of > 1
  <2>1. PdFlagGet(f) = FIRST
    BY <1>1, <1>6 DEF PdFlagGet
  <2>2. node = NoNode \/ ~ CheckPb(node.pb, FIRST)
    BY DEF NodeOK, CheckPb, FIRST, MIDDLE
  <2>3. ReceiveDataNodeUpdate(node, FIRST, f) = [pb |-> FIRST, buf |-> <<f>>]
    BY <2>2 DEF ReceiveDataNodeUpdate, IsFirstPb
  <2>4. r = [node |-> [pb |-> FIRST, buf |-> <<f>>], up |-> <<>>]
    BY <2>1, <2>3 DEF AcbPacketReceived, FIRST, FULL, LAST
  <2>5. r.node = [pb |-> FIRST, buf |-> all] /\ r.up = <<>>
    BY <1>4, <1>6, <2>4
  <2>6. r.node = Part(f, f.idx)
    BY <1>2, <1>6, <2>5 DEF Part
  <2>7. NodeOK(r.node)
    BY <2>5 DEF NodeOK
  <2> QED BY <1>1, <1>6, <2>5, <2>6, <2>7
<1>7. CASE f.idx > 1
  <2>1. PICK n \in Nat \ {0} : f.idx = n + 1 /\ n = f.idx - 1
    <3>1. f.idx - 1 \in Nat \ {0} /\ f.idx = f.idx - 1 + 1
      BY <1>1, <1>7
    <3> QED BY <3>1
  <2>2. node = Part(f, n)
    BY <1>7, <2>1
  <2>3. Append(node.buf, f) = all /\ node.pb \in {FIRST, MIDDLE} /\ node # NoNode
    BY <1>2, <2>1, <2>2, PartNext
  <2>4. ASSUME NEW pb \in {MIDDLE, LAST}
        PROVE  ReceiveDataNodeUpdate(node, pb, f) = [pb |-> pb, buf |-> all]
    <3>1. ~ IsFirstPb(pb) /\ CheckPb(node.pb, pb)
      BY <2>3 DEF IsFirstPb, CheckPb, FIRST, MIDDLE, LAST, FULL
    <3> QED BY <2>3, <3>1 DEF ReceiveDataNodeUpdate
  <2>5. CASE f.idx < f.of
    <3>1. PdFlagGet(f) = MIDDLE
      BY <1>1, <1>7, <2>5 DEF PdFlagGet
    <3>2. r = [node |-> [pb |-> MIDDLE, buf |-> all], up |-> <<>>]
      BY <2>4, <3>1 DEF AcbPacketReceived, MIDDLE, FULL, LAST
    <3>3. r.node = [pb |-> MIDDLE, buf |-> all] /\ r.up = <<>>
      BY <3>2
    <3>4. r.node = Part(f, f.idx)
      <4>1. f.idx # 1
        BY <1>1, <1>7
      <4>2. Part(f, f.idx) = [pb |-> MIDDLE, buf |-> FirstOf(f, f.idx)]
        BY <4>1 DEF Part
      <4> QED BY <1>2, <3>3, <4>2
    <3>5. NodeOK(r.node)
      BY <3>3 DEF NodeOK
    <3> QED BY <1>1, <2>5, <3>3, <3>4, <3>5
  <2>6. CASE f.idx = f.of
    <3>1. PdFlagGet(f) = LAST
      BY <1>1, <1>7, <2>6 DEF PdFlagGet
    <3>2. r = [node |-> NoNode, up |-> all]
      BY <2>4, <3>1 DEF AcbPacketReceived, MIDDLE, FULL, LAST
    <3>3. r.node = NoNode /\ r.up = all
      BY <3>2
    <3>4. all # <<>> /\ IsPacket(all) /\ IdOf(all[1]) = IdOf(f)
      BY <1>2, <2>6, WholePacket
    <3> QED BY <1>1, <2>6, <3>3, <3>4 DEF NodeOK
  <2> QED BY <1>1, <2>5, <2>6
<1> QED BY <1>1, <1>5, <1>6, <1>7

\* What the peers have after a fragment.
LEMMA PeerNext ==
    ASSUME PacketsNeverMix, DOMAIN peer.node = Links, Lcid \in Links, NodeOK(peer.node[Lcid]),
           NEW f \in Packets, f.idx \in 1 .. f.of, f.idx > 1 => peer.node[Lcid] = Part(f, f.idx - 1),
           Deliver(f)
    PROVE  /\ PacketsNeverMix' /\ DOMAIN peer'.node = Links
           /\ \A l \in Links : l # Lcid => peer'.node[l] = peer.node[l]
           /\ NodeOK(peer'.node[Lcid])
           /\ f.idx < f.of => peer'.node[Lcid] = Part(f, f.idx)
<1>1. PICK r : r = AcbPacketReceived(peer.node[Lcid], f)
  OBVIOUS
<1>2. peer' = [node |-> [peer.node EXCEPT ![Lcid] = r.node],
               sent |-> IF f.idx = f.of THEN peer.sent \cup {IdOf(f)} ELSE peer.sent,
               arrived |-> IF r.up # <<>> THEN peer.arrived \cup {IdOf(r.up[1])} ELSE peer.arrived,
               corrupt |-> peer.corrupt \/ (r.up # <<>> /\ ~ IsPacket(r.up))]
  BY <1>1 DEF Deliver
<1>3. /\ peer'.node = [peer.node EXCEPT ![Lcid] = r.node]
      /\ peer'.sent = IF f.idx = f.of THEN peer.sent \cup {IdOf(f)} ELSE peer.sent
      /\ peer'.arrived = IF r.up # <<>> THEN peer.arrived \cup {IdOf(r.up[1])} ELSE peer.arrived
      /\ peer'.corrupt = (peer.corrupt \/ (r.up # <<>> /\ ~ IsPacket(r.up)))
  BY <1>2
<1>4. /\ NodeOK(r.node)
      /\ f.idx < f.of => r.up = <<>> /\ r.node = Part(f, f.idx)
      /\ f.idx = f.of => r.up # <<>> /\ IsPacket(r.up) /\ IdOf(r.up[1]) = IdOf(f)
  BY <1>1, Received
<1>5. peer'.node[Lcid] = r.node /\ DOMAIN peer'.node = Links
      /\ \A l \in Links : l # Lcid => peer'.node[l] = peer.node[l]
  BY <1>3
<1>6. f.idx < f.of \/ f.idx = f.of
  BY DEF Packets
<1>7. PacketsNeverMix'
  <2>1. ~ peer'.corrupt
    BY <1>3, <1>4, <1>6 DEF PacketsNeverMix
  <2>2. peer'.arrived = peer'.sent
    <3>1. CASE f.idx < f.of
      <4>1. f.idx # f.of
        BY <3>1 DEF Packets
      <4> QED BY <1>3, <1>4, <3>1, <4>1 DEF PacketsNeverMix
    <3>2. CASE f.idx = f.of
      BY <1>3, <1>4, <3>2 DEF PacketsNeverMix
    <3> QED BY <1>6, <3>1, <3>2
  <2> QED BY <2>1, <2>2 DEF PacketsNeverMix
<1> QED BY <1>4, <1>5, <1>7

\* What is saved after a fragment of a packet, or after its last.
LEMMA RestNext ==
    ASSUME NEW p \in Packets, NEW n \in 1 .. p.of, NEW node, n # p.of => node = Part(p, n)
    PROVE  RestOK(Fragments(p, n + 1), node)
<1>1. n \in Nat /\ p.of \in Nat
  BY DEF Packets
<1>2. CASE n = p.of
  <2>1. Fragments(p, n + 1) = <<>>
    BY <1>2, FragmentsSplit
  <2> QED BY <2>1 DEF RestOK
<1>3. CASE n # p.of
  <2>1. PICK m \in 1 .. p.of : m = n + 1
    BY <1>1, <1>3
  <2>2. m \in Nat /\ m > 1 /\ m - 1 = n
    BY <1>1, <2>1
  <2>3. PICK fs : fs = Fragments(p, m)
    OBVIOUS
  <2>4. PICK f : f = Head(fs)
    OBVIOUS
  <2>5. FragmentOf(f, p, m)
    BY <2>3, <2>4, FragmentsSplit DEF FragmentOf
  <2>6. f.idx = m /\ f.of = p.of /\ SameSplit(f, p)
    BY <2>2, <2>5, SamePacket
  <2>7. Fragments(f, m) = Fragments(p, m) /\ Part(f, n) = Part(p, n)
    BY <1>1, <2>2, <2>6, SameParts
  <2>8. f.idx > 1 /\ fs = Fragments(f, f.idx) /\ node = Part(f, f.idx - 1)
    BY <1>3, <2>2, <2>3, <2>6, <2>7
  <2>9. RestOK(fs, node)
    BY <2>4, <2>8 DEF RestOK
  <2> QED BY <2>1, <2>3, <2>9
<1> QED BY <1>2, <1>3

\* Between packets: nothing is sent, and nothing but whole rests is dropped.
LEMMA WholeKept ==
    ASSUME WholeInv, refused' = refused, peer' = peer, run'.at # "frag", run'.at # "idle" => ~ unserved' \/ refused,
           \A l \in Links : Frags(l)' = Frags(l) \/ Frags(l)' = <<>>
    PROVE  WholeInv'
<1>1. SUFFICES ASSUME ~ refused PROVE WholeInv'
  BY DEF WholeInv
<1>2. /\ PacketsNeverMix /\ DOMAIN peer.node = Links
      /\ \A l \in Links : NodeOK(peer.node[l]) /\ RestOK(Frags(l), peer.node[l])
  BY <1>1 DEF WholeInv
<1>3. PacketsNeverMix'
  BY <1>2 DEF PacketsNeverMix
<1>4. ASSUME NEW l \in Links PROVE NodeOK(peer'.node[l]) /\ RestOK(Frags(l)', peer'.node[l])
  <2>1. RestOK(Frags(l)', peer.node[l])
    BY <1>2 DEF RestOK
  <2> QED BY <1>2, <2>1
<1>5. DOMAIN peer'.node = Links
  BY <1>2
<1> QED BY <1>1, <1>3, <1>4, <1>5 DEF WholeInv

\* What is saved is a list of fragments.
LEMMA SavedList ==
    ASSUME CoreInv, NEW l \in Links
    PROVE  FragmentChannel(l) \in AllChannels /\ FragmentChannel(l) \notin Channels /\ Frags(l) \in Seq(Packets)
<1>1. QueuesTyped(q) /\ FragmentChannel(l) \in AllChannels /\ FragmentChannel(l) \notin Channels
  BY ChannelFacts DEF CoreInv, Core, QueuesOK
<1> QED BY <1>1, QueuesFields DEF Frags

\* Handlers.
LEMMA HandlerWhole ==
    ASSUME CoreInv, WholeInv, Handler
    PROVE  WholeInv'
<1>1. refused' = refused /\ peer' = peer /\ (run' = Idle \/ (run' = StartRun /\ ~ unserved'))
  BY DEF Handler, MainThreadFree, SchedulerInit, SchedulerDeinit, Connect, Disconnect, ChannelAdd,
         ChannelDown, SetApBufferNum, DataSendWithPriority, SendComplete, RunAfterCompletion
<1>2. run'.at # "frag" /\ (run'.at # "idle" => ~ unserved')
  <2>1. CASE run' = Idle
    BY <2>1 DEF Idle
  <2>2. CASE run' = StartRun /\ ~ unserved'
    <3>1. run' = [at |-> "prio", prio |-> 0, visit |-> <<>>, sched |-> {}, next |-> 0]
      <4>1. 0 \in Nat
        OBVIOUS
      <4> QED BY <2>2, <4>1, StartRunFields
    <3>2. run'.at = "prio"
      BY <3>1
    <3> QED BY <2>2, <3>2
  <2> QED BY <1>1, <2>1, <2>2
<1>3. ASSUME NEW l \in Links PROVE Frags(l)' = Frags(l) \/ Frags(l)' = <<>>
  <2>1. PICK d \in AllChannels : d = FragmentChannel(l) /\ d \notin Channels
    BY ChannelFacts
  <2>2. q'.pkts[d] = q.pkts[d] \/ q'.pkts[d] = <<>>
    <3>1. CASE \E c \in Channels : DataSendWithPriority(c)
      <4>1. PICK c \in Channels : PktsAre(q, c, q.pkts[c] \o <<Packet(c, made[c] + 1, ToSend[c][made[c] + 1])>>, q')
        BY <3>1, HandlerPkts
      <4> QED BY <2>1, <4>1 DEF PktsAre
    <3>2. CASE \E c \in Channels : ChannelDown(c)
      BY <3>2, HandlerPkts
    <3>3. CASE SchedulerInit \/ SchedulerDeinit
      BY <3>3, HandlerPkts
    <3>4. CASE PktsKept
      BY <3>4 DEF PktsKept
    <3>5. ASSUME NEW k \in Links, NEW n \in 1 .. held[k], SendComplete(k, n) PROVE PktsKept
      BY <3>5 DEF SendComplete, PktsKept
    <3> QED BY <3>1, <3>2, <3>3, <3>4, <3>5, HandlerPkts DEF Handler
  <2> QED BY <2>1, <2>2 DEF Frags
<1> QED BY <1>1, <1>2, <1>3, WholeKept

\* The turns that send nothing and save nothing.
LEMMA LoopWhole ==
    ASSUME CoreInv, WholeInv,
           RunPriority \/ PriorityDone \/ VisitLcid \/ LcidDone \/ SendRefused \/ AllSent \/ SaveFails
    PROVE  WholeInv'
<1>1. RunTyped
  BY DEF CoreInv
<1>2. refused' = refused /\ peer' = peer /\ run.at # "idle"
  BY DEF RunPriority, PriorityDone, VisitLcid, LcidDone, SendRefused, AllSent, SaveFails, StopRun
<1>3. ~ refused => ~ unserved
  BY <1>2 DEF WholeInv
<1>4. run'.at # "frag" /\ (run'.at # "idle" => unserved' = unserved)
  <2>1. CASE run' = Idle
    BY <2>1 DEF Idle
  <2>2. CASE PriorityDone
    <3>1. run' = [at |-> "prio", prio |-> run.prio + 1, visit |-> <<>>, sched |-> {}, next |-> 0]
      <4>1. run.prio + 1 \in Nat
        BY <1>1 DEF RunTyped, Runs
      <4> QED BY <2>2, <4>1, StartRunFields DEF PriorityDone
    <3>2. run'.at = "prio"
      BY <3>1
    <3> QED BY <2>2, <3>2 DEF PriorityDone
  <2>3. CASE RunPriority /\ run' # Idle
    <3>1. PICK m, v : run' = [run EXCEPT !.at = "lcid", !.prio = m, !.visit = v]
      BY <2>3 DEF RunPriority
    <3>2. run'.at = "lcid"
      BY <1>1, <3>1 DEF RunTyped, Runs
    <3> QED BY <2>3, <3>2 DEF RunPriority
  <2>4. CASE VisitLcid
    BY <1>1, <2>4 DEF VisitLcid, RunTyped, Runs
  <2>5. CASE LcidDone \/ AllSent
    BY <1>1, <2>5 DEF LcidDone, AllSent, RunTyped, Runs
  <2>6. SendRefused \/ SaveFails => run' = Idle
    BY DEF SendRefused, SaveFails, StopRun
  <2> QED BY <2>1, <2>2, <2>3, <2>4, <2>5, <2>6
<1>5. ASSUME NEW l \in Links PROVE Frags(l)' = Frags(l)
  <2>1. CASE RunPriority \/ PriorityDone \/ VisitLcid \/ LcidDone \/ SendRefused
    <3>1. PktsKept
      BY <2>1, RunPkts
    <3> QED BY <3>1, SavedList DEF PktsKept, Frags
  <2>2. CASE AllSent \/ SaveFails
    <3>1. PktsPopped /\ run.at = "frag"
      BY <2>2, RunPkts DEF AllSent, SaveFails
    <3>2. FragmentChannel(l) # Chan /\ FragmentChannel(l) \in AllChannels
      BY <3>1, FragFacts, SavedList
    <3> QED BY <3>1, <3>2 DEF PktsPopped, PktsAre, Frags
  <2> QED BY <2>1, <2>2
<1> QED BY <1>2, <1>3, <1>4, <1>5, WholeKept

\* A packet is split when its link has no fragments saved.
LEMMA SplitWhole ==
    ASSUME CoreInv, ServedInv, WholeInv, SplitData
    PROVE  WholeInv'
<1>1. SUFFICES ASSUME ~ refused PROVE WholeInv'
  BY DEF WholeInv, SplitData
<1>2. /\ run.at = "chan" /\ CanSend(Lcid) /\ Peek(run.prio, Lcid) # 0 /\ Pkt.idx = 0
      /\ run' = [run EXCEPT !.at = "frag", !.next = 1] /\ q' = q /\ buf' = buf /\ peer' = peer
      /\ refused' = refused /\ unserved' = unserved
  BY DEF SplitData, CanSchedule
<1>3. run'.at = "frag" /\ run'.next = 1 /\ run'.prio = run.prio /\ run'.visit = run.visit
  BY <1>2 DEF CoreInv, RunTyped, Runs
<1>4. Lcid' = Lcid /\ Pkt' = Pkt
  BY <1>2, <1>3, SameTurn
<1>5. /\ Lcid \in Links /\ Priority(Chan) = run.prio /\ run.prio \in Priorities /\ Chan \in AllChannels
      /\ PacketOK(open, Chan, Pkt) /\ Pkt \in Packets
  BY <1>2, TurnFacts
<1>6. Chan \in Channels
  BY <1>2, <1>5 DEF PacketOK
<1>7. run.prio > 0 /\ run.prio \in Nat
  BY <1>5, <1>6, ChannelFacts, SchedulerAssumption DEF Priorities
<1>8. ~ unserved /\ run.at # "idle"
  BY <1>1, <1>2 DEF WholeInv
<1>9. Frags(Lcid) = <<>>
  <2>1. PICK d \in AllChannels : d = FragmentChannel(Lcid) /\ d.lcid = Lcid /\ Priority(d) = FRAGMENT
    BY <1>5, ChannelFacts
  <2>2. q.pkts[d] # <<>> => Passed(d)
    BY <1>8 DEF ServedInv
  <2>3. ~ ToVisit(FRAGMENT, Lcid)
    BY <1>7 DEF ToVisit, FRAGMENT
  <2>4. ~ Passed(d)
    BY <1>2, <2>1, <2>3 DEF Passed
  <2> QED BY <2>1, <2>2, <2>4 DEF Frags
<1>10. \A l \in Links : Frags(l)' = Frags(l)
  BY <1>2 DEF Frags
<1>11. Frags(Lcid)' = <<>> /\ CanSend(Lcid)'
  BY <1>2, <1>4, <1>9 DEF Frags, CanSend, Connected
<1>12. /\ PacketsNeverMix /\ DOMAIN peer.node = Links
       /\ \A l \in Links : NodeOK(peer.node[l]) /\ RestOK(Frags(l), peer.node[l])
  BY <1>1 DEF WholeInv
<1>13. PacketsNeverMix'
  BY <1>2, <1>12 DEF PacketsNeverMix
<1>14. ASSUME NEW l \in Links PROVE NodeOK(peer'.node[l]) /\ RestOK(Frags(l)', peer'.node[l])
  BY <1>2, <1>10, <1>12
<1>15. DOMAIN peer'.node = Links
  BY <1>2, <1>12
<1>16. run'.next \notin 2 .. Pkt'.of
  BY <1>3, <1>4
<1> QED BY <1>2, <1>3, <1>8, <1>11, <1>13, <1>14, <1>15, <1>16 DEF WholeInv

\* The next fragment of a packet just split.
LEMMA SendNextWhole ==
    ASSUME CoreInv, WholeInv, SendNext
    PROVE  WholeInv'
<1>1. SUFFICES ASSUME ~ refused' PROVE WholeInv'
  BY DEF WholeInv
<1>2. /\ run.at = "frag" /\ run.next <= Pkt.of /\ run' = [run EXCEPT !.next = @ + 1] /\ q' = q
      /\ unserved' = unserved
  BY DEF SendNext
<1>3. PICK f : f = [Pkt EXCEPT !.idx = run.next] /\ Deliver(f) /\ refused' = refused
  BY <1>1 DEF SendNext, SendData, Deliver, Drop
<1>4. RunTyped
  BY DEF CoreInv
<1>5. Peek(run.prio, Lcid) # 0 /\ run.next \in 1 .. Pkt.of + 1 /\ run.next \in Nat /\ Pkt.of \in Nat \ {0}
  BY <1>2, FragFacts
<1>6. Lcid \in Links /\ Pkt \in Packets
  BY <1>2, <1>5, TurnFacts
<1>7. run'.at = "frag" /\ run'.next = run.next + 1 /\ run'.prio = run.prio /\ run'.visit = run.visit
  BY <1>2, <1>4 DEF RunTyped, Runs
<1>8. Lcid' = Lcid /\ Pkt' = Pkt
  BY <1>2, <1>7, SameTurn
<1>9. /\ PacketsNeverMix /\ DOMAIN peer.node = Links
      /\ \A l \in Links : NodeOK(peer.node[l]) /\ RestOK(Frags(l), peer.node[l])
      /\ Frags(Lcid) = <<>> /\ ~ unserved
      /\ run.next \in 2 .. Pkt.of => peer.node[Lcid] = Part(Pkt, run.next - 1)
  BY <1>1, <1>2, <1>3 DEF WholeInv
<1>10. FragmentOf(f, Pkt, run.next)
  BY <1>3 DEF FragmentOf
<1>11. f \in Packets /\ f.idx = run.next /\ f.of = Pkt.of /\ SameSplit(f, Pkt)
  BY <1>5, <1>6, <1>10, SamePacket
<1>12. f.idx \in 1 .. f.of
  BY <1>2, <1>5, <1>11
<1>13. ASSUME NEW n \in Nat PROVE Part(f, n) = Part(Pkt, n)
  BY <1>11, SameParts
<1>14. f.idx > 1 => peer.node[Lcid] = Part(f, f.idx - 1)
  <2>1. ASSUME f.idx > 1 PROVE run.next \in 2 .. Pkt.of /\ run.next - 1 \in Nat
    BY <1>2, <1>5, <1>11, <2>1
  <2> QED BY <1>9, <1>11, <1>13, <2>1
<1>15. /\ PacketsNeverMix' /\ DOMAIN peer'.node = Links
       /\ \A l \in Links : l # Lcid => peer'.node[l] = peer.node[l]
       /\ NodeOK(peer'.node[Lcid])
       /\ f.idx < f.of => peer'.node[Lcid] = Part(f, f.idx)
  <2>1. NodeOK(peer.node[Lcid])
    BY <1>6, <1>9
  <2> QED BY <1>3, <1>6, <1>9, <1>11, <1>12, <1>14, <2>1, PeerNext
<1>16. ASSUME NEW l \in Links PROVE NodeOK(peer'.node[l]) /\ RestOK(Frags(l)', peer'.node[l])
  <2>1. Frags(l)' = Frags(l)
    BY <1>2 DEF Frags
  <2>2. CASE l = Lcid
    BY <1>9, <1>15, <2>1, <2>2 DEF RestOK
  <2>3. CASE l # Lcid
    BY <1>9, <1>15, <2>1, <2>3
  <2> QED BY <2>2, <2>3
<1>17. Frags(Lcid)' = <<>>
  BY <1>2, <1>8, <1>9 DEF Frags
<1>18. ASSUME run'.next \in 2 .. Pkt'.of PROVE peer'.node[Lcid'] = Part(Pkt', run'.next - 1)
  <2>1. f.idx < f.of /\ run'.next - 1 = f.idx
    BY <1>5, <1>7, <1>8, <1>11, <1>18
  <2>2. Part(f, f.idx) = Part(Pkt, f.idx)
    BY <1>5, <1>11, <1>13
  <2> QED BY <1>8, <1>15, <2>1, <2>2
<1>19. run'.next # 1
  BY <1>5, <1>7
<1>20. Part(Pkt, run.next - 1)' = Part(Pkt', run'.next - 1)
  BY DEF Part, FirstOf, FIRST, MIDDLE
<1> QED BY <1>2, <1>7, <1>9, <1>15, <1>16, <1>17, <1>18, <1>19, <1>20 DEF WholeInv

\* A saved fragment.
LEMMA SendFragmentWhole ==
    ASSUME CoreInv, WholeInv, SendFragment
    PROVE  WholeInv'
<1>1. SUFFICES ASSUME ~ refused' PROVE WholeInv'
  BY DEF WholeInv
<1>2. /\ run.at = "chan" /\ Peek(run.prio, Lcid) # 0 /\ Pkt.idx # 0 /\ Deliver(Pkt)
      /\ run' = run /\ refused' = refused /\ unserved' = unserved
  BY <1>1 DEF SendFragment, CanSchedule, SendData, Deliver, Drop
<1>3. /\ Lcid \in Links /\ Chan \in AllChannels /\ Chan.lcid = Lcid /\ q.pkts[Chan] # <<>>
      /\ Pkt \in Packets /\ PacketOK(open, Chan, Pkt)
  BY <1>2, TurnFacts
<1>4. Chan \notin Channels /\ Pkt.idx \in 1 .. Pkt.of
  BY <1>2, <1>3 DEF PacketOK
<1>5. Chan = FragmentChannel(Lcid)
  BY <1>3, <1>4, ChannelFacts
<1>6. /\ PacketsNeverMix /\ DOMAIN peer.node = Links /\ ~ unserved
      /\ \A l \in Links : NodeOK(peer.node[l]) /\ RestOK(Frags(l), peer.node[l])
  BY <1>1, <1>2 DEF WholeInv
<1>7. PICK s : s = Frags(Lcid) /\ s # <<>> /\ Head(s) = Pkt
  BY <1>3, <1>5 DEF Frags, Pkt
<1>8. Pkt.idx > 1 /\ s = Fragments(Pkt, Pkt.idx) /\ peer.node[Lcid] = Part(Pkt, Pkt.idx - 1)
  BY <1>3, <1>6, <1>7 DEF RestOK
<1>9. /\ PacketsNeverMix' /\ DOMAIN peer'.node = Links
      /\ \A l \in Links : l # Lcid => peer'.node[l] = peer.node[l]
      /\ NodeOK(peer'.node[Lcid])
      /\ Pkt.idx < Pkt.of => peer'.node[Lcid] = Part(Pkt, Pkt.idx)
  <2>1. NodeOK(peer.node[Lcid])
    BY <1>3, <1>6
  <2> QED BY <1>2, <1>3, <1>4, <1>6, <1>8, <2>1, PeerNext
<1>10. PktsPopped
  BY RunPkts
<1>11. ASSUME NEW l \in Links PROVE NodeOK(peer'.node[l]) /\ RestOK(Frags(l)', peer'.node[l])
  <2>1. FragmentChannel(l) \in AllChannels /\ FragmentChannel(l).lcid = l
    BY ChannelFacts
  <2>2. CASE l = Lcid
    <3>1. Frags(l)' = Tail(s)
      BY <1>5, <1>7, <1>10, <2>1, <2>2 DEF PktsPopped, PktsAre, Frags
    <3>2. Tail(s) = Fragments(Pkt, Pkt.idx + 1)
      BY <1>3, <1>4, <1>8, FragmentsSplit
    <3>3. Pkt.idx # Pkt.of => peer'.node[Lcid] = Part(Pkt, Pkt.idx)
      <4>1. Pkt.idx # Pkt.of => Pkt.idx < Pkt.of
        BY <1>3, <1>4 DEF Packets
      <4> QED BY <1>9, <4>1
    <3>4. RestOK(Fragments(Pkt, Pkt.idx + 1), peer'.node[Lcid])
      BY <1>3, <1>4, <3>3, RestNext
    <3> QED BY <1>9, <2>2, <3>1, <3>2, <3>4
  <2>3. CASE l # Lcid
    <3>1. FragmentChannel(l) # Chan
      BY <1>3, <2>1, <2>3
    <3>2. Frags(l)' = Frags(l)
      BY <1>10, <2>1, <3>1 DEF PktsPopped, PktsAre, Frags
    <3> QED BY <1>6, <1>9, <2>3, <3>2
  <2> QED BY <2>2, <2>3
<1> QED BY <1>2, <1>6, <1>9, <1>11 DEF WholeInv

\* The rest of a packet is saved.
LEMMA SaveWhole ==
    ASSUME CoreInv, WholeInv, SaveRest
    PROVE  WholeInv'
<1>1. SUFFICES ASSUME ~ refused PROVE WholeInv'
  BY DEF WholeInv, SaveRest
<1>2. /\ run.at = "frag" /\ run.next <= Pkt.of /\ ~ CanSend(Lcid) /\ peer' = peer
      /\ run' = [run EXCEPT !.at = "lcid", !.visit = Tail(@), !.next = 0]
      /\ refused' = refused /\ unserved' = unserved
  BY DEF SaveRest, SaveFragmentData
<1>3. run'.at = "lcid"
  BY <1>2 DEF CoreInv, RunTyped, Runs
<1>4. Peek(run.prio, Lcid) # 0 /\ run.next \in 1 .. Pkt.of + 1 /\ run.next \in Nat /\ Pkt.of \in Nat \ {0}
  BY <1>2, FragFacts
<1>5. Lcid \in Links /\ Pkt \in Packets
  BY <1>2, <1>4, TurnFacts
<1>6. /\ PacketsNeverMix /\ DOMAIN peer.node = Links /\ ~ unserved
      /\ \A l \in Links : NodeOK(peer.node[l]) /\ RestOK(Frags(l), peer.node[l])
      /\ Frags(Lcid) = <<>> /\ run.next # 1
      /\ run.next \in 2 .. Pkt.of => peer.node[Lcid] = Part(Pkt, run.next - 1)
  BY <1>1, <1>2 DEF WholeInv
<1>7. PICK n \in 1 .. Pkt.of : run.next = n + 1 /\ n = run.next - 1 /\ run.next \in 2 .. Pkt.of
  BY <1>2, <1>4, <1>6
<1>8. peer.node[Lcid] = Part(Pkt, n)
  BY <1>6, <1>7
<1>9. RestOK(Fragments(Pkt, run.next), peer.node[Lcid])
  BY <1>5, <1>7, <1>8, RestNext
<1>10. PICK rest \in Seq(Packets) : rest = Fragments(Pkt, run.next)
  <2>1. run.next \in 1 .. Pkt.of
    BY <1>2, <1>4
  <2> QED BY <1>5, <2>1, SortedFragments
<1>11. ASSUME NEW l \in Links PROVE NodeOK(peer'.node[l]) /\ RestOK(Frags(l)', peer'.node[l])
  <2>1. Frags(l)' = IF l = Lcid THEN Frags(l) \o rest ELSE Frags(l)
    BY <1>10, FragsNext
  <2>2. CASE l = Lcid
    <3>1. <<>> \o rest = rest
      BY ConcatProperties
    <3>2. Frags(l)' = rest
      BY <1>6, <2>1, <2>2, <3>1
    <3> QED BY <1>2, <1>6, <1>9, <1>10, <2>2, <3>2
  <2>3. CASE l # Lcid
    BY <1>2, <1>6, <2>1, <2>3
  <2> QED BY <2>2, <2>3
<1>12. PacketsNeverMix' /\ DOMAIN peer'.node = Links
  BY <1>2, <1>6 DEF PacketsNeverMix
<1> QED BY <1>2, <1>3, <1>6, <1>11, <1>12 DEF WholeInv

\* Every step.
LEMMA WholeStep ==
    ASSUME CoreInv, ServedInv, WholeInv, [Next]_vars
    PROVE  WholeInv'
<1>1. CASE Handler
  BY <1>1, HandlerWhole
<1>2. CASE RunPriority \/ PriorityDone \/ VisitLcid \/ LcidDone \/ SendRefused \/ AllSent \/ SaveFails
  BY <1>2, LoopWhole
<1>3. CASE SplitData
  BY <1>3, SplitWhole
<1>4. CASE SendNext
  BY <1>4, SendNextWhole
<1>5. CASE SendFragment
  BY <1>5, SendFragmentWhole
<1>6. CASE SaveRest
  BY <1>6, SaveWhole
<1>7. CASE NextRefused
  BY <1>7 DEF NextRefused, WholeInv
<1>8. CASE UNCHANGED vars
  <2>1. run' = run /\ q' = q /\ buf' = buf /\ peer' = peer /\ refused' = refused /\ unserved' = unserved
    BY <1>8 DEF vars
  <2>2. Pkt' = Pkt /\ Lcid' = Lcid
    BY <2>1, SameTurn
  <2>3. /\ \A l : Frags(l)' = Frags(l)
        /\ Frags(Lcid)' = Frags(Lcid) /\ CanSend(Lcid)' = CanSend(Lcid)
    BY <2>1, <2>2 DEF Frags, CanSend, Connected
  <2>4. Part(Pkt, run.next - 1)' = Part(Pkt, run.next - 1) /\ PacketsNeverMix' = PacketsNeverMix
    BY <2>1, <2>2 DEF Part, FirstOf, FIRST, MIDDLE, PacketsNeverMix
  <2> QED BY <2>1, <2>2, <2>3, <2>4 DEF WholeInv
<1> QED BY <1>1, <1>2, <1>3, <1>4, <1>5, <1>6, <1>7, <1>8 DEF Next, SchedulerRun

\* It holds at the start.
LEMMA WholeInit == Init => WholeInv
<1>1. SUFFICES ASSUME Init PROVE WholeInv
  OBVIOUS
<1>2. run.at = "idle" /\ peer = [node |-> [l \in Links |-> NoNode], sent |-> {}, arrived |-> {}, corrupt |-> FALSE]
  BY <1>1 DEF Init, Idle
<1>3. peer.node = [l \in Links |-> NoNode] /\ peer.sent = {} /\ peer.arrived = {} /\ peer.corrupt = FALSE
  BY <1>2
<1>4. PacketsNeverMix
  BY <1>3 DEF PacketsNeverMix
<1>5. ASSUME NEW l \in Links PROVE NodeOK(peer.node[l]) /\ Frags(l) = <<>>
  <2>1. FragmentChannel(l) \in AllChannels
    BY ChannelFacts
  <2>2. Frags(l) = <<>>
    BY <1>1, <2>1 DEF Init, InitQueues, Frags
  <2> QED BY <1>3, <2>2 DEF NodeOK
<1>6. \A l \in Links : RestOK(Frags(l), peer.node[l])
  BY <1>5 DEF RestOK
<1> QED BY <1>2, <1>3, <1>4, <1>5, <1>6 DEF WholeInv

\* Unless the DLI refuses a fragment of a packet just split, or drops one it has accepted,
\* the peer puts together whole packets only, and every packet whose last fragment was sent: the rest of a packet goes
\* before anything else of its link, and what a channel or a link takes along when it goes
\* leaves the peer with a part that the next packet replaces.
THEOREM PacketsAlwaysArriveWhole == Spec => []PacketsArriveWhole
<1>1. Init => CoreInv /\ ServedInv /\ WholeInv
  <2>1. Init => ServedInv
    BY DEF Init, InitQueues, ServedInv, Idle
  <2> QED BY <2>1, CoreInvInit, WholeInit
<1>2. CoreInv /\ ServedInv /\ WholeInv /\ [Next]_vars => (CoreInv /\ ServedInv /\ WholeInv)'
  BY CoreInvStep, ServedStep, WholeStep
<1>3. WholeInv => PacketsArriveWhole
  BY DEF WholeInv, PacketsArriveWhole
<1> QED BY <1>1, <1>2, <1>3, PTL DEF Spec
=============================================================================
