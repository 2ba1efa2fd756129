------------------------------ MODULE CmChannel ------------------------------
(***************************************************************************)
(* The dynamic transport channels of one logical link, both ends           *)
(* (cm_dyn_trans_channel_mgr.c, cm_dyn_trans_chan_state_mgr.c,             *)
(* cm_dyn_tcid.c, cm_signaling_manage.c, cm_signaling_trans_channel.c).    *)
(* An end names a channel by a tcid of its own pool, the lowest that is    *)
(* free, and keeps every request it sent in a cache, keyed by an           *)
(* identifier, with a timer of 21 s: longer than the supervision time-out  *)
(* of the link, so a signal is lost only with the link.  All of an end     *)
(* runs on its CP thread.  Signals in flight are FIFO in each direction.   *)
(***************************************************************************)
EXTENDS Integers, Sequences, SequencesExt, FiniteSets

CONSTANTS
  Ends,          \* the two devices
  Tcids,         \* CM_TCID_UC_BEGIN..CM_TCID_UC_END
  IdModulus,     \* identifiers are uint8_t: 256
  Environments   \* what the environment may do, one of these per behaviour:
                 \* [estab, requests to establish, per end;
                 \*  either, whether both ends release a channel, and repeat it,
                 \*          or only the end that established it, once;
                 \*  reqFail, rspFail, signals that DTAP refuses;
                 \*  down, losses of the link;
                 \*  refused, whether a request has been refused;
                 \*  replaced, whether a request was sent in place of a refused answer]

ASSUME EndsAssumption ==
  /\ IsFiniteSet(Ends) /\ Cardinality(Ends) = 2
  /\ Tcids \subseteq Nat \ {0} /\ IdModulus \in Nat \ {0}

VARIABLES
  env,     \* the environment of this behaviour, with the faults it has left
  asked,   \* per end: requests to establish made
  up,      \* per end: the logical link is connected, as the end knows
  link,    \* the link carries signals
  chans,   \* per end, g_dynTransListHead: [local, remote, state, mine]
  used,    \* per end: tcids of the pool in use (unicastTcidUsed)
  cache,   \* per end, g_cachedSignalings: [id, code, src, sent]
  nextId,  \* per end: g_identifier
  net      \* per end: signals on their way to it

vars == <<env, asked, up, link, chans, used, cache, nextId, net>>

Peer(e) == CHOOSE p \in Ends : p # e
NoTcid == 0  \* CM_TRANS_INVALID_TCID
Signal(code, id, src, dst, ok) ==
  [code |-> code, id |-> id, src |-> src, dst |-> dst, ok |-> ok]

Init ==
  /\ env \in Environments /\ asked = [e \in Ends |-> 0]
  /\ up = [e \in Ends |-> TRUE] /\ link = TRUE
  /\ chans = [e \in Ends |-> <<>>] /\ used = [e \in Ends |-> {}]
  /\ cache = [e \in Ends |-> {}] /\ nextId = [e \in Ends |-> 0]
  /\ net = [e \in Ends |-> <<>>]

-----------------------------------------------------------------------------
(* The channel list and the tcid pool. *)

FindByLocalTcid(e, t) == SelectInSeq(chans[e], LAMBDA n : n.local = t)
FindByRemoteTcid(e, t) == SelectInSeq(chans[e], LAMBDA n : n.remote = t)

\* CM_DynTcidAllocate: the lowest free tcid
DynTcidAllocate(e) ==
  IF Tcids \subseteq used[e] THEN NoTcid
  ELSE CHOOSE t \in Tcids \ used[e] : \A u \in Tcids \ used[e] : t <= u

\* Mutant: the pool keeps the tcid.
TcidKept(e, t) == UNCHANGED used

\* CM_DynTcidRelease
DynTcidRelease(e, t) == used' = [used EXCEPT ![e] = @ \ {t}]

\* CM_ActivateDynamicTransChannel: a new node at the tail of the list
AddNode(e, l, r, state, mine) ==
  /\ chans' = [chans EXCEPT ![e] =
       Append(@, [local |-> l, remote |-> r, state |-> state, mine |-> mine])]
  /\ used' = [used EXCEPT ![e] = @ \cup {l}]

\* CM_ReleaseDynamicTransChannelByLocalTcid and CM_DynTcidRelease
DropNode(e, i) ==
  /\ chans' = [chans EXCEPT ![e] = RemoveAt(@, i)]
  /\ DynTcidRelease(e, chans[e][i].local)

KeepNodes == UNCHANGED <<chans, used>>

-----------------------------------------------------------------------------
(* Signalling. *)

\* CM_SendBuffToDtap, when it takes the signal; n is what is in flight
Transmit(n, e, m) == [n EXCEPT ![Peer(e)] = IF link THEN Append(@, m) ELSE @]
Popped(e) == [net EXCEPT ![e] = Tail(@)]

\* CM_SignalingCacheRemove(id, code): only the code that follows the cached one,
\* that of its response, removes it.
SameCode(code) == code  \* mutant: the code of the request itself
RequestCode(code) == IF code = "ConnectRsp" THEN "ConnectReq"
                     ELSE IF code = "DisconnectRsp" THEN "DisconnectReq" ELSE "None"
CacheRemove(c, id, code) == {q \in c : ~(q.id = id /\ q.code = RequestCode(code))}

\* Send a request: the identifier, the cache and its timer, then DTAP.  The
\* cache refuses an identifier it holds (SDF_MapMoveInsert).  When DTAP refuses
\* the signal the request is removed from the cache by its own code.
CanCache(e) == \A q \in cache[e] : q.id # nextId[e]
Cached(e, code, src, sent) ==
  CacheRemove(cache[e] \cup {[id |-> nextId[e], code |-> code, src |-> src, sent |-> sent]},
              nextId[e], IF sent THEN "None" ELSE code)
TakeId(e) == nextId' = [nextId EXCEPT ![e] = (@ + 1) % IdModulus]

SendReq(n, e, code, src, dst) ==
  /\ CanCache(e)
  /\ cache' = [cache EXCEPT ![e] = Cached(e, code, src, TRUE)]
  /\ net' = Transmit(n, e, Signal(code, nextId[e], src, dst, TRUE))
  /\ TakeId(e)

SendReqFails(n, e, code, src) ==
  /\ \/ ~CanCache(e) /\ UNCHANGED <<cache, env>>
     \/ /\ CanCache(e) /\ env.reqFail > 0
        /\ env' = [env EXCEPT !.reqFail = @ - 1, !.refused = TRUE]
        /\ cache' = [cache EXCEPT ![e] = Cached(e, code, src, FALSE)]
  /\ net' = n
  /\ TakeId(e)

-----------------------------------------------------------------------------
(* Requests of the upper layers (QOSM, DTAP). *)

\* CM_DynTransChannelEstablishReq, CM_DynTransChanActiveEstablishingReqHandler: a
\* request that cannot be sent takes the node and the tcid back.
EstablishReq(e) ==
  /\ up[e] /\ asked[e] < env.estab[e]
  /\ asked' = [asked EXCEPT ![e] = @ + 1]
  /\ LET t == DynTcidAllocate(e)
     IN  /\ t # NoTcid
         /\ \/ /\ SendReq(net, e, "ConnectReq", t, NoTcid)
               /\ AddNode(e, t, NoTcid, "ACTIVATING", TRUE)
               /\ UNCHANGED env
            \/ SendReqFails(net, e, "ConnectReq", t) /\ KeepNodes
  /\ UNCHANGED <<up, link>>

\* The upper layer learns the tcid with the answer, so it never releases a channel
\* that is still ACTIVATING.
MayRelease(n) ==
  IF env.either THEN n.state \in {"ACTIVATED", "RELEASING"}
  ELSE n.mine /\ n.state = "ACTIVATED"

\* CM_DynTransChannelReleaseReq, CM_DynTransChanActiveReleasingHandler: a
\* request that cannot be sent puts the state of the table back, ACTIVATED.
ReleaseReq(e) ==
  /\ up[e]
  /\ \E i \in DOMAIN chans[e] :
       LET n == chans[e][i]
       IN  /\ MayRelease(n)
           /\ \/ /\ SendReq(net, e, "DisconnectReq", n.local, n.remote)
                 /\ UNCHANGED env
                 /\ chans' = [chans EXCEPT ![e][i].state = "RELEASING"]
              \/ /\ SendReqFails(net, e, "DisconnectReq", n.local)
                 /\ chans' = [chans EXCEPT ![e][i].state = "ACTIVATED"]
  /\ UNCHANGED <<asked, up, link, used>>

-----------------------------------------------------------------------------
(* Signals received: the handler, then CM_SignalingCacheRemove. *)

Received(e, code) == up[e] /\ net[e] # <<>> /\ Head(net[e]).code = code
Answer(e, m) == Transmit(Popped(e), e, m)

\* CM_DynTransChannelEstablishReqCbk, CM_DynTransChanPassiveEstablishedReqHandler:
\* a known remote tcid or an empty pool gets no answer, a request the upper
\* layer will not take (mtu, port) an error.
RecvConnectReq(e) ==
  /\ Received(e, "ConnectReq")
  /\ LET m == Head(net[e])
         t == DynTcidAllocate(e)
         rsp(l) == Signal("ConnectRsp", m.id, m.src, l, l # NoTcid)
     IN  \/ /\ FindByRemoteTcid(e, m.src) # 0 \/ t = NoTcid
            /\ net' = Popped(e) /\ KeepNodes /\ UNCHANGED env
         \/ /\ FindByRemoteTcid(e, m.src) = 0
            /\ net' = Answer(e, rsp(NoTcid)) /\ KeepNodes /\ UNCHANGED env
         \/ /\ FindByRemoteTcid(e, m.src) = 0 /\ t # NoTcid
            /\ AddNode(e, t, m.src, "ACTIVATED", FALSE)
            /\ net' = Answer(e, rsp(t)) /\ UNCHANGED env
         \/ /\ FindByRemoteTcid(e, m.src) = 0 /\ t # NoTcid /\ env.rspFail > 0
            /\ env' = [env EXCEPT !.rspFail = @ - 1]
            /\ net' = Popped(e) /\ KeepNodes
  /\ UNCHANGED <<asked, up, link, cache, nextId>>

\* the state test of CM_DynTransChannelEstablishRspCbk
Establishing(e, i) == i # 0 /\ chans[e][i].state = "ACTIVATING"

\* CM_DynTransChannelEstablishRspCbk with the two handlers it posts to
EstablishRsp(e, src, dst, ok) ==
  LET i == FindByLocalTcid(e, src)
  IN  \/ ~Establishing(e, i) /\ KeepNodes
      \/ /\ Establishing(e, i) /\ ok
         /\ chans' = [chans EXCEPT ![e][i].state = "ACTIVATED", ![e][i].remote = dst]
         /\ UNCHANGED used
      \/ Establishing(e, i) /\ ~ok /\ DropNode(e, i)

RecvConnectRsp(e) ==
  /\ Received(e, "ConnectRsp")
  /\ LET m == Head(net[e])
     IN  /\ EstablishRsp(e, m.src, m.dst, m.ok)
         /\ cache' = [cache EXCEPT ![e] = CacheRemove(@, m.id, m.code)]
  /\ net' = Popped(e)
  /\ UNCHANGED <<env, asked, up, link, nextId>>

\* CM_DynTransChannelReleaseReqCbk, CM_DynTransChanPassiveReleasedReqHandler: an
\* unknown channel gets no answer; an answer that cannot be sent is replaced by
\* a request of one's own.
RecvDisconnectReq(e) ==
  /\ Received(e, "DisconnectReq")
  /\ LET m == Head(net[e])
         i == FindByRemoteTcid(e, m.src)
         n == chans[e][i]
     IN  \/ /\ i = 0
            /\ net' = Popped(e) /\ KeepNodes /\ UNCHANGED <<env, cache, nextId>>
         \/ /\ i # 0 /\ DropNode(e, i)
            /\ net' = Answer(e, Signal("DisconnectRsp", m.id, n.remote, n.local, TRUE))
            /\ UNCHANGED <<env, cache, nextId>>
         \/ /\ i # 0 /\ env.rspFail > 0 /\ DropNode(e, i)
            /\ SendReq(Popped(e), e, "DisconnectReq", n.local, n.remote)
            /\ env' = [env EXCEPT !.rspFail = @ - 1, !.replaced = TRUE]
         \/ /\ i # 0 /\ env.rspFail > 0 /\ DropNode(e, i)
            /\ SendReqFails(Popped(e), e, "DisconnectReq", n.local)
  /\ UNCHANGED <<asked, up, link>>

\* CM_DynTransChannelReleaseRspCbk with its two handlers: whatever the state of
\* the channel, it is gone.
ReleaseRsp(e, src) ==
  LET i == FindByLocalTcid(e, src)
  IN  IF i = 0 THEN KeepNodes ELSE DropNode(e, i)

RecvDisconnectRsp(e) ==
  /\ Received(e, "DisconnectRsp")
  /\ LET m == Head(net[e])
     IN  /\ ReleaseRsp(e, m.src)
         /\ cache' = [cache EXCEPT ![e] = CacheRemove(@, m.id, m.code)]
  /\ net' = Popped(e)
  /\ UNCHANGED <<env, asked, up, link, nextId>>

-----------------------------------------------------------------------------
(* Timers and the link. *)

\* the request, or its answer, is still on its way
OnTheWay(e, q) ==
  \/ \E m \in Range(net[Peer(e)]) : m.id = q.id /\ m.code = q.code
  \/ \E m \in Range(net[e]) : m.id = q.id /\ RequestCode(m.code) = q.code

\* Mutant: a time-out is not reported.
NoTimeoutRsp(e, q) == KeepNodes

\* CM_SignalingTransChanEstablishReqTimeout, CM_SignalingTransChanReleaseReqTimeout
TimeoutRsp(e, q) ==
  IF q.code = "ConnectReq" THEN EstablishRsp(e, q.src, NoTcid, FALSE)
  ELSE ReleaseRsp(e, q.src)

\* CM_SignalingTimeoutCbkInner
SignalingTimeout(e) ==
  /\ up[e] /\ link
  /\ \E q \in cache[e] :
       /\ ~OnTheWay(e, q)
       /\ TimeoutRsp(e, q)
       /\ cache' = [cache EXCEPT ![e] = @ \ {q}]
  /\ UNCHANGED <<env, asked, up, link, nextId, net>>

\* The link is lost (external), with what it carried; each end is told.
LinkLost ==
  /\ link /\ env.down > 0
  /\ env' = [env EXCEPT !.down = @ - 1]
  /\ link' = FALSE
  /\ net' = [e \in Ends |-> <<>>]
  /\ UNCHANGED <<asked, up, chans, used, cache, nextId>>

\* Mutant: the timers of the link run on.
CacheKept(e) == UNCHANGED cache
\* CM_SignalingCacheClearByLcid
CacheClear(e) == cache' = [cache EXCEPT ![e] = {}]

\* CM_DynTransLogicLinkCbk and CM_SignalingLogicLinkCbk, disconnected: every
\* channel of the link is released, the pool destroyed, the cache cleared.
Disconnected(e) ==
  /\ ~link /\ up[e]
  /\ up' = [up EXCEPT ![e] = FALSE]
  /\ chans' = [chans EXCEPT ![e] = <<>>]
  /\ used' = [used EXCEPT ![e] = {}]
  /\ CacheClear(e)
  /\ UNCHANGED <<env, asked, link, nextId, net>>

\* connected again: CM_DynTcidActivatePool
Connected ==
  /\ \A e \in Ends : ~up[e]
  /\ link' = TRUE
  /\ up' = [e \in Ends |-> TRUE]
  /\ UNCHANGED <<env, asked, chans, used, cache, nextId, net>>

Receive(e) ==
  RecvConnectReq(e) \/ RecvConnectRsp(e) \/ RecvDisconnectReq(e) \/ RecvDisconnectRsp(e)

Next ==
  \/ \E e \in Ends :
       \/ EstablishReq(e) \/ ReleaseReq(e)
       \/ RecvConnectReq(e) \/ RecvConnectRsp(e) \/ RecvDisconnectReq(e) \/ RecvDisconnectRsp(e)
       \/ SignalingTimeout(e) \/ Disconnected(e)
  \/ LinkLost \/ Connected

\* The CP thread takes every signal, timers fire, a lost link is noticed.
Fairness ==
  \A e \in Ends : WF_vars(Receive(e)) /\ WF_vars(SignalingTimeout(e)) /\ WF_vars(Disconnected(e))

Spec == Init /\ [][Next]_vars
LiveSpec == Spec /\ Fairness

-----------------------------------------------------------------------------
(* Properties. *)

\* The pool and the channel list of an end agree: a tcid is in use exactly when
\* one channel has it, through every early return, failed send and time-out of
\* the handlers (CM_DynTcidAllocate, CM_DynTcidRelease).
TcidsMatch ==
  \A e \in Ends :
    /\ used[e] = {chans[e][i].local : i \in DOMAIN chans[e]}
    /\ \A i, j \in DOMAIN chans[e] : i # j => chans[e][i].local # chans[e][j].local

Pairs(e) == {<<n.local, n.remote>> : n \in Range(chans[e])}
Swapped(ps) == {<<p[2], p[1]>> : p \in ps}
AtRest == link /\ \A e \in Ends : up[e] /\ net[e] = <<>> /\ cache[e] = {}

\* What upsets the agreement of the ends: DTAP refused a request, which keeps its
\* timer (see FailedSendForgotten); or there is more than one channel, and both ends
\* release, repeatedly, or an end sent a release in place of an answer DTAP refused: the
\* answer to an old release then reaches a new channel of its tcid, which
\* CM_DynTransChannelReleaseRspCbk drops in any state.
Upset ==
  \/ env.refused
  \/ (env.either \/ env.replaced) /\ \E e \in Ends : asked[e] + asked[Peer(e)] > 1

\* No half-open channel: no two channels of an end answer to one remote tcid, and
\* once nothing is on its way and no timer is running, each channel of one end is
\* a channel of the other, with the tcids swapped, whatever requests crossed, went
\* unanswered, timed out or fell to a lost link, as long as nothing upsets it.
NoHalfOpen ==
  ~Upset => \A e \in Ends :
    /\ \A i, j \in DOMAIN chans[e] :
         i # j /\ chans[e][i].remote \in Tcids => chans[e][i].remote # chans[e][j].remote
    /\ AtRest => Pairs(e) = Swapped(Pairs(Peer(e)))

\* A channel that waits for an answer has a timer that will end the wait: its
\* request is in the cache until the answer has been handled.
WaitIsTimed ==
  \A e \in Ends : \A n \in Range(chans[e]) :
    n.state # "ACTIVATED" =>
      \E q \in cache[e] :
        q.src = n.local /\ q.code = (IF n.state = "ACTIVATING" THEN "ConnectReq" ELSE "DisconnectReq")

\* Every request is answered, times out or falls with the link.
EveryRequestEnds ==
  \A e \in Ends : (cache[e] # {}) ~> (cache[e] = {})

\* What the comments of the failure paths say: a request that could not be sent
\* is removed from the cache, and its timer with it.
FailedSendForgotten == \A e \in Ends : \A q \in cache[e] : q.sent
=============================================================================
