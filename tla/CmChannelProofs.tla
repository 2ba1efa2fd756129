--------------------------- MODULE CmChannelProofs ---------------------------
(***************************************************************************)
(* Proofs about the dynamic channels of a link (CmChannel): the tcid pool  *)
(* and the channel list of an end always agree (TcidsMatch), and a channel *)
(* that waits for an answer always has a timer (WaitIsTimed), for any pool *)
(* of tcids, any modulus of the identifiers and any environment.           *)
(*                                                                         *)
(* An end forgets a request when it handles an answer with its identifier, *)
(* and drops the channel the ANSWER names.  So the wait stays timed only   *)
(* if answers in flight name the channel of the request that is cached     *)
(* under their identifier, although identifiers wrap: the invariant says   *)
(* that what is in flight for the requests of an end (the request to the   *)
(* peer, or the peer's answer) matches its cache and has identifiers of    *)
(* its own (Flight).  Nothing in flight outlives a lost link.              *)
(***************************************************************************)
EXTENDS CmChannel, ListLemmas, FiniteSetTheorems

Reqs == {"ConnectReq", "DisconnectReq"}
Rsps == {"ConnectRsp", "DisconnectRsp"}
Nodes == [local : Tcids, remote : Tcids \cup {NoTcid},
          state : {"ACTIVATING", "ACTIVATED", "RELEASING"}, mine : BOOLEAN]
Signals == [code : Reqs \cup Rsps, id : Nat, src : Tcids, dst : Tcids \cup {NoTcid}, ok : BOOLEAN]
Entries == [id : Nat, code : Reqs, src : Tcids, sent : BOOLEAN]

ChanTypeOK ==
  /\ link \in BOOLEAN
  /\ chans \in [Ends -> Seq(Nodes)] /\ used \in [Ends -> SUBSET Tcids]
  /\ cache \in [Ends -> SUBSET Entries] /\ nextId \in [Ends -> Nat]
  /\ net \in [Ends -> Seq(Signals)]

\* the tcids U of a pool are those of the list L, each of one channel
PoolOK(L, U) ==
  /\ U = {L[i].local : i \in DOMAIN L}
  /\ \A i, j \in DOMAIN L : i # j => L[i].local # L[j].local

\* the code of the request whose answer a channel waits for
WaitsFor(state) == IF state = "ACTIVATING" THEN "ConnectReq" ELSE "DisconnectReq"

\* every channel of the list L that waits has its request in the cache C
Timed(L, C) ==
  \A i \in DOMAIN L : L[i].state # "ACTIVATED" =>
    \E q \in C : q.src = L[i].local /\ q.code = WaitsFor(L[i].state)

IdsDiffer(C) == \A q, r \in C : q.id = r.id => q = r

Known(C, id, code, src) == \E q \in C : q.id = id /\ q.code = code /\ q.src = src

\* Of the signals P to the peer and R from it, the requests in P and the answers
\* in R belong to entries of the cache C, each to one of its own.
ReqsKnown(C, P) == \A i \in DOMAIN P : P[i].code \in Reqs => Known(C, P[i].id, P[i].code, P[i].src)
RspsKnown(C, R) ==
  \A i \in DOMAIN R : R[i].code \in Rsps => Known(C, R[i].id, RequestCode(R[i].code), R[i].src)
OncePer(s, K) ==
  \A i, j \in DOMAIN s : s[i].code \in K /\ s[j].code \in K /\ s[i].id = s[j].id => i = j
Apart(P, R) ==
  \A i \in DOMAIN P, j \in DOMAIN R : P[i].code \in Reqs /\ R[j].code \in Rsps => P[i].id # R[j].id
Flight(C, P, R) ==
  ReqsKnown(C, P) /\ RspsKnown(C, R) /\ OncePer(P, Reqs) /\ OncePer(R, Rsps) /\ Apart(P, R)

EndOK(L, U, C) == PoolOK(L, U) /\ Timed(L, C) /\ IdsDiffer(C)

\* The inductive invariant.
ChanInv ==
  /\ ChanTypeOK
  /\ ~link => \A e \in Ends : net[e] = <<>>
  /\ \A e \in Ends : EndOK(chans[e], used[e], cache[e])
  /\ \A e \in Ends : Flight(cache[e], net[Peer(e)], net[e])

-----------------------------------------------------------------------------
(* The data. *)

\* There are two ends, each the peer of the other.
LEMMA PeerIsOther ==
    ASSUME NEW e \in Ends
    PROVE  /\ Peer(e) \in Ends /\ Peer(e) # e /\ Peer(Peer(e)) = e
           /\ \A f \in Ends : f = e \/ f = Peer(e)
<1> DEFINE S == Ends \ {e}
<1>1. IsFiniteSet(S) /\ Cardinality(S) = 1
  BY FS_RemoveElement, EndsAssumption
<1>2. S # {}
  BY <1>1, FS_EmptySet
<1>3. PICK p \in S : TRUE
  BY <1>2
<1>4. IsFiniteSet(S \ {p}) /\ Cardinality(S \ {p}) = 0
  BY <1>1, FS_RemoveElement
<1>5. S \ {p} = {}
  BY <1>4, FS_EmptySet
<1>6. \A f \in Ends : f = e \/ f = p
  BY <1>5
<1>7. p \in Ends /\ p # e
  BY <1>3
<1>8. Peer(e) = p
  BY <1>6, <1>7 DEF Peer
<1>9. Peer(p) = e
  BY <1>6, <1>7 DEF Peer
<1> QED BY <1>6, <1>7, <1>8, <1>9

\* FindByLocalTcid finds a channel with the tcid, if there is one.
LEMMA LocalFound ==
    ASSUME NEW e \in Ends, chans[e] \in Seq(Nodes), NEW t
    PROVE  LET i == FindByLocalTcid(e, t)
               L == chans[e]
           IN  /\ i = 0 \/ i \in 1 .. Len(L)
               /\ i = 0 => \A j \in 1 .. Len(L) : L[j].local # t
               /\ i # 0 => L[i].local = t
<1> DEFINE L == chans[e]
           I == {j \in 1 .. Len(L) : L[j].local = t}
<1>1. FindByLocalTcid(e, t) = IF I # {} THEN Min(I) ELSE 0
  BY DEF FindByLocalTcid, SelectInSeq
<1>2. I \subseteq Nat
  OBVIOUS
<1>3. I # {} => Min(I) \in I
  BY <1>2, MinProperties
<1> QED BY <1>1, <1>2, <1>3

\* FindByRemoteTcid finds a channel with the tcid, if there is one.
LEMMA RemoteFound ==
    ASSUME NEW e \in Ends, chans[e] \in Seq(Nodes), NEW t
    PROVE  LET i == FindByRemoteTcid(e, t)
               L == chans[e]
           IN  /\ i = 0 \/ i \in 1 .. Len(L)
               /\ i # 0 => L[i].remote = t
<1> DEFINE L == chans[e]
           I == {j \in 1 .. Len(L) : L[j].remote = t}
<1>1. FindByRemoteTcid(e, t) = IF I # {} THEN Min(I) ELSE 0
  BY DEF FindByRemoteTcid, SelectInSeq
<1>2. I \subseteq Nat
  OBVIOUS
<1>3. I # {} => Min(I) \in I
  BY <1>2, MinProperties
<1> QED BY <1>1, <1>2, <1>3

\* CM_DynTcidAllocate: a free tcid of the pool, or none.
LEMMA AllocatedIsFree ==
    ASSUME NEW e \in Ends, DynTcidAllocate(e) # NoTcid
    PROVE  DynTcidAllocate(e) \in Tcids \ used[e]
<1> DEFINE T == Tcids \ used[e]
<1>1. ~ (Tcids \subseteq used[e])
  BY DEF DynTcidAllocate
<1>2. T \subseteq Nat /\ T # {}
  BY <1>1, EndsAssumption
<1>3. \E t \in T : \A u \in T : t <= u
  BY <1>2, NatMin
<1> QED BY <1>1, <1>3 DEF DynTcidAllocate

\* CM_ActivateDynamicTransChannel: the pool and the list still agree.
LEMMA PoolAdded ==
    ASSUME NEW L \in Seq(Nodes), NEW U, PoolOK(L, U), NEW n \in Nodes, n.local \notin U
    PROVE  PoolOK(Append(L, n), U \cup {n.local})
<1> DEFINE A == Append(L, n)
<1>1. /\ A \in Seq(Nodes) /\ Len(A) = Len(L) + 1 /\ Len(L) \in Nat
      /\ \A i \in 1 .. Len(L) + 1 : A[i] = IF i \in 1 .. Len(L) THEN L[i] ELSE n
  BY AppendElements
<1>2. DOMAIN L = 1 .. Len(L) /\ DOMAIN A = 1 .. Len(L) + 1
  BY <1>1
<1> HIDE DEF A
<1>3. U = {L[i].local : i \in 1 .. Len(L)}
  BY <1>2 DEF PoolOK
<1>4. \A i, j \in 1 .. Len(L) : i # j => L[i].local # L[j].local
  BY <1>2 DEF PoolOK
<1>5. U \cup {n.local} = {A[i].local : i \in 1 .. Len(L) + 1}
  <2>1. ASSUME NEW x \in U \cup {n.local} PROVE x \in {A[i].local : i \in 1 .. Len(L) + 1}
    <3>1. CASE x = n.local
      <4>1. Len(L) + 1 \in 1 .. Len(L) + 1 /\ A[Len(L) + 1] = n
        BY <1>1
      <4> QED BY <3>1, <4>1
    <3>2. CASE x \in U
      <4>1. PICK i \in 1 .. Len(L) : x = L[i].local
        BY <1>3, <3>2
      <4>2. i \in 1 .. Len(L) + 1 /\ A[i] = L[i]
        BY <1>1
      <4> QED BY <4>1, <4>2
    <3> QED BY <3>1, <3>2
  <2>2. ASSUME NEW i \in 1 .. Len(L) + 1 PROVE A[i].local \in U \cup {n.local}
    BY <1>1, <1>3
  <2> QED BY <2>1, <2>2
<1>6. ASSUME NEW i \in 1 .. Len(L) + 1, NEW j \in 1 .. Len(L) + 1, i # j
      PROVE  A[i].local # A[j].local
  <2>1. \A k \in 1 .. Len(L) : L[k].local \in U
    BY <1>3
  <2>2. \A k \in 1 .. Len(L) : L[k].local # n.local
    BY <2>1
  <2>3. CASE i \in 1 .. Len(L) /\ j \in 1 .. Len(L)
    BY <1>1, <1>4, <1>6, <2>3
  <2>4. CASE i \notin 1 .. Len(L)
    <3>1. i = Len(L) + 1 /\ A[i] = n /\ j \in 1 .. Len(L) /\ A[j] = L[j]
      BY <1>1, <1>6, <2>4
    <3> QED BY <2>2, <3>1
  <2>5. CASE j \notin 1 .. Len(L)
    <3>1. j = Len(L) + 1 /\ A[j] = n /\ i \in 1 .. Len(L) /\ A[i] = L[i]
      BY <1>1, <1>6, <2>5
    <3> QED BY <2>2, <3>1
  <2> QED BY <2>3, <2>4, <2>5
<1> QED BY <1>2, <1>5, <1>6 DEF PoolOK, A

\* The release of a channel and of its tcid: the pool and the list still agree,
\* and no channel has the tcid any more.
LEMMA PoolDropped ==
    ASSUME NEW L \in Seq(Nodes), NEW U, PoolOK(L, U), NEW i \in 1 .. Len(L)
    PROVE  /\ PoolOK(RemoveAt(L, i), U \ {L[i].local})
           /\ \A j \in DOMAIN RemoveAt(L, i) : RemoveAt(L, i)[j].local # L[i].local
<1> DEFINE A == RemoveAt(L, i)
           at(j) == IF j < i THEN j ELSE j + 1
<1>1. /\ A \in Seq(Nodes) /\ Len(A) = Len(L) - 1
      /\ \A j \in 1 .. Len(L) - 1 : A[j] = IF j < i THEN L[j] ELSE L[j + 1]
  BY RemoveAtProperties
<1>0. Len(L) \in Nat /\ DOMAIN L = 1 .. Len(L) /\ DOMAIN A = 1 .. Len(L) - 1
  BY <1>1, LenProperties
<1> HIDE DEF A
<1>2. \A j \in 1 .. Len(L) - 1 : at(j) \in 1 .. Len(L) /\ at(j) # i /\ A[j] = L[at(j)]
  BY <1>0, <1>1
<1>3. \A j, k \in 1 .. Len(L) - 1 : j # k => at(j) # at(k)
  BY <1>0
<1>4. ASSUME NEW k \in 1 .. Len(L), k # i PROVE \E j \in 1 .. Len(L) - 1 : A[j] = L[k]
  <2>1. CASE k < i
    <3>1. k \in 1 .. Len(L) - 1
      BY <1>0, <2>1
    <3> QED BY <1>1, <2>1, <3>1
  <2>2. CASE k > i
    <3>1. k - 1 \in 1 .. Len(L) - 1 /\ ~(k - 1 < i) /\ k - 1 + 1 = k
      BY <1>0, <2>2
    <3> QED BY <1>1, <3>1
  <2> QED BY <1>4, <2>1, <2>2
<1>5. U = {L[k].local : k \in 1 .. Len(L)}
  BY <1>0 DEF PoolOK
<1>6. \A j, k \in 1 .. Len(L) : j # k => L[j].local # L[k].local
  BY <1>0 DEF PoolOK
<1> HIDE DEF at
<1>7. \A j \in 1 .. Len(L) - 1 : A[j].local # L[i].local /\ A[j].local \in U
  BY <1>2, <1>5, <1>6
<1>8. ASSUME NEW x \in U \ {L[i].local} PROVE x \in {A[j].local : j \in 1 .. Len(L) - 1}
  <2>1. PICK k \in 1 .. Len(L) : x = L[k].local
    BY <1>5
  <2>2. k # i
    BY <2>1
  <2>3. PICK j \in 1 .. Len(L) - 1 : A[j] = L[k]
    BY <1>4, <2>2
  <2> QED BY <2>1, <2>3
<1>9. U \ {L[i].local} = {A[j].local : j \in 1 .. Len(L) - 1}
  BY <1>7, <1>8
<1>10. \A j, k \in 1 .. Len(L) - 1 : j # k => A[j].local # A[k].local
  BY <1>2, <1>3, <1>6, SMTT(30)
<1>11. PoolOK(A, U \ {L[i].local})
  BY <1>0, <1>9, <1>10 DEF PoolOK
<1> QED BY <1>0, <1>7, <1>11 DEF A

\* A change of a channel's state or remote tcid leaves the pool alone.
LEMMA PoolKept ==
    ASSUME NEW L \in Seq(Nodes), NEW U, PoolOK(L, U), NEW M \in Seq(Nodes),
           DOMAIN M = DOMAIN L, \A i \in DOMAIN L : M[i].local = L[i].local
    PROVE  PoolOK(M, U)
BY DEF PoolOK

\* A channel that waits is timed by more requests too.
LEMMA TimedByMore ==
    ASSUME NEW L, NEW C, NEW D, Timed(L, C), C \subseteq D
    PROVE  Timed(L, D)
BY DEF Timed

\* A new channel: it does not wait, or its request is cached.
LEMMA TimedAdded ==
    ASSUME NEW L \in Seq(Nodes), NEW C, Timed(L, C), NEW n \in Nodes,
           n.state # "ACTIVATED" => \E q \in C : q.src = n.local /\ q.code = WaitsFor(n.state)
    PROVE  Timed(Append(L, n), C)
<1> DEFINE A == Append(L, n)
<1>1. /\ A \in Seq(Nodes) /\ Len(A) = Len(L) + 1 /\ Len(L) \in Nat
      /\ \A i \in 1 .. Len(L) + 1 : A[i] = IF i \in 1 .. Len(L) THEN L[i] ELSE n
  BY AppendElements
<1>2. DOMAIN L = 1 .. Len(L) /\ DOMAIN A = 1 .. Len(L) + 1
  BY <1>1
<1> HIDE DEF A
<1>3. ASSUME NEW i \in DOMAIN A, A[i].state # "ACTIVATED"
      PROVE  \E q \in C : q.src = A[i].local /\ q.code = WaitsFor(A[i].state)
  <2>1. CASE i \in DOMAIN L
    <3>1. A[i] = L[i]
      BY <1>1, <1>2, <2>1
    <3> QED BY <1>3, <2>1, <3>1 DEF Timed
  <2>2. CASE i \notin DOMAIN L
    <3>1. A[i] = n
      BY <1>1, <1>2, <2>2
    <3> QED BY <1>3, <3>1
  <2> QED BY <2>1, <2>2
<1> QED BY <1>3 DEF Timed, A

\* The release of a channel leaves the others timed.
LEMMA TimedDropped ==
    ASSUME NEW L \in Seq(Nodes), NEW C, Timed(L, C), NEW i \in 1 .. Len(L)
    PROVE  Timed(RemoveAt(L, i), C)
<1> DEFINE A == RemoveAt(L, i)
<1>1. /\ A \in Seq(Nodes) /\ Len(A) = Len(L) - 1
      /\ \A j \in 1 .. Len(L) - 1 : A[j] = IF j < i THEN L[j] ELSE L[j + 1]
  BY RemoveAtProperties
<1>0. Len(L) \in Nat /\ DOMAIN L = 1 .. Len(L) /\ DOMAIN A = 1 .. Len(L) - 1
  BY <1>1, LenProperties
<1> HIDE DEF A
<1>2. \A j \in DOMAIN A : \E k \in DOMAIN L : A[j] = L[k]
  BY <1>0, <1>1, SMTT(30)
<1>3. ASSUME NEW j \in DOMAIN A, A[j].state # "ACTIVATED"
      PROVE  \E q \in C : q.src = A[j].local /\ q.code = WaitsFor(A[j].state)
  <2>1. PICK k \in DOMAIN L : A[j] = L[k]
    BY <1>2
  <2> QED BY <1>3, <2>1 DEF Timed
<1> QED BY <1>3 DEF Timed, A

\* A request is forgotten when no channel waits for it: the others stay timed.
LEMMA TimedByRest ==
    ASSUME NEW L, NEW C, NEW D, Timed(L, C), NEW src, NEW code,
           \A q \in C : q \in D \/ (q.src = src /\ q.code = code),
           \A i \in DOMAIN L : L[i].local = src => L[i].state = "ACTIVATED" \/ WaitsFor(L[i].state) # code
    PROVE  Timed(L, D)
<1>1. ASSUME NEW i \in DOMAIN L, L[i].state # "ACTIVATED"
      PROVE  \E q \in D : q.src = L[i].local /\ q.code = WaitsFor(L[i].state)
  <2>1. PICK q \in C : q.src = L[i].local /\ q.code = WaitsFor(L[i].state)
    BY <1>1 DEF Timed
  <2>2. q \in D
    BY <1>1, <2>1
  <2> QED BY <2>1, <2>2
<1> QED BY <1>1 DEF Timed

-----------------------------------------------------------------------------
(* Signals in flight. *)

\* A signal is taken from those on their way.
LEMMA FlightPopped ==
    ASSUME NEW C, NEW P \in Seq(Signals), NEW R \in Seq(Signals), Flight(C, P, R)
    PROVE  /\ P # <<>> => Flight(C, Tail(P), R)
           /\ R # <<>> => Flight(C, P, Tail(R))
<1>1. ASSUME P # <<>> PROVE Flight(C, Tail(P), R)
  <2> DEFINE T == Tail(P)
  <2>1. /\ T \in Seq(Signals) /\ Len(T) = Len(P) - 1 /\ Len(P) \in Nat \ {0}
        /\ \A i \in 1 .. Len(P) - 1 : T[i] = P[i + 1]
    BY <1>1, TailElements
  <2>2. DOMAIN T = 1 .. Len(P) - 1 /\ DOMAIN P = 1 .. Len(P)
    BY <2>1
  <2> HIDE DEF T
  <2>3. \A i \in DOMAIN T : i + 1 \in DOMAIN P /\ T[i] = P[i + 1]
    BY <2>1, <2>2
  <2>4. ReqsKnown(C, T)
    BY <2>3 DEF Flight, ReqsKnown
  <2>5. OncePer(T, Reqs)
    <3>1. ASSUME NEW i \in DOMAIN T, NEW j \in DOMAIN T,
                 T[i].code \in Reqs, T[j].code \in Reqs, T[i].id = T[j].id
          PROVE  i = j
      <4>1. i + 1 = j + 1
        BY <2>3, <3>1 DEF Flight, OncePer
      <4> QED BY <2>1, <2>2, <4>1
    <3> QED BY <3>1 DEF OncePer
  <2>6. Apart(T, R)
    BY <2>3 DEF Flight, Apart
  <2> QED BY <2>4, <2>5, <2>6 DEF Flight, T
<1>2. ASSUME R # <<>> PROVE Flight(C, P, Tail(R))
  <2> DEFINE T == Tail(R)
  <2>1. /\ T \in Seq(Signals) /\ Len(T) = Len(R) - 1 /\ Len(R) \in Nat \ {0}
        /\ \A i \in 1 .. Len(R) - 1 : T[i] = R[i + 1]
    BY <1>2, TailElements
  <2>2. DOMAIN T = 1 .. Len(R) - 1 /\ DOMAIN R = 1 .. Len(R)
    BY <2>1
  <2> HIDE DEF T
  <2>3. \A i \in DOMAIN T : i + 1 \in DOMAIN R /\ T[i] = R[i + 1]
    BY <2>1, <2>2
  <2>4. RspsKnown(C, T)
    BY <2>3 DEF Flight, RspsKnown
  <2>5. OncePer(T, Rsps)
    <3>1. ASSUME NEW i \in DOMAIN T, NEW j \in DOMAIN T,
                 T[i].code \in Rsps, T[j].code \in Rsps, T[i].id = T[j].id
          PROVE  i = j
      <4>1. i + 1 = j + 1
        BY <2>3, <3>1 DEF Flight, OncePer
      <4> QED BY <2>1, <2>2, <4>1
    <3> QED BY <3>1 DEF OncePer
  <2>6. Apart(P, T)
    BY <2>3 DEF Flight, Apart
  <2> QED BY <2>4, <2>5, <2>6 DEF Flight, T
<1> QED BY <1>1, <1>2

\* The signals in flight with one more.
LEMMA SignalAdded ==
    ASSUME NEW s \in Seq(Signals), NEW m \in Signals
    PROVE  /\ Append(s, m) \in Seq(Signals)
           /\ \A i \in DOMAIN Append(s, m) :
                \/ i \in DOMAIN s /\ Append(s, m)[i] = s[i]
                \/ i = Len(s) + 1 /\ Append(s, m)[i] = m
<1> DEFINE A == Append(s, m)
<1>1. /\ A \in Seq(Signals) /\ Len(A) = Len(s) + 1 /\ Len(s) \in Nat
      /\ \A i \in 1 .. Len(s) + 1 : A[i] = IF i \in 1 .. Len(s) THEN s[i] ELSE m
  BY AppendElements
<1>2. DOMAIN s = 1 .. Len(s) /\ DOMAIN A = 1 .. Len(s) + 1
  BY <1>1
<1> HIDE DEF A
<1>3. ASSUME NEW i \in DOMAIN A PROVE (i \in DOMAIN s /\ A[i] = s[i]) \/ (i = Len(s) + 1 /\ A[i] = m)
  BY <1>1, <1>2
<1> QED BY <1>1, <1>3 DEF A

\* A signal of the other kind is none of the cache's: an answer goes to the peer,
\* or a request comes from it.
LEMMA FlightOther ==
    ASSUME NEW C, NEW P \in Seq(Signals), NEW R \in Seq(Signals), Flight(C, P, R), NEW m \in Signals
    PROVE  /\ m.code \in Rsps => Flight(C, Append(P, m), R)
           /\ m.code \in Reqs => Flight(C, P, Append(R, m))
<1>0. Reqs \cap Rsps = {}
  BY DEF Reqs, Rsps
<1>1. ASSUME m.code \in Rsps PROVE Flight(C, Append(P, m), R)
  <2> DEFINE A == Append(P, m)
  <2>1. \A i \in DOMAIN A : A[i].code \in Reqs => i \in DOMAIN P /\ A[i] = P[i]
    BY <1>0, <1>1, SignalAdded
  <2> HIDE DEF A
  <2>2. ReqsKnown(C, A)
    BY <2>1 DEF Flight, ReqsKnown
  <2>3. OncePer(A, Reqs)
    BY <2>1 DEF Flight, OncePer
  <2>4. Apart(A, R)
    BY <2>1 DEF Flight, Apart
  <2> QED BY <2>2, <2>3, <2>4 DEF Flight, A
<1>2. ASSUME m.code \in Reqs PROVE Flight(C, P, Append(R, m))
  <2> DEFINE A == Append(R, m)
  <2>1. \A i \in DOMAIN A : A[i].code \in Rsps => i \in DOMAIN R /\ A[i] = R[i]
    BY <1>0, <1>2, SignalAdded
  <2> HIDE DEF A
  <2>2. RspsKnown(C, A)
    BY <2>1 DEF Flight, RspsKnown
  <2>3. OncePer(A, Rsps)
    BY <2>1 DEF Flight, OncePer
  <2>4. Apart(P, A)
    BY <2>1 DEF Flight, Apart
  <2> QED BY <2>2, <2>3, <2>4 DEF Flight, A
<1> QED BY <1>1, <1>2

\* What is in flight is known to a cache that holds more.
LEMMA FlightMore ==
    ASSUME NEW C, NEW D, NEW P, NEW R, Flight(C, P, R), C \subseteq D
    PROVE  Flight(D, P, R)
BY DEF Flight, ReqsKnown, RspsKnown, Known

\* A request is cached under an identifier the cache does not hold, and sent.
LEMMA FlightSent ==
    ASSUME NEW C, NEW P \in Seq(Signals), NEW R \in Seq(Signals), Flight(C, P, R),
           NEW m \in Signals, m.code \in Reqs, NEW q, q.id = m.id /\ q.code = m.code /\ q.src = m.src,
           \A r \in C : r.id # m.id
    PROVE  Flight(C \cup {q}, Append(P, m), R)
<1> DEFINE A == Append(P, m)
           D == C \cup {q}
<1>1. \A i \in DOMAIN A : (i \in DOMAIN P /\ A[i] = P[i]) \/ (i = Len(P) + 1 /\ A[i] = m)
  BY SignalAdded
<1>2. Flight(D, P, R)
  BY FlightMore
<1>3. Known(D, m.id, m.code, m.src)
  BY DEF Known
<1>4. \A i \in DOMAIN P : P[i].code \in Reqs => P[i].id # m.id
  BY DEF Flight, ReqsKnown, Known
<1>5. \A i \in DOMAIN R : R[i].code \in Rsps => R[i].id # m.id
  BY DEF Flight, RspsKnown, Known
<1> HIDE DEF A, D
<1>6. ReqsKnown(D, A)
  BY <1>1, <1>2, <1>3 DEF Flight, ReqsKnown
<1>7. OncePer(A, Reqs)
  BY <1>1, <1>2, <1>4 DEF Flight, OncePer
<1>8. Apart(A, R)
  BY <1>1, <1>2, <1>5 DEF Flight, Apart
<1> QED BY <1>2, <1>6, <1>7, <1>8 DEF Flight, A, D

\* The peer takes a request and answers it: the answer takes its place.
LEMMA FlightAnswered ==
    ASSUME NEW C, NEW P \in Seq(Signals), NEW R \in Seq(Signals), Flight(C, P, R), P # <<>>,
           Head(P).code \in Reqs, NEW m \in Signals, m.code \in Rsps,
           RequestCode(m.code) = Head(P).code, m.id = Head(P).id, m.src = Head(P).src
    PROVE  Flight(C, Tail(P), Append(R, m))
<1> DEFINE A == Append(R, m)
           T == Tail(P)
<1>1. \A i \in DOMAIN A : (i \in DOMAIN R /\ A[i] = R[i]) \/ (i = Len(R) + 1 /\ A[i] = m)
  BY SignalAdded
<1>2. /\ T \in Seq(Signals) /\ Len(T) = Len(P) - 1 /\ Len(P) \in Nat \ {0}
      /\ \A i \in 1 .. Len(P) - 1 : T[i] = P[i + 1]
      /\ Head(P) = P[1]
  BY TailElements
<1>3. DOMAIN T = 1 .. Len(P) - 1 /\ DOMAIN P = 1 .. Len(P)
  BY <1>2
<1>4. Flight(C, T, R)
  BY FlightPopped
<1> HIDE DEF A, T
<1>5. 1 \in DOMAIN P
  BY <1>2, <1>3
<1>6. Known(C, m.id, RequestCode(m.code), m.src)
  BY <1>2, <1>5 DEF Flight, ReqsKnown
<1>7. ASSUME NEW i \in DOMAIN T, T[i].code \in Reqs PROVE T[i].id # m.id
  <2>1. i + 1 \in DOMAIN P /\ T[i] = P[i + 1] /\ i + 1 # 1
    BY <1>2, <1>3
  <2> QED BY <1>2, <1>5, <1>7, <2>1 DEF Flight, OncePer
<1>8. \A i \in DOMAIN R : R[i].code \in Rsps => R[i].id # m.id
  BY <1>2, <1>5 DEF Flight, Apart
<1>9. RspsKnown(C, A)
  BY <1>1, <1>4, <1>6 DEF Flight, RspsKnown
<1>10. OncePer(A, Rsps)
  BY <1>1, <1>4, <1>8 DEF Flight, OncePer
<1>11. Apart(T, A)
  BY <1>1, <1>4, <1>7 DEF Flight, Apart
<1> QED BY <1>4, <1>9, <1>10, <1>11 DEF Flight, A, T

\* An answer is handled and its request forgotten: nothing else in flight was its.
LEMMA FlightHandled ==
    ASSUME NEW C \in SUBSET Entries, NEW P \in Seq(Signals), NEW R \in Seq(Signals), Flight(C, P, R),
           R # <<>>, Head(R).code \in Rsps
    PROVE  Flight(CacheRemove(C, Head(R).id, Head(R).code), P, Tail(R))
<1> DEFINE m == Head(R)
           D == CacheRemove(C, m.id, m.code)
           T == Tail(R)
<1>2. /\ T \in Seq(Signals) /\ Len(T) = Len(R) - 1 /\ Len(R) \in Nat \ {0}
      /\ \A i \in 1 .. Len(R) - 1 : T[i] = R[i + 1]
      /\ m = R[1]
  BY TailElements
<1>3. DOMAIN T = 1 .. Len(R) - 1 /\ DOMAIN R = 1 .. Len(R)
  BY <1>2
<1>4. Flight(C, P, T)
  BY FlightPopped
<1>5. \A q \in C : q.id # m.id => q \in D
  BY DEF CacheRemove
<1>6. \A id, code, src : id # m.id /\ Known(C, id, code, src) => Known(D, id, code, src)
  BY <1>5 DEF Known
<1> HIDE DEF D, T, m
<1>7. 1 \in DOMAIN R
  BY <1>2, <1>3
<1>0. m.code \in Rsps
  BY DEF m
<1>8. ASSUME NEW i \in DOMAIN T, T[i].code \in Rsps PROVE T[i].id # m.id
  <2>1. i + 1 \in DOMAIN R /\ T[i] = R[i + 1] /\ i + 1 # 1
    BY <1>2, <1>3
  <2> QED BY <1>0, <1>2, <1>7, <1>8, <2>1 DEF Flight, OncePer
<1>9. \A i \in DOMAIN P : P[i].code \in Reqs => P[i].id # m.id
  BY <1>0, <1>2, <1>7 DEF Flight, Apart
<1>10. ReqsKnown(D, P)
  BY <1>4, <1>6, <1>9 DEF Flight, ReqsKnown
<1>11. RspsKnown(D, T)
  BY <1>4, <1>6, <1>8 DEF Flight, RspsKnown
<1>12. Flight(D, P, T)
  BY <1>4, <1>10, <1>11 DEF Flight
<1> QED BY <1>12 DEF D, T, m

\* A request with nothing in flight is forgotten.
LEMMA FlightTimedOut ==
    ASSUME NEW C \in SUBSET Entries, NEW P \in Seq(Signals), NEW R \in Seq(Signals), Flight(C, P, R),
           IdsDiffer(C), NEW q \in C,
           ~ \E m \in Range(P) : m.id = q.id /\ m.code = q.code,
           ~ \E m \in Range(R) : m.id = q.id /\ RequestCode(m.code) = q.code
    PROVE  Flight(C \ {q}, P, R)
<1> DEFINE D == C \ {q}
<1>1. \A i \in DOMAIN P : ~ (P[i].id = q.id /\ P[i].code = q.code)
  BY DEF Range
<1>2. \A i \in DOMAIN R : ~ (R[i].id = q.id /\ RequestCode(R[i].code) = q.code)
  BY DEF Range
<1>3. \A id, code, src : Known(C, id, code, src) /\ ~(id = q.id /\ code = q.code) => Known(D, id, code, src)
  BY DEF Known
<1> HIDE DEF D
<1>4. ReqsKnown(D, P)
  BY <1>1, <1>3 DEF Flight, ReqsKnown
<1>5. RspsKnown(D, R)
  BY <1>2, <1>3 DEF Flight, RspsKnown
<1>6. Flight(D, P, R)
  BY <1>4, <1>5 DEF Flight
<1> QED BY <1>6 DEF D

\* Nothing is in flight.
LEMMA FlightNone ==
    ASSUME NEW C
    PROVE  Flight(C, <<>>, <<>>)
<1>1. DOMAIN <<>> = {}
  OBVIOUS
<1> QED BY <1>1 DEF Flight, ReqsKnown, RspsKnown, OncePer, Apart

-----------------------------------------------------------------------------
(* The parts of a step of an end: the channel list, and the signals. *)

\* The list of e and its pool change together, those of the peer do not.
ListStep(e) ==
  /\ chans' \in [Ends -> Seq(Nodes)] /\ used' \in [Ends -> SUBSET Tcids]
  /\ chans'[Peer(e)] = chans[Peer(e)] /\ used'[Peer(e)] = used[Peer(e)]
  /\ PoolOK(chans'[e], used'[e])

\* What is in flight in n suits the cache C of e and the cache D of its peer.
NetOK(C, D, n, e) ==
  /\ n \in [Ends -> Seq(Signals)]
  /\ ~link => n[e] = <<>> /\ n[Peer(e)] = <<>>
  /\ Flight(C, n[Peer(e)], n[e]) /\ Flight(D, n[e], n[Peer(e)])

\* The cache of e and its identifier change, those of the peer do not.
CacheStep(e) ==
  /\ cache' \in [Ends -> SUBSET Entries] /\ nextId' \in [Ends -> Nat]
  /\ cache'[Peer(e)] = cache[Peer(e)]
  /\ IdsDiffer(cache'[e])

\* The parts make a step that keeps the invariant.
LEMMA EndStep ==
    ASSUME ChanInv, NEW e \in Ends, link' = link, ListStep(e), CacheStep(e),
           Timed(chans'[e], cache'[e]), NetOK(cache'[e], cache[Peer(e)], net', e)
    PROVE  ChanInv'
<1> DEFINE p == Peer(e)
<1>1. p \in Ends /\ p # e /\ Peer(p) = e /\ \A f \in Ends : f = e \/ f = p
  BY PeerIsOther
<1>2. EndOK(chans[p], used[p], cache[p])
  BY <1>1 DEF ChanInv
<1>3. EndOK(chans'[p], used'[p], cache'[p])
  BY <1>2 DEF ListStep, CacheStep
<1>4. EndOK(chans'[e], used'[e], cache'[e])
  BY DEF ListStep, CacheStep, EndOK
<1>5. Flight(cache'[e], net'[Peer(e)], net'[e])
  BY DEF NetOK
<1>6. Flight(cache'[p], net'[Peer(p)], net'[p])
  BY <1>1 DEF NetOK, CacheStep
<1>7. ChanTypeOK'
  BY DEF ChanInv, ChanTypeOK, ListStep, CacheStep, NetOK
<1>8. ~link' => \A f \in Ends : net'[f] = <<>>
  BY <1>1 DEF NetOK
<1> QED BY <1>1, <1>3, <1>4, <1>5, <1>6, <1>7, <1>8 DEF ChanInv

\* What the invariant says of one end.
LEMMA EndFacts ==
    ASSUME ChanInv, NEW e \in Ends
    PROVE  /\ chans[e] \in Seq(Nodes) /\ used[e] \in SUBSET Tcids
           /\ cache[e] \in SUBSET Entries /\ nextId[e] \in Nat
           /\ net[e] \in Seq(Signals) /\ net[Peer(e)] \in Seq(Signals)
           /\ PoolOK(chans[e], used[e]) /\ Timed(chans[e], cache[e]) /\ IdsDiffer(cache[e])
           /\ NetOK(cache[e], cache[Peer(e)], net, e)
<1>1. Peer(e) \in Ends /\ Peer(Peer(e)) = e
  BY PeerIsOther
<1>2. /\ chans[e] \in Seq(Nodes) /\ used[e] \in SUBSET Tcids
      /\ cache[e] \in SUBSET Entries /\ nextId[e] \in Nat
      /\ net[e] \in Seq(Signals) /\ net[Peer(e)] \in Seq(Signals)
  BY <1>1 DEF ChanInv, ChanTypeOK
<1>3. PoolOK(chans[e], used[e]) /\ Timed(chans[e], cache[e]) /\ IdsDiffer(cache[e])
  BY DEF ChanInv, EndOK
<1>4. Flight(cache[e], net[Peer(e)], net[e])
  BY DEF ChanInv
<1>5. Flight(cache[Peer(e)], net[e], net[Peer(e)])
  BY <1>1 DEF ChanInv
<1>6. NetOK(cache[e], cache[Peer(e)], net, e)
  BY <1>1, <1>4, <1>5 DEF ChanInv, ChanTypeOK, NetOK
<1> QED BY <1>2, <1>3, <1>6

\* The list is left alone.
LEMMA NodesKept ==
    ASSUME ChanInv, NEW e \in Ends, KeepNodes
    PROVE  ListStep(e) /\ chans'[e] = chans[e]
<1>1. PoolOK(chans[e], used[e])
  BY EndFacts
<1> QED BY <1>1 DEF ChanInv, ChanTypeOK, ListStep, KeepNodes

\* A channel joins the list.
LEMMA NodeAdded ==
    ASSUME ChanInv, NEW e \in Ends, NEW l \in Tcids \ used[e], NEW r \in Tcids \cup {NoTcid},
           NEW state \in {"ACTIVATING", "ACTIVATED"}, NEW mine \in BOOLEAN,
           AddNode(e, l, r, state, mine)
    PROVE  /\ ListStep(e)
           /\ \A C : /\ Timed(chans[e], C)
                     /\ state # "ACTIVATED" => \E q \in C : q.src = l /\ q.code = WaitsFor(state)
                     => Timed(chans'[e], C)
<1> DEFINE n == [local |-> l, remote |-> r, state |-> state, mine |-> mine]
<1>1. n \in Nodes /\ n.local = l /\ n.state = state
  BY DEF Nodes
<1>2. chans' = [chans EXCEPT ![e] = Append(@, n)] /\ used' = [used EXCEPT ![e] = @ \cup {l}]
  BY DEF AddNode
<1> HIDE DEF n
<1>3. Peer(e) \in Ends /\ Peer(e) # e
  BY PeerIsOther
<1>4. chans[e] \in Seq(Nodes) /\ used[e] \in SUBSET Tcids /\ PoolOK(chans[e], used[e])
  BY EndFacts
<1>5. Append(chans[e], n) \in Seq(Nodes)
  BY <1>1, <1>4, AppendElements
<1>6. PoolOK(Append(chans[e], n), used[e] \cup {l})
  BY <1>1, <1>4, PoolAdded
<1>7. chans'[e] = Append(chans[e], n) /\ used'[e] = used[e] \cup {l}
  BY <1>2 DEF ChanInv, ChanTypeOK
<1>8. ListStep(e)
  BY <1>2, <1>3, <1>4, <1>5, <1>6, <1>7 DEF ChanInv, ChanTypeOK, ListStep
<1>9. ASSUME NEW C, Timed(chans[e], C),
             state # "ACTIVATED" => \E q \in C : q.src = l /\ q.code = WaitsFor(state)
      PROVE  Timed(chans'[e], C)
  <2>1. Timed(Append(chans[e], n), C)
    BY <1>1, <1>4, <1>9, TimedAdded
  <2> QED BY <1>7, <2>1
<1> QED BY <1>8, <1>9

\* A channel leaves the list, and its tcid the pool.
LEMMA NodeDropped ==
    ASSUME ChanInv, NEW e \in Ends, NEW i \in 1 .. Len(chans[e]), DropNode(e, i)
    PROVE  /\ ListStep(e)
           /\ \A C : Timed(chans[e], C) => Timed(chans'[e], C)
           /\ \A j \in DOMAIN chans'[e] : chans'[e][j].local # chans[e][i].local
<1> DEFINE t == chans[e][i].local
           A == RemoveAt(chans[e], i)
<1>1. Peer(e) \in Ends /\ Peer(e) # e
  BY PeerIsOther
<1>2. chans[e] \in Seq(Nodes) /\ used[e] \in SUBSET Tcids /\ PoolOK(chans[e], used[e])
  BY EndFacts
<1>3. A \in Seq(Nodes)
  BY <1>2, RemoveAtProperties
<1>4. PoolOK(A, used[e] \ {t}) /\ \A j \in DOMAIN A : A[j].local # t
  BY <1>2, PoolDropped
<1>5. chans' = [chans EXCEPT ![e] = A] /\ used' = [used EXCEPT ![e] = @ \ {t}]
  BY DEF DropNode, DynTcidRelease
<1>6. \A C : Timed(chans[e], C) => Timed(A, C)
  BY <1>2, TimedDropped
<1> HIDE DEF t, A
<1>7. chans'[e] = A /\ used'[e] = used[e] \ {t}
  BY <1>5 DEF ChanInv, ChanTypeOK
<1>8. ListStep(e)
  BY <1>1, <1>2, <1>3, <1>4, <1>5, <1>7 DEF ChanInv, ChanTypeOK, ListStep
<1>9. t = chans[e][i].local
  BY DEF t
<1> QED BY <1>4, <1>6, <1>7, <1>8, <1>9

\* A channel changes its state and its remote tcid.
LEMMA NodeChanged ==
    ASSUME ChanInv, NEW e \in Ends, NEW i \in 1 .. Len(chans[e]), NEW n \in Nodes,
           n.local = chans[e][i].local,
           chans' = [chans EXCEPT ![e] = [@ EXCEPT ![i] = n]], UNCHANGED used
    PROVE  /\ ListStep(e)
           /\ \A C : /\ Timed(chans[e], C)
                     /\ n.state # "ACTIVATED" => \E q \in C : q.src = n.local /\ q.code = WaitsFor(n.state)
                     => Timed(chans'[e], C)
           /\ DOMAIN chans'[e] = DOMAIN chans[e]
           /\ \A j \in DOMAIN chans[e] : chans'[e][j] = IF j = i THEN n ELSE chans[e][j]
<1> DEFINE L == chans[e]
           M == [L EXCEPT ![i] = n]
<1>1. Peer(e) \in Ends /\ Peer(e) # e
  BY PeerIsOther
<1>2. L \in Seq(Nodes) /\ used[e] \in SUBSET Tcids /\ PoolOK(L, used[e])
  BY EndFacts
<1>3. /\ M \in Seq(Nodes) /\ DOMAIN M = DOMAIN L /\ i \in DOMAIN L
      /\ \A j \in DOMAIN L : M[j] = IF j = i THEN n ELSE L[j]
  BY <1>2
<1>4. chans' = [chans EXCEPT ![e] = M] /\ chans'[e] = M
  BY DEF ChanInv, ChanTypeOK
<1>5. n.local = L[i].local
  OBVIOUS
<1> HIDE DEF L, M
<1>6. \A j \in DOMAIN L : M[j].local = L[j].local
  BY <1>3, <1>5
<1>7. PoolOK(M, used[e])
  BY <1>2, <1>3, <1>6, PoolKept
<1>8. ListStep(e)
  BY <1>1, <1>2, <1>3, <1>4, <1>7 DEF ChanInv, ChanTypeOK, ListStep
<1>9. ASSUME NEW C, Timed(L, C),
             n.state # "ACTIVATED" => \E q \in C : q.src = n.local /\ q.code = WaitsFor(n.state)
      PROVE  Timed(M, C)
  <2>1. ASSUME NEW j \in DOMAIN M, M[j].state # "ACTIVATED"
        PROVE  \E q \in C : q.src = M[j].local /\ q.code = WaitsFor(M[j].state)
    <3>1. CASE j = i
      <4>1. M[j] = n
        BY <1>3, <3>1
      <4> QED BY <1>9, <2>1, <4>1
    <3>2. CASE j # i
      <4>1. M[j] = L[j] /\ j \in DOMAIN L
        BY <1>3, <3>2
      <4> QED BY <1>9, <2>1, <4>1 DEF Timed
    <3> QED BY <3>1, <3>2
  <2> QED BY <2>1 DEF Timed
<1>10. L = chans[e]
  BY DEF L
<1> QED BY <1>3, <1>4, <1>8, <1>9, <1>10

\* An answer to an establishment, or its time-out: no channel of its tcid waits
\* for it any more.
LEMMA RspToEstablish ==
    ASSUME ChanInv, NEW e \in Ends, NEW src \in Tcids, NEW dst \in Tcids \cup {NoTcid}, NEW ok,
           EstablishRsp(e, src, dst, ok)
    PROVE  /\ ListStep(e)
           /\ \A C : Timed(chans[e], C) => Timed(chans'[e], C)
           /\ \A j \in DOMAIN chans'[e] : chans'[e][j].local = src => chans'[e][j].state # "ACTIVATING"
<1> DEFINE L == chans[e]
<1>0. L \in Seq(Nodes) /\ PoolOK(L, used[e])
  BY EndFacts
<1>1. PICK i : i = FindByLocalTcid(e, src)
  OBVIOUS
<1>2. /\ i = 0 \/ i \in 1 .. Len(L)
      /\ i = 0 => \A j \in 1 .. Len(L) : L[j].local # src
      /\ i # 0 => L[i].local = src
  BY <1>0, <1>1, LocalFound
<1>3. DOMAIN L = 1 .. Len(L)
  BY <1>0
<1>4. \A j \in DOMAIN L : L[j].local = src => j = i
  BY <1>0, <1>2, <1>3 DEF PoolOK
<1>5. CASE ~Establishing(e, i) /\ KeepNodes
  <2>1. ListStep(e) /\ chans'[e] = L
    BY <1>5, NodesKept
  <2>2. i # 0 => L[i].state # "ACTIVATING"
    BY <1>5 DEF Establishing
  <2>3. \A j \in DOMAIN L : L[j].local = src => L[j].state # "ACTIVATING"
    BY <1>2, <1>3, <1>4, <2>2
  <2> QED BY <2>1, <2>3
<1>6. CASE /\ Establishing(e, i) /\ UNCHANGED used
           /\ chans' = [chans EXCEPT ![e][i].state = "ACTIVATED", ![e][i].remote = dst]
  <2>1. i \in 1 .. Len(L)
    BY <1>2, <1>6 DEF Establishing
  <2>2. L[i] \in Nodes
    BY <1>0, <2>1
  <2> DEFINE n == [L[i] EXCEPT !.state = "ACTIVATED", !.remote = dst]
  <2>3. n \in Nodes /\ n.local = L[i].local /\ n.state = "ACTIVATED"
    BY <2>2 DEF Nodes
  <2>4. chans' = [chans EXCEPT ![e] = [@ EXCEPT ![i] = n]]
    BY <1>6, <1>0, <2>1 DEF ChanInv, ChanTypeOK
  <2> HIDE DEF n
  <2>0. UNCHANGED used
    BY <1>6
  <2>7. /\ ListStep(e)
        /\ \A C : /\ Timed(L, C)
                  /\ n.state # "ACTIVATED" => \E q \in C : q.src = n.local /\ q.code = WaitsFor(n.state)
                  => Timed(chans'[e], C)
        /\ DOMAIN chans'[e] = DOMAIN L
        /\ \A j \in DOMAIN L : chans'[e][j] = IF j = i THEN n ELSE L[j]
    BY <2>0, <2>1, <2>3, <2>4, NodeChanged
  <2>5. /\ ListStep(e)
        /\ \A C : Timed(L, C) => Timed(chans'[e], C)
        /\ DOMAIN chans'[e] = DOMAIN L
        /\ \A j \in DOMAIN L : chans'[e][j] = IF j = i THEN n ELSE L[j]
    BY <2>3, <2>7
  <2>6. \A j \in DOMAIN L : j # i => L[j].local # src
    BY <1>4
  <2> QED BY <2>3, <2>5, <2>6
<1>7. CASE Establishing(e, i) /\ DropNode(e, i)
  <2>1. i \in 1 .. Len(L) /\ L[i].local = src
    BY <1>2, <1>7 DEF Establishing
  <2> QED BY <1>7, <2>1, NodeDropped
<1> QED BY <1>1, <1>5, <1>6, <1>7 DEF EstablishRsp

\* An answer to a release, or its time-out: no channel has its tcid any more.
LEMMA RspToRelease ==
    ASSUME ChanInv, NEW e \in Ends, NEW src, ReleaseRsp(e, src)
    PROVE  /\ ListStep(e)
           /\ \A C : Timed(chans[e], C) => Timed(chans'[e], C)
           /\ \A j \in DOMAIN chans'[e] : chans'[e][j].local # src
<1> DEFINE L == chans[e]
<1>0. L \in Seq(Nodes)
  BY EndFacts
<1>1. PICK i : i = FindByLocalTcid(e, src)
  OBVIOUS
<1>2. /\ i = 0 \/ i \in 1 .. Len(L)
      /\ i = 0 => \A j \in 1 .. Len(L) : L[j].local # src
      /\ i # 0 => L[i].local = src
  BY <1>0, <1>1, LocalFound
<1>3. DOMAIN L = 1 .. Len(L)
  BY <1>0
<1>4. CASE i = 0
  <2>1. ListStep(e) /\ chans'[e] = L
    BY <1>1, <1>4, NodesKept DEF ReleaseRsp
  <2> QED BY <1>2, <1>3, <1>4, <2>1
<1>5. CASE i # 0
  <2>1. i \in 1 .. Len(L) /\ L[i].local = src /\ DropNode(e, i)
    BY <1>1, <1>2, <1>5 DEF ReleaseRsp
  <2> QED BY <2>1, NodeDropped
<1> QED BY <1>4, <1>5

\* A signal is taken from the queue of e.
LEMMA SignalPopped ==
    ASSUME ChanInv, NEW e \in Ends, net[e] # <<>>
    PROVE  /\ link /\ Head(net[e]) \in Signals
           /\ Popped(e)[e] = Tail(net[e]) /\ Popped(e)[Peer(e)] = net[Peer(e)]
           /\ NetOK(cache[e], cache[Peer(e)], Popped(e), e)
<1> DEFINE p == Peer(e)
           n == Popped(e)
<1>1. p \in Ends /\ p # e
  BY PeerIsOther
<1>2. net[e] \in Seq(Signals) /\ net[p] \in Seq(Signals) /\ NetOK(cache[e], cache[p], net, e)
  BY EndFacts
<1>3. link
  BY <1>2 DEF NetOK
<1>4. Tail(net[e]) \in Seq(Signals) /\ Head(net[e]) \in Signals
  BY <1>2, TailElements
<1>5. n \in [Ends -> Seq(Signals)] /\ n[e] = Tail(net[e]) /\ n[p] = net[p]
  BY <1>1, <1>4 DEF ChanInv, ChanTypeOK, Popped
<1>6. Flight(cache[e], net[p], Tail(net[e]))
  BY <1>2, FlightPopped DEF NetOK
<1>7. Flight(cache[p], Tail(net[e]), net[p])
  BY <1>2, FlightPopped DEF NetOK
<1> QED BY <1>3, <1>4, <1>5, <1>6, <1>7 DEF NetOK

\* The answer of e to a request of its peer.
LEMMA SignalAnswered ==
    ASSUME ChanInv, NEW e \in Ends, net[e] # <<>>, Head(net[e]).code \in Reqs,
           NEW m \in Signals, m.code \in Rsps, RequestCode(m.code) = Head(net[e]).code,
           m.id = Head(net[e]).id, m.src = Head(net[e]).src
    PROVE  NetOK(cache[e], cache[Peer(e)], Answer(e, m), e)
<1> DEFINE p == Peer(e)
           n == Answer(e, m)
<1>1. p \in Ends /\ p # e
  BY PeerIsOther
<1>2. /\ link /\ Popped(e)[e] = Tail(net[e]) /\ Popped(e)[p] = net[p]
      /\ NetOK(cache[e], cache[p], Popped(e), e)
  BY SignalPopped
<1>3. net[e] \in Seq(Signals) /\ net[p] \in Seq(Signals) /\ NetOK(cache[e], cache[p], net, e)
  BY EndFacts
<1>4. Append(net[p], m) \in Seq(Signals)
  BY <1>3, SignalAdded
<1>5. n \in [Ends -> Seq(Signals)] /\ n[e] = Tail(net[e]) /\ n[p] = Append(net[p], m)
  BY <1>1, <1>2, <1>4 DEF NetOK, Answer, Transmit
<1>6. Flight(cache[p], Tail(net[e]), Append(net[p], m))
  BY <1>3, FlightAnswered DEF NetOK
<1>7. Flight(cache[e], net[p], Tail(net[e])) /\ Tail(net[e]) \in Seq(Signals)
  BY <1>2, <1>3, TailElements DEF NetOK
<1>8. Flight(cache[e], Append(net[p], m), Tail(net[e]))
  BY <1>3, <1>7, FlightOther
<1> QED BY <1>2, <1>5, <1>6, <1>8 DEF NetOK

\* An answer is handled: e forgets the request it answers.
LEMMA AnswerHandled ==
    ASSUME ChanInv, NEW e \in Ends, net[e] # <<>>, Head(net[e]).code \in Rsps
    PROVE  /\ NetOK(CacheRemove(cache[e], Head(net[e]).id, Head(net[e]).code), cache[Peer(e)], Popped(e), e)
           /\ \A q \in cache[e] :
                \/ q \in CacheRemove(cache[e], Head(net[e]).id, Head(net[e]).code)
                \/ q.src = Head(net[e]).src /\ q.code = RequestCode(Head(net[e]).code)
<1> DEFINE p == Peer(e)
           m == Head(net[e])
           D == CacheRemove(cache[e], m.id, m.code)
<1>1. /\ link /\ Popped(e)[e] = Tail(net[e]) /\ Popped(e)[p] = net[p]
      /\ NetOK(cache[e], cache[p], Popped(e), e)
  BY SignalPopped
<1>2. /\ net[e] \in Seq(Signals) /\ net[p] \in Seq(Signals) /\ cache[e] \in SUBSET Entries
      /\ IdsDiffer(cache[e]) /\ NetOK(cache[e], cache[p], net, e)
  BY EndFacts
<1>3. Flight(cache[e], net[p], net[e])
  BY <1>2 DEF NetOK
<1>4. Flight(D, net[p], Tail(net[e]))
  BY <1>2, <1>3, FlightHandled
<1>5. m = net[e][1] /\ 1 \in DOMAIN net[e]
  <2>1. Head(net[e]) = net[e][1] /\ Len(net[e]) \in Nat \ {0}
    BY <1>2, TailElements
  <2> QED BY <1>2, <2>1
<1>6. PICK r \in cache[e] : r.id = m.id /\ r.code = RequestCode(m.code) /\ r.src = m.src
  BY <1>3, <1>5 DEF Flight, RspsKnown, Known
<1>7. ASSUME NEW q \in cache[e], q \notin D PROVE q.src = m.src /\ q.code = RequestCode(m.code)
  <2>1. q.id = m.id
    BY <1>7 DEF CacheRemove
  <2>2. q = r
    BY <1>2, <1>6, <2>1 DEF IdsDiffer
  <2> QED BY <1>6, <2>2
<1>8. NetOK(D, cache[p], Popped(e), e)
  BY <1>1, <1>4 DEF NetOK
<1> QED BY <1>7, <1>8

\* The cache with a request under the next identifier, sent or not: its own code
\* does not remove it again.
LEMMA RequestCached ==
    ASSUME ChanInv, NEW e \in Ends, NEW code \in Reqs, NEW src \in Tcids, NEW sent \in BOOLEAN
    PROVE  \E q \in Entries : /\ q.id = nextId[e] /\ q.code = code /\ q.src = src
                              /\ Cached(e, code, src, sent) = cache[e] \cup {q}
<1> DEFINE q == [id |-> nextId[e], code |-> code, src |-> src, sent |-> sent]
           D == cache[e] \cup {q}
<1>1. cache[e] \in SUBSET Entries /\ nextId[e] \in Nat
  BY EndFacts
<1>2. q \in Entries /\ q.id = nextId[e] /\ q.code = code /\ q.src = src
  BY <1>1 DEF Entries
<1>3. \A r \in D : r.code \in Reqs
  BY <1>1, <1>2 DEF Entries
<1>4. RequestCode("None") = "None" /\ RequestCode(code) = "None" /\ "None" \notin Reqs
  BY DEF RequestCode, Reqs
<1>5. CacheRemove(D, nextId[e], IF sent THEN "None" ELSE code) = D
  <2>1. RequestCode(IF sent THEN "None" ELSE code) = "None"
    BY <1>4
  <2> QED BY <1>3, <1>4, <2>1 DEF CacheRemove
<1>6. Cached(e, code, src, sent) = D
  BY <1>5 DEF Cached
<1> HIDE DEF q
<1> QED BY <1>2, <1>6

\* A request joins the cache under an identifier the cache does not hold.
LEMMA CacheMore ==
    ASSUME ChanInv, NEW e \in Ends, NEW q \in Entries, q.id = nextId[e], CanCache(e), TakeId(e),
           cache' = [cache EXCEPT ![e] = @ \cup {q}]
    PROVE  CacheStep(e) /\ cache'[e] = cache[e] \cup {q}
<1> DEFINE D == cache[e] \cup {q}
<1>1. cache[e] \in SUBSET Entries /\ nextId[e] \in Nat /\ IdsDiffer(cache[e])
  BY EndFacts
<1>7. D \in SUBSET Entries
  BY <1>1
<1>8. IdsDiffer(D)
  BY <1>1 DEF IdsDiffer, CanCache
<1>9. cache' = [cache EXCEPT ![e] = D] /\ cache'[e] = D
  BY DEF ChanInv, ChanTypeOK
<1> HIDE DEF D
<1>14. cache' \in [Ends -> SUBSET Entries]
  BY <1>7, <1>9 DEF ChanInv, ChanTypeOK
<1>10. Peer(e) # e /\ Peer(e) \in Ends
  BY PeerIsOther
<1>11. cache'[Peer(e)] = cache[Peer(e)]
  BY <1>9, <1>10 DEF ChanInv, ChanTypeOK
<1>12. (nextId[e] + 1) % IdModulus \in Nat
  BY <1>1, EndsAssumption
<1>13. nextId' \in [Ends -> Nat]
  BY <1>12 DEF TakeId, ChanInv, ChanTypeOK
<1> QED BY <1>8, <1>9, <1>11, <1>13, <1>14 DEF CacheStep, D

\* A request is sent: its entry times it.
LEMMA RequestSent ==
    ASSUME ChanInv, NEW e \in Ends, NEW n, NetOK(cache[e], cache[Peer(e)], n, e),
           NEW code \in Reqs, NEW src \in Tcids, NEW dst \in Tcids \cup {NoTcid},
           SendReq(n, e, code, src, dst)
    PROVE  /\ CacheStep(e) /\ NetOK(cache'[e], cache[Peer(e)], net', e)
           /\ cache[e] \subseteq cache'[e]
           /\ \E q \in cache'[e] : q.src = src /\ q.code = code
<1> DEFINE p == Peer(e)
           m == Signal(code, nextId[e], src, dst, TRUE)
<1>1. p \in Ends /\ p # e
  BY PeerIsOther
<1>10. \A sent \in BOOLEAN :
         \E q \in Entries : /\ q.id = nextId[e] /\ q.code = code /\ q.src = src
                            /\ Cached(e, code, src, sent) = cache[e] \cup {q}
  BY RequestCached
<1>3. PICK q \in Entries : /\ q.id = nextId[e] /\ q.code = code /\ q.src = src
                           /\ Cached(e, code, src, TRUE) = cache[e] \cup {q}
  BY <1>10
<1>0. CanCache(e) /\ cache' = [cache EXCEPT ![e] = cache[e] \cup {q}] /\ TakeId(e)
  BY <1>3 DEF SendReq
<1>2. CacheStep(e) /\ cache'[e] = cache[e] \cup {q}
  BY <1>0, <1>3, CacheMore
<1>4. nextId[e] \in Nat
  BY EndFacts
<1>5. m \in Signals /\ m.code = code /\ m.id = nextId[e] /\ m.src = src
  BY <1>4 DEF Signals, Signal
<1>6. net' = Transmit(n, e, m) /\ \A r \in cache[e] : r.id # nextId[e]
  BY DEF SendReq, CanCache
<1> HIDE DEF m
<1>7. n \in [Ends -> Seq(Signals)] /\ n[e] \in Seq(Signals) /\ n[p] \in Seq(Signals)
  BY <1>1 DEF NetOK
<1>8. Flight(cache[e], n[p], n[e]) /\ Flight(cache[p], n[e], n[p])
  BY DEF NetOK
<1>9. NetOK(cache'[e], cache[p], net', e)
  <2>1. CASE link
    <3>1. Append(n[p], m) \in Seq(Signals)
      BY <1>5, <1>7, SignalAdded
    <3>2. net' \in [Ends -> Seq(Signals)] /\ net'[e] = n[e] /\ net'[p] = Append(n[p], m)
      BY <1>1, <1>6, <1>7, <2>1, <3>1 DEF Transmit
    <3>3. Flight(cache[e] \cup {q}, Append(n[p], m), n[e])
      BY <1>3, <1>5, <1>6, <1>7, <1>8, FlightSent
    <3>4. Flight(cache[p], n[e], Append(n[p], m))
      BY <1>5, <1>7, <1>8, FlightOther
    <3> QED BY <1>2, <2>1, <3>2, <3>3, <3>4 DEF NetOK
  <2>2. CASE ~link
    <3>1. net' \in [Ends -> Seq(Signals)] /\ net'[e] = n[e] /\ net'[p] = n[p]
      BY <1>1, <1>6, <1>7, <2>2 DEF Transmit
    <3>2. n[e] = <<>> /\ n[p] = <<>>
      BY <2>2 DEF NetOK
    <3> QED BY <3>1, <3>2, FlightNone DEF NetOK
  <2> QED BY <2>1, <2>2
<1> QED BY <1>2, <1>3, <1>9

\* A request cannot be sent: at most an entry stays behind.
LEMMA RequestFails ==
    ASSUME ChanInv, NEW e \in Ends, NEW n, NetOK(cache[e], cache[Peer(e)], n, e),
           NEW code \in Reqs, NEW src \in Tcids, SendReqFails(n, e, code, src)
    PROVE  /\ CacheStep(e) /\ NetOK(cache'[e], cache[Peer(e)], net', e)
           /\ cache[e] \subseteq cache'[e]
<1>1. CASE UNCHANGED cache
  <2>1. cache[e] \in SUBSET Entries /\ nextId[e] \in Nat /\ IdsDiffer(cache[e])
    BY EndFacts
  <2>2. (nextId[e] + 1) % IdModulus \in Nat
    BY <2>1, EndsAssumption
  <2>3. nextId' \in [Ends -> Nat]
    BY <2>2 DEF TakeId, SendReqFails, ChanInv, ChanTypeOK
  <2> QED BY <1>1, <2>1, <2>3 DEF CacheStep, SendReqFails, ChanInv, ChanTypeOK
<1>2. CASE CanCache(e) /\ cache' = [cache EXCEPT ![e] = Cached(e, code, src, FALSE)]
  <2>1. TakeId(e) /\ net' = n
    BY DEF SendReqFails
  <2>4. \A sent \in BOOLEAN :
           \E q \in Entries : q.id = nextId[e] /\ Cached(e, code, src, sent) = cache[e] \cup {q}
    BY RequestCached
  <2>5. PICK q \in Entries : q.id = nextId[e] /\ Cached(e, code, src, FALSE) = cache[e] \cup {q}
    BY <2>4
  <2>6. cache' = [cache EXCEPT ![e] = cache[e] \cup {q}]
    BY <1>2, <2>5
  <2>2. CacheStep(e) /\ cache'[e] = cache[e] \cup {q}
    BY <1>2, <2>1, <2>5, <2>6, CacheMore
  <2>3. cache[e] \subseteq cache'[e]
    BY <2>2
  <2> QED BY <2>1, <2>2, <2>3, FlightMore DEF NetOK
<1> QED BY <1>1, <1>2 DEF SendReqFails

-----------------------------------------------------------------------------
(* The actions. *)

\* The cache is left alone.
LEMMA CacheSame ==
    ASSUME ChanInv, NEW e \in Ends, UNCHANGED <<cache, nextId>>
    PROVE  CacheStep(e)
<1>1. IdsDiffer(cache[e])
  BY EndFacts
<1> QED BY <1>1 DEF CacheStep, ChanInv, ChanTypeOK

\* CM_DynTransChannelEstablishReq.
LEMMA EstablishReqStep ==
    ASSUME ChanInv, NEW e \in Ends, EstablishReq(e)
    PROVE  ChanInv'
<1>1. PICK t : t = DynTcidAllocate(e)
  OBVIOUS
<1>2. t # NoTcid /\ link' = link
  BY <1>1 DEF EstablishReq
<1>3. t \in Tcids \ used[e]
  BY <1>1, <1>2, AllocatedIsFree
<1>4. Timed(chans[e], cache[e]) /\ NetOK(cache[e], cache[Peer(e)], net, e)
  BY EndFacts
<1>0. "ConnectReq" \in Reqs /\ WaitsFor("ACTIVATING") = "ConnectReq"
  BY DEF Reqs, WaitsFor
<1>5. CASE SendReq(net, e, "ConnectReq", t, NoTcid) /\ AddNode(e, t, NoTcid, "ACTIVATING", TRUE)
  <2>1. /\ CacheStep(e) /\ NetOK(cache'[e], cache[Peer(e)], net', e)
        /\ cache[e] \subseteq cache'[e]
        /\ \E q \in cache'[e] : q.src = t /\ q.code = "ConnectReq"
    BY <1>0, <1>3, <1>4, <1>5, RequestSent
  <2>2. Timed(chans[e], cache'[e])
    BY <1>4, <2>1, TimedByMore
  <2>3. ListStep(e) /\ Timed(chans'[e], cache'[e])
    BY <1>0, <1>3, <1>5, <2>1, <2>2, NodeAdded
  <2> QED BY <1>2, <2>1, <2>3, EndStep
<1>6. CASE SendReqFails(net, e, "ConnectReq", t) /\ KeepNodes
  <2>1. /\ CacheStep(e) /\ NetOK(cache'[e], cache[Peer(e)], net', e)
        /\ cache[e] \subseteq cache'[e]
    BY <1>0, <1>3, <1>4, <1>6, RequestFails
  <2>2. ListStep(e) /\ chans'[e] = chans[e]
    BY <1>6, NodesKept
  <2>3. Timed(chans'[e], cache'[e])
    BY <1>4, <2>1, <2>2, TimedByMore
  <2> QED BY <1>2, <2>1, <2>2, <2>3, EndStep
<1> QED BY <1>1, <1>5, <1>6 DEF EstablishReq

\* CM_DynTransChannelReleaseReq.
LEMMA ReleaseReqStep ==
    ASSUME ChanInv, NEW e \in Ends, ReleaseReq(e)
    PROVE  ChanInv'
<1> DEFINE L == chans[e]
<1>1. link' = link /\ UNCHANGED used
  BY DEF ReleaseReq
<1>2. PICK i \in DOMAIN L :
        \/ /\ SendReq(net, e, "DisconnectReq", L[i].local, L[i].remote)
           /\ chans' = [chans EXCEPT ![e][i].state = "RELEASING"]
        \/ /\ SendReqFails(net, e, "DisconnectReq", L[i].local)
           /\ chans' = [chans EXCEPT ![e][i].state = "ACTIVATED"]
  BY DEF ReleaseReq
<1>3. L \in Seq(Nodes) /\ Timed(L, cache[e]) /\ NetOK(cache[e], cache[Peer(e)], net, e)
  BY EndFacts
<1>4. i \in 1 .. Len(L) /\ L[i] \in Nodes
  BY <1>3
<1>5. L[i].local \in Tcids /\ L[i].remote \in Tcids \cup {NoTcid}
  BY <1>4 DEF Nodes
<1>0. "DisconnectReq" \in Reqs /\ WaitsFor("RELEASING") = "DisconnectReq"
  BY DEF Reqs, WaitsFor
<1>6. CASE /\ SendReq(net, e, "DisconnectReq", L[i].local, L[i].remote)
           /\ chans' = [chans EXCEPT ![e][i].state = "RELEASING"]
  <2> DEFINE n == [L[i] EXCEPT !.state = "RELEASING"]
  <2>1. n \in Nodes /\ n.local = L[i].local /\ n.state = "RELEASING"
    BY <1>4 DEF Nodes
  <2>2. chans' = [chans EXCEPT ![e] = [@ EXCEPT ![i] = n]]
    BY <1>3, <1>4, <1>6 DEF ChanInv, ChanTypeOK
  <2>3. /\ CacheStep(e) /\ NetOK(cache'[e], cache[Peer(e)], net', e)
        /\ cache[e] \subseteq cache'[e]
        /\ \E q \in cache'[e] : q.src = L[i].local /\ q.code = "DisconnectReq"
    BY <1>0, <1>3, <1>5, <1>6, RequestSent
  <2> HIDE DEF n
  <2>4. Timed(L, cache'[e])
    BY <1>3, <2>3, TimedByMore
  <2>5. /\ ListStep(e)
        /\ \A C : /\ Timed(L, C)
                  /\ n.state # "ACTIVATED" => \E q \in C : q.src = n.local /\ q.code = WaitsFor(n.state)
                  => Timed(chans'[e], C)
    BY <1>1, <1>4, <2>1, <2>2, NodeChanged, ZenonT(60)
  <2>6. \E q \in cache'[e] : q.src = n.local /\ q.code = WaitsFor(n.state)
    BY <1>0, <2>1, <2>3
  <2>7. Timed(chans'[e], cache'[e])
    BY <2>4, <2>5, <2>6
  <2> QED BY <1>1, <2>3, <2>5, <2>7, EndStep
<1>7. CASE /\ SendReqFails(net, e, "DisconnectReq", L[i].local)
           /\ chans' = [chans EXCEPT ![e][i].state = "ACTIVATED"]
  <2> DEFINE n == [L[i] EXCEPT !.state = "ACTIVATED"]
  <2>1. n \in Nodes /\ n.local = L[i].local /\ n.state = "ACTIVATED"
    BY <1>4 DEF Nodes
  <2>2. chans' = [chans EXCEPT ![e] = [@ EXCEPT ![i] = n]]
    BY <1>3, <1>4, <1>7 DEF ChanInv, ChanTypeOK
  <2>3. /\ CacheStep(e) /\ NetOK(cache'[e], cache[Peer(e)], net', e)
        /\ cache[e] \subseteq cache'[e]
    BY <1>0, <1>3, <1>5, <1>7, RequestFails
  <2> HIDE DEF n
  <2>4. Timed(L, cache'[e])
    BY <1>3, <2>3, TimedByMore
  <2>5. /\ ListStep(e)
        /\ \A C : /\ Timed(L, C)
                  /\ n.state # "ACTIVATED" => \E q \in C : q.src = n.local /\ q.code = WaitsFor(n.state)
                  => Timed(chans'[e], C)
    BY <1>1, <1>4, <2>1, <2>2, NodeChanged, ZenonT(60)
  <2>7. Timed(chans'[e], cache'[e])
    BY <2>1, <2>4, <2>5
  <2> QED BY <1>1, <2>3, <2>5, <2>7, EndStep
<1> QED BY <1>2, <1>6, <1>7

\* CM_DynTransChannelEstablishReqCbk.
LEMMA RecvConnectReqStep ==
    ASSUME ChanInv, NEW e \in Ends, RecvConnectReq(e)
    PROVE  ChanInv'
<1>1. PICK m : m = Head(net[e])
  OBVIOUS
<1>2. PICK t : t = DynTcidAllocate(e)
  OBVIOUS
<1> DEFINE rsp(l) == Signal("ConnectRsp", m.id, m.src, l, l # NoTcid)
<1>3. net[e] # <<>> /\ m.code = "ConnectReq" /\ link' = link /\ UNCHANGED <<cache, nextId>>
  BY <1>1 DEF RecvConnectReq, Received
<1>4. m \in Signals /\ NetOK(cache[e], cache[Peer(e)], Popped(e), e)
  BY <1>1, <1>3, SignalPopped
<1>5. Timed(chans[e], cache[e]) /\ CacheStep(e)
  BY <1>3, EndFacts, CacheSame
<1>6. ASSUME NEW l \in Tcids \cup {NoTcid}
      PROVE  NetOK(cache[e], cache[Peer(e)], Answer(e, rsp(l)), e)
  <2>1. /\ rsp(l) \in Signals /\ rsp(l).code = "ConnectRsp"
        /\ rsp(l).id = m.id /\ rsp(l).src = m.src
    BY <1>4 DEF Signals, Signal, Rsps
  <2>2. m.code \in Reqs /\ "ConnectRsp" \in Rsps /\ RequestCode("ConnectRsp") = m.code
    BY <1>3 DEF Reqs, Rsps, RequestCode
  <2> HIDE DEF rsp
  <2> QED BY <1>1, <1>3, <2>1, <2>2, SignalAnswered
<1>7. \/ KeepNodes /\ net' = Popped(e)
      \/ KeepNodes /\ net' = Answer(e, rsp(NoTcid))
      \/ t # NoTcid /\ AddNode(e, t, m.src, "ACTIVATED", FALSE) /\ net' = Answer(e, rsp(t))
  BY <1>1, <1>2 DEF RecvConnectReq
<1> HIDE DEF rsp
<1>8. CASE KeepNodes /\ (net' = Popped(e) \/ net' = Answer(e, rsp(NoTcid)))
  <2>1. ListStep(e) /\ chans'[e] = chans[e]
    BY <1>8, NodesKept
  <2>2. NetOK(cache[e], cache[Peer(e)], net', e)
    BY <1>4, <1>6, <1>8
  <2> QED BY <1>3, <1>5, <2>1, <2>2, EndStep
<1>9. CASE t # NoTcid /\ AddNode(e, t, m.src, "ACTIVATED", FALSE) /\ net' = Answer(e, rsp(t))
  <2>1. t \in Tcids \ used[e] /\ m.src \in Tcids \cup {NoTcid}
    BY <1>2, <1>4, <1>9, AllocatedIsFree DEF Signals
  <2>2. ListStep(e) /\ Timed(chans'[e], cache[e])
    BY <1>5, <1>9, <2>1, NodeAdded
  <2>3. NetOK(cache[e], cache[Peer(e)], net', e)
    BY <1>6, <1>9, <2>1
  <2> QED BY <1>3, <1>5, <2>2, <2>3, EndStep
<1> QED BY <1>7, <1>8, <1>9

\* A cache without some of its entries.
LEMMA CacheLess ==
    ASSUME ChanInv, NEW e \in Ends, NEW D, D \subseteq cache[e],
           cache' = [cache EXCEPT ![e] = D], UNCHANGED nextId
    PROVE  CacheStep(e) /\ cache'[e] = D
<1>1. IdsDiffer(cache[e]) /\ cache[e] \in SUBSET Entries
  BY EndFacts
<1>2. Peer(e) # e /\ Peer(e) \in Ends
  BY PeerIsOther
<1>3. IdsDiffer(D)
  BY <1>1 DEF IdsDiffer
<1>4. D \in SUBSET Entries
  BY <1>1
<1> QED BY <1>2, <1>3, <1>4 DEF CacheStep, ChanInv, ChanTypeOK

\* CM_DynTransChannelEstablishRspCbk.
LEMMA RecvConnectRspStep ==
    ASSUME ChanInv, NEW e \in Ends, RecvConnectRsp(e)
    PROVE  ChanInv'
<1>1. PICK m : m = Head(net[e])
  OBVIOUS
<1>2. /\ net[e] # <<>> /\ m.code = "ConnectRsp" /\ link' = link /\ UNCHANGED nextId
      /\ EstablishRsp(e, m.src, m.dst, m.ok) /\ net' = Popped(e)
      /\ cache' = [cache EXCEPT ![e] = CacheRemove(@, m.id, m.code)]
  BY <1>1 DEF RecvConnectRsp, Received
<1>3. m \in Signals
  BY <1>1, <1>2, SignalPopped
<1>4. m.src \in Tcids /\ m.dst \in Tcids \cup {NoTcid}
  BY <1>3 DEF Signals
<1>5. /\ ListStep(e)
      /\ \A C : Timed(chans[e], C) => Timed(chans'[e], C)
      /\ \A j \in DOMAIN chans'[e] : chans'[e][j].local = m.src => chans'[e][j].state # "ACTIVATING"
  BY <1>2, <1>4, RspToEstablish
<1> DEFINE D == CacheRemove(cache[e], m.id, m.code)
<1>6. m.code \in Rsps /\ RequestCode(m.code) = "ConnectReq"
  BY <1>2 DEF Rsps, RequestCode
<1>7. /\ NetOK(D, cache[Peer(e)], Popped(e), e)
      /\ \A q \in cache[e] : q \in D \/ (q.src = m.src /\ q.code = RequestCode(m.code))
  BY <1>1, <1>2, <1>6, AnswerHandled
<1>8. D \subseteq cache[e]
  BY DEF CacheRemove
<1>9. cache' = [cache EXCEPT ![e] = D]
  BY <1>2
<1> HIDE DEF D
<1>10. CacheStep(e) /\ cache'[e] = D
  BY <1>2, <1>8, <1>9, CacheLess
<1>11. Timed(chans'[e], cache[e])
  BY <1>5, EndFacts
<1>12. \A j \in DOMAIN chans'[e] : chans'[e][j].local = m.src =>
         chans'[e][j].state = "ACTIVATED" \/ WaitsFor(chans'[e][j].state) # "ConnectReq"
  BY <1>5 DEF WaitsFor
<1>13. Timed(chans'[e], D)
  BY <1>6, <1>7, <1>11, <1>12, TimedByRest
<1> QED BY <1>2, <1>5, <1>7, <1>10, <1>13, EndStep

\* CM_DynTransChannelReleaseRspCbk.
LEMMA RecvDisconnectRspStep ==
    ASSUME ChanInv, NEW e \in Ends, RecvDisconnectRsp(e)
    PROVE  ChanInv'
<1>1. PICK m : m = Head(net[e])
  OBVIOUS
<1>2. /\ net[e] # <<>> /\ m.code = "DisconnectRsp" /\ link' = link /\ UNCHANGED nextId
      /\ ReleaseRsp(e, m.src) /\ net' = Popped(e)
      /\ cache' = [cache EXCEPT ![e] = CacheRemove(@, m.id, m.code)]
  BY <1>1 DEF RecvDisconnectRsp, Received
<1>5. /\ ListStep(e)
      /\ \A C : Timed(chans[e], C) => Timed(chans'[e], C)
      /\ \A j \in DOMAIN chans'[e] : chans'[e][j].local # m.src
  BY <1>2, RspToRelease
<1> DEFINE D == CacheRemove(cache[e], m.id, m.code)
<1>6. m.code \in Rsps
  BY <1>2 DEF Rsps
<1>7. /\ NetOK(D, cache[Peer(e)], Popped(e), e)
      /\ \A q \in cache[e] : q \in D \/ (q.src = m.src /\ q.code = RequestCode(m.code))
  BY <1>1, <1>2, <1>6, AnswerHandled
<1>8. D \subseteq cache[e]
  BY DEF CacheRemove
<1>9. cache' = [cache EXCEPT ![e] = D]
  BY <1>2
<1> HIDE DEF D
<1>10. CacheStep(e) /\ cache'[e] = D
  BY <1>2, <1>8, <1>9, CacheLess
<1>11. Timed(chans'[e], cache[e])
  BY <1>5, EndFacts
<1>13. Timed(chans'[e], D)
  BY <1>5, <1>7, <1>11, TimedByRest
<1> QED BY <1>2, <1>5, <1>7, <1>10, <1>13, EndStep

\* CM_DynTransChannelReleaseReqCbk.
LEMMA RecvDisconnectReqStep ==
    ASSUME ChanInv, NEW e \in Ends, RecvDisconnectReq(e)
    PROVE  ChanInv'
<1> DEFINE L == chans[e]
<1>1. PICK m : m = Head(net[e])
  OBVIOUS
<1>2. PICK i : i = FindByRemoteTcid(e, m.src)
  OBVIOUS
<1>3. net[e] # <<>> /\ m.code = "DisconnectReq" /\ link' = link
  BY <1>1 DEF RecvDisconnectReq, Received
<1>4. m \in Signals /\ NetOK(cache[e], cache[Peer(e)], Popped(e), e)
  BY <1>1, <1>3, SignalPopped
<1>5. L \in Seq(Nodes) /\ Timed(L, cache[e])
  BY EndFacts
<1>6. (i = 0 \/ i \in 1 .. Len(L)) /\ (i # 0 => L[i].remote = m.src)
  BY <1>2, <1>5, RemoteFound
<1> DEFINE rsp == Signal("DisconnectRsp", m.id, L[i].remote, L[i].local, TRUE)
<1>7. \/ i = 0 /\ net' = Popped(e) /\ KeepNodes /\ UNCHANGED <<cache, nextId>>
      \/ i # 0 /\ DropNode(e, i) /\ net' = Answer(e, rsp) /\ UNCHANGED <<cache, nextId>>
      \/ i # 0 /\ DropNode(e, i) /\ SendReq(Popped(e), e, "DisconnectReq", L[i].local, L[i].remote)
      \/ i # 0 /\ DropNode(e, i) /\ SendReqFails(Popped(e), e, "DisconnectReq", L[i].local)
  BY <1>1, <1>2 DEF RecvDisconnectReq
<1>0. "DisconnectReq" \in Reqs
  BY DEF Reqs
<1>8. CASE i = 0 /\ net' = Popped(e) /\ KeepNodes /\ UNCHANGED <<cache, nextId>>
  <2>1. ListStep(e) /\ chans'[e] = chans[e] /\ CacheStep(e)
    BY <1>8, NodesKept, CacheSame
  <2> QED BY <1>3, <1>4, <1>5, <1>8, <2>1, EndStep
<1>9. CASE i # 0 /\ DropNode(e, i)
  <2>1. i \in 1 .. Len(L) /\ L[i].remote = m.src
    BY <1>6, <1>9
  <2>2. L[i] \in Nodes
    BY <1>5, <2>1
  <2>3. L[i].local \in Tcids /\ L[i].remote \in Tcids \cup {NoTcid}
    BY <2>2 DEF Nodes
  <2>4. ListStep(e) /\ \A C : Timed(L, C) => Timed(chans'[e], C)
    BY <1>9, <2>1, NodeDropped
  <2>5. CASE net' = Answer(e, rsp) /\ UNCHANGED <<cache, nextId>>
    <3>1. /\ rsp \in Signals /\ rsp.code = "DisconnectRsp"
          /\ rsp.id = m.id /\ rsp.src = m.src
      BY <1>4, <2>1, <2>3 DEF Signals, Signal, Rsps
    <3>2. m.code \in Reqs /\ "DisconnectRsp" \in Rsps /\ RequestCode("DisconnectRsp") = m.code
      BY <1>3 DEF Reqs, Rsps, RequestCode
    <3> HIDE DEF rsp
    <3>3. NetOK(cache[e], cache[Peer(e)], net', e)
      BY <1>1, <1>3, <2>5, <3>1, <3>2, SignalAnswered
    <3>4. CacheStep(e) /\ cache' = cache
      BY <2>5, CacheSame
    <3> QED BY <1>3, <1>5, <2>4, <3>3, <3>4, EndStep
  <2> HIDE DEF rsp
  <2>6. CASE SendReq(Popped(e), e, "DisconnectReq", L[i].local, L[i].remote)
    <3>1. CacheStep(e) /\ NetOK(cache'[e], cache[Peer(e)], net', e) /\ cache[e] \subseteq cache'[e]
      BY <1>0, <1>4, <2>3, <2>6, RequestSent
    <3>2. Timed(chans'[e], cache'[e])
      BY <1>5, <2>4, <3>1, TimedByMore
    <3> QED BY <1>3, <2>4, <3>1, <3>2, EndStep
  <2>7. CASE SendReqFails(Popped(e), e, "DisconnectReq", L[i].local)
    <3>1. CacheStep(e) /\ NetOK(cache'[e], cache[Peer(e)], net', e) /\ cache[e] \subseteq cache'[e]
      BY <1>0, <1>4, <2>3, <2>7, RequestFails
    <3>2. Timed(chans'[e], cache'[e])
      BY <1>5, <2>4, <3>1, TimedByMore
    <3> QED BY <1>3, <2>4, <3>1, <3>2, EndStep
  <2> QED BY <1>7, <1>9, <2>5, <2>6, <2>7
<1> QED BY <1>7, <1>8, <1>9

\* CM_SignalingTimeoutCbkInner: a request is given up only when nothing of it is
\* in flight.
LEMMA SignalingTimeoutStep ==
    ASSUME ChanInv, NEW e \in Ends, SignalingTimeout(e)
    PROVE  ChanInv'
<1>1. PICK q \in cache[e] : /\ ~OnTheWay(e, q) /\ TimeoutRsp(e, q)
                            /\ cache' = [cache EXCEPT ![e] = @ \ {q}]
  BY DEF SignalingTimeout
<1>2. link' = link /\ UNCHANGED <<nextId, net>>
  BY DEF SignalingTimeout
<1>3. /\ cache[e] \in SUBSET Entries /\ IdsDiffer(cache[e]) /\ Timed(chans[e], cache[e])
      /\ net[e] \in Seq(Signals) /\ net[Peer(e)] \in Seq(Signals)
      /\ NetOK(cache[e], cache[Peer(e)], net, e)
  BY EndFacts
<1>4. q.src \in Tcids /\ q.code \in Reqs
  BY <1>3 DEF Entries
<1> DEFINE D == cache[e] \ {q}
<1>5. Flight(D, net[Peer(e)], net[e])
  <2>1. Flight(cache[e], net[Peer(e)], net[e])
    BY <1>3 DEF NetOK
  <2> QED BY <1>1, <1>3, <2>1, FlightTimedOut DEF OnTheWay
<1>6. NetOK(D, cache[Peer(e)], net', e)
  BY <1>2, <1>3, <1>5 DEF NetOK
<1>7. D \subseteq cache[e] /\ cache' = [cache EXCEPT ![e] = D]
  BY <1>1
<1>8. CacheStep(e) /\ cache'[e] = D
  BY <1>2, <1>7, CacheLess
<1>9. \A r \in cache[e] : r \in D \/ (r.src = q.src /\ r.code = q.code)
  OBVIOUS
<1> HIDE DEF D
<1>10. CASE q.code = "ConnectReq"
  <2>1. EstablishRsp(e, q.src, NoTcid, FALSE)
    BY <1>1, <1>10 DEF TimeoutRsp
  <2>2. /\ ListStep(e)
        /\ \A C : Timed(chans[e], C) => Timed(chans'[e], C)
        /\ \A j \in DOMAIN chans'[e] : chans'[e][j].local = q.src => chans'[e][j].state # "ACTIVATING"
    BY <1>4, <2>1, RspToEstablish
  <2>3. \A j \in DOMAIN chans'[e] : chans'[e][j].local = q.src =>
           chans'[e][j].state = "ACTIVATED" \/ WaitsFor(chans'[e][j].state) # q.code
    BY <1>10, <2>2 DEF WaitsFor
  <2>4. Timed(chans'[e], D)
    BY <1>3, <1>9, <2>2, <2>3, TimedByRest
  <2> QED BY <1>2, <1>6, <1>8, <2>2, <2>4, EndStep
<1>11. CASE q.code # "ConnectReq"
  <2>1. ReleaseRsp(e, q.src)
    BY <1>1, <1>11 DEF TimeoutRsp
  <2>2. /\ ListStep(e)
        /\ \A C : Timed(chans[e], C) => Timed(chans'[e], C)
        /\ \A j \in DOMAIN chans'[e] : chans'[e][j].local # q.src
    BY <2>1, RspToRelease
  <2>4. Timed(chans'[e], D)
    BY <1>3, <1>9, <2>2, TimedByRest
  <2> QED BY <1>2, <1>6, <1>8, <2>2, <2>4, EndStep
<1> QED BY <1>10, <1>11

\* CM_DynTransLogicLinkCbk and CM_SignalingLogicLinkCbk, at the end told that the
\* link is lost: nothing is in flight.
LEMMA DisconnectedStep ==
    ASSUME ChanInv, NEW e \in Ends, Disconnected(e)
    PROVE  ChanInv'
<1> DEFINE p == Peer(e)
<1>1. p \in Ends /\ p # e
  BY PeerIsOther
<1>2. /\ ~link /\ link' = link /\ UNCHANGED <<nextId, net>>
      /\ chans' = [chans EXCEPT ![e] = <<>>] /\ used' = [used EXCEPT ![e] = {}]
      /\ cache' = [cache EXCEPT ![e] = {}]
  BY DEF Disconnected, CacheClear
<1>3. net[e] = <<>> /\ net[p] = <<>> /\ net \in [Ends -> Seq(Signals)]
  BY <1>1, <1>2 DEF ChanInv, ChanTypeOK
<1>4. CacheStep(e) /\ cache'[e] = {}
  BY <1>2, CacheLess
<1>5. NetOK(cache'[e], cache[p], net', e)
  BY <1>2, <1>3, FlightNone DEF NetOK
<1>6. <<>> \in Seq(Nodes) /\ DOMAIN <<>> = {}
  OBVIOUS
<1>7. chans'[e] = <<>> /\ used'[e] = {}
  BY <1>2 DEF ChanInv, ChanTypeOK
<1>8. PoolOK(<<>>, {}) /\ Timed(<<>>, cache'[e])
  BY <1>6 DEF PoolOK, Timed
<1>9. ListStep(e)
  BY <1>1, <1>2, <1>6, <1>7, <1>8 DEF ChanInv, ChanTypeOK, ListStep
<1> QED BY <1>2, <1>4, <1>5, <1>7, <1>8, <1>9, EndStep

\* The link is lost, with what it carried.
LEMMA LinkLostStep ==
    ASSUME ChanInv, LinkLost
    PROVE  ChanInv'
<1>1. link' = FALSE /\ net' = [e \in Ends |-> <<>>] /\ UNCHANGED <<chans, used, cache, nextId>>
  BY DEF LinkLost
<1>2. <<>> \in Seq(Signals)
  OBVIOUS
<1>3. net' \in [Ends -> Seq(Signals)] /\ \A e \in Ends : net'[e] = <<>>
  BY <1>1, <1>2
<1>4. \A e \in Ends : net'[Peer(e)] = <<>>
  BY <1>3, PeerIsOther
<1>5. \A e \in Ends : Flight(cache'[e], net'[Peer(e)], net'[e])
  BY <1>3, <1>4, FlightNone
<1>6. ChanTypeOK'
  BY <1>1, <1>3 DEF ChanInv, ChanTypeOK
<1>7. \A e \in Ends : EndOK(chans'[e], used'[e], cache'[e])
  BY <1>1 DEF ChanInv
<1> QED BY <1>3, <1>5, <1>6, <1>7 DEF ChanInv

\* Every step keeps the invariant.
LEMMA ChanInvStep ==
    ASSUME ChanInv, [Next]_vars
    PROVE  ChanInv'
<1>1. ASSUME NEW e \in Ends, EstablishReq(e) PROVE ChanInv'
  BY <1>1, EstablishReqStep
<1>2. ASSUME NEW e \in Ends, ReleaseReq(e) PROVE ChanInv'
  BY <1>2, ReleaseReqStep
<1>3. ASSUME NEW e \in Ends, RecvConnectReq(e) PROVE ChanInv'
  BY <1>3, RecvConnectReqStep
<1>4. ASSUME NEW e \in Ends, RecvConnectRsp(e) PROVE ChanInv'
  BY <1>4, RecvConnectRspStep
<1>5. ASSUME NEW e \in Ends, RecvDisconnectReq(e) PROVE ChanInv'
  BY <1>5, RecvDisconnectReqStep
<1>6. ASSUME NEW e \in Ends, RecvDisconnectRsp(e) PROVE ChanInv'
  BY <1>6, RecvDisconnectRspStep
<1>7. ASSUME NEW e \in Ends, SignalingTimeout(e) PROVE ChanInv'
  BY <1>7, SignalingTimeoutStep
<1>8. ASSUME NEW e \in Ends, Disconnected(e) PROVE ChanInv'
  BY <1>8, DisconnectedStep
<1>9. CASE LinkLost
  BY <1>9, LinkLostStep
<1>10. CASE Connected
  BY <1>10 DEF Connected, ChanInv, ChanTypeOK
<1>11. CASE UNCHANGED vars
  BY <1>11 DEF vars, ChanInv, ChanTypeOK
<1> QED BY <1>1, <1>2, <1>3, <1>4, <1>5, <1>6, <1>7, <1>8, <1>9, <1>10, <1>11 DEF Next

\* Nothing is in flight, cached or listed at first.
LEMMA ChanInvInit == Init => ChanInv
<1> SUFFICES ASSUME Init PROVE ChanInv
  OBVIOUS
<1>1. <<>> \in Seq(Nodes) /\ <<>> \in Seq(Signals) /\ DOMAIN <<>> = {}
  OBVIOUS
<1>2. ChanTypeOK
  BY <1>1 DEF Init, ChanTypeOK
<1>3. \A e \in Ends : net[e] = <<>> /\ net[Peer(e)] = <<>>
  BY PeerIsOther DEF Init
<1>4. \A e \in Ends : Flight(cache[e], net[Peer(e)], net[e])
  BY <1>3, FlightNone
<1>5. EndOK(<<>>, {}, {})
  BY <1>1 DEF EndOK, PoolOK, Timed, IdsDiffer
<1>6. \A e \in Ends : EndOK(chans[e], used[e], cache[e])
  BY <1>5 DEF Init
<1> QED BY <1>2, <1>3, <1>4, <1>6 DEF ChanInv

-----------------------------------------------------------------------------
(* The theorems. *)

\* What is in flight on a link always matches the caches of requests of its ends,
\* and each identifier is in flight once, although identifiers wrap
\* (CM_SignalingCacheAdd, CM_SignalingCacheRemove).
THEOREM SignalsMatchRequests == Spec => []ChanInv
<1>1. Init => ChanInv
  BY ChanInvInit
<1>2. ChanInv /\ [Next]_vars => ChanInv'
  BY ChanInvStep
<1> QED BY <1>1, <1>2, PTL DEF Spec

\* The tcid pool of an end always agrees with its channel list, whatever fails,
\* crosses or times out (CM_DynTcidAllocate, CM_DynTcidRelease).
THEOREM TcidsAlwaysMatch == Spec => []TcidsMatch
<1>1. ChanInv => TcidsMatch
  BY DEF ChanInv, EndOK, PoolOK, TcidsMatch
<1> QED BY <1>1, SignalsMatchRequests, PTL

\* A channel that waits for an answer always has its request in the cache, whose
\* timer ends the wait (CM_SignalingTimeoutCbkInner).
THEOREM WaitIsAlwaysTimed == Spec => []WaitIsTimed
<1>1. ASSUME ChanInv PROVE WaitIsTimed
  <2>1. ASSUME NEW e \in Ends, NEW n \in Range(chans[e]), n.state # "ACTIVATED"
        PROVE  \E q \in cache[e] : q.src = n.local /\ q.code = WaitsFor(n.state)
    <3>1. PICK i \in DOMAIN chans[e] : n = chans[e][i]
      BY DEF Range
    <3>2. Timed(chans[e], cache[e])
      BY <1>1 DEF ChanInv, EndOK
    <3> QED BY <2>1, <3>1, <3>2 DEF Timed
  <2> QED BY <2>1 DEF WaitIsTimed, WaitsFor
<1> QED BY <1>1, SignalsMatchRequests, PTL
=============================================================================
