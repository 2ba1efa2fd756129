------------------------ MODULE CmConcurrentConnProofs ------------------------
(***************************************************************************)
(* Concurrent connections, for any devices and modules and any number of   *)
(* requests, connections, drops and failures: what the host has asked for  *)
(* and what the controller does stay in step, though no handler waits for  *)
(* an answer.                                                              *)
(***************************************************************************)
EXTENDS CmConcurrentConn, ListLemmas

-----------------------------------------------------------------------------
(* The inductive invariant.                                                *)

Counts == [direct : Nat, removals : Nat, bg : Nat, bgRemovals : Nat, passive : Nat,
           drops : Nat, faults : Nat, interrupted : Nat, refused : BOOLEAN]
LinkStates == {"none", "connected", "disconnecting"}

CancelCmd == [op |-> "cancel"]
ReleaseCmd(a) == [op |-> "release", addr |-> a]
ListCmds == [op : {"list"}, clear : BOOLEAN, add : [Addrs -> Kinds], create : BOOLEAN]
Commands == {CancelCmd} \cup [op : {"release"}, addr : Addrs] \cup ListCmds

Requests == [Addrs -> SUBSET Modules]
Host == [bg : [Addrs -> Kinds], direct : Requests, links : [Addrs -> LinkStates],
         connecting : BOOLEAN, out : Seq(Commands), waiting : Requests,
         withdrawn : SUBSET Addrs, lost : BOOLEAN, leaked : SUBSET Addrs]
Radio == [seeking : BOOLEAN, list : [Addrs -> Kinds], up : SUBSET Addrs]
Messages == [type : {"active", "passive", "down"}, addr : Addrs]

\* The types.
ConnTypeOK ==
    /\ env \in Counts /\ cm \in Host /\ ctl \in Radio /\ evts \in Seq(Messages)

Creates(cmd) == cmd.op = "list" /\ cmd.create
Lists(cmd, w) == cmd.op = "list" /\ cmd.clear /\ cmd.add = w

\* When the controller has taken the commands out, it will seek or has told of a
\* connection the host has not seen yet: a cancellation has a Create_Connection
\* behind it.
Resumed(out) ==
    \A i \in 1 .. Len(out) :
       out[i].op = "cancel" => \E j \in 1 .. Len(out) : j > i /\ Creates(out[j])
Seeks(out, c, e) ==
    \/ c.seeking
    \/ \E i \in 1 .. Len(out) : Creates(out[i])
    \/ \E i \in 1 .. Len(e) : e[i].type # "down"

\* When the controller has taken the commands out, its list is w.
Ends(out, c, w) ==
    \/ /\ c.list = w
       /\ \A i \in 1 .. Len(out) : out[i].op # "list"
    \/ \E i \in 1 .. Len(out) :
          Lists(out[i], w) /\ \A j \in 1 .. Len(out) : j > i => out[j].op # "list"

\* RequestsAreSought, with what is still on its way.
Sought(s, c, e) ==
    ~ s.lost =>
       /\ s.connecting <=> Pending(s) # {}
       /\ s.connecting => Resumed(s.out) /\ Seeks(s.out, c, e) /\ Ends(s.out, c, Wanted(s))

\* The last event that tells of a device tells the truth.
LastOf(e, i, a) ==
    e[i].addr = a /\ \A j \in 1 .. Len(e) : j > i => e[j].addr # a
ToldTruly(e, c) ==
    \A a \in Addrs : \A i \in 1 .. Len(e) :
       LastOf(e, i, a) => (e[i].type # "down" <=> a \in c.up)

\* No event tells of the device.
Silent(e, a) == \A i \in 1 .. Len(e) : e[i].addr # a

\* A device no event tells of is connected if it has a node; if it is connected, it
\* has one, or it is being released, or its release was refused.
NodesAgree(s, c, e) ==
    \A a \in Addrs :
       Silent(e, a) =>
          /\ s.links[a] # "none" => a \in c.up
          /\ a \in c.up => \/ s.links[a] # "none"
                           \/ Contains(s.out, ReleaseCmd(a))
                           \/ a \in s.leaked

ConnInv ==
    /\ ConnTypeOK
    /\ ConnectedNotPending
    /\ NobodyForgotten
    /\ Sought(cm, ctl, evts)
    /\ ToldTruly(evts, ctl)
    /\ NodesAgree(cm, ctl, evts)

-----------------------------------------------------------------------------
(* What the parts of the handlers do to a host.                            *)

\* t is s with commands given to the DLI: the requests, the links and the releases
\* under way are those of s.
OnlySends(t, s) ==
    /\ t.bg = s.bg /\ t.direct = s.direct
    /\ t.links = s.links /\ t.leaked = s.leaked /\ t.waiting = s.waiting
    /\ \A a \in Addrs : Contains(s.out, ReleaseCmd(a)) => Contains(t.out, ReleaseCmd(a))

\* The fields of a host.
LEMMA HostFields ==
    ASSUME NEW s \in Host
    PROVE  /\ s.bg \in [Addrs -> Kinds] /\ s.direct \in Requests
           /\ s.links \in [Addrs -> LinkStates] /\ s.waiting \in Requests
           /\ s.connecting \in BOOLEAN /\ s.lost \in BOOLEAN
           /\ s.out \in Seq(Commands) /\ s.leaked \subseteq Addrs
           /\ s.withdrawn \subseteq Addrs
BY DEF Host

\* The three kinds of commands.
LEMMA CommandKinds ==
    /\ CancelCmd \in Commands /\ CancelCmd.op = "cancel"
    /\ \A a \in Addrs : ReleaseCmd(a) \in Commands /\ ReleaseCmd(a).op = "release"
BY DEF Commands, CancelCmd, ReleaseCmd

\* What is wanted of a host: a kind per device, and none for one not pending.
LEMMA WantedKinds ==
    ASSUME NEW s \in Host
    PROVE  /\ Wanted(s) \in [Addrs -> Kinds]
           /\ \A a \in Addrs : a \notin Pending(s) => Wanted(s)[a] = "none"
BY HostFields DEF Wanted, Pending, Kinds

\* A cancellation, sent or refused.
LEMMA CancelReq ==
    ASSUME NEW s \in Host, NEW f \in Faults
    PROVE  LET t == ConnectCancelReq(s, f)
           IN  /\ t \in Host /\ OnlySends(t, s) /\ t.connecting = FALSE
               /\ CancelFails(s, f) => t.lost
<1> DEFINE t == ConnectCancelReq(s, f)
<1>1. CASE ~ s.connecting
  <2>1. t = s
    BY <1>1 DEF ConnectCancelReq
  <2>2. s.connecting = FALSE
    BY <1>1, HostFields
  <2> QED BY <2>1, <2>2 DEF OnlySends, CancelFails
<1>2. CASE s.connecting /\ f.at = "cancel"
  <2>1. t = [s EXCEPT !.connecting = FALSE, !.out = s.out, !.lost = TRUE]
    BY <1>2, HostFields DEF ConnectCancelReq
  <2>2. t \in Host
    BY <2>1 DEF Host
  <2>3. /\ t.bg = s.bg /\ t.direct = s.direct /\ t.links = s.links /\ t.leaked = s.leaked
        /\ t.waiting = s.waiting /\ t.out = s.out /\ t.connecting = FALSE /\ t.lost = TRUE
    BY <2>1 DEF Host
  <2> QED BY <2>2, <2>3 DEF OnlySends
<1>3. CASE s.connecting /\ f.at # "cancel"
  <2> DEFINE o == Append(s.out, CancelCmd)
  <2>1. o \in Seq(Commands) /\ \A e : Contains(s.out, e) => Contains(o, e)
    BY HostFields, CommandKinds, AppendElements
  <2>2. t = [s EXCEPT !.connecting = FALSE, !.out = o, !.lost = s.lost]
    BY <1>3, HostFields DEF ConnectCancelReq, CancelCmd
  <2> HIDE DEF o
  <2>3. t \in Host
    BY <2>1, <2>2 DEF Host
  <2>4. /\ t.bg = s.bg /\ t.direct = s.direct /\ t.links = s.links /\ t.leaked = s.leaked
        /\ t.waiting = s.waiting /\ t.out = o /\ t.connecting = FALSE
    BY <2>2 DEF Host
  <2> QED BY <1>3, <2>1, <2>3, <2>4 DEF OnlySends, CancelFails
<1> QED BY <1>1, <1>2, <1>3

\* The list and the Create_Connection that start the search again: from a host with
\* no CONNECTING node they leave one that is sought, whatever the controller is at.
LEMMA StartReq ==
    ASSUME NEW s \in Host, NEW f \in Faults
    PROVE  LET t == StartAllowListConnReq(s, f)
           IN  /\ t \in Host /\ OnlySends(t, s)
               /\ ~ s.connecting => \A c, e : Sought(t, c, e)
               /\ StartFails(s, f) => t.lost
               /\ s.connecting /\ s.lost => t.lost
<1> DEFINE t == StartAllowListConnReq(s, f)
<1>0. StartFails(s, f) => Pending(s) # {}
  BY DEF StartFails
<1>1. CASE Pending(s) = {}
  <2>1. t = s
    BY <1>1 DEF StartAllowListConnReq
  <2> QED BY <1>0, <1>1, <2>1, HostFields DEF OnlySends, Sought
<1>2. CASE Pending(s) # {}
  <2> DEFINE cmd == [op |-> "list", clear |-> f.at # "clear", add |-> Listed(s, f),
                     create |-> ~ StartFails(s, f) /\ ~ s.connecting]
             o == Append(s.out, cmd)
             u == s.connecting \/ ~ StartFails(s, f)
             l == StartFails(s, f) \/ f.at = "clear" \/ (s.lost /\ s.connecting)
  <2>0. Listed(s, f) \in [Addrs -> Kinds]
    BY WantedKinds DEF Listed, Kinds
  <2>1. cmd \in Commands
    BY <2>0 DEF Commands, ListCmds
  <2>2. /\ o \in Seq(Commands) /\ \A e : Contains(s.out, e) => Contains(o, e)
        /\ Len(s.out) \in Nat /\ Len(o) = Len(s.out) + 1
        /\ \A i \in 1 .. Len(o) : o[i] = IF i \in 1 .. Len(s.out) THEN s.out[i] ELSE cmd
    BY <2>1, HostFields, AppendElements
  <2>3. t = [s EXCEPT !.out = o, !.connecting = u, !.lost = l]
    BY <1>2 DEF StartAllowListConnReq
  <2>4. u \in BOOLEAN /\ l \in BOOLEAN
    BY HostFields
  <2>5. cmd.op = "list" /\ cmd.clear = (f.at # "clear") /\ cmd.add = Listed(s, f)
        /\ cmd.create = (~ StartFails(s, f) /\ ~ s.connecting)
    OBVIOUS
  <2> HIDE DEF o, cmd
  <2>6. t \in Host
    BY <2>2, <2>3, <2>4 DEF Host
  <2>7. /\ t.bg = s.bg /\ t.direct = s.direct /\ t.links = s.links /\ t.leaked = s.leaked
        /\ t.waiting = s.waiting /\ t.out = o /\ t.connecting = u /\ t.lost = l
    BY <2>3 DEF Host
  <2>8. OnlySends(t, s)
    BY <2>2, <2>7 DEF OnlySends
  <2>9. ASSUME ~ s.connecting, ~ t.lost, NEW c, NEW e
        PROVE  /\ t.connecting <=> Pending(t) # {}
               /\ Resumed(t.out) /\ Seeks(t.out, c, e) /\ Ends(t.out, c, Wanted(t))
    <3>1. ~ StartFails(s, f) /\ f.at # "clear"
      BY <2>7, <2>9
    <3>2. Pending(t) = Pending(s) /\ Wanted(t) = Wanted(s)
      BY <2>7 DEF Pending, Wanted
    <3>3. Listed(s, f) = Wanted(s)
      <4>1. \A a \in Addrs : f.at = "add" /\ a \notin f.done => Wanted(s)[a] = "none"
        BY <3>1, WantedKinds DEF StartFails
      <4>2. Wanted(s) = [a \in Addrs |-> Wanted(s)[a]]
        BY WantedKinds
      <4> QED BY <4>1, <4>2, Zenon DEF Listed
    <3>4. Creates(cmd) /\ Lists(cmd, Wanted(t))
      BY <2>5, <2>9, <3>1, <3>2, <3>3 DEF Creates, Lists
    <3>5. /\ Len(o) \in 1 .. Len(o) /\ o[Len(o)] = cmd
          /\ \A j \in 1 .. Len(o) : ~ (j > Len(o))
          /\ \A j \in 1 .. Len(o) : j = Len(o) \/ Len(o) > j
      BY <2>2
    <3>6. cmd.op # "cancel"
      BY <2>5
    <3> HIDE DEF t
    <3>7. Resumed(o) /\ Seeks(o, c, e) /\ Ends(o, c, Wanted(t))
      BY <3>4, <3>5, <3>6 DEF Resumed, Seeks, Ends
    <3> QED BY <1>2, <2>7, <3>1, <3>2, <3>7
  <2>10. ~ s.connecting => \A c, e : Sought(t, c, e)
    BY <2>9 DEF Sought
  <2> QED BY <2>6, <2>7, <2>8, <2>10
<1> QED BY <1>1, <1>2

\* Cancel and start again: what is left is sought.
LEMMA CancelAndStartReq ==
    ASSUME NEW s \in Host, NEW f \in Faults
    PROVE  LET t == CancelAndStart(s, f)
           IN  /\ t \in Host /\ OnlySends(t, s)
               /\ \A c, e : Sought(t, c, e)
               /\ CancelAndStartFails(s, f) => t.lost
               /\ f = NoFault => ~ CancelAndStartFails(s, f)
<1> DEFINE t == CancelAndStart(s, f)
           r == ConnectCancelReq(s, f)
<1>1. r \in Host /\ OnlySends(r, s) /\ ~ r.connecting /\ (CancelFails(s, f) => r.lost)
  BY CancelReq
<1>2. f = NoFault => ~ CancelAndStartFails(s, f)
  BY DEF NoFault, CancelAndStartFails, CancelFails, StartFails
<1>3. CASE CancelFails(s, f)
  BY <1>1, <1>2, <1>3 DEF CancelAndStart, CancelAndStartFails, Sought
<1>4. CASE ~ CancelFails(s, f)
  <2>1. t = StartAllowListConnReq(r, f)
    BY <1>4 DEF CancelAndStart
  <2>2. /\ t \in Host /\ OnlySends(t, r) /\ \A c, e : Sought(t, c, e)
        /\ StartFails(r, f) => t.lost
    BY <1>1, <2>1, StartReq
  <2>3. OnlySends(t, s)
    BY <1>1, <2>2 DEF OnlySends
  <2> QED BY <1>2, <1>4, <2>2, <2>3 DEF CancelAndStartFails
<1> QED BY <1>3, <1>4

\* The nodes of the devices in A go.
LEMMA ErasedNodes ==
    ASSUME NEW s \in Host, NEW A
    PROVE  LET t == EraseNodes(s, A)
           IN  /\ t \in Host /\ t.links = s.links /\ t.leaked = s.leaked /\ t.out = s.out
               /\ t.waiting = s.waiting /\ t.connecting = s.connecting /\ t.lost = s.lost
               /\ t.withdrawn = s.withdrawn
               /\ \A a \in Addrs :
                     /\ t.bg[a] = IF a \in A THEN "none" ELSE s.bg[a]
                     /\ t.direct[a] = IF a \in A THEN {} ELSE s.direct[a]
               /\ Pending(t) = Pending(s) \ A
               /\ A \cap Pending(s) = {} => t.bg = s.bg /\ t.direct = s.direct
<1> DEFINE g == [a \in Addrs |-> IF a \in A THEN "none" ELSE s.bg[a]]
           d == [a \in Addrs |-> IF a \in A THEN {} ELSE s.direct[a]]
           t == EraseNodes(s, A)
<1>1. t = [s EXCEPT !.bg = g, !.direct = d]
  BY DEF EraseNodes
<1>2. g \in [Addrs -> Kinds] /\ d \in Requests
  BY HostFields DEF Kinds, Requests
<1>3. ASSUME A \cap Pending(s) = {} PROVE g = s.bg /\ d = s.direct
  <2>1. \A a \in Addrs : a \in A => s.bg[a] = "none" /\ s.direct[a] = {}
    BY <1>3 DEF Pending
  <2>2. \A a \in Addrs : g[a] = s.bg[a] /\ d[a] = s.direct[a]
    BY <2>1
  <2>3. s.bg = [a \in Addrs |-> s.bg[a]] /\ s.direct = [a \in Addrs |-> s.direct[a]]
    BY HostFields DEF Requests
  <2> QED BY <2>1, <2>3, Zenon
<1>4. \A a \in Addrs :
         /\ g[a] = IF a \in A THEN "none" ELSE s.bg[a]
         /\ d[a] = IF a \in A THEN {} ELSE s.direct[a]
  OBVIOUS
<1> HIDE DEF g, d
<1>5. t \in Host
  BY <1>1, <1>2 DEF Host
<1>6. /\ t.bg = g /\ t.direct = d /\ t.links = s.links /\ t.leaked = s.leaked /\ t.out = s.out
      /\ t.waiting = s.waiting /\ t.connecting = s.connecting /\ t.lost = s.lost
      /\ t.withdrawn = s.withdrawn
  BY <1>1 DEF Host
<1>7. Pending(t) = Pending(s) \ A
  BY <1>4, <1>6 DEF Pending
<1> QED BY <1>3, <1>4, <1>5, <1>6, <1>7

\* A release, sent or refused.
LEMMA ReleaseSent ==
    ASSUME NEW s \in Host, NEW a \in Addrs, NEW f \in Faults
    PROVE  LET t == ReleaseReq(s, a, f)
           IN  /\ t \in Host
               /\ t.bg = s.bg /\ t.direct = s.direct /\ t.links = s.links
               /\ t.waiting = s.waiting /\ t.connecting = s.connecting /\ t.lost = s.lost
               /\ s.leaked \subseteq t.leaked
               /\ \A b \in Addrs : Contains(s.out, ReleaseCmd(b)) => Contains(t.out, ReleaseCmd(b))
               /\ Contains(t.out, ReleaseCmd(a)) \/ a \in t.leaked
               /\ \A c, e : Sought(s, c, e) => Sought(t, c, e)
<1> DEFINE t == ReleaseReq(s, a, f)
<1>1. CASE f.at = "release"
  <2>1. t = [s EXCEPT !.leaked = s.leaked \cup {a}]
    BY <1>1 DEF ReleaseReq
  <2>2. t \in Host
    BY <2>1 DEF Host
  <2>3. /\ t.bg = s.bg /\ t.direct = s.direct /\ t.links = s.links
        /\ t.waiting = s.waiting /\ t.connecting = s.connecting /\ t.lost = s.lost
        /\ t.leaked = s.leaked \cup {a} /\ t.out = s.out
    BY <2>1 DEF Host
  <2>4. Pending(t) = Pending(s) /\ Wanted(t) = Wanted(s)
    BY <2>3 DEF Pending, Wanted
  <2> QED BY <2>2, <2>3, <2>4 DEF Sought
<1>2. CASE f.at # "release"
  <2> DEFINE o == Append(s.out, ReleaseCmd(a))
  <2>1. /\ o \in Seq(Commands)
        /\ \A x : Contains(o, x) <=> Contains(s.out, x) \/ x = ReleaseCmd(a)
        /\ Len(s.out) \in Nat /\ Len(o) = Len(s.out) + 1
        /\ \A i \in 1 .. Len(o) : o[i] = IF i \in 1 .. Len(s.out) THEN s.out[i] ELSE ReleaseCmd(a)
    BY HostFields, CommandKinds, AppendElements
  <2>2. t = [s EXCEPT !.out = o]
    BY <1>2 DEF ReleaseReq, ReleaseCmd
  <2> HIDE DEF o
  <2>3. t \in Host
    BY <2>1, <2>2 DEF Host
  <2>4. /\ t.bg = s.bg /\ t.direct = s.direct /\ t.links = s.links
        /\ t.waiting = s.waiting /\ t.connecting = s.connecting /\ t.lost = s.lost
        /\ t.leaked = s.leaked /\ t.out = o
    BY <2>2 DEF Host
  <2>5. Pending(t) = Pending(s) /\ Wanted(t) = Wanted(s)
    BY <2>4 DEF Pending, Wanted
  <2>6. \A i \in 1 .. Len(s.out) : i \in 1 .. Len(o) /\ o[i] = s.out[i]
    BY <2>1
  <2>7. \A i \in 1 .. Len(o) : i \in 1 .. Len(s.out) \/ o[i].op = "release"
    BY <2>1, CommandKinds
  <2>8. ASSUME NEW c, NEW e, Resumed(s.out), Seeks(s.out, c, e), Ends(s.out, c, Wanted(s))
        PROVE  Resumed(o) /\ Seeks(o, c, e) /\ Ends(o, c, Wanted(s))
    <3>1. Resumed(o)
      BY <2>6, <2>7, <2>8 DEF Resumed
    <3>2. Seeks(o, c, e)
      BY <2>6, <2>8 DEF Seeks
    <3>3. Ends(o, c, Wanted(s))
      <4>1. (\A i \in 1 .. Len(s.out) : s.out[i].op # "list") => \A i \in 1 .. Len(o) : o[i].op # "list"
        BY <2>6, <2>7
      <4>2. ASSUME NEW i \in 1 .. Len(s.out), Lists(s.out[i], Wanted(s)),
                   \A j \in 1 .. Len(s.out) : j > i => s.out[j].op # "list"
            PROVE  /\ i \in 1 .. Len(o) /\ Lists(o[i], Wanted(s))
                   /\ \A j \in 1 .. Len(o) : j > i => o[j].op # "list"
        BY <2>6, <2>7, <4>2
      <4> QED BY <2>8, <4>1, <4>2 DEF Ends
    <3> QED BY <3>1, <3>2, <3>3
  <2> QED BY <2>1, <2>3, <2>4, <2>5, <2>8 DEF Sought
<1> QED BY <1>1, <1>2

\* What a request or a fault takes from the environment.
LEMMA Charged ==
    ASSUME NEW f \in Faults, env \in Counts,
           \/ Meets(f)
           \/ Asks("direct", f) \/ Asks("removals", f) \/ Asks("bg", f) \/ Asks("bgRemovals", f)
    PROVE  /\ env' \in Counts
           /\ f # NoFault \/ env.refused => env'.refused
<1>1. CASE f = NoFault
  BY <1>1 DEF Meets, Asks, Counts
<1>2. CASE f # NoFault
  <2>0. env.faults \in Nat /\ env.faults > 0 => env.faults - 1 \in Nat
    BY DEF Counts
  <2>1. CASE Meets(f)
    <3>1. env.faults > 0 /\ env' = [env EXCEPT !.faults = env.faults - 1, !.refused = TRUE]
      BY <1>2, <2>1 DEF Meets
    <3> QED BY <2>0, <3>1 DEF Counts
  <2>2. ASSUME NEW k \in {"direct", "removals", "bg", "bgRemovals"}, Asks(k, f)
        PROVE  env' \in Counts /\ env'.refused
    <3> DEFINE n == env[k] - 1
    <3>1. /\ env.faults > 0 /\ env[k] > 0
          /\ env' = [env EXCEPT ![k] = n, !.faults = env.faults - 1, !.refused = TRUE]
      BY <1>2, <2>2 DEF Asks
    <3>2. n \in Nat
      <4>1. /\ env["direct"] \in Nat /\ env["removals"] \in Nat
            /\ env["bg"] \in Nat /\ env["bgRemovals"] \in Nat
        BY DEF Counts
      <4>2. env[k] \in Nat
        BY <4>1
      <4>3. env[k] > 0
        BY <2>2 DEF Asks
      <4> QED BY <4>2, <4>3
    <3> HIDE DEF n
    <3>3. CASE k = "direct"
      BY <2>0, <3>1, <3>2, <3>3 DEF Counts
    <3>4. CASE k = "removals"
      BY <2>0, <3>1, <3>2, <3>4 DEF Counts
    <3>5. CASE k = "bg"
      BY <2>0, <3>1, <3>2, <3>5 DEF Counts
    <3>6. CASE k = "bgRemovals"
      BY <2>0, <3>1, <3>2, <3>6 DEF Counts
    <3> QED BY <3>3, <3>4, <3>5, <3>6
  <2> QED BY <2>1, <2>2
<1> QED BY <1>1, <1>2

-----------------------------------------------------------------------------
(* Handlers of requests.                                                   *)

\* ConnectedNotPending and NobodyForgotten, of a host.
Apart(s) == \A a \in Pending(s) : s.links[a] # "connected"
Told(s) == \A a \in Addrs : s.waiting[a] \subseteq s.direct[a]

\* t has the nodes of s and gives no release up.
KeepsNodes(t, s) ==
    /\ \A a \in Addrs : t.links[a] # "none" <=> s.links[a] # "none"
    /\ s.leaked \subseteq t.leaked
    /\ \A a \in Addrs : Contains(s.out, ReleaseCmd(a)) => Contains(t.out, ReleaseCmd(a))

\* A host that only sends is as good as before.
LEMMA SendingKeeps ==
    ASSUME NEW s \in Host, NEW t \in Host, OnlySends(t, s)
    PROVE  /\ Pending(t) = Pending(s) /\ Wanted(t) = Wanted(s)
           /\ Apart(s) => Apart(t)
           /\ Told(s) => Told(t)
           /\ \A r : KeepsNodes(s, r) => KeepsNodes(t, r)
BY DEF OnlySends, Pending, Wanted, Apart, Told, KeepsNodes

\* A handler of a request that leaves the host t keeps the invariant.
LEMMA HandlerStep ==
    ASSUME ConnInv, NEW f \in Faults, NEW t \in Host, cm' = t,
           env' \in Counts, f # NoFault \/ env.refused => env'.refused,
           UNCHANGED <<ctl, evts>>,
           Apart(cm) => Apart(t),
           f = NoFault /\ Told(cm) => Told(t),
           Sought(t, ctl, evts),
           KeepsNodes(t, cm)
    PROVE  ConnInv'
<1>1. ConnTypeOK'
  BY DEF ConnInv, ConnTypeOK
<1>2. ConnectedNotPending'
  BY DEF ConnInv, ConnectedNotPending, Apart, Pending
<1>3. NobodyForgotten'
  BY DEF ConnInv, NobodyForgotten, Told
<1>4. Sought(cm, ctl, evts)'
  BY DEF Sought, Seeks, Ends, Resumed, Pending, Wanted
<1>5. ToldTruly(evts, ctl)'
  BY DEF ConnInv, ToldTruly, LastOf
<1>6. NodesAgree(cm, ctl, evts)'
  BY DEF ConnInv, NodesAgree, KeepsNodes, Silent
<1> QED BY <1>1, <1>2, <1>3, <1>4, <1>5, <1>6 DEF ConnInv

\* A request that differs from s in nothing that Sought looks at, but may be lost.
LEMMA SoughtSame ==
    ASSUME NEW s, NEW t, NEW c, NEW e, Sought(s, c, e), s.lost => t.lost,
           t.bg = s.bg, t.direct = s.direct, t.connecting = s.connecting, t.out = s.out
    PROVE  Sought(t, c, e)
<1>1. Pending(t) = Pending(s) /\ Wanted(t) = Wanted(s)
  BY DEF Pending, Wanted
<1> QED BY <1>1 DEF Sought

\* A request put down.
LEMMA Inserted ==
    ASSUME NEW s \in Host, NEW m \in Modules, NEW a \in Addrs
    PROVE  LET t == DirectInsert(s, m, a)
           IN  /\ t \in Host /\ t.links = s.links /\ t.leaked = s.leaked /\ t.out = s.out
               /\ s.links[a] # "connected" /\ Apart(s) => Apart(t)
               /\ Told(s) => Told(t)
<1> DEFINE t == DirectInsert(s, m, a)
           d == [s.direct EXCEPT ![a] = s.direct[a] \cup {m}]
           w == [s.waiting EXCEPT ![a] = s.waiting[a] \cup {m}]
           x == s.withdrawn \ {a}
<1>0. s.direct \in Requests /\ s.waiting \in Requests /\ s.withdrawn \subseteq Addrs
  BY HostFields
<1>1. t = [s EXCEPT !.direct = d, !.waiting = w, !.withdrawn = x]
  BY DEF DirectInsert
<1>2. d \in Requests /\ w \in Requests /\ x \in SUBSET Addrs
  BY <1>0 DEF Requests
<1>3. \A b \in Addrs :
         /\ d[b] = IF b = a THEN s.direct[a] \cup {m} ELSE s.direct[b]
         /\ w[b] = IF b = a THEN s.waiting[a] \cup {m} ELSE s.waiting[b]
  BY <1>0 DEF Requests
<1> HIDE DEF d, w, x
<1>4. t \in Host
  BY <1>1, <1>2 DEF Host
<1>5. /\ t.direct = d /\ t.waiting = w /\ t.links = s.links /\ t.bg = s.bg
      /\ t.leaked = s.leaked /\ t.out = s.out
  BY <1>1 DEF Host
<1> HIDE DEF t
<1>6. s.links[a] # "connected" /\ Apart(s) => Apart(t)
  BY <1>3, <1>5 DEF Apart, Pending
<1>7. Told(s) => Told(t)
  BY <1>3, <1>5 DEF Told
<1> QED BY <1>4, <1>5, <1>6, <1>7 DEF t

\* Modules are told.
LEMMA Notified ==
    ASSUME NEW s \in Host, NEW M, NEW a \in Addrs
    PROVE  LET t == NotifyFailed(s, M, a)
           IN  /\ t \in Host /\ t.links = s.links /\ t.leaked = s.leaked /\ t.out = s.out
               /\ t.bg = s.bg /\ t.direct = s.direct /\ t.connecting = s.connecting
               /\ t.lost = s.lost /\ t.withdrawn = s.withdrawn
               /\ \A b \in Addrs : t.waiting[b] \subseteq s.waiting[b]
               /\ t.waiting[a] \cap M = {}
               /\ Pending(t) = Pending(s)
<1> DEFINE t == NotifyFailed(s, M, a)
           w == [s.waiting EXCEPT ![a] = s.waiting[a] \ M]
<1>0. s.waiting \in Requests
  BY HostFields
<1>1. t = [s EXCEPT !.waiting = w]
  BY DEF NotifyFailed
<1>2. /\ w \in Requests
      /\ \A b \in Addrs : w[b] \subseteq s.waiting[b]
      /\ w[a] \cap M = {}
  BY <1>0 DEF Requests
<1> HIDE DEF w
<1>3. t \in Host
  BY <1>1, <1>2 DEF Host
<1>4. /\ t.waiting = w /\ t.links = s.links /\ t.bg = s.bg /\ t.direct = s.direct
      /\ t.leaked = s.leaked /\ t.out = s.out /\ t.connecting = s.connecting
      /\ t.lost = s.lost /\ t.withdrawn = s.withdrawn
  BY <1>1 DEF Host
<1>5. Pending(t) = Pending(s)
  BY <1>4 DEF Pending
<1> QED BY <1>2, <1>3, <1>4, <1>5

\* A request that could not be put down takes the node of its device with it; if
\* there were others, they are lost.
LEMMA AddFailed ==
    ASSUME NEW s \in Host, NEW m \in Modules, NEW a \in Addrs
    PROVE  LET t == DirectAddFailed(s, m, a)
           IN  /\ t \in Host /\ t.links = s.links /\ t.leaked = s.leaked /\ t.out = s.out
               /\ t.connecting = s.connecting
               /\ s.lost \/ a \in Pending(cm) => t.lost
               /\ Apart(s) => Apart(t)
               /\ a \notin Pending(s) => t.bg = s.bg /\ t.direct = s.direct
<1> DEFINE n == NotifyFailed(s, {m}, a)
           r == EraseNodes(n, {a})
           t == DirectAddFailed(s, m, a)
           l == r.lost \/ a \in Pending(cm)
<1>1. /\ n \in Host /\ n.links = s.links /\ n.leaked = s.leaked /\ n.out = s.out
      /\ n.bg = s.bg /\ n.direct = s.direct /\ n.connecting = s.connecting
      /\ n.lost = s.lost /\ Pending(n) = Pending(s)
  BY Notified
<1> HIDE DEF n
<1>2. /\ r \in Host /\ r.links = n.links /\ r.leaked = n.leaked /\ r.out = n.out
      /\ r.connecting = n.connecting /\ r.lost = n.lost
      /\ Pending(r) = Pending(n) \ {a}
      /\ {a} \cap Pending(n) = {} => r.bg = n.bg /\ r.direct = n.direct
  BY <1>1, ErasedNodes
<1>3. t = [r EXCEPT !.lost = l]
  BY DEF DirectAddFailed, n
<1> HIDE DEF r
<1>4. l \in BOOLEAN
  BY <1>2, HostFields
<1>5. t \in Host
  BY <1>2, <1>3, <1>4 DEF Host
<1>6. /\ t.links = r.links /\ t.leaked = r.leaked /\ t.out = r.out
      /\ t.bg = r.bg /\ t.direct = r.direct /\ t.connecting = r.connecting /\ t.lost = l
  BY <1>2, <1>3 DEF Host
<1> HIDE DEF t
<1>7. Pending(t) = Pending(r)
  BY <1>6 DEF Pending
<1>8. Apart(s) => Apart(t)
  BY <1>1, <1>2, <1>6, <1>7 DEF Apart
<1> QED BY <1>1, <1>2, <1>5, <1>6, <1>8 DEF t

\* CM_DirectConnectAddInner keeps the invariant.
LEMMA DirectAddStep ==
    ASSUME ConnInv, NEW f \in Faults, NEW m \in Modules, NEW a \in Addrs,
           CM_DirectConnectAddInner(m, a, f)
    PROVE  ConnInv'
<1> DEFINE s == DirectInsert(cm, m, a)
           u == CancelAndStart(s, f)
<1>0. /\ cm \in Host /\ Sought(cm, ctl, evts)
      /\ env' \in Counts /\ (f # NoFault \/ env.refused => env'.refused)
      /\ UNCHANGED <<ctl, evts>> /\ cm.links[a] # "connected"
  BY Charged DEF ConnInv, ConnTypeOK, CM_DirectConnectAddInner
<1>1. /\ s \in Host /\ s.links = cm.links /\ s.leaked = cm.leaked /\ s.out = cm.out
      /\ Apart(cm) => Apart(s)
      /\ Told(cm) => Told(s)
  BY <1>0, Inserted
<1> HIDE DEF s
<1>2. /\ u \in Host /\ OnlySends(u, s) /\ Sought(u, ctl, evts)
      /\ CancelAndStartFails(s, f) => u.lost
      /\ f = NoFault => ~ CancelAndStartFails(s, f)
  BY <1>1, CancelAndStartReq
<1>3. KeepsNodes(s, cm)
  BY <1>1 DEF KeepsNodes
<1>4. /\ Apart(s) => Apart(u)
      /\ Told(s) => Told(u)
      /\ KeepsNodes(u, cm)
  BY <1>1, <1>2, <1>3, SendingKeeps
<1> HIDE DEF u
<1>5. CASE f.at = "alloc"
  <2> DEFINE t == DirectAddFailed(cm, m, a)
  <2>1. cm' = t
    BY <1>5 DEF CM_DirectConnectAddInner
  <2>2. /\ t \in Host /\ t.links = cm.links /\ t.leaked = cm.leaked /\ t.out = cm.out
        /\ t.connecting = cm.connecting
        /\ cm.lost \/ a \in Pending(cm) => t.lost
        /\ Apart(cm) => Apart(t)
        /\ a \notin Pending(cm) => t.bg = cm.bg /\ t.direct = cm.direct
    BY <1>0, AddFailed
  <2> HIDE DEF t
  <2>3. Sought(t, ctl, evts)
    <3>1. CASE a \in Pending(cm)
      BY <2>2, <3>1 DEF Sought
    <3>2. CASE a \notin Pending(cm)
      BY <1>0, <2>2, <3>2, SoughtSame
    <3> QED BY <3>1, <3>2
  <2>4. f # NoFault
    BY <1>5 DEF NoFault
  <2>5. KeepsNodes(t, cm)
    BY <2>2 DEF KeepsNodes
  <2> QED BY <1>0, <2>1, <2>2, <2>3, <2>4, <2>5, HandlerStep
<1>6. CASE f.at # "alloc" /\ m \in cm.direct[a]
  <2>1. cm' = cm
    BY <1>6 DEF CM_DirectConnectAddInner
  <2>2. KeepsNodes(cm, cm)
    BY DEF KeepsNodes
  <2> QED BY <1>0, <2>1, <2>2, HandlerStep
<1>7. CASE f.at # "alloc" /\ m \notin cm.direct[a] /\ CancelAndStartFails(s, f)
  <2> DEFINE t == DirectAddFailed(u, m, a)
  <2>1. cm' = t
    BY <1>7 DEF CM_DirectConnectAddInner, s, u
  <2>2. /\ t \in Host /\ t.links = u.links /\ t.leaked = u.leaked /\ t.out = u.out
        /\ u.lost => t.lost
        /\ Apart(u) => Apart(t)
    BY <1>2, AddFailed
  <2> HIDE DEF t
  <2>3. Sought(t, ctl, evts)
    BY <1>2, <1>7, <2>2 DEF Sought
  <2>4. KeepsNodes(t, cm)
    BY <1>4, <2>2 DEF KeepsNodes
  <2> QED BY <1>0, <1>1, <1>2, <1>4, <1>7, <2>1, <2>2, <2>3, <2>4, HandlerStep
<1>8. CASE f.at # "alloc" /\ m \notin cm.direct[a] /\ ~ CancelAndStartFails(s, f)
  <2>1. cm' = u
    BY <1>8 DEF CM_DirectConnectAddInner, s, u
  <2> QED BY <1>0, <1>1, <1>2, <1>4, <2>1, HandlerStep
<1> QED BY <1>5, <1>6, <1>7, <1>8

\* A removal takes the node of the device and tells every module.
LEMMA Removed ==
    ASSUME NEW s \in Host, NEW a \in Addrs
    PROVE  LET t == DirectRemoved(s, a)
           IN  /\ t \in Host /\ t.links = s.links /\ t.leaked = s.leaked /\ t.out = s.out
               /\ Apart(s) => Apart(t)
               /\ Told(s) => Told(t)
<1> DEFINE n == NotifyFailed(s, Modules, a)
           r == EraseNodes(n, {a})
           t == DirectRemoved(s, a)
           x == r.withdrawn \cup {a}
<1>1. /\ n \in Host /\ n.links = s.links /\ n.leaked = s.leaked /\ n.out = s.out
      /\ n.bg = s.bg /\ n.direct = s.direct /\ Pending(n) = Pending(s)
      /\ \A b \in Addrs : n.waiting[b] \subseteq s.waiting[b]
      /\ n.waiting[a] \cap Modules = {}
  BY Notified
<1> HIDE DEF n
<1>2. /\ r \in Host /\ r.links = n.links /\ r.leaked = n.leaked /\ r.out = n.out
      /\ r.waiting = n.waiting /\ Pending(r) = Pending(n) \ {a}
      /\ \A b \in Addrs : r.direct[b] = IF b \in {a} THEN {} ELSE n.direct[b]
  BY <1>1, ErasedNodes
<1>3. t = [r EXCEPT !.withdrawn = x]
  BY DEF DirectRemoved, n
<1> HIDE DEF r
<1>4. x \in SUBSET Addrs
  BY <1>2, HostFields
<1> HIDE DEF x
<1>5. t \in Host
  BY <1>2, <1>3, <1>4 DEF Host
<1>6. /\ t.links = r.links /\ t.leaked = r.leaked /\ t.out = r.out
      /\ t.bg = r.bg /\ t.direct = r.direct /\ t.waiting = r.waiting
  BY <1>2, <1>3 DEF Host
<1> HIDE DEF t
<1>7. Pending(t) = Pending(r)
  BY <1>6 DEF Pending
<1>8. Apart(s) => Apart(t)
  BY <1>1, <1>2, <1>6, <1>7 DEF Apart
<1>9. n.waiting[a] = {}
  BY <1>1, HostFields DEF Requests
<1>10. Told(s) => Told(t)
  BY <1>1, <1>2, <1>6, <1>9 DEF Told
<1> QED BY <1>1, <1>2, <1>5, <1>6, <1>8, <1>10 DEF t

\* A handler that changes requests and then cancels and starts again keeps the
\* invariant.
LEMMA RestartStep ==
    ASSUME ConnInv, NEW f \in Faults, NEW s \in Host, cm' = CancelAndStart(s, f),
           env' \in Counts, f # NoFault \/ env.refused => env'.refused,
           UNCHANGED <<ctl, evts>>,
           s.links = cm.links, s.leaked = cm.leaked, s.out = cm.out,
           Apart(cm) => Apart(s),
           f = NoFault /\ Told(cm) => Told(s)
    PROVE  ConnInv'
<1> DEFINE u == CancelAndStart(s, f)
<1>1. u \in Host /\ OnlySends(u, s) /\ Sought(u, ctl, evts)
  BY CancelAndStartReq
<1>2. KeepsNodes(s, cm)
  BY DEF KeepsNodes
<1>3. (Apart(s) => Apart(u)) /\ (Told(s) => Told(u)) /\ KeepsNodes(u, cm)
  BY <1>1, <1>2, SendingKeeps
<1> HIDE DEF u
<1>4. cm' = u
  BY DEF u
<1> QED BY <1>1, <1>3, <1>4, HandlerStep

\* CM_DirectConnectRmvInner keeps the invariant.
LEMMA DirectRmvStep ==
    ASSUME ConnInv, NEW f \in Faults, NEW a \in Addrs, CM_DirectConnectRmvInner(a, f)
    PROVE  ConnInv'
<1>0. /\ cm \in Host /\ Sought(cm, ctl, evts)
      /\ env' \in Counts /\ (f # NoFault \/ env.refused => env'.refused)
      /\ UNCHANGED <<ctl, evts>>
  BY Charged DEF ConnInv, ConnTypeOK, CM_DirectConnectRmvInner
<1>1. CASE cm.links[a] = "connected" /\ f.at = "release" /\ cm' = cm
  <2>1. KeepsNodes(cm, cm)
    BY DEF KeepsNodes
  <2> QED BY <1>0, <1>1, <2>1, HandlerStep
<1>2. CASE /\ cm.links[a] = "connected"
           /\ cm' = ReleaseReq([cm EXCEPT !.links[a] = "disconnecting"], a, f)
  <2> DEFINE k == [cm.links EXCEPT ![a] = "disconnecting"]
             s == [cm EXCEPT !.links = k]
             t == ReleaseReq(s, a, f)
  <2>1. /\ k \in [Addrs -> LinkStates]
        /\ \A b \in Addrs : k[b] = IF b = a THEN "disconnecting" ELSE cm.links[b]
    BY <1>0, HostFields DEF LinkStates
  <2> HIDE DEF k
  <2>2. s \in Host
    BY <1>0, <2>1 DEF Host
  <2>3. /\ s.links = k /\ s.bg = cm.bg /\ s.direct = cm.direct /\ s.waiting = cm.waiting
        /\ s.connecting = cm.connecting /\ s.lost = cm.lost /\ s.out = cm.out
        /\ s.leaked = cm.leaked
    BY <1>0 DEF Host
  <2>4. cm' = t
    BY <1>2 DEF k
  <2> HIDE DEF s
  <2>5. /\ t \in Host
        /\ t.bg = s.bg /\ t.direct = s.direct /\ t.links = s.links
        /\ t.waiting = s.waiting /\ s.leaked \subseteq t.leaked
        /\ \A b \in Addrs : Contains(s.out, ReleaseCmd(b)) => Contains(t.out, ReleaseCmd(b))
        /\ Sought(s, ctl, evts) => Sought(t, ctl, evts)
    BY <2>2, ReleaseSent
  <2> HIDE DEF t
  <2>6. Sought(s, ctl, evts)
    BY <1>0, <2>3, SoughtSame
  <2>7. Pending(t) = Pending(cm)
    BY <2>3, <2>5 DEF Pending
  <2>8. Apart(cm) => Apart(t)
    BY <2>1, <2>3, <2>5, <2>7 DEF Apart, Pending
  <2>9. Told(cm) => Told(t)
    BY <2>3, <2>5 DEF Told
  <2>10. KeepsNodes(t, cm)
    BY <1>2, <2>1, <2>3, <2>5 DEF KeepsNodes
  <2> QED BY <1>0, <2>4, <2>5, <2>6, <2>8, <2>9, <2>10, HandlerStep
<1>3. CASE cm' = CancelAndStart(DirectRemoved(cm, a), f)
  <2> DEFINE s == DirectRemoved(cm, a)
  <2>1. /\ s \in Host /\ s.links = cm.links /\ s.leaked = cm.leaked /\ s.out = cm.out
        /\ Apart(cm) => Apart(s)
        /\ Told(cm) => Told(s)
    BY <1>0, Removed
  <2> HIDE DEF s
  <2>2. cm' = CancelAndStart(s, f)
    BY <1>3 DEF s
  <2> QED BY <1>0, <2>1, <2>2, RestartStep
<1> QED BY <1>1, <1>2, <1>3 DEF CM_DirectConnectRmvInner

\* Background requests g that ask for no more than those of s and devices that are
\* not connected.
AsksApart(s, g) ==
    \A a \in Addrs : g[a] # "none" => s.bg[a] # "none" \/ s.links[a] # "connected"

\* The background requests are replaced by such.
LEMMA BgReplaced ==
    ASSUME NEW s \in Host, NEW t \in Host, AsksApart(s, t.bg), t.links = s.links,
           t.direct = s.direct, t.waiting = s.waiting
    PROVE  /\ Apart(s) => Apart(t)
           /\ Told(s) => Told(t)
BY DEF AsksApart, Apart, Pending, Told

\* CM_BgConnectRmvInner and CM_BgConnectClearInner keep the invariant.
LEMMA BgRmvStep ==
    ASSUME ConnInv, NEW f \in Faults,
           CM_BgConnectClearInner(f) \/ \E a \in Addrs : CM_BgConnectRmvInner(a, f)
    PROVE  ConnInv'
<1>0. /\ cm \in Host
      /\ env' \in Counts /\ (f # NoFault \/ env.refused => env'.refused)
      /\ UNCHANGED <<ctl, evts>>
  BY Charged DEF ConnInv, ConnTypeOK, CM_BgConnectClearInner, CM_BgConnectRmvInner
<1>1. PICK g :
         /\ g \in [Addrs -> Kinds] /\ \A a \in Addrs : g[a] # "none" => cm.bg[a] # "none"
         /\ cm' = CancelAndStart([cm EXCEPT !.bg = g], f)
  <2>1. CASE CM_BgConnectClearInner(f)
    <3>1. Nowhere \in [Addrs -> Kinds] /\ \A a \in Addrs : Nowhere[a] = "none"
      BY DEF Nowhere, Kinds
    <3> QED BY <2>1, <3>1 DEF CM_BgConnectClearInner
  <2>2. ASSUME NEW a \in Addrs, CM_BgConnectRmvInner(a, f)
        PROVE  \E g : /\ g \in [Addrs -> Kinds]
                      /\ \A b \in Addrs : g[b] # "none" => cm.bg[b] # "none"
                      /\ cm' = CancelAndStart([cm EXCEPT !.bg = g], f)
    <3> DEFINE g == [cm.bg EXCEPT ![a] = "none"]
    <3>1. g \in [Addrs -> Kinds] /\ \A b \in Addrs : g[b] # "none" => cm.bg[b] # "none"
      BY <1>0, HostFields DEF Kinds
    <3>2. cm' = CancelAndStart([cm EXCEPT !.bg = g], f)
      BY <2>2 DEF CM_BgConnectRmvInner
    <3> QED BY <3>1, <3>2
  <2> QED BY <2>1, <2>2
<1> DEFINE s == [cm EXCEPT !.bg = g]
<1>2. s \in Host
  BY <1>0, <1>1 DEF Host
<1>3. /\ s.links = cm.links /\ s.leaked = cm.leaked /\ s.out = cm.out
      /\ s.bg = g /\ s.direct = cm.direct /\ s.waiting = cm.waiting
  BY <1>0 DEF Host
<1>4. cm' = CancelAndStart(s, f)
  BY <1>1
<1> HIDE DEF s
<1>5. (Apart(cm) => Apart(s)) /\ (Told(cm) => Told(s))
  <2>1. AsksApart(cm, s.bg)
    BY <1>1, <1>3 DEF AsksApart
  <2> QED BY <1>0, <1>2, <1>3, <2>1, BgReplaced
<1> QED BY <1>0, <1>2, <1>3, <1>4, <1>5, RestartStep

\* A background request that could not be made takes the nodes of its devices with
\* it; if there were requests for them before, those are lost.
LEMMA BgFailed ==
    ASSUME NEW s \in Host, NEW req
    PROVE  LET t == BgAddFailed(s, req)
           IN  /\ t \in Host /\ t.links = s.links /\ t.leaked = s.leaked /\ t.out = s.out
               /\ t.connecting = s.connecting
               /\ s.lost \/ DOMAIN req \cap Pending(cm) # {} => t.lost
               /\ Apart(s) => Apart(t)
               /\ DOMAIN req \cap Pending(s) = {} => t.bg = s.bg /\ t.direct = s.direct
<1> DEFINE A == DOMAIN req
           r == EraseNodes(s, A)
           t == BgAddFailed(s, req)
           l == r.lost \/ A \cap Pending(cm) # {}
<1>1. t = [r EXCEPT !.lost = l]
  BY DEF BgAddFailed
<1> HIDE DEF A, t
<1>2. /\ r \in Host /\ r.links = s.links /\ r.leaked = s.leaked /\ r.out = s.out
      /\ r.connecting = s.connecting /\ r.lost = s.lost
      /\ Pending(r) = Pending(s) \ A
      /\ A \cap Pending(s) = {} => r.bg = s.bg /\ r.direct = s.direct
  BY ErasedNodes
<1> HIDE DEF r
<1>3. l \in BOOLEAN
  BY <1>2, HostFields
<1>4. t \in Host
  BY <1>1, <1>2, <1>3 DEF Host
<1>5. /\ t.links = r.links /\ t.leaked = r.leaked /\ t.out = r.out
      /\ t.bg = r.bg /\ t.direct = r.direct /\ t.connecting = r.connecting /\ t.lost = l
  BY <1>1, <1>2 DEF Host
<1>6. Pending(t) = Pending(r)
  BY <1>5 DEF Pending
<1>7. Apart(s) => Apart(t)
  BY <1>2, <1>5, <1>6 DEF Apart
<1> QED BY <1>2, <1>4, <1>5, <1>7 DEF A, t

\* CM_BgConnectAddInner keeps the invariant.
LEMMA BgAddStep ==
    ASSUME ConnInv, NEW f \in Faults, NEW req \in BgRequests, CM_BgConnectAddInner(req, f)
    PROVE  ConnInv'
<1> DEFINE C == BgChanged(req)
           g == [a \in Addrs |-> IF a \in C THEN req[a] ELSE cm.bg[a]]
           x == cm.withdrawn \ C
           s == BgInsert(cm, req)
           more == Pending(cm) # {}
           next == IF more THEN CancelAndStart(s, f) ELSE StartAllowListConnReq(s, f)
           fails == IF more THEN CancelAndStartFails(s, f) ELSE StartFails(s, f)
           allocates == \E a \in C : cm.bg[a] = "none"
<1>0. /\ cm \in Host /\ Sought(cm, ctl, evts)
      /\ env' \in Counts /\ (f # NoFault \/ env.refused => env'.refused)
      /\ UNCHANGED <<ctl, evts>>
  BY Charged DEF ConnInv, ConnTypeOK, CM_BgConnectAddInner
<1>00. cm' = IF C = {} THEN cm
             ELSE IF f.at = "alloc" /\ allocates THEN BgAddFailed(cm, req)
             ELSE IF fails THEN BgAddFailed(next, req) ELSE next
  BY Zenon DEF CM_BgConnectAddInner
<1>1. \A a \in DOMAIN req : req[a] \in Kinds
  BY DEF BgRequests
<1>2. C \subseteq DOMAIN req
  BY DEF BgChanged
<1>3. g \in [Addrs -> Kinds]
  BY <1>0, <1>1, <1>2, HostFields
<1>4. \A a \in Addrs : g[a] # "none" => cm.bg[a] # "none" \/ cm.links[a] # "connected"
  BY DEF BgChanged
<1>5. s = [cm EXCEPT !.bg = g, !.withdrawn = x]
  BY DEF BgInsert
<1>6. x \in SUBSET Addrs
  BY <1>0, HostFields
<1> HIDE DEF g, x, s
<1>61. s \in Host
  BY <1>0, <1>3, <1>5, <1>6 DEF Host
<1>62. /\ s.links = cm.links /\ s.leaked = cm.leaked /\ s.out = cm.out
       /\ s.connecting = cm.connecting /\ s.lost = cm.lost
       /\ s.bg = g /\ s.direct = cm.direct /\ s.waiting = cm.waiting
  BY <1>0, <1>5 DEF Host
<1>7. /\ s \in Host /\ s.links = cm.links /\ s.leaked = cm.leaked /\ s.out = cm.out
      /\ s.connecting = cm.connecting /\ s.lost = cm.lost
      /\ Apart(cm) => Apart(s)
      /\ Told(cm) => Told(s)
  <2>1. AsksApart(cm, s.bg)
    BY <1>4, <1>62 DEF AsksApart
  <2> QED BY <1>0, <1>61, <1>62, <2>1, BgReplaced
<1>8. /\ next \in Host /\ OnlySends(next, s) /\ Sought(next, ctl, evts)
      /\ fails => next.lost
      /\ f = NoFault => ~ fails
  <2>1. CASE more
    BY <1>7, <2>1, CancelAndStartReq
  <2>2. CASE ~ more
    <3> DEFINE t == StartAllowListConnReq(s, f)
    <3>1. /\ t \in Host /\ OnlySends(t, s)
          /\ ~ s.connecting => Sought(t, ctl, evts)
          /\ StartFails(s, f) => t.lost
          /\ s.connecting /\ s.lost => t.lost
      BY <1>7, StartReq
    <3>2. s.connecting => s.lost
      BY <1>0, <1>7, <2>2 DEF Sought
    <3>3. f = NoFault => ~ StartFails(s, f)
      BY DEF NoFault, StartFails
    <3> HIDE DEF t
    <3>4. Sought(t, ctl, evts)
      BY <3>1, <3>2 DEF Sought
    <3>5. next = t /\ fails = StartFails(s, f)
      BY <2>2 DEF t
    <3> QED BY <3>1, <3>3, <3>4, <3>5
  <2> QED BY <2>1, <2>2
<1>9. KeepsNodes(s, cm)
  BY <1>7 DEF KeepsNodes
<1> HIDE DEF next, fails, allocates
<1>10. (Apart(s) => Apart(next)) /\ (Told(s) => Told(next)) /\ KeepsNodes(next, cm)
  BY <1>7, <1>8, <1>9, SendingKeeps
<1>11. CASE cm' = cm
  <2>1. KeepsNodes(cm, cm)
    BY DEF KeepsNodes
  <2> QED BY <1>0, <1>11, <2>1, HandlerStep
<1>12. CASE f.at = "alloc" /\ cm' = BgAddFailed(cm, req)
  <2> DEFINE t == BgAddFailed(cm, req)
  <2>1. /\ t \in Host /\ t.links = cm.links /\ t.leaked = cm.leaked /\ t.out = cm.out
        /\ t.connecting = cm.connecting
        /\ cm.lost \/ DOMAIN req \cap Pending(cm) # {} => t.lost
        /\ Apart(cm) => Apart(t)
        /\ DOMAIN req \cap Pending(cm) = {} => t.bg = cm.bg /\ t.direct = cm.direct
    BY <1>0, BgFailed
  <2> HIDE DEF t
  <2>2. Sought(t, ctl, evts)
    <3>1. CASE DOMAIN req \cap Pending(cm) # {}
      BY <2>1, <3>1 DEF Sought
    <3>2. CASE DOMAIN req \cap Pending(cm) = {}
      BY <1>0, <2>1, <3>2, SoughtSame
    <3> QED BY <3>1, <3>2
  <2>3. f # NoFault
    BY <1>12 DEF NoFault
  <2>4. KeepsNodes(t, cm)
    BY <2>1 DEF KeepsNodes
  <2>5. cm' = t
    BY <1>12 DEF t
  <2> QED BY <1>0, <2>1, <2>2, <2>3, <2>4, <2>5, HandlerStep
<1>13. CASE fails /\ cm' = BgAddFailed(next, req)
  <2> DEFINE t == BgAddFailed(next, req)
  <2>1. /\ t \in Host /\ t.links = next.links /\ t.leaked = next.leaked /\ t.out = next.out
        /\ next.lost => t.lost
        /\ Apart(next) => Apart(t)
    BY <1>8, BgFailed
  <2> HIDE DEF t
  <2>2. Sought(t, ctl, evts)
    BY <1>8, <1>13, <2>1 DEF Sought
  <2>3. KeepsNodes(t, cm)
    BY <1>10, <2>1 DEF KeepsNodes
  <2>4. cm' = t
    BY <1>13 DEF t
  <2> QED BY <1>0, <1>7, <1>8, <1>10, <1>13, <2>1, <2>2, <2>3, <2>4, HandlerStep
<1>14. CASE cm' = next
  BY <1>0, <1>7, <1>8, <1>10, <1>14, HandlerStep
<1> QED BY <1>00, <1>11, <1>12, <1>13, <1>14

\* CM_DirectConnTimeoutCbkInner keeps the invariant.
LEMMA TimeoutStep ==
    ASSUME ConnInv, NEW f \in Faults, NEW m \in Modules, NEW a \in Addrs,
           CM_DirectConnTimeoutCbkInner(m, a, f)
    PROVE  ConnInv'
<1> DEFINE d == [cm.direct EXCEPT ![a] = cm.direct[a] \ {m}]
           s == [cm EXCEPT !.direct = d]
           u == CancelAndStart(s, f)
           t == NotifyFailed(u, {m}, a)
<1>0. /\ cm \in Host
      /\ env' \in Counts /\ (f # NoFault \/ env.refused => env'.refused)
      /\ UNCHANGED <<ctl, evts>>
  BY Charged DEF ConnInv, ConnTypeOK, CM_DirectConnTimeoutCbkInner
<1>00. cm' = IF CancelAndStartFails(s, f) THEN u ELSE t
  BY DEF CM_DirectConnTimeoutCbkInner
<1>1. /\ d \in Requests
      /\ \A b \in Addrs : d[b] = IF b = a THEN cm.direct[a] \ {m} ELSE cm.direct[b]
  BY <1>0, HostFields DEF Requests
<1> HIDE DEF d
<1>2. s \in Host
  BY <1>0, <1>1 DEF Host
<1>3. /\ s.links = cm.links /\ s.leaked = cm.leaked /\ s.out = cm.out /\ s.bg = cm.bg
      /\ s.direct = d /\ s.waiting = cm.waiting
  BY <1>0 DEF Host
<1> HIDE DEF s
<1>4. Apart(cm) => Apart(s)
  BY <1>1, <1>3 DEF Apart, Pending
<1>5. /\ u \in Host /\ OnlySends(u, s) /\ Sought(u, ctl, evts)
      /\ f = NoFault => ~ CancelAndStartFails(s, f)
  BY <1>2, CancelAndStartReq
<1>6. KeepsNodes(s, cm)
  BY <1>3 DEF KeepsNodes
<1>7. (Apart(s) => Apart(u)) /\ KeepsNodes(u, cm)
  BY <1>2, <1>5, <1>6, SendingKeeps
<1> HIDE DEF u
<1>8. CASE CancelAndStartFails(s, f)
  <2>1. cm' = u /\ f # NoFault
    BY <1>00, <1>5, <1>8
  <2> QED BY <1>0, <1>4, <1>5, <1>7, <2>1, HandlerStep
<1>9. CASE ~ CancelAndStartFails(s, f)
  <2>1. cm' = t
    BY <1>00, <1>9
  <2>3. /\ t \in Host /\ t.links = u.links /\ t.leaked = u.leaked /\ t.out = u.out
        /\ t.bg = u.bg /\ t.direct = u.direct /\ t.connecting = u.connecting
        /\ t.lost = u.lost
        /\ \A b \in Addrs : t.waiting[b] \subseteq u.waiting[b]
        /\ t.waiting[a] \cap {m} = {}
        /\ Pending(t) = Pending(u)
    BY <1>5, Notified
  <2> HIDE DEF t
  <2>4. Apart(u) => Apart(t)
    BY <2>3 DEF Apart
  <2>5. Told(cm) => Told(t)
    BY <1>1, <1>3, <1>5, <2>3 DEF Told, OnlySends
  <2>6. Sought(t, ctl, evts)
    BY <1>5, <2>3, SoughtSame
  <2>7. KeepsNodes(t, cm)
    BY <1>7, <2>3 DEF KeepsNodes
  <2> QED BY <1>0, <1>4, <1>7, <2>1, <2>3, <2>4, <2>5, <2>6, <2>7, HandlerStep
<1> QED BY <1>8, <1>9

-----------------------------------------------------------------------------
(* Handlers of events.                                                     *)

\* Once the first event is taken, the others still tell the truth; a device they do
\* not tell of was not told of before, or the event told of it, truly.
LEMMA TakenEvent ==
    ASSUME NEW e \in Seq(Messages), e # <<>>, NEW c, ToldTruly(e, c)
    PROVE  /\ Tail(e) \in Seq(Messages)
           /\ ToldTruly(Tail(e), c)
           /\ \A b \in Addrs :
                 Silent(Tail(e), b) =>
                    \/ b # Head(e).addr /\ Silent(e, b)
                    \/ b = Head(e).addr /\ (Head(e).type # "down" <=> b \in c.up)
           /\ Head(e).type = "down" =>
                 \A i \in 1 .. Len(e) : e[i].type # "down" =>
                    \E j \in 1 .. Len(Tail(e)) : Tail(e)[j].type # "down"
<1> DEFINE t == Tail(e)
           h == Head(e)
<1>1. /\ t \in Seq(Messages) /\ Len(t) = Len(e) - 1 /\ Len(e) \in Nat \ {0}
      /\ \A i \in 1 .. Len(e) - 1 : t[i] = e[i + 1]
      /\ h = e[1]
  BY TailElements
<1> HIDE DEF t, h
<1>2. \A i \in 1 .. Len(t) : i + 1 \in 1 .. Len(e) /\ t[i] = e[i + 1]
  BY <1>1
<1>3. \A i \in 1 .. Len(e) : i # 1 => i - 1 \in 1 .. Len(t) /\ e[i] = t[i - 1]
  BY <1>1
<1>4. 1 \in 1 .. Len(e)
  BY <1>1
<1>5. ToldTruly(t, c)
  <2> SUFFICES ASSUME NEW a \in Addrs, NEW i \in 1 .. Len(t), LastOf(t, i, a)
               PROVE  t[i].type # "down" <=> a \in c.up
    BY DEF ToldTruly
  <2>1. LastOf(e, i + 1, a)
    <3>1. e[i + 1].addr = a
      BY <1>2 DEF LastOf
    <3>2. ASSUME NEW j \in 1 .. Len(e), j > i + 1 PROVE e[j].addr # a
      <4>1. j - 1 \in 1 .. Len(t) /\ e[j] = t[j - 1] /\ j - 1 > i
        BY <1>1, <1>3, <3>2
      <4> QED BY <4>1 DEF LastOf
    <3> QED BY <3>1, <3>2 DEF LastOf
  <2>2. i + 1 \in 1 .. Len(e) /\ t[i] = e[i + 1]
    BY <1>2
  <2> QED BY <2>1, <2>2 DEF ToldTruly
<1>6. ASSUME NEW b \in Addrs, Silent(t, b)
      PROVE  \/ b # h.addr /\ Silent(e, b)
             \/ b = h.addr /\ (h.type # "down" <=> b \in c.up)
  <2>1. \A i \in 1 .. Len(e) : i # 1 => e[i].addr # b
    BY <1>3, <1>6 DEF Silent
  <2>2. CASE b # h.addr
    BY <1>1, <2>1, <2>2 DEF Silent
  <2>3. CASE b = h.addr
    <3>1. LastOf(e, 1, b)
      BY <1>1, <2>1, <2>3 DEF LastOf
    <3> QED BY <1>1, <1>4, <2>3, <3>1 DEF ToldTruly
  <2> QED BY <2>2, <2>3
<1>7. ASSUME h.type = "down", NEW i \in 1 .. Len(e), e[i].type # "down"
      PROVE  \E j \in 1 .. Len(t) : t[j].type # "down"
  <2>1. i # 1
    BY <1>1, <1>7
  <2> QED BY <1>3, <1>7, <2>1
<1> QED BY <1>1, <1>5, <1>6, <1>7 DEF t, h

\* The nodes of other devices than a are those of s; that of a is as the event h says,
\* unless the connection is given back.
Follows(t, s, a, h) ==
    /\ \A b \in Addrs : b # a =>
          /\ t.links[b] # "none" <=> s.links[b] # "none"
          /\ b \in s.leaked => b \in t.leaked
          /\ Contains(s.out, ReleaseCmd(b)) => Contains(t.out, ReleaseCmd(b))
    /\ h.type = "down" => t.links[a] = "none"
    /\ h.type # "down" =>
          t.links[a] # "none" \/ Contains(t.out, ReleaseCmd(a)) \/ a \in t.leaked

\* A handler of an event that leaves the host t keeps the invariant.
LEMMA EventStep ==
    ASSUME ConnInv, NEW f, NEW t \in Host, cm' = t, NEW a \in Addrs,
           evts # <<>>, Head(evts).addr = a, evts' = Tail(evts), ctl' = ctl,
           env' \in Counts, f # NoFault \/ env.refused => env'.refused,
           Apart(cm) => Apart(t),
           f = NoFault /\ Told(cm) => Told(t),
           Sought(t, ctl, Tail(evts)),
           Follows(t, cm, a, Head(evts))
    PROVE  ConnInv'
<1> DEFINE q == Tail(evts)
           h == Head(evts)
<1>0. /\ q \in Seq(Messages) /\ ToldTruly(q, ctl)
      /\ \A b \in Addrs :
            Silent(q, b) =>
               \/ b # h.addr /\ Silent(evts, b)
               \/ b = h.addr /\ (h.type # "down" <=> b \in ctl.up)
  BY TakenEvent DEF ConnInv, ConnTypeOK
<1>00. evts' = q /\ h.addr = a /\ Sought(t, ctl, q) /\ Follows(t, cm, a, h)
  OBVIOUS
<1> HIDE DEF q, h
<1>1. ConnTypeOK'
  BY <1>0, <1>00 DEF ConnInv, ConnTypeOK
<1>2. ConnectedNotPending'
  BY DEF ConnInv, ConnectedNotPending, Apart, Pending
<1>3. NobodyForgotten'
  BY DEF ConnInv, NobodyForgotten, Told
<1>4. Sought(cm, ctl, evts)'
  BY <1>00 DEF Sought, Seeks, Ends, Resumed, Pending, Wanted
<1>5. ToldTruly(evts, ctl)'
  BY <1>0, <1>00 DEF ToldTruly, LastOf
<1>6. NodesAgree(t, ctl, q)
  <2> SUFFICES ASSUME NEW b \in Addrs, Silent(q, b)
               PROVE  /\ t.links[b] # "none" => b \in ctl.up
                      /\ b \in ctl.up =>
                            t.links[b] # "none" \/ Contains(t.out, ReleaseCmd(b)) \/ b \in t.leaked
    BY DEF NodesAgree
  <2>1. CASE b # a
    <3>1. Silent(evts, b)
      BY <1>0, <1>00, <2>1
    <3> QED BY <1>00, <2>1, <3>1 DEF ConnInv, NodesAgree, Follows
  <2>2. CASE b = a
    BY <1>0, <1>00, <2>2 DEF Follows
  <2> QED BY <2>1, <2>2
<1>7. NodesAgree(cm, ctl, evts)'
  BY <1>00, <1>6 DEF NodesAgree, Silent
<1> QED BY <1>1, <1>2, <1>3, <1>4, <1>5, <1>7 DEF ConnInv

\* A link comes up: its modules are told, the CONNECTING node goes.
LEMMA LinkedUp ==
    ASSUME NEW s \in Host, NEW a \in Addrs
    PROVE  LET t == LinkUp(s, a)
           IN  /\ t \in Host /\ t.bg = s.bg /\ t.direct = s.direct /\ t.out = s.out
               /\ t.leaked = s.leaked /\ t.lost = s.lost /\ t.connecting = FALSE
               /\ t.links[a] = "connected" /\ t.waiting[a] = {}
               /\ \A b \in Addrs : b # a => t.links[b] = s.links[b]
               /\ \A b \in Addrs : b # a => t.waiting[b] = s.waiting[b]
<1> DEFINE k == [s.links EXCEPT ![a] = "connected"]
           w == [s.waiting EXCEPT ![a] = {}]
           t == LinkUp(s, a)
<1>1. t = [s EXCEPT !.links = k, !.waiting = w, !.connecting = FALSE]
  BY DEF LinkUp
<1>2. /\ k \in [Addrs -> LinkStates] /\ w \in Requests
      /\ k[a] = "connected" /\ w[a] = {}
      /\ \A b \in Addrs : b # a => k[b] = s.links[b] /\ w[b] = s.waiting[b]
  BY HostFields DEF LinkStates, Requests
<1> HIDE DEF k, w
<1>3. t \in Host
  BY <1>1, <1>2 DEF Host
<1>4. /\ t.bg = s.bg /\ t.direct = s.direct /\ t.out = s.out /\ t.leaked = s.leaked
      /\ t.lost = s.lost /\ t.connecting = FALSE /\ t.links = k /\ t.waiting = w
  BY <1>1 DEF Host
<1> QED BY <1>2, <1>3, <1>4

\* A connection that is complete: the requests for it end, the others are sought.
LEMMA Completed ==
    ASSUME NEW s \in Host, NEW a \in Addrs, NEW f \in Faults
    PROVE  LET t == DoingComplete(LinkUp(s, a), a, f)
           IN  /\ t \in Host
               /\ Apart(s) => Apart(t)
               /\ Told(s) => Told(t)
               /\ \A c, e : Sought(t, c, e)
               /\ \A h : h.type # "down" => Follows(t, s, a, h)
<1> DEFINE u == LinkUp(s, a)
           r == EraseNodes(u, {a})
           t == DoingComplete(LinkUp(s, a), a, f)
<1>1. /\ u \in Host /\ u.bg = s.bg /\ u.direct = s.direct /\ u.out = s.out
      /\ u.leaked = s.leaked /\ u.connecting = FALSE
      /\ u.links[a] = "connected" /\ u.waiting[a] = {}
      /\ \A b \in Addrs : b # a => u.links[b] = s.links[b]
      /\ \A b \in Addrs : b # a => u.waiting[b] = s.waiting[b]
  BY LinkedUp
<1> HIDE DEF u
<1>2. /\ r \in Host /\ r.links = u.links /\ r.leaked = u.leaked /\ r.out = u.out
      /\ r.waiting = u.waiting /\ r.connecting = u.connecting
      /\ Pending(r) = Pending(u) \ {a}
      /\ \A b \in Addrs : r.direct[b] = IF b \in {a} THEN {} ELSE u.direct[b]
  BY <1>1, ErasedNodes
<1>3. t = StartAllowListConnReq(r, f)
  BY DEF DoingComplete, u
<1> HIDE DEF r
<1>4. t \in Host /\ OnlySends(t, r) /\ \A c, e : Sought(t, c, e)
  BY <1>1, <1>2, <1>3, StartReq
<1> HIDE DEF t
<1>5. (Apart(r) => Apart(t)) /\ (Told(r) => Told(t))
  BY <1>2, <1>4, SendingKeeps
<1>6. Pending(u) = Pending(s)
  BY <1>1 DEF Pending
<1>7. Apart(s) => Apart(r)
  BY <1>1, <1>2, <1>6 DEF Apart, Pending
<1>8. Told(s) => Told(r)
  BY <1>1, <1>2 DEF Told
<1>9. ASSUME NEW h, h.type # "down" PROVE Follows(t, s, a, h)
  <2>1. t.links = u.links /\ t.leaked = s.leaked /\ t.links[a] # "none"
    BY <1>1, <1>2, <1>4 DEF OnlySends
  <2>2. \A b \in Addrs : Contains(s.out, ReleaseCmd(b)) => Contains(t.out, ReleaseCmd(b))
    BY <1>1, <1>2, <1>4 DEF OnlySends
  <2> QED BY <1>1, <1>9, <2>1, <2>2 DEF Follows
<1> QED BY <1>4, <1>5, <1>7, <1>8, <1>9 DEF t

\* SleCreateConnectionProc keeps the invariant.
LEMMA CreateStep ==
    ASSUME ConnInv, NEW f \in Faults, NEW a \in Addrs, SleCreateConnectionProc(a, f)
    PROVE  ConnInv'
<1> DEFINE t == DoingComplete(LinkUp(cm, a), a, f)
           h == Head(evts)
           q == Tail(evts)
<1>0. /\ cm \in Host /\ Sought(cm, ctl, evts)
      /\ env' \in Counts /\ (f # NoFault \/ env.refused => env'.refused)
      /\ evts # <<>> /\ h.addr = a /\ evts' = q /\ ctl' = ctl
  BY Charged DEF ConnInv, ConnTypeOK, SleCreateConnectionProc
<1>1. h.type # "down"
  BY DEF SleCreateConnectionProc
<1>2. /\ t \in Host /\ (Apart(cm) => Apart(t)) /\ (Told(cm) => Told(t))
      /\ Sought(t, ctl, q) /\ Follows(t, cm, a, h)
  BY <1>0, <1>1, Completed
<1>3. CASE cm.connecting /\ cm' = ActiveComplete(a, f)
  <2>1. cm' = t
    BY <1>3 DEF ActiveComplete
  <2> HIDE DEF t
  <2> QED BY <1>0, <1>2, <2>1, EventStep
<1>4. CASE ~ cm.connecting /\ cm' = ActiveComplete(a, f)
  <2> DEFINE r == ReleaseReq(cm, a, f)
  <2>1. cm' = r
    BY <1>4 DEF ActiveComplete
  <2>2. /\ r \in Host /\ r.bg = cm.bg /\ r.direct = cm.direct /\ r.links = cm.links
        /\ r.waiting = cm.waiting /\ r.connecting = cm.connecting /\ r.lost = cm.lost
        /\ cm.leaked \subseteq r.leaked
        /\ \A b \in Addrs : Contains(cm.out, ReleaseCmd(b)) => Contains(r.out, ReleaseCmd(b))
        /\ Contains(r.out, ReleaseCmd(a)) \/ a \in r.leaked
        /\ Sought(cm, ctl, q) => Sought(r, ctl, q)
    BY <1>0, ReleaseSent
  <2> HIDE DEF r
  <2>3. Sought(cm, ctl, q)
    BY <1>0, <1>4 DEF Sought
  <2>4. Pending(r) = Pending(cm)
    BY <2>2 DEF Pending
  <2>5. (Apart(cm) => Apart(r)) /\ (Told(cm) => Told(r))
    BY <2>2, <2>4 DEF Apart, Told
  <2>6. Follows(r, cm, a, h)
    BY <1>1, <2>2 DEF Follows
  <2> QED BY <1>0, <2>1, <2>2, <2>3, <2>5, <2>6, EventStep
<1>5. CASE cm' = PassiveComplete(a, f)
  <2> DEFINE x == t.withdrawn \ {a}
             r == [t EXCEPT !.withdrawn = x]
  <2>1. cm' = r
    BY <1>5 DEF PassiveComplete
  <2> HIDE DEF t
  <2>2. x \in SUBSET Addrs
    BY <1>2, HostFields
  <2> HIDE DEF x
  <2>3. r \in Host
    BY <1>2, <2>2 DEF Host
  <2>4. /\ r.bg = t.bg /\ r.direct = t.direct /\ r.links = t.links /\ r.waiting = t.waiting
        /\ r.connecting = t.connecting /\ r.lost = t.lost /\ r.leaked = t.leaked
        /\ r.out = t.out
    BY <1>2 DEF Host
  <2> HIDE DEF r
  <2>5. Sought(r, ctl, q)
    BY <1>2, <2>4, SoughtSame
  <2>6. Pending(r) = Pending(t)
    BY <2>4 DEF Pending
  <2>7. (Apart(cm) => Apart(r)) /\ (Told(cm) => Told(r))
    BY <1>2, <2>4, <2>6 DEF Apart, Told
  <2>8. Follows(r, cm, a, h)
    BY <1>2, <2>4 DEF Follows
  <2> QED BY <1>0, <2>1, <2>3, <2>5, <2>7, <2>8, EventStep
<1> QED BY <1>3, <1>4, <1>5 DEF SleCreateConnectionProc

\* A connection given up while it is set up.
LEMMA GivenUp ==
    ASSUME NEW s \in Host, NEW r \in Host, NEW a \in Addrs, NEW f \in Faults,
           s.bg = r.bg, s.direct = r.direct, s.leaked = r.leaked, s.out = r.out,
           \A b \in Addrs : b # a => s.links[b] = r.links[b]
    PROVE  LET t == Interrupted(s, a, f)
           IN  /\ t \in Host
               /\ Apart(r) => Apart(t)
               /\ \A c, e : Sought(t, c, e)
               /\ \A h : h.type # "down" => Follows(t, r, a, h)
<1> DEFINE k == [s.links EXCEPT ![a] = "disconnecting"]
           u == [s EXCEPT !.links = k, !.lost = TRUE]
           t == ReleaseReq(u, a, f)
<1>0. Interrupted(s, a, f) = t
  BY DEF Interrupted
<1>1. /\ k \in [Addrs -> LinkStates] /\ k[a] = "disconnecting"
      /\ \A b \in Addrs : b # a => k[b] = s.links[b]
  BY HostFields DEF LinkStates
<1> HIDE DEF k
<1>2. u \in Host
  BY <1>1 DEF Host
<1>3. /\ u.bg = s.bg /\ u.direct = s.direct /\ u.out = s.out /\ u.leaked = s.leaked
      /\ u.links = k /\ u.lost = TRUE
  BY DEF Host
<1> HIDE DEF u
<1>4. /\ t \in Host /\ t.bg = u.bg /\ t.direct = u.direct /\ t.links = u.links
      /\ t.lost = u.lost /\ u.leaked \subseteq t.leaked
      /\ \A b \in Addrs : Contains(u.out, ReleaseCmd(b)) => Contains(t.out, ReleaseCmd(b))
  BY <1>2, ReleaseSent
<1> HIDE DEF t
<1>5. Pending(t) = Pending(r)
  BY <1>3, <1>4 DEF Pending
<1>6. Apart(r) => Apart(t)
  BY <1>1, <1>3, <1>4, <1>5 DEF Apart, Pending
<1>7. \A c, e : Sought(t, c, e)
  BY <1>3, <1>4 DEF Sought
<1>8. \A h : h.type # "down" => Follows(t, r, a, h)
  BY <1>1, <1>3, <1>4 DEF Follows
<1> QED BY <1>0, <1>4, <1>6, <1>7, <1>8

\* CreateInterrupted keeps the invariant.
LEMMA InterruptedStep ==
    ASSUME ConnInv, NEW f \in Faults, NEW a \in Addrs, CreateInterrupted(a, f)
    PROVE  ConnInv'
<1> DEFINE h == Head(evts)
           q == Tail(evts)
<1>0. /\ cm \in Host /\ env \in Counts
      /\ evts # <<>> /\ h.addr = a /\ evts' = q /\ ctl' = ctl /\ h.type # "down"
  BY DEF ConnInv, ConnTypeOK, CreateInterrupted
<1>1. env' \in Counts /\ env'.refused
  <2> DEFINE n == IF f = NoFault THEN env.faults ELSE env.faults - 1
  <2>1. /\ env.interrupted > 0 /\ (f = NoFault \/ env.faults > 0)
        /\ env' = [env EXCEPT !.interrupted = env.interrupted - 1, !.refused = TRUE, !.faults = n]
    BY DEF CreateInterrupted
  <2>2. n \in Nat /\ env.interrupted - 1 \in Nat
    BY <1>0, <2>1 DEF Counts
  <2> HIDE DEF n
  <2> QED BY <1>0, <2>1, <2>2 DEF Counts
<1>2. PICK s \in Host :
         /\ cm' = Interrupted(s, a, f)
         /\ s.bg = cm.bg /\ s.direct = cm.direct /\ s.leaked = cm.leaked /\ s.out = cm.out
         /\ \A b \in Addrs : b # a => s.links[b] = cm.links[b]
  <2>1. CASE cm' = Interrupted(LinkUp(cm, a), a, f)
    <3> DEFINE s == LinkUp(cm, a)
    <3>1. /\ s \in Host
          /\ s.bg = cm.bg /\ s.direct = cm.direct /\ s.leaked = cm.leaked /\ s.out = cm.out
          /\ \A b \in Addrs : b # a => s.links[b] = cm.links[b]
      <4>1. cm \in Host
        BY <1>0
      <4> QED BY <4>1, LinkedUp
    <3>2. cm' = Interrupted(s, a, f)
      BY <2>1
    <3> HIDE DEF s
    <3> QED BY <3>1, <3>2
  <2>2. CASE cm' = Interrupted([cm EXCEPT !.withdrawn = @ \ {a}], a, f)
    <3> DEFINE x == cm.withdrawn \ {a}
               s == [cm EXCEPT !.withdrawn = x]
    <3>1. x \in SUBSET Addrs
      BY <1>0, HostFields
    <3>2. cm' = Interrupted(s, a, f)
      BY <2>2
    <3> HIDE DEF x
    <3>3. s \in Host
      BY <1>0, <3>1 DEF Host
    <3>4. /\ s.bg = cm.bg /\ s.direct = cm.direct /\ s.leaked = cm.leaked /\ s.out = cm.out
          /\ s.links = cm.links
      BY <1>0 DEF Host
    <3> HIDE DEF s
    <3> QED BY <3>2, <3>3, <3>4
  <2> QED BY <2>1, <2>2 DEF CreateInterrupted
<1> DEFINE t == Interrupted(s, a, f)
<1>3. /\ t \in Host /\ (Apart(cm) => Apart(t)) /\ Sought(t, ctl, q) /\ Follows(t, cm, a, h)
  BY <1>0, <1>2, GivenUp
<1>4. cm' = t
  BY <1>2
<1> HIDE DEF t
<1>5. PICK g : g # NoFault
  <2>1. {NoFault} # NoFault \/ {} # NoFault
    OBVIOUS
  <2> QED BY <2>1
<1> QED BY <1>0, <1>1, <1>3, <1>4, <1>5, EventStep

\* SleDisconnectProc keeps the invariant.
LEMMA DisconnectStep ==
    ASSUME ConnInv, NEW a \in Addrs, SleDisconnectProc(a)
    PROVE  ConnInv'
<1> DEFINE h == Head(evts)
           q == Tail(evts)
           k == [cm.links EXCEPT ![a] = "none"]
           x == cm.leaked \ {a}
           t == [cm EXCEPT !.links = k, !.leaked = x]
<1>0. /\ cm \in Host /\ env \in Counts /\ Sought(cm, ctl, evts)
      /\ evts # <<>> /\ h = [type |-> "down", addr |-> a] /\ evts' = q /\ ctl' = ctl
      /\ env' = env /\ cm' = t
  BY DEF ConnInv, ConnTypeOK, SleDisconnectProc
<1>1. /\ k \in [Addrs -> LinkStates] /\ k[a] = "none"
      /\ \A b \in Addrs : b # a => k[b] = cm.links[b]
      /\ x \in SUBSET Addrs /\ \A b \in Addrs : b # a /\ b \in cm.leaked => b \in x
  BY <1>0, HostFields DEF LinkStates
<1> HIDE DEF k, x
<1>2. t \in Host
  BY <1>0, <1>1 DEF Host
<1>3. /\ t.bg = cm.bg /\ t.direct = cm.direct /\ t.out = cm.out /\ t.leaked = x
      /\ t.links = k /\ t.lost = cm.lost /\ t.waiting = cm.waiting
      /\ t.connecting = cm.connecting
  BY <1>0 DEF Host
<1> HIDE DEF t
<1>4. Pending(t) = Pending(cm)
  BY <1>3 DEF Pending
<1>5. (Apart(cm) => Apart(t)) /\ (Told(cm) => Told(t))
  BY <1>1, <1>3, <1>4 DEF Apart, Told, Pending
<1>6. Sought(t, ctl, q)
  <2>1. h.type = "down"
    BY <1>0
  <2>2. \A i \in 1 .. Len(evts) : evts[i].type # "down" =>
           \E j \in 1 .. Len(q) : q[j].type # "down"
    BY <1>0, <2>1, TakenEvent DEF ConnInv, ConnTypeOK
  <2>3. \A o : Seeks(o, ctl, evts) => Seeks(o, ctl, q)
    BY <2>2 DEF Seeks
  <2>4. Sought(cm, ctl, q)
    BY <1>0, <2>3 DEF Sought
  <2> QED BY <1>3, <2>4, SoughtSame
<1>7. Follows(t, cm, a, h)
  BY <1>0, <1>1, <1>3 DEF Follows
<1> QED BY <1>0, <1>2, <1>5, <1>6, <1>7, EventStep

-----------------------------------------------------------------------------
(* Steps of the controller.                                                *)

\* An event that tells the truth of its device is sent.
LEMMA NewEvent ==
    ASSUME NEW e \in Seq(Messages), NEW x \in Messages, NEW c, NEW d, ToldTruly(e, c),
           \A b \in Addrs : b # x.addr => (b \in d.up <=> b \in c.up),
           x.type # "down" <=> x.addr \in d.up
    PROVE  /\ Append(e, x) \in Seq(Messages)
           /\ ToldTruly(Append(e, x), d)
           /\ \A b \in Addrs : Silent(Append(e, x), b) => b # x.addr /\ Silent(e, b)
           /\ \A o : Seeks(o, c, e) /\ (c.seeking => d.seeking \/ x.type # "down")
                       => Seeks(o, d, Append(e, x))
<1> DEFINE t == Append(e, x)
           n == Len(e) + 1
<1>1. /\ t \in Seq(Messages) /\ Len(t) = n /\ Len(e) \in Nat
      /\ \A i \in 1 .. n : t[i] = IF i \in 1 .. Len(e) THEN e[i] ELSE x
  BY AppendElements
<1> HIDE DEF t
<1>2. n \in 1 .. Len(t) /\ t[n] = x /\ \A i \in 1 .. Len(e) : i \in 1 .. Len(t) /\ t[i] = e[i] /\ n > i
  BY <1>1
<1>3. \A i \in 1 .. Len(t) : i = n \/ i \in 1 .. Len(e)
  BY <1>1
<1> HIDE DEF n
<1>4. ASSUME NEW b \in Addrs, NEW i \in 1 .. Len(t), LastOf(t, i, b)
      PROVE  t[i].type # "down" <=> b \in d.up
  <2>1. CASE i = n
    <3>1. b = x.addr /\ t[i] = x
      BY <1>2, <1>4, <2>1 DEF LastOf
    <3> QED BY <3>1
  <2>2. CASE i \in 1 .. Len(e)
    <3>1. b # x.addr /\ LastOf(e, i, b) /\ t[i] = e[i]
      BY <1>2, <1>4, <2>2 DEF LastOf
    <3>2. e[i].type # "down" <=> b \in c.up
      BY <2>2, <3>1 DEF ToldTruly
    <3>3. b \in d.up <=> b \in c.up
      BY <3>1
    <3> QED BY <3>1, <3>2, <3>3
  <2> QED BY <1>3, <2>1, <2>2
<1>5. ToldTruly(t, d)
  BY <1>4 DEF ToldTruly
<1>6. \A b \in Addrs : Silent(t, b) => b # x.addr /\ Silent(e, b)
  BY <1>2 DEF Silent
<1>7. ASSUME NEW o, Seeks(o, c, e), c.seeking => d.seeking \/ x.type # "down"
      PROVE  Seeks(o, d, t)
  BY <1>2, <1>7 DEF Seeks
<1> QED BY <1>1, <1>5, <1>6, <1>7 DEF t

\* A step that leaves the host alone and sends such an event keeps the invariant.
LEMMA RadioStep ==
    ASSUME ConnInv, NEW x \in Messages, cm' = cm, evts' = Append(evts, x),
           ctl' \in Radio, ctl'.list = ctl.list, env' \in Counts, env'.refused = env.refused,
           \A b \in Addrs : b # x.addr => (b \in ctl'.up <=> b \in ctl.up),
           x.type # "down" <=> x.addr \in ctl'.up,
           ctl.seeking => ctl'.seeking \/ x.type # "down"
    PROVE  ConnInv'
<1> DEFINE e == Append(evts, x)
<1>1. PICK d : d = ctl'
  OBVIOUS
<1>2. /\ e \in Seq(Messages) /\ ToldTruly(e, d)
      /\ \A b \in Addrs : Silent(e, b) => b # x.addr /\ Silent(evts, b)
      /\ \A o : Seeks(o, ctl, evts) => Seeks(o, d, e)
  BY <1>1, NewEvent DEF ConnInv, ConnTypeOK
<1>3. evts' = e
  OBVIOUS
<1> HIDE DEF e
<1>4. ConnTypeOK'
  BY <1>2, <1>3 DEF ConnInv, ConnTypeOK
<1>5. ConnectedNotPending' /\ NobodyForgotten'
  BY DEF ConnInv, ConnectedNotPending, NobodyForgotten, Pending
<1>6. Sought(cm, d, e)
  <2>1. \A o, w : Ends(o, ctl, w) => Ends(o, d, w)
    BY <1>1 DEF Ends
  <2> QED BY <1>2, <2>1 DEF ConnInv, Sought
<1>7. Sought(cm, ctl, evts)'
  BY <1>1, <1>3, <1>6 DEF Sought, Seeks, Ends, Resumed, Pending, Wanted
<1>8. ToldTruly(evts, ctl)'
  BY <1>1, <1>2, <1>3 DEF ToldTruly, LastOf
<1>9. NodesAgree(cm, d, e)
  BY <1>1, <1>2 DEF ConnInv, NodesAgree
<1>10. NodesAgree(cm, ctl, evts)'
  BY <1>1, <1>3, <1>9 DEF NodesAgree, Silent
<1> QED BY <1>4, <1>5, <1>7, <1>8, <1>10 DEF ConnInv

\* Found, PeerConnects and PeerDrops keep the invariant.
LEMMA PeerStep ==
    ASSUME ConnInv, NEW a \in Addrs, Found(a) \/ PeerConnects(a) \/ PeerDrops(a)
    PROVE  ConnInv'
<1>0. ctl \in Radio /\ env \in Counts /\ ctl.up \subseteq Addrs /\ ctl.seeking \in BOOLEAN
  BY DEF ConnInv, ConnTypeOK, Radio
<1>1. CASE Found(a)
  <2> DEFINE x == [type |-> "active", addr |-> a]
  <2>1. x \in Messages /\ x.addr = a /\ x.type # "down"
    BY DEF Messages
  <2>2. ctl' = [ctl EXCEPT !.seeking = FALSE, !.up = ctl.up \cup {a}]
    BY <1>1 DEF Found
  <2>3. ctl' \in Radio /\ ctl'.list = ctl.list /\ ctl'.up = ctl.up \cup {a}
    BY <1>0, <2>2 DEF Radio
  <2>4. evts' = Append(evts, x) /\ cm' = cm /\ env' = env
    BY <1>1 DEF Found
  <2> HIDE DEF x
  <2> QED BY <1>0, <2>1, <2>3, <2>4, RadioStep
<1>2. CASE PeerConnects(a)
  <2> DEFINE x == [type |-> "passive", addr |-> a]
  <2>1. x \in Messages /\ x.addr = a /\ x.type # "down"
    BY DEF Messages
  <2>2. PICK goesOn \in BOOLEAN :
           ctl' = [ctl EXCEPT !.seeking = ctl.seeking /\ goesOn, !.up = ctl.up \cup {a}]
    BY <1>2 DEF PeerConnects
  <2>3. ctl' \in Radio /\ ctl'.list = ctl.list /\ ctl'.up = ctl.up \cup {a}
    BY <1>0, <2>2 DEF Radio
  <2>4. evts' = Append(evts, x) /\ cm' = cm
    BY <1>2 DEF PeerConnects
  <2>5. env' \in Counts /\ env'.refused = env.refused
    <3>1. env' = [env EXCEPT !.passive = env.passive - 1] /\ env.passive > 0
      BY <1>2 DEF PeerConnects
    <3>2. env.passive - 1 \in Nat
      BY <1>0, <3>1 DEF Counts
    <3> QED BY <1>0, <3>1, <3>2 DEF Counts
  <2> HIDE DEF x
  <2> QED BY <1>0, <2>1, <2>3, <2>4, <2>5, RadioStep
<1>3. CASE PeerDrops(a)
  <2> DEFINE x == [type |-> "down", addr |-> a]
  <2>1. x \in Messages /\ x.addr = a /\ x.type = "down"
    BY DEF Messages
  <2>2. ctl' = [ctl EXCEPT !.up = ctl.up \ {a}]
    BY <1>3 DEF PeerDrops
  <2>3. ctl' \in Radio /\ ctl'.list = ctl.list /\ ctl'.up = ctl.up \ {a} /\ ctl'.seeking = ctl.seeking
    BY <1>0, <2>2 DEF Radio
  <2>4. evts' = Append(evts, x) /\ cm' = cm
    BY <1>3 DEF PeerDrops
  <2>5. env' \in Counts /\ env'.refused = env.refused
    <3>1. env' = [env EXCEPT !.drops = env.drops - 1] /\ env.drops > 0
      BY <1>3 DEF PeerDrops
    <3>2. env.drops - 1 \in Nat
      BY <1>0, <3>1 DEF Counts
    <3> QED BY <1>0, <3>1, <3>2 DEF Counts
  <2> HIDE DEF x
  <2> QED BY <1>0, <2>1, <2>3, <2>4, <2>5, RadioStep
<1> QED BY <1>1, <1>2, <1>3

\* The host with its first command taken.
LEMMA Taken ==
    ASSUME NEW s \in Host, s.out # <<>>, NEW l \in BOOLEAN, s.lost => l
    PROVE  LET t == [s EXCEPT !.out = Tail(s.out), !.lost = l]
           IN  /\ t \in Host /\ t.bg = s.bg /\ t.direct = s.direct /\ t.links = s.links
               /\ t.leaked = s.leaked /\ t.waiting = s.waiting /\ t.connecting = s.connecting
               /\ t.out = Tail(s.out) /\ t.lost = l
<1>1. Tail(s.out) \in Seq(Commands)
  BY HostFields, TailElements
<1> QED BY <1>1 DEF Host

\* What is coming is still coming when the controller c has taken the first command
\* and become d.
LEMMA TakenCommand ==
    ASSUME NEW o \in Seq(Commands), o # <<>>, NEW c, NEW d, NEW e, NEW w,
           Resumed(o), Seeks(o, c, e), Ends(o, c, w),
           \/ o[1].op = "cancel" /\ d.list = c.list
           \/ o[1].op = "release" /\ d.list = c.list /\ d.seeking = c.seeking
           \/ /\ o[1].op = "list"
              /\ Lists(o[1], w) => d.list = w
              /\ c.seeking \/ Creates(o[1]) =>
                    d.seeking \/ \E i \in 2 .. Len(o) : Creates(o[i])
    PROVE  Resumed(Tail(o)) /\ Seeks(Tail(o), d, e) /\ Ends(Tail(o), d, w)
<1> DEFINE t == Tail(o)
<1>1. /\ Len(t) = Len(o) - 1 /\ Len(o) \in Nat \ {0}
      /\ \A i \in 1 .. Len(o) - 1 : t[i] = o[i + 1]
  BY TailElements
<1> HIDE DEF t
<1>2. \A i \in 1 .. Len(t) : i + 1 \in 1 .. Len(o) /\ t[i] = o[i + 1]
  BY <1>1
<1>3. \A i \in 1 .. Len(o) : i # 1 => i - 1 \in 1 .. Len(t) /\ o[i] = t[i - 1]
  BY <1>1
<1>4. 1 \in 1 .. Len(o) /\ \A i \in 1 .. Len(o) : i = 1 \/ i > 1
  BY <1>1
<1>5. Resumed(t)
  <2> SUFFICES ASSUME NEW i \in 1 .. Len(t), t[i].op = "cancel"
               PROVE  \E j \in 1 .. Len(t) : j > i /\ Creates(t[j])
    BY DEF Resumed
  <2>1. PICK j \in 1 .. Len(o) : j > i + 1 /\ Creates(o[j])
    BY <1>2 DEF Resumed
  <2>2. j - 1 \in 1 .. Len(t) /\ j - 1 > i /\ o[j] = t[j - 1]
    BY <1>1, <1>3, <2>1
  <2> QED BY <2>1, <2>2
<1>6. Seeks(t, d, e)
  <2>1. \A i \in 1 .. Len(o) : i # 1 /\ Creates(o[i]) => Seeks(t, d, e)
    BY <1>3 DEF Seeks
  <2>2. CASE o[1].op = "cancel"
    <3>1. PICK j \in 1 .. Len(o) : j > 1 /\ Creates(o[j])
      BY <1>4, <2>2 DEF Resumed
    <3>2. j # 1
      BY <1>1, <3>1
    <3> QED BY <2>1, <3>1, <3>2
  <2>3. CASE o[1].op = "release"
    <3>1. ~ Creates(o[1])
      BY <2>3 DEF Creates
    <3> QED BY <2>1, <2>3, <3>1 DEF Seeks
  <2>4. CASE o[1].op = "list"
    <3>1. \A i \in 2 .. Len(o) : i \in 1 .. Len(o) /\ i # 1
      BY <1>1
    <3>2. d.seeking => Seeks(t, d, e)
      BY DEF Seeks
    <3>3. c.seeking \/ Creates(o[1]) => Seeks(t, d, e)
      BY <2>1, <2>4, <3>1, <3>2
    <3> QED BY <2>1, <3>3 DEF Seeks
  <2> QED BY <2>2, <2>3, <2>4
<1>7. Ends(t, d, w)
  <2>1. CASE c.list = w /\ \A i \in 1 .. Len(o) : o[i].op # "list"
    <3>1. d.list = w
      BY <1>4, <2>1
    <3>2. \A i \in 1 .. Len(t) : t[i].op # "list"
      BY <1>2, <2>1
    <3> QED BY <3>1, <3>2 DEF Ends
  <2>2. ASSUME NEW i \in 1 .. Len(o), Lists(o[i], w), \A j \in 1 .. Len(o) : j > i => o[j].op # "list"
        PROVE  Ends(t, d, w)
    <3>1. CASE i = 1
      <4>1. o[1].op = "list" /\ d.list = w
        BY <2>2, <3>1 DEF Lists
      <4>2. \A j \in 1 .. Len(t) : j + 1 > 1
        BY <1>1
      <4>3. \A j \in 1 .. Len(t) : t[j].op # "list"
        BY <1>2, <2>2, <3>1, <4>2
      <4> QED BY <4>1, <4>3 DEF Ends
    <3>2. CASE i # 1
      <4>1. i - 1 \in 1 .. Len(t) /\ o[i] = t[i - 1]
        BY <1>3, <3>2
      <4>2. ASSUME NEW j \in 1 .. Len(t), j > i - 1 PROVE t[j].op # "list"
        <5>1. j + 1 \in 1 .. Len(o) /\ t[j] = o[j + 1] /\ j + 1 > i
          BY <1>1, <1>2, <4>2
        <5> QED BY <2>2, <5>1
      <4> QED BY <2>2, <4>1, <4>2 DEF Ends
    <3> QED BY <3>1, <3>2
  <2> QED BY <2>1, <2>2 DEF Ends
<1> QED BY <1>5, <1>6, <1>7 DEF t

\* The next state is sought, if its value is.
LEMMA SoughtNext ==
    ASSUME NEW t, NEW d, NEW e, cm' = t, ctl' = d, evts' = e, Sought(t, d, e)
    PROVE  Sought(cm, ctl, evts)'
BY DEF Sought, Seeks, Ends, Resumed, Pending, Wanted

\* A step that takes the first command keeps the invariant, if what was coming still
\* is and no device is told of.
LEMMA TakeStep ==
    ASSUME ConnInv, cm.out # <<>>, NEW l \in BOOLEAN, cm.lost => l,
           cm' = [cm EXCEPT !.out = Tail(cm.out), !.lost = l],
           evts' = evts, ctl' \in Radio, ctl'.up = ctl.up,
           env' \in Counts, env.refused => env'.refused,
           \A a \in ctl.up : Head(cm.out) # ReleaseCmd(a),
           \/ cm.out[1].op = "cancel" /\ ctl'.list = ctl.list
           \/ cm.out[1].op = "release" /\ ctl'.list = ctl.list /\ ctl'.seeking = ctl.seeking
           \/ l
           \/ /\ cm.out[1].op = "list"
              /\ Lists(cm.out[1], Wanted(cm)) => ctl'.list = Wanted(cm)
              /\ ctl.seeking \/ Creates(cm.out[1]) =>
                    ctl'.seeking \/ \E i \in 2 .. Len(cm.out) : Creates(cm.out[i])
    PROVE  ConnInv'
<1> DEFINE t == [cm EXCEPT !.out = Tail(cm.out), !.lost = l]
<1>0. PICK d : d = ctl'
  OBVIOUS
<1>1. /\ t \in Host /\ t.bg = cm.bg /\ t.direct = cm.direct /\ t.links = cm.links
      /\ t.leaked = cm.leaked /\ t.waiting = cm.waiting /\ t.connecting = cm.connecting
      /\ t.out = Tail(cm.out) /\ t.lost = l
  BY Taken DEF ConnInv, ConnTypeOK
<1>2. cm' = t
  OBVIOUS
<1> HIDE DEF t
<1>3. ConnTypeOK'
  BY <1>1, <1>2 DEF ConnInv, ConnTypeOK
<1>4. Pending(t) = Pending(cm) /\ Wanted(t) = Wanted(cm)
  BY <1>1 DEF Pending, Wanted
<1>5. ConnectedNotPending' /\ NobodyForgotten'
  BY <1>1, <1>2 DEF ConnInv, ConnectedNotPending, NobodyForgotten, Pending
<1>6. Sought(t, d, evts)
  <2> SUFFICES ASSUME ~ t.lost
               PROVE  /\ t.connecting <=> Pending(t) # {}
                      /\ t.connecting =>
                            Resumed(t.out) /\ Seeks(t.out, d, evts) /\ Ends(t.out, d, Wanted(t))
    BY DEF Sought
  <2>1. ~ l /\ ~ cm.lost
    BY <1>1
  <2>2. /\ cm.connecting <=> Pending(cm) # {}
        /\ cm.connecting =>
              Resumed(cm.out) /\ Seeks(cm.out, ctl, evts) /\ Ends(cm.out, ctl, Wanted(cm))
    BY <2>1 DEF ConnInv, Sought
  <2>3. cm.out \in Seq(Commands)
    BY HostFields DEF ConnInv, ConnTypeOK
  <2>4. ASSUME cm.connecting
        PROVE  Resumed(Tail(cm.out)) /\ Seeks(Tail(cm.out), d, evts) /\ Ends(Tail(cm.out), d, Wanted(cm))
    <3>1. PICK o, w : o = cm.out /\ w = Wanted(cm)
      OBVIOUS
    <3>2. o \in Seq(Commands) /\ o # <<>> /\ Resumed(o) /\ Seeks(o, ctl, evts) /\ Ends(o, ctl, w)
      BY <2>2, <2>3, <2>4, <3>1
    <3>3. \/ o[1].op = "cancel" /\ d.list = ctl.list
          \/ o[1].op = "release" /\ d.list = ctl.list /\ d.seeking = ctl.seeking
          \/ /\ o[1].op = "list"
             /\ Lists(o[1], w) => d.list = w
             /\ ctl.seeking \/ Creates(o[1]) =>
                   d.seeking \/ \E i \in 2 .. Len(o) : Creates(o[i])
      BY <1>0, <2>1, <3>1
    <3>4. Resumed(Tail(o)) /\ Seeks(Tail(o), d, evts) /\ Ends(Tail(o), d, w)
      BY <3>2, <3>3, TakenCommand
    <3> QED BY <3>1, <3>4
  <2> QED BY <1>1, <1>4, <2>2, <2>4
<1>7. Sought(cm, ctl, evts)'
  <2>1. PICK e : e = evts
    OBVIOUS
  <2> QED BY <1>0, <1>2, <1>6, <2>1, SoughtNext
<1>8. ToldTruly(evts, ctl)'
  BY DEF ConnInv, ToldTruly, LastOf
<1>9. NodesAgree(t, d, evts)
  <2>1. ASSUME NEW a \in ctl.up, Contains(cm.out, ReleaseCmd(a))
        PROVE  Contains(t.out, ReleaseCmd(a))
    <3>1. cm.out \in Seq(Commands)
      BY HostFields DEF ConnInv, ConnTypeOK
    <3>2. Contains(Tail(cm.out), ReleaseCmd(a))
      BY <2>1, <3>1, TailElements
    <3> QED BY <1>1, <3>2
  <2>2. NodesAgree(cm, ctl, evts) /\ d.up = ctl.up
    BY <1>0 DEF ConnInv
  <2> QED BY <1>1, <2>1, <2>2 DEF NodesAgree
<1>10. NodesAgree(cm, ctl, evts)'
  BY <1>0, <1>2, <1>9 DEF NodesAgree, Silent
<1> QED BY <1>3, <1>5, <1>7, <1>8, <1>10 DEF ConnInv

\* TakeCancel keeps the invariant.
LEMMA CancelStep ==
    ASSUME ConnInv, cm.out # <<>>, Head(cm.out).op = "cancel", TakeCancel
    PROVE  ConnInv'
<1>0. /\ cm \in Host /\ ctl \in Radio /\ env \in Counts /\ cm.out \in Seq(Commands)
      /\ cm.lost \in BOOLEAN
  BY HostFields DEF ConnInv, ConnTypeOK
<1>1. cm' = [cm EXCEPT !.out = Tail(cm.out), !.lost = cm.lost]
  <2>1. cm' = [cm EXCEPT !.out = Tail(cm.out)]
    BY DEF TakeCancel
  <2> QED BY <1>0, <2>1 DEF Host
<1>2. ctl' \in Radio /\ ctl'.list = ctl.list /\ ctl'.up = ctl.up
  BY <1>0 DEF TakeCancel, Radio
<1>3. Head(cm.out) = cm.out[1]
  BY <1>0, TailElements
<1>4. \A a \in ctl.up : Head(cm.out) # ReleaseCmd(a)
  BY DEF ReleaseCmd
<1>5. evts' = evts /\ env' = env
  BY DEF TakeCancel
<1> QED BY <1>0, <1>1, <1>2, <1>3, <1>4, <1>5, TakeStep

\* TakeList keeps the invariant.
LEMMA ListStep ==
    ASSUME ConnInv, cm.out # <<>>, Head(cm.out).op = "list", TakeList(Head(cm.out))
    PROVE  ConnInv'
<1> DEFINE cmd == Head(cm.out)
<1>0. /\ cm \in Host /\ ctl \in Radio /\ env \in Counts /\ cm.out \in Seq(Commands)
      /\ cm.lost \in BOOLEAN
  BY HostFields DEF ConnInv, ConnTypeOK
<1>1. PICK fails \in BOOLEAN :
        /\ fails => cmd.create /\ ~ ctl.seeking /\ env.faults > 0
        /\ env' = IF fails THEN [env EXCEPT !.faults = env.faults - 1, !.refused = TRUE]
                  ELSE env
        /\ ctl' = [ctl EXCEPT !.list = Overridden(ctl.list, cmd),
                              !.seeking = ctl.seeking \/ (cmd.create /\ ~ fails)]
        /\ cm' = [cm EXCEPT
                    !.out = Tail(cm.out),
                    !.lost = \/ cm.lost
                             \/ /\ fails
                                /\ \A i \in 2 .. Len(cm.out) :
                                     cm.out[i].op = "list" => ~ cm.out[i].create]
        /\ evts' = evts
  BY DEF TakeList
<1> DEFINE l == \/ cm.lost
                \/ /\ fails
                   /\ \A i \in 2 .. Len(cm.out) : cm.out[i].op = "list" => ~ cm.out[i].create
<1>2. l \in BOOLEAN /\ (cm.lost => l) /\ cm' = [cm EXCEPT !.out = Tail(cm.out), !.lost = l]
  BY <1>0, <1>1
<1>3. ~ l /\ fails => \E i \in 2 .. Len(cm.out) : Creates(cm.out[i])
  BY DEF Creates
<1> HIDE DEF l
<1>4. cmd = cm.out[1] /\ cmd \in Commands /\ cmd.op = "list"
  BY <1>0, TailElements
<1> HIDE DEF cmd
<1>5. cmd \in ListCmds
  BY <1>4 DEF Commands, CancelCmd
<1>6. /\ Overridden(ctl.list, cmd) \in [Addrs -> Kinds]
      /\ cmd.clear => Overridden(ctl.list, cmd) = cmd.add
  <2>1. cmd.add \in [Addrs -> Kinds] /\ ctl.list \in [Addrs -> Kinds]
    BY <1>0, <1>5 DEF ListCmds, Radio
  <2>2. Overridden(ctl.list, cmd) \in [Addrs -> Kinds]
    BY <2>1 DEF Overridden, Kinds
  <2>3. ASSUME cmd.clear PROVE Overridden(ctl.list, cmd) = cmd.add
    <3>1. \A a \in Addrs : Overridden(ctl.list, cmd)[a] = cmd.add[a]
      BY <2>3 DEF Overridden
    <3> QED BY <2>1, <2>2, <3>1
  <2> QED BY <2>2, <2>3
<1>7. /\ ctl' \in Radio /\ ctl'.up = ctl.up /\ ctl'.list = Overridden(ctl.list, cmd)
      /\ ctl'.seeking = (ctl.seeking \/ (cmd.create /\ ~ fails))
  <2>1. PICK v \in BOOLEAN : v = (ctl.seeking \/ (cmd.create /\ ~ fails))
    OBVIOUS
  <2>2. PICK L \in [Addrs -> Kinds] : L = Overridden(ctl.list, cmd)
    BY <1>6
  <2>3. ctl' = [ctl EXCEPT !.list = L, !.seeking = v]
    BY <1>1, <2>1, <2>2
  <2>4. ctl' \in Radio /\ ctl'.up = ctl.up /\ ctl'.list = L /\ ctl'.seeking = v
    BY <1>0, <2>3 DEF Radio
  <2> QED BY <2>1, <2>2, <2>4
<1>8. env' \in Counts /\ (env.refused => env'.refused)
  <2>1. CASE fails
    <3>1. env' = [env EXCEPT !.faults = env.faults - 1, !.refused = TRUE] /\ env.faults > 0
      BY <1>1, <2>1
    <3>2. env.faults - 1 \in Nat
      BY <1>0, <3>1 DEF Counts
    <3> QED BY <1>0, <3>1, <3>2 DEF Counts
  <2>2. CASE ~ fails
    BY <1>0, <1>1, <2>2
  <2> QED BY <2>1, <2>2
<1>9. \A a \in ctl.up : cmd # ReleaseCmd(a)
  BY <1>4 DEF ReleaseCmd
<1>10. Lists(cmd, Wanted(cm)) => ctl'.list = Wanted(cm)
  BY <1>6, <1>7 DEF Lists
<1>11. l \/ (ctl.seeking \/ Creates(cmd) =>
               ctl'.seeking \/ \E i \in 2 .. Len(cm.out) : Creates(cm.out[i]))
  BY <1>3, <1>7 DEF Creates
<1>12. evts' = evts
  BY <1>1
<1>13. \A a \in ctl.up : Head(cm.out) # ReleaseCmd(a)
  BY <1>9 DEF cmd
<1> QED BY <1>2, <1>4, <1>7, <1>8, <1>10, <1>11, <1>12, <1>13, TakeStep

\* TakeRelease keeps the invariant.
LEMMA ReleaseStep ==
    ASSUME ConnInv, cm.out # <<>>, Head(cm.out).op = "release", TakeRelease(Head(cm.out).addr)
    PROVE  ConnInv'
<1> DEFINE t == [cm EXCEPT !.out = Tail(cm.out), !.lost = cm.lost]
<1>0. /\ cm \in Host /\ ctl \in Radio /\ env \in Counts /\ cm.out \in Seq(Commands)
      /\ cm.lost \in BOOLEAN /\ evts \in Seq(Messages) /\ ToldTruly(evts, ctl)
      /\ Sought(cm, ctl, evts) /\ NodesAgree(cm, ctl, evts)
  BY HostFields DEF ConnInv, ConnTypeOK
<1>1. Head(cm.out) = cm.out[1] /\ Head(cm.out) \in Commands
  BY <1>0, TailElements
<1>2. PICK a \in Addrs : Head(cm.out) = ReleaseCmd(a) /\ Head(cm.out).addr = a
  <2>1. Head(cm.out) \in [op : {"release"}, addr : Addrs]
    BY <1>1 DEF Commands, CancelCmd, ListCmds
  <2> QED BY <2>1 DEF ReleaseCmd
<1>3. /\ cm' = [cm EXCEPT !.out = Tail(cm.out)] /\ env' = env
      /\ ctl' = [ctl EXCEPT !.up = ctl.up \ {a}]
      /\ evts' = IF a \in ctl.up THEN Append(evts, [type |-> "down", addr |-> a]) ELSE evts
  BY <1>2 DEF TakeRelease
<1>4. cm' = t
  BY <1>0, <1>3 DEF Host
<1>5. /\ ctl' \in Radio /\ ctl'.list = ctl.list /\ ctl'.seeking = ctl.seeking
      /\ ctl'.up = ctl.up \ {a}
  BY <1>0, <1>3 DEF Radio
<1>6. \A b \in Addrs : b # a => Head(cm.out) # ReleaseCmd(b)
  BY <1>2 DEF ReleaseCmd
<1>7. CASE a \notin ctl.up
  <2>1. ctl'.up = ctl.up /\ evts' = evts
    BY <1>3, <1>5, <1>7
  <2>2. \A b \in ctl.up : Head(cm.out) # ReleaseCmd(b)
    BY <1>0, <1>6, <1>7 DEF Radio
  <2> QED BY <1>0, <1>1, <1>3, <1>4, <1>5, <2>1, <2>2, TakeStep
<1>8. CASE a \in ctl.up
  <2> DEFINE x == [type |-> "down", addr |-> a]
             e == Append(evts, x)
  <2>0. PICK d : d = ctl'
    OBVIOUS
  <2>1. x \in Messages /\ x.type = "down" /\ x.addr = a /\ evts' = e
    BY <1>3, <1>8 DEF Messages
  <2> HIDE DEF x
  <2>2. /\ e \in Seq(Messages) /\ ToldTruly(e, d)
        /\ \A b \in Addrs : Silent(e, b) => b # a /\ Silent(evts, b)
        /\ \A o : Seeks(o, ctl, evts) => Seeks(o, d, e)
    BY <1>0, <1>5, <2>0, <2>1, NewEvent
  <2> HIDE DEF e
  <2>3. /\ t \in Host /\ t.bg = cm.bg /\ t.direct = cm.direct /\ t.links = cm.links
        /\ t.leaked = cm.leaked /\ t.waiting = cm.waiting /\ t.connecting = cm.connecting
        /\ t.out = Tail(cm.out) /\ t.lost = cm.lost
    BY <1>0, Taken, ZenonT(60)
  <2>4. cm' = t
    BY <1>4
  <2> HIDE DEF t
  <2>5. ConnTypeOK'
    BY <1>0, <1>3, <1>5, <2>1, <2>2, <2>3, <2>4 DEF ConnTypeOK
  <2>6. ConnectedNotPending' /\ NobodyForgotten'
    BY <1>3, <2>3, <2>4 DEF ConnInv, ConnectedNotPending, NobodyForgotten, Pending
  <2>7. Sought(t, d, e)
    <3>1. Pending(t) = Pending(cm) /\ Wanted(t) = Wanted(cm)
      BY <2>3 DEF Pending, Wanted
    <3>2. ASSUME NEW w, Resumed(cm.out), Seeks(cm.out, ctl, evts), Ends(cm.out, ctl, w)
          PROVE  Resumed(t.out) /\ Seeks(t.out, d, e) /\ Ends(t.out, d, w)
      <4>1. PICK o : o = cm.out
        OBVIOUS
      <4>2. o \in Seq(Commands) /\ o # <<>> /\ o[1].op = "release"
        BY <1>0, <1>1, <4>1
      <4>3. Resumed(o) /\ Seeks(o, ctl, evts) /\ Ends(o, ctl, w)
        BY <3>2, <4>1
      <4>4. Resumed(Tail(o)) /\ Seeks(Tail(o), ctl, evts) /\ Ends(Tail(o), ctl, w)
        BY <4>2, <4>3, TakenCommand
      <4>5. Ends(Tail(o), d, w)
        BY <1>5, <2>0, <4>4 DEF Ends
      <4> QED BY <2>2, <2>3, <4>1, <4>4, <4>5
    <3> QED BY <1>0, <2>3, <3>1, <3>2 DEF Sought
  <2>8. Sought(cm, ctl, evts)'
    BY <2>0, <2>1, <2>4, <2>7, SoughtNext
  <2>9. ToldTruly(evts, ctl)'
    BY <2>0, <2>1, <2>2 DEF ToldTruly, LastOf
  <2>10. NodesAgree(t, d, e)
    <3>1. ASSUME NEW b \in Addrs, b # a, Contains(cm.out, ReleaseCmd(b))
          PROVE  Contains(t.out, ReleaseCmd(b))
      <4>1. Contains(Tail(cm.out), ReleaseCmd(b))
        BY <1>0, <1>6, <3>1, TailElements
      <4> QED BY <2>3, <4>1
    <3>2. d.up = ctl.up \ {a}
      BY <1>5, <2>0
    <3> QED BY <1>0, <2>2, <2>3, <3>1, <3>2 DEF NodesAgree
  <2>11. NodesAgree(cm, ctl, evts)'
    BY <2>0, <2>1, <2>4, <2>10 DEF NodesAgree, Silent
  <2> QED BY <2>5, <2>6, <2>8, <2>9, <2>11 DEF ConnInv
<1> QED BY <1>7, <1>8

-----------------------------------------------------------------------------
(* The theorems.                                                           *)

\* The invariant holds at the start.
LEMMA ConnInvInit == Init => ConnInv
<1> SUFFICES ASSUME Init PROVE ConnInv
  OBVIOUS
<1>1. Nowhere \in [Addrs -> Kinds] /\ [a \in Addrs |-> {}] \in Requests
      /\ Nowhere \in [Addrs -> LinkStates] /\ \A a \in Addrs : Nowhere[a] = "none"
  BY DEF Nowhere, Kinds, LinkStates, Requests
<1>2. cm \in Host
  BY <1>1 DEF Init, Host
<1>3. /\ cm.bg = Nowhere /\ cm.links = Nowhere /\ cm.direct = [a \in Addrs |-> {}]
      /\ cm.waiting = [a \in Addrs |-> {}] /\ cm.connecting = FALSE
      /\ ctl.up = {} /\ evts = <<>>
  BY DEF Init
<1>4. ConnTypeOK
  BY <1>1, <1>2, EnvironmentsAssumption DEF Init, ConnTypeOK, Counts, Radio
<1>5. Pending(cm) = {}
  BY <1>1, <1>3 DEF Pending
<1>6. ConnectedNotPending /\ NobodyForgotten /\ Sought(cm, ctl, evts)
  BY <1>1, <1>3, <1>5 DEF ConnectedNotPending, NobodyForgotten, Sought
<1>7. ToldTruly(evts, ctl) /\ NodesAgree(cm, ctl, evts)
  BY <1>1, <1>3 DEF ToldTruly, NodesAgree
<1> QED BY <1>4, <1>6, <1>7 DEF ConnInv

\* Every step keeps it.
LEMMA ConnInvNext ==
    ASSUME ConnInv, [Next]_vars
    PROVE  ConnInv'
<1>1. CASE Handlers
  <2>1. PICK f \in Faults :
           \/ \E m \in Modules, a \in Addrs :
                \/ CM_DirectConnectAddInner(m, a, f)
                \/ CM_DirectConnTimeoutCbkInner(m, a, f)
           \/ \E a \in Addrs :
                \/ CM_DirectConnectRmvInner(a, f)
                \/ CM_BgConnectRmvInner(a, f)
           \/ \E req \in BgRequests : CM_BgConnectAddInner(req, f)
           \/ CM_BgConnectClearInner(f)
    BY <1>1 DEF Handlers
  <2> QED BY <2>1, DirectAddStep, TimeoutStep, DirectRmvStep, BgRmvStep, BgAddStep
<1>2. CASE Events
  BY <1>2, CreateStep, InterruptedStep, DisconnectStep DEF Events
<1>3. CASE Controller
  BY <1>3, ListStep, CancelStep, ReleaseStep DEF Controller
<1>4. CASE \E a \in Addrs : Found(a) \/ PeerConnects(a) \/ PeerDrops(a)
  BY <1>4, PeerStep
<1>5. CASE UNCHANGED vars
  <2>1. cm' = cm /\ ctl' = ctl /\ evts' = evts /\ env' = env
    BY <1>5 DEF vars
  <2> QED BY <2>1 DEF ConnInv, ConnTypeOK, ConnectedNotPending, NobodyForgotten, Sought,
               Seeks, Ends, Resumed, Pending, Wanted, ToldTruly, LastOf, NodesAgree, Silent
<1> QED BY <1>1, <1>2, <1>3, <1>4, <1>5 DEF Next

\* The host and the controller stay in step.
THEOREM ConnInvHolds == Spec => []ConnInv
<1>1. Init => ConnInv
  BY ConnInvInit
<1>2. ConnInv /\ [Next]_vars => ConnInv'
  BY ConnInvNext
<1> QED BY <1>1, <1>2, PTL DEF Spec

\* Unless a failure intervened, what is asked for is what the controller seeks once
\* nothing is on its way, though cancellations, lists and Create_Connections are sent
\* without waiting and a connection may be complete before its cancellation arrives
\* (CM_SetConnectParamAndResetAllowList, CM_ConnectEstablishReq).
THEOREM AlwaysSought == Spec => []RequestsAreSought
<1>1. ConnInv => RequestsAreSought
  <2> SUFFICES ASSUME ConnInv PROVE RequestsAreSought
    OBVIOUS
  <2>1. Sought(cm, ctl, evts)
    BY DEF ConnInv
  <2>2. ASSUME ~ cm.lost, cm.out = <<>>, evts = <<>>, cm.connecting
        PROVE  ctl.seeking /\ ctl.list = Wanted(cm)
    <3>1. Seeks(cm.out, ctl, evts) /\ Ends(cm.out, ctl, Wanted(cm))
      BY <2>1, <2>2 DEF Sought
    <3>2. Len(cm.out) = 0 /\ Len(evts) = 0
      BY <2>2
    <3> QED BY <3>1, <3>2 DEF Seeks, Ends
  <2> QED BY <2>1, <2>2 DEF RequestsAreSought, Quiet, Sought
<1> QED BY <1>1, ConnInvHolds, PTL

\* A device is never both connected and asked for, whoever made the connection
\* (CM_ConnCompleteProcAndCheckHasConnecting).
THEOREM NeverConnectedAndPending == Spec => []ConnectedNotPending
<1>1. ConnInv => ConnectedNotPending
  BY DEF ConnInv
<1> QED BY <1>1, ConnInvHolds, PTL

\* As long as nothing is refused, a module that waits for a device has a request, with
\* a timer that will end the wait (CM_NotifyDirectConnectFailed).
THEOREM NobodyIsForgotten == Spec => []NobodyForgotten
<1>1. ConnInv => NobodyForgotten
  BY DEF ConnInv
<1> QED BY <1>1, ConnInvHolds, PTL

\* Once nothing is on its way the host knows exactly the connections there are, but for
\* those whose release was refused (SleCreateConnectionProc, SleDisconnectProc).
THEOREM LinksAlwaysAgree == Spec => []LinksAgree
<1>1. ConnInv => LinksAgree
  <2> SUFFICES ASSUME ConnInv, Quiet
               PROVE  ctl.up \ cm.leaked = {a \in Addrs : cm.links[a] # "none"} \ cm.leaked
    BY DEF LinksAgree
  <2>1. Len(cm.out) = 0 /\ Len(evts) = 0
    BY DEF Quiet
  <2>2. \A a \in Addrs : Silent(evts, a) /\ ~ Contains(cm.out, ReleaseCmd(a))
    BY <2>1 DEF Silent, Contains
  <2>3. \A a \in Addrs :
           /\ cm.links[a] # "none" => a \in ctl.up
           /\ a \in ctl.up => cm.links[a] # "none" \/ a \in cm.leaked
    BY <2>2 DEF ConnInv, NodesAgree
  <2>4. ctl.up \subseteq Addrs
    BY DEF ConnInv, ConnTypeOK, Radio
  <2> QED BY <2>3, <2>4
<1> QED BY <1>1, ConnInvHolds, PTL
=============================================================================
