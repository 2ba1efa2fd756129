--------------------------- MODULE CmConcurrentConn ---------------------------
(***************************************************************************)
(* Connecting to several devices at once (cm_concurrent_conn.c, with       *)
(* cm_api.c, cm_event_core.c, sle_access_dli.c, sle_logic_link_mgr.c).     *)
(* Modules ask for a device directly, for 10 s, or in the background, for  *)
(* as long as it takes.  The controller seeks all of them at once: it has  *)
(* one list of devices and at most one Create_Connection, which ends with  *)
(* the first device found.  Every change of the requests cancels it, writes*)
(* the list anew and creates it again, without waiting for the answers, so *)
(* a connection may be complete before its cancellation arrives.           *)
(*                                                                         *)
(* All handlers run on the CP thread.  The controller is external: it is   *)
(* modelled from how the code uses it.  It refuses Create_Connection while *)
(* one is under way, which the code ignores; it takes a new list meanwhile. *)
(* The extension that lets two radios share the work is not registered.    *)
(***************************************************************************)
EXTENDS Naturals, Sequences, SequencesExt, FiniteSets

CONSTANTS
  Addrs,         \* devices
  Modules,       \* modules that connect directly: ADPT, SSAP, BNL
  Environments   \* what may happen, one of these per behaviour:
                 \* [direct, removals, bg, bgRemovals, requests of each kind;
                 \*  passive, connections made by a peer; drops, of a link;
                 \*  faults, allocations and commands that fail;
                 \*  interrupted, connections given up while set up;
                 \*  refused, whether any of the last two has happened]

ASSUME EnvironmentsAssumption ==
  Environments \subseteq
    [direct : Nat, removals : Nat, bg : Nat, bgRemovals : Nat, passive : Nat,
     drops : Nat, faults : Nat, interrupted : Nat, refused : BOOLEAN]

Kinds == {"none", "plain", "bypass"}  \* a device on a list, and how
Nowhere == [a \in Addrs |-> "none"]

\* What fails in one handler; done: devices that were listed before "add" did.
NoFault == [at |-> "none", done |-> {}]
Faults == {NoFault}
  \cup [at : {"alloc", "cancel", "clear", "create", "release"}, done : {{}}]
  \cup [at : {"add"}, done : SUBSET Addrs]

VARIABLES
  env,   \* the environment of this behaviour, with what it has left
  cm,    \* the host: [
         \*   bg, per device: its background request (CM_DoingBgConnSet_S);
         \*   direct, per device: modules with a direct request, each with its
         \*           timer (doingDirectConnMap);
         \*   links, per device: status of its node in g_deviceLinkListHead;
         \*   connecting, whether there is a CONNECTING node, without address;
         \*   out, commands given to the DLI and not yet taken by the controller;
         \*   waiting, per device: modules that have asked and have not been told;
         \*   withdrawn, devices whose requests were removed, and not made again;
         \*   lost, whether a failure has left the controller without the list or
         \*         the Create_Connection the requests call for;
         \*   leaked, devices whose release the DLI refused]
  ctl,   \* the controller: [seeking, list, up]
  evts   \* events on their way to the host: [type, addr]

vars == <<env, cm, ctl, evts>>

Init ==
  /\ env \in Environments
  /\ cm = [bg |-> Nowhere, direct |-> [a \in Addrs |-> {}], links |-> Nowhere,
           connecting |-> FALSE, out |-> <<>>,
           waiting |-> [a \in Addrs |-> {}], withdrawn |-> {},
           lost |-> FALSE, leaked |-> {}]
  /\ ctl = [seeking |-> FALSE, list |-> Nowhere, up |-> {}]
  /\ evts = <<>>

-----------------------------------------------------------------------------
(* Parts of the handlers: each takes a host s to the host it leaves. *)

\* DOMAIN g_cmConnectingDevMap
Pending(s) == {a \in Addrs : s.bg[a] # "none" \/ s.direct[a] # {}}

\* A device asked for directly is not bypassed (CM_CheckAddrIsBypass).
Wanted(s) == [a \in Addrs |-> IF s.direct[a] # {} THEN "plain" ELSE s.bg[a]]

\* SDF_MapErase of the nodes of the devices in A, whoever asked for them
EraseNodes(s, A) ==
  [s EXCEPT !.bg = [a \in Addrs |-> IF a \in A THEN "none" ELSE @[a]],
            !.direct = [a \in Addrs |-> IF a \in A THEN {} ELSE @[a]]]

\* CM_NotifyDirectConnectFailed to the modules in M
NotifyFailed(s, M, a) == [s EXCEPT !.waiting[a] = @ \ M]

CancelFails(s, f) == s.connecting /\ f.at = "cancel"
ConnectCancelReq(s, f) ==
  IF ~s.connecting THEN s
  ELSE [s EXCEPT !.connecting = FALSE,
                 !.out = IF f.at = "cancel" THEN @
                         ELSE Append(@, [op |-> "cancel"]),
                 !.lost = @ \/ f.at = "cancel"]

\* CM_SetConnectParamAndResetAllowList and CM_ConnectEstablishReq: a refused
\* clear is only logged, a refused add leaves the rest undone, a refused create
\* takes the CONNECTING node away again.  If there is one already, nothing is
\* created.
StartFails(s, f) ==
  \/ f.at = "add" /\ ~(Pending(s) \subseteq f.done)
  \/ f.at = "create" /\ Pending(s) # {} /\ ~s.connecting
Listed(s, f) ==
  [a \in Addrs |-> IF f.at = "add" /\ a \notin f.done
                   THEN "none" ELSE Wanted(s)[a]]
StartAllowListConnReq(s, f) ==
  IF Pending(s) = {} THEN s
  ELSE [s EXCEPT
          !.out = Append(@, [op |-> "list", clear |-> f.at # "clear",
                             add |-> Listed(s, f),
                             create |-> ~StartFails(s, f) /\ ~s.connecting]),
          !.connecting = @ \/ ~StartFails(s, f),
          !.lost = StartFails(s, f) \/ f.at = "clear" \/ (@ /\ s.connecting)]

\* Mutant: the time-out of a direct request ends what is sought in the background.
CancelOnly(s, f) == ConnectCancelReq(s, f)

\* Cancel, then start again with what is left
CancelAndStartFails(s, f) ==
  CancelFails(s, f) \/ StartFails(ConnectCancelReq(s, f), f)
CancelAndStart(s, f) ==
  IF CancelFails(s, f) THEN ConnectCancelReq(s, f)
  ELSE StartAllowListConnReq(ConnectCancelReq(s, f), f)

ReleaseReq(s, a, f) ==
  IF f.at = "release" THEN [s EXCEPT !.leaked = @ \cup {a}]
  ELSE [s EXCEPT !.out = Append(@, [op |-> "release", addr |-> a])]

\* A handler that may meet the fault f
Meets(f) ==
  /\ f = NoFault \/ env.faults > 0
  /\ env' = IF f = NoFault THEN env
            ELSE [env EXCEPT !.faults = @ - 1, !.refused = TRUE]

\* A request of the given kind
Asks(kind, f) ==
  /\ env[kind] > 0
  /\ f = NoFault \/ env.faults > 0
  /\ env' = IF f = NoFault THEN [env EXCEPT ![kind] = @ - 1]
            ELSE [env EXCEPT ![kind] = @ - 1, !.faults = @ - 1,
                             !.refused = TRUE]

-----------------------------------------------------------------------------
(* Requests. *)

\* Whatever fails, the node of the device goes, with the requests of others.
DirectAddFailed(s, m, a) ==
  [EraseNodes(NotifyFailed(s, {m}, a), {a}) EXCEPT
     !.lost = @ \/ a \in Pending(cm)]
DirectInsert(s, m, a) ==
  [s EXCEPT !.direct[a] = @ \cup {m}, !.waiting[a] = @ \cup {m},
            !.withdrawn = @ \ {a}]

CM_DirectConnectAddInner(m, a, f) ==
  LET s == DirectInsert(cm, m, a)
  IN /\ Asks("direct", f)
     /\ cm.links[a] # "connected"
     /\ cm' = IF f.at = "alloc" THEN DirectAddFailed(cm, m, a)
              ELSE IF m \in cm.direct[a] THEN cm  \* its timer starts again
              ELSE IF CancelAndStartFails(s, f)
              THEN DirectAddFailed(CancelAndStart(s, f), m, a)
              ELSE CancelAndStart(s, f)
     /\ UNCHANGED <<ctl, evts>>

\* Mutant: a removal tells nobody.
DirectRemovedSilently(s, a) ==
  [EraseNodes(s, {a}) EXCEPT !.withdrawn = @ \cup {a}]

\* A removal takes away, and tells, everybody's requests for the device.
DirectRemoved(s, a) ==
  [EraseNodes(NotifyFailed(s, Modules, a), {a}) EXCEPT
     !.withdrawn = @ \cup {a}]

CM_DirectConnectRmvInner(a, f) ==
  /\ Asks("removals", f)
  /\ \/ /\ cm.links[a] = "connected"
        /\ cm' = IF f.at = "release" THEN cm
                 ELSE ReleaseReq([cm EXCEPT !.links[a] = "disconnecting"], a, f)
     \/ /\ cm.links[a] = "none" /\ a \in Pending(cm)
        /\ cm' = CancelAndStart(DirectRemoved(cm, a), f)
  /\ UNCHANGED <<ctl, evts>>

\* The devices of a background request that change anything
BgChanged(req) ==
  {a \in DOMAIN req : cm.bg[a] # "none" \/ cm.links[a] # "connected"}
BgInsert(s, req) ==
  [s EXCEPT !.bg = [a \in Addrs |->
                      IF a \in BgChanged(req) THEN req[a] ELSE @[a]],
            !.withdrawn = @ \ BgChanged(req)]
BgAddFailed(s, req) ==
  [EraseNodes(s, DOMAIN req) EXCEPT
     !.lost = @ \/ DOMAIN req \cap Pending(cm) # {}]

\* The CONNECTING node is cancelled only if there were requests before.
CM_BgConnectAddInner(req, f) ==
  LET s == BgInsert(cm, req)
      more == Pending(cm) # {}
      next == IF more THEN CancelAndStart(s, f) ELSE StartAllowListConnReq(s, f)
      fails == IF more THEN CancelAndStartFails(s, f) ELSE StartFails(s, f)
      allocates == \E a \in BgChanged(req) : cm.bg[a] = "none"
  IN /\ Asks("bg", f)
     /\ cm' = IF BgChanged(req) = {} THEN cm
              ELSE IF f.at = "alloc" /\ allocates THEN BgAddFailed(cm, req)
              ELSE IF fails THEN BgAddFailed(next, req) ELSE next
     /\ UNCHANGED <<ctl, evts>>

CM_BgConnectRmvInner(a, f) ==
  /\ Asks("bgRemovals", f)
  /\ cm.bg[a] # "none"
  /\ cm' = CancelAndStart([cm EXCEPT !.bg[a] = "none"], f)
  /\ UNCHANGED <<ctl, evts>>

CM_BgConnectClearInner(f) ==
  /\ Asks("bgRemovals", f)
  /\ cm' = CancelAndStart([cm EXCEPT !.bg = Nowhere], f)
  /\ UNCHANGED <<ctl, evts>>

\* Only the direct request of the module ends.  The module is told last, and
\* not at all if a command is refused.
CM_DirectConnTimeoutCbkInner(m, a, f) ==
  LET s == [cm EXCEPT !.direct[a] = @ \ {m}]
      next == CancelAndStart(s, f)
  IN /\ m \in cm.direct[a]
     /\ Meets(f)
     /\ cm' = IF CancelAndStartFails(s, f) THEN next
              ELSE NotifyFailed(next, {m}, a)
     /\ UNCHANGED <<ctl, evts>>

-----------------------------------------------------------------------------
(* Events. *)

\* Mutant: the requests for the device go on.
CompleteNotErased(s, a, f) == StartAllowListConnReq(s, f)

\* CM_ConcurrentConnDoingComplete: the node of the device goes, the others are
\* sought again.
DoingComplete(s, a, f) == StartAllowListConnReq(EraseNodes(s, {a}), f)

\* Mutant: the CONNECTING node is left in the list.
LinkUpNodeKept(s, a) ==
  [s EXCEPT !.links[a] = "connected", !.waiting[a] = {}]

LinkUp(s, a) ==
  [s EXCEPT !.links[a] = "connected", !.waiting[a] = {},
            !.connecting = FALSE]

\* CM_ConnectionProcInterruptReq: reading the version or opening the fixed
\* channels failed.  The handler returns before it has looked at the requests.
Interrupted(s, a, f) ==
  ReleaseReq([s EXCEPT !.links[a] = "disconnecting", !.lost = TRUE], a, f)

\* Mutant: a connection that comes too late is ignored.
LateIgnored(a, f) ==
  IF cm.connecting THEN DoingComplete(LinkUp(cm, a), a, f) ELSE cm

\* The Create_Connection has found a device.  Without a CONNECTING node it is
\* taken for cancelled, and the connection is given back.
ActiveComplete(a, f) ==
  IF cm.connecting THEN DoingComplete(LinkUp(cm, a), a, f)
  ELSE ReleaseReq(cm, a, f)

\* A peer has connected.  The CONNECTING node goes, to be made again.  That there is no
\* memory for the link's node (SleLogicLinkAdd) is not modelled: the handler then returns
\* with the controller's link up and unknown to the host.
PassiveComplete(a, f) ==
  [DoingComplete(LinkUp(cm, a), a, f) EXCEPT !.withdrawn = @ \ {a}]

SleCreateConnectionProc(a, f) ==
  /\ evts # <<>> /\ Head(evts).addr = a
  /\ Meets(f)
  /\ \/ /\ Head(evts).type = "active" /\ cm.links[a] # "connected"
        /\ cm' = ActiveComplete(a, f)
     \/ /\ Head(evts).type = "passive" /\ cm.links[a] = "none"
        /\ cm' = PassiveComplete(a, f)
  /\ evts' = Tail(evts)
  /\ UNCHANGED ctl

CreateInterrupted(a, f) ==
  /\ evts # <<>> /\ Head(evts).addr = a
  /\ env.interrupted > 0
  /\ f = NoFault \/ (f.at = "release" /\ env.faults > 0)
  /\ env' = [env EXCEPT !.interrupted = @ - 1, !.refused = TRUE,
                        !.faults = IF f = NoFault THEN @ ELSE @ - 1]
  /\ \/ /\ Head(evts).type = "active" /\ cm.links[a] # "connected"
        /\ cm.connecting
        /\ cm' = Interrupted(LinkUp(cm, a), a, f)
     \/ /\ Head(evts).type = "passive" /\ cm.links[a] = "none"
        /\ cm' = Interrupted([cm EXCEPT !.withdrawn = @ \ {a}], a, f)
  /\ evts' = Tail(evts)
  /\ UNCHANGED ctl

SleDisconnectProc(a) ==
  /\ evts # <<>> /\ Head(evts) = [type |-> "down", addr |-> a]
  /\ cm' = [cm EXCEPT !.links[a] = "none", !.leaked = @ \ {a}]
  /\ evts' = Tail(evts)
  /\ UNCHANGED <<env, ctl>>

-----------------------------------------------------------------------------
(* The controller: external. *)

Releasing(a) == Contains(cm.out, [op |-> "release", addr |-> a])
Overridden(list, cmd) ==
  [a \in Addrs |-> IF cmd.add[a] # "none" THEN cmd.add[a]
                   ELSE IF cmd.clear THEN "none" ELSE list[a]]

\* Create_Connection is refused while one is under way; it may also fail, which
\* the host ignores (SleAccessConnectCbk).
TakeList(cmd) ==
  \E fails \in BOOLEAN :
    /\ fails => cmd.create /\ ~ctl.seeking /\ env.faults > 0
    /\ env' = IF fails THEN [env EXCEPT !.faults = @ - 1, !.refused = TRUE]
              ELSE env
    /\ ctl' = [ctl EXCEPT !.list = Overridden(@, cmd),
                          !.seeking = @ \/ (cmd.create /\ ~fails)]
    /\ cm' = [cm EXCEPT
                !.out = Tail(@),
                !.lost = \/ @
                         \/ /\ fails
                            /\ \A i \in 2..Len(cm.out) :
                                 cm.out[i].op = "list" => ~cm.out[i].create]
    /\ UNCHANGED evts

TakeCancel ==
  /\ ctl' = [ctl EXCEPT !.seeking = FALSE]
  /\ cm' = [cm EXCEPT !.out = Tail(@)]
  /\ UNCHANGED <<env, evts>>

TakeRelease(a) ==
  /\ ctl' = [ctl EXCEPT !.up = @ \ {a}]
  /\ evts' = IF a \in ctl.up THEN Append(evts, [type |-> "down", addr |-> a])
             ELSE evts
  /\ cm' = [cm EXCEPT !.out = Tail(@)]
  /\ UNCHANGED env

Controller ==
  /\ cm.out # <<>>
  /\ LET cmd == Head(cm.out)
     IN \/ cmd.op = "list" /\ TakeList(cmd)
        \/ cmd.op = "cancel" /\ TakeCancel
        \/ cmd.op = "release" /\ TakeRelease(cmd.addr)

\* A device of the list is found; the Create_Connection is over.
Found(a) ==
  /\ ctl.seeking /\ ctl.list[a] # "none" /\ a \notin ctl.up /\ ~Releasing(a)
  /\ ctl' = [ctl EXCEPT !.seeking = FALSE, !.up = @ \cup {a}]
  /\ evts' = Append(evts, [type |-> "active", addr |-> a])
  /\ UNCHANGED <<env, cm>>

\* A peer connects; whether that ends a Create_Connection is left open.
PeerConnects(a) ==
  /\ env.passive > 0 /\ a \notin ctl.up /\ ~Releasing(a)
  /\ \E goesOn \in BOOLEAN :
       ctl' = [ctl EXCEPT !.seeking = @ /\ goesOn, !.up = @ \cup {a}]
  /\ evts' = Append(evts, [type |-> "passive", addr |-> a])
  /\ env' = [env EXCEPT !.passive = @ - 1]
  /\ UNCHANGED cm

PeerDrops(a) ==
  /\ env.drops > 0 /\ a \in ctl.up
  /\ ctl' = [ctl EXCEPT !.up = @ \ {a}]
  /\ evts' = Append(evts, [type |-> "down", addr |-> a])
  /\ env' = [env EXCEPT !.drops = @ - 1]
  /\ UNCHANGED cm

-----------------------------------------------------------------------------
BgRequests == UNION {[S -> Kinds \ {"none"}] : S \in (SUBSET Addrs) \ {{}}}

Handlers ==
  \E f \in Faults :
    \/ \E m \in Modules, a \in Addrs :
         \/ CM_DirectConnectAddInner(m, a, f)
         \/ CM_DirectConnTimeoutCbkInner(m, a, f)
    \/ \E a \in Addrs :
         \/ CM_DirectConnectRmvInner(a, f)
         \/ CM_BgConnectRmvInner(a, f)
    \/ \E req \in BgRequests : CM_BgConnectAddInner(req, f)
    \/ CM_BgConnectClearInner(f)

Events ==
  \E a \in Addrs :
    \/ \E f \in Faults : SleCreateConnectionProc(a, f) \/ CreateInterrupted(a, f)
    \/ SleDisconnectProc(a)

Next ==
  \/ Handlers \/ Events \/ Controller
  \/ \E a \in Addrs : Found(a) \/ PeerConnects(a) \/ PeerDrops(a)

\* Timers expire, events are handled, commands are taken, and a device that is
\* sought is there to be found.
Fairness ==
  /\ WF_vars(Events) /\ WF_vars(Controller)
  /\ \A a \in Addrs :
       /\ WF_vars(Found(a))
       /\ \A m \in Modules : WF_vars(CM_DirectConnTimeoutCbkInner(m, a, NoFault))

Spec == Init /\ [][Next]_vars /\ Fairness

-----------------------------------------------------------------------------
(* Properties. *)

\* Nothing is on its way between the host and the controller.
Quiet == cm.out = <<>> /\ evts = <<>>

\* Unless a command was refused or a connection given up meanwhile: there is a
\* CONNECTING node exactly while there are requests, and once nothing is on its
\* way the controller seeks exactly the devices asked for, each the way it
\* should (CM_SetConnectParamAndResetAllowList after every change).
RequestsAreSought ==
  ~cm.lost =>
    /\ cm.connecting <=> Pending(cm) # {}
    /\ Quiet /\ Pending(cm) # {} => ctl.seeking /\ ctl.list = Wanted(cm)

\* No device is both connected and asked for: a request for a connected one is
\* ignored, and a connection, whoever made it, ends the requests for it
\* (CM_ConnCompleteProcAndCheckHasConnecting).
ConnectedNotPending == \A a \in Pending(cm) : cm.links[a] # "connected"

\* As long as nothing is refused, a module that has asked for a device directly
\* is waiting only while its request is there: when the request goes the module
\* has been told, or there is a link to tell it of.
NobodyForgotten ==
  env.refused \/ \A a \in Addrs : cm.waiting[a] \subseteq cm.direct[a]

\* Once nothing is on its way, the host knows exactly the connections the
\* controller has, but for those whose release was refused: a connection that
\* came after its request was cancelled has been given back.
LinksAgree ==
  Quiet => ctl.up \ cm.leaked
             = {a \in Addrs : cm.links[a] # "none"} \ cm.leaked

\* A background request lasts until the device is connected, through the
\* time-outs and removals of others, or is withdrawn, or a failure intervenes.
BgRequestEnds ==
  \A a \in Addrs : cm.bg[a] # "none" ~> (cm.bg[a] = "none" \/ env.refused)

\* cm.h:91-92 of CM_DirectConnectRemove: a device removed while it is being
\* connected ends disconnected, whether or not the connection was complete.
RemovedEndsDown ==
  \A a \in cm.withdrawn : Quiet => cm.links[a] # "connected"
=============================================================================
