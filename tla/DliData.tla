-------------------------------- MODULE DliData --------------------------------
(***************************************************************************)
(* How the DLI cuts a packet into fragments the controller can hold and    *)
(* how the peer's DLI puts them together again (dli_layer.c).  A fragment  *)
(* is a record with at least idx and of: it is number idx of the packet's  *)
(* of fragments.  The payload is the fragment itself.                      *)
(***************************************************************************)
EXTENDS Naturals, Sequences

FULL == 0    \* DLI_FULL_FRAGMENT
FIRST == 1   \* DLI_FIRST_FRAGMENT
MIDDLE == 2  \* DLI_MIDDLE_FRAGMENT
LAST == 3    \* DLI_LAST_FRAGMENT

\* DLI_PdFlagGet over one DLI_SplitData: g_info.pdFlag is LAST or FULL before it and
\* after it, so the flags depend on the packet alone.
PdFlagGet(f) ==
    IF f.idx = 1 THEN (IF f.of = 1 THEN FULL ELSE FIRST)
    ELSE (IF f.idx < f.of THEN MIDDLE ELSE LAST)

\* No node for the link in g_info.dataRx.
NoNode == [pb |-> FULL, buf |-> <<>>]

IsFirstPb(pb) == pb \in {FIRST, FULL}

CheckPb(prePb, curPb) == ~ ((prePb # MIDDLE /\ prePb = curPb) \/ prePb > curPb)

\* DLI_ReceiveDataNodeUpdate.  (The pb of the node is not updated when the fragment
\* fits behind the others, but then it is MIDDLE already: only a middle fragment makes
\* DLI_ReciveDataUpdate reserve room.)
ReceiveDataNodeUpdate(node, pb, f) ==
    CASE node = NoNode /\ ~ IsFirstPb(pb) -> NoNode
      [] IsFirstPb(pb) /\ (node = NoNode \/ ~ CheckPb(node.pb, pb)) ->
            [pb |-> pb, buf |-> <<f>>]
      [] node # NoNode /\ CheckPb(node.pb, pb) ->
            [pb |-> pb, buf |-> Append(node.buf, f)]
      [] OTHER -> NoNode

\* DLI_AcbPacketReceived: the node after the fragment, and the fragments handed to the
\* data plane (<<>>: nothing).
AcbPacketReceived(node, f) ==
    LET pb == PdFlagGet(f)
        new == ReceiveDataNodeUpdate(node, pb, f)
    IN  CASE pb = FULL -> [node |-> node, up |-> <<f>>]
          [] pb = LAST -> [node |-> NoNode, up |-> new.buf]
          [] OTHER -> [node |-> new, up |-> <<>>]
=============================================================================
