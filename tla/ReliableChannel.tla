---------------------------- MODULE ReliableChannel ----------------------------
(***************************************************************************)
(* What a reliable-mode transmission channel promises its two users: the   *)
(* SDUs it has accepted from a peer reach the other one once, in order and *)
(* unchanged, and none of them stays behind, until the channel gives up.   *)
(* Once it has given up (asked for its release) nothing is promised.       *)
(***************************************************************************)
EXTENDS Sequences, Integers

CONSTANTS Peers

VARIABLES accepted,   \* accepted[p]: the SDUs taken from p, in order
          delivered,  \* delivered[p]: those of p's SDUs its peer has been given
          broken      \* the channel has given up

vars == <<accepted, delivered, broken>>

Init ==
    /\ accepted = [p \in Peers |-> <<>>]
    /\ delivered = [p \in Peers |-> <<>>]
    /\ broken = FALSE

Accept(p) ==
    /\ ~ broken
    /\ Len(accepted'[p]) = Len(accepted[p]) + 1
    /\ SubSeq(accepted'[p], 1, Len(accepted[p])) = accepted[p]
    /\ \A q \in Peers \ {p} : accepted'[q] = accepted[q]
    /\ UNCHANGED <<delivered, broken>>

Deliver(p) ==
    /\ ~ broken
    /\ \E n \in (Len(delivered[p]) + 1) .. Len(accepted[p]) :
          delivered' = [delivered EXCEPT ![p] = SubSeq(accepted[p], 1, n)]
    /\ UNCHANGED <<accepted, broken>>

GiveUp == broken'

Next == GiveUp \/ \E p \in Peers : Accept(p) \/ Deliver(p)

Spec == Init /\ [][Next]_vars /\ \A p \in Peers : WF_vars(Deliver(p))
=============================================================================
