---------------------------- MODULE MCDtapScheduler ----------------------------
(* Two links: k has a channel of high and one of normal priority, m one of normal. *)
EXTENDS DtapScheduler, TLC

CONSTANTS k, m

Hi == [lcid |-> k, tcid |-> 1]
Lo == [lcid |-> k, tcid |-> 2]
Other == [lcid |-> m, tcid |-> 2]

MCLinks == {k, m}
MCChannels == {Hi, Lo, Other}
MCPriorityOf == [c \in MCChannels |-> c.tcid]

\* The sizes of the packets, in fragments.
Mixed == Hi :> <<2>> @@ Lo :> <<3, 1>> @@ Other :> <<1>>

\* Bound: beside the packets of Lo there is one of its own link or one of the other link.
OneBeside == made[Hi] + made[Other] <= 1
=============================================================================
