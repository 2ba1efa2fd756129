----------------------------- MODULE MCCmChannel -----------------------------
(* Instances of CmChannel.  Tcids come from a pool of three, identifiers     *)
(* wrap at three.                                                             *)
EXTENDS CmChannel

TwoEnds == {"a", "b"}
FewTcids == {1, 2, 3}

\* tcids are used again; an end releases the channels it established
Reuse ==
  [estab |-> [e \in TwoEnds |-> 2], either |-> FALSE,
   reqFail |-> 0, rspFail |-> 0, down |-> 0, refused |-> FALSE, replaced |-> FALSE]
\* one channel; releases cross and are repeated, an answer and a request are refused
Crossing ==
  [estab |-> [a |-> 1, b |-> 0], either |-> TRUE,
   reqFail |-> 1, rspFail |-> 1, down |-> 0, refused |-> FALSE, replaced |-> FALSE]
\* an answer is refused while tcids are used again
Replacing ==
  [estab |-> [a |-> 2, b |-> 1], either |-> FALSE,
   reqFail |-> 0, rspFail |-> 1, down |-> 0, refused |-> FALSE, replaced |-> FALSE]
\* the link is lost once
Losing ==
  [estab |-> [e \in TwoEnds |-> 1], either |-> FALSE,
   reqFail |-> 0, rspFail |-> 0, down |-> 1, refused |-> FALSE, replaced |-> FALSE]
\* a request is refused
Refusing ==
  [estab |-> [e \in TwoEnds |-> 1], either |-> FALSE,
   reqFail |-> 1, rspFail |-> 0, down |-> 0, refused |-> FALSE, replaced |-> FALSE]

Sound == {Reuse, Replacing, Crossing, Losing, Refusing}
Faulty == {Refusing}
=============================================================================
