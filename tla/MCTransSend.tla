----------------------------- MODULE MCTransSend -----------------------------
(* The threads of a write on small instances: one-frame SDUs s1, s3 and s4,   *)
(* and s2, which takes two frames.                                            *)
EXTENDS TransSend

CONSTANTS s1, s2, s3, s4

MCSdus == {s1, s2, s3, s4}
MCFrameCnt == [s \in MCSdus |-> [d \in BOOLEAN |-> IF s = s2 THEN 2 ELSE 1]]
MCRxSeqs == {0}

\* Every wait is answered in time.
Patient ==
    [toSend |-> <<s1, s2, s3, s4>>, timeouts |-> FALSE, disables |-> FALSE,
     postResults |-> {TRUE}, linkResults |-> {TRUE}, sendOutcomes |-> {TRUE}]
\* Waits time out, posts, links and frames fail, the stack is shut down.
Troubled ==
    [toSend |-> <<s2, s1>>, timeouts |-> TRUE, disables |-> TRUE,
     postResults |-> BOOLEAN, linkResults |-> BOOLEAN, sendOutcomes |-> BOOLEAN]

Both == {Patient, Troubled}
=============================================================================
