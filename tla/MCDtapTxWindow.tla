---------------------------- MODULE MCDtapTxWindow ----------------------------
(* The sending half on a small instance: a one-frame SDU, and one that takes  *)
(* two simplex frames but, with the longer duplex header, three.              *)
EXTENDS DtapTxWindow, TLC

CONSTANTS short, long

MCSdus == {short, long}
MCFrameCnt == short :> [d \in BOOLEAN |-> 1] @@
              long :> [d \in BOOLEAN |-> IF d THEN 3 ELSE 2]
MCRxSeqs == {0}
=============================================================================
