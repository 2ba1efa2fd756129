------------------------------- MODULE DtapSeq -------------------------------
(***************************************************************************)
(* Frame sequence numbers of the DTAP enhanced frames (dtap_trans.c).      *)
(* The code compares 14-bit numbers by the sign bit of their 16-bit        *)
(* difference: DTAP_FRAME_SEQ_MAX is 0x3FFF, DTAP_FRAME_SEQ_SIGN_MASK is   *)
(* 0x2000.  Here 2^13 is the parameter SeqHalf.                            *)
(***************************************************************************)
EXTENDS Integers

CONSTANT SeqHalf

ASSUME SeqHalfAssumption == SeqHalf \in Nat \ {0}

SeqModulus == 2 * SeqHalf
FrameSeq == 0 .. (SeqModulus - 1)

\* DTAP_FRAME_SEQ_INIT (0xFFFF): "no sequence number", outside FrameSeq.
SeqInit == 4 * SeqModulus - 1

\* (own - other) modulo SeqModulus, for own and other in FrameSeq.
SeqDiff(own, other) == IF own >= other THEN own - other ELSE own - other + SeqModulus

\* The masked bit of the difference is set iff it is at least half the range.
IsFrameSeqSmaller(own, other) == SeqDiff(own, other) >= SeqHalf

GetNextFrameSeq(seq) == IF seq + 1 >= SeqModulus THEN 0 ELSE seq + 1

\* Mutant: the numbers do not wrap.
SeqPlusNoWrap(seq, n) == seq + n

\* GetNextFrameSeq applied n times, for n < SeqModulus.
SeqPlus(seq, n) == IF seq + n >= SeqModulus THEN seq + n - SeqModulus ELSE seq + n
=============================================================================
