---------------------------- MODULE MCDtapReliable ----------------------------
(***************************************************************************)
(* Two endpoints a and b on small instances.  s2 and s4 are the SDUs that  *)
(* take two frames.  Each cfg picks the windows and the environments: what *)
(* the callers write, the link and the upper layer.                        *)
(***************************************************************************)
EXTENDS DtapReliable, TLC

CONSTANTS a, b, s1, s2, s3, s4

MCPeers == {a, b}
MCSdus == {s1, s2, s3, s4}
MCFrameCnt == [s \in MCSdus |-> [d \in BOOLEAN |-> IF s \in {s2, s4} THEN 2 ELSE 1]]

\* What a and b write, a link that only loses frames, a patient upper layer.
Plain(fromA, fromB) ==
    [toSend |-> a :> fromA @@ b :> fromB, netCap |-> 2, reorderDepth |-> 0,
     sendOutcomes |-> {TRUE}, upperRooms |-> {9}, fullAnswer |-> "TRANS_CHANNEL_FULL"]

\* A fragmented SDU; frames overtake each other, retransmissions fail.
Lossy == [Plain(<<s2, s1>>, <<>>) EXCEPT !.reorderDepth = 1, !.sendOutcomes = BOOLEAN]
\* The sequence numbers wrap around.
Wrapping == Plain(<<s1, s3, s1, s3, s1, s3, s1>>, <<>>)
\* Data both ways, and an upper layer that may be full.
Duplex == [Plain(<<s1, s3>>, <<s3>>) EXCEPT !.netCap = 1, !.upperRooms = {0, 9}]

\* The second SDU does not fit and is kept, and another one follows it.
Kept == {Plain(<<s2, s4, s1>>, <<>>)}
Safe == {Lossy, Wrapping, Duplex}
Fills == {Plain(<<s1, s2>>, <<>>)}

\* Each endpoint's sending half is an implementation of DtapTxWindow: what holds of
\* the half against an arbitrary peer (and is proved there) holds in the composition.
\* (The stuttering step is written out, so that TLC looks at it first.)
SendersImplementTxWindow ==
    /\ T(a)!Init /\ [][UNCHANGED T(a)!vars \/ T(a)!Next]_(T(a)!vars)
    /\ T(b)!Init /\ [][UNCHANGED T(b)!vars \/ T(b)!Next]_(T(b)!vars)
=============================================================================
