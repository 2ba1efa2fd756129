------------------------------ MODULE MCDliCmd ------------------------------
(* Instances of DliCmd: commands of two opcodes, one answered by a complete  *)
(* event and one by a status and a final event.                              *)
EXTENDS DliCmd

CONSTANTS Read, Connect

Paired == <<Connect, Read, Read, Connect>>
CompleteOps == {Read}
MappedOps == {Connect}

\* One command at a time, with an event lost and a send refused; two at a time,
\* with an event lost; a timer that overtakes the answer.
Losing == [cmds |-> 4, cap |-> 1, lost |-> 1, late |-> 0, refused |-> 1]
Several == [cmds |-> 3, cap |-> 2, lost |-> 1, late |-> 0, refused |-> 0]
Overtaking == [cmds |-> 3, cap |-> 1, lost |-> 0, late |-> 1, refused |-> 0]
Controllers == {Losing, Several, Overtaking}
=============================================================================
