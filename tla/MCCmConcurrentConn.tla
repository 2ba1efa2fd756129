-------------------------- MODULE MCCmConcurrentConn --------------------------
(* Instances of CmConcurrentConn: two devices, two modules, and environments *)
(* that each allow a few requests and one or two disturbances.               *)
EXTENDS CmConcurrentConn

CONSTANTS a, b, adpt, ssap

None == [direct |-> 0, removals |-> 0, bg |-> 0, bgRemovals |-> 0,
         passive |-> 0, drops |-> 0, faults |-> 0, interrupted |-> 0,
         refused |-> FALSE]

MCAddrs == {a, b}
MCModules == {adpt, ssap}
MCEnvironments == {
  [None EXCEPT !.direct = 2, !.removals = 1, !.bg = 1],
  [None EXCEPT !.direct = 1, !.bg = 1, !.bgRemovals = 1],
  [None EXCEPT !.direct = 1, !.bg = 1, !.passive = 1, !.drops = 1],
  [None EXCEPT !.direct = 1, !.bg = 1, !.removals = 1, !.faults = 1],
  [None EXCEPT !.direct = 1, !.bg = 1, !.passive = 1, !.interrupted = 1],
  [None EXCEPT !.bg = 1, !.faults = 1, !.interrupted = 1]}

\* Two devices asked for, one removed, and nothing fails.
Removal == {[None EXCEPT !.direct = 2, !.removals = 1]}
=============================================================================
