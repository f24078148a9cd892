--------------------------- MODULE MCFlowTriggers ---------------------------
(* FlowTriggers for TLC: two definitions that want the same event k1, with  *)
(* a window and a limit each of its own; the second wants k2 as well.       *)
EXTENDS FlowTriggers, TLC

CONSTANTS d1, d2, k1, k2

MCMatches == d1 :> {k1} @@ d2 :> {k1, k2}
MCWindows == d1 :> 2 @@ d2 :> 1
MCLimit == d1 :> 1 @@ d2 :> 0

HandlerSymmetry == Permutations(Handler)
=============================================================================
