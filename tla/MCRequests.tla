----------------------------- MODULE MCRequests -----------------------------
(* n0 has the children n1 and n2, and n1 the child n3.                      *)
EXTENDS Requests, TLC

CONSTANTS n0, n1, n2, n3

Tree == (n1 :> n0) @@ (n2 :> n0) @@ (n3 :> n1)

(* The premise of RequestsProofs!RoutedRight holds of this tree.            *)
ASSUME TreeIsShallow == ShallowTree
=============================================================================
