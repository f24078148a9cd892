------------------------------ MODULE MCCapSync ------------------------------
(* Hub 1 offers p and q, hub 2 offers r.                                    *)
EXTENDS CapSync, TLC

CONSTANTS p, q, r

Offers == (p :> 1) @@ (q :> 1) @@ (r :> 2)

(* One link with faults of every kind, a chain of two links, and one        *)
(* without faults whose middle hub has a capability of its own.             *)
Chain == [top |-> 3, faults |-> 1, caps |-> {p}, epochs |-> 3]
Link == [top |-> 2, faults |-> 2, caps |-> {p, q}, epochs |-> 9]
Mixed == [top |-> 3, faults |-> 0, caps |-> {p, r}, epochs |-> 2]
LinkAndChain == {Link, Chain, Mixed}
OnlyChain == {Chain}
=============================================================================
