------------------------------ MODULE MCStream ------------------------------
(* A hub K with two nodes P and C below it.  Sources p at P and k at K,     *)
(* endpoints c, e and v at C, and h at K.                                   *)
EXTENDS Stream, TLC

CONSTANTS K, P, C, Q, U, p, k, c, e, h, v

Tree == (K :> None) @@ (P :> K) @@ (C :> K)
Routes == [n \in {K, P, C} |-> [x \in {K, P, C} |->
              IF n = K /\ x # K THEN x ELSE None]]
Owners == (p :> P) @@ (k :> K) @@ (c :> C) @@ (e :> C) @@ (h :> K) @@ (v :> C)
\* v is an endpoint for another kind of data.
Kinds == [o \in {p, k, c, e, h, v} |-> IF o = v THEN "video" ELSE "text"]
\* Q and the user U without permissions are connected to C, the nodes to the hub.
Homes == (Q :> C) @@ (U :> C) @@ (P :> K) @@ (C :> K)

Link(by, s, t) == [by |-> by, source |-> s, endpoint |-> t]
\* Between two nodes below the hub, which coordinates.
AcrossHub == Link(Q, p, c)
\* From the hub to a node below, which coordinates.
ByConsumer == Link(Q, k, e)
\* Two from one source of the hub, which coordinates, one of them to itself.
ByProducer == {Link(P, k, e), Link(P, k, h)}
Refused == {Link(U, k, e), Link(Q, k, v)}
AllConnects == {AcrossHub, ByConsumer} \cup ByProducer \cup Refused
Workloads == {{AcrossHub}, {ByConsumer}, ByProducer} \cup {{r} : r \in Refused}
Symmetry == Permutations(Task) \cup Permutations(Delivery)
=============================================================================
