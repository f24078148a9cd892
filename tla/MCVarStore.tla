----------------------------- MODULE MCVarStore -----------------------------
(* A root with two hubs below it: the owner is connected to C1, the other   *)
(* clients to C2.                                                           *)
EXTENDS VarStore

CONSTANTS R, C1, C2, O, S1, S2

Tree == (R :> None) @@ (C1 :> R) @@ (C2 :> R)
Homes == (O :> C1) @@ (S1 :> C2) @@ (S2 :> C2)
Routes == (R :> ((O :> C1) @@ (S1 :> C2) @@ (S2 :> C2)))
          @@ (C1 :> ((O :> O) @@ (S1 :> None) @@ (S2 :> None)))
          @@ (C2 :> ((O :> None) @@ (S1 :> S1) @@ (S2 :> S2)))

Req(c, act, vis) == [from |-> c, act |-> act, vis |-> vis]

\* The owner writes, the others read and subscribe.
PublicReads ==
    {Req(O, "set", "public"), Req(O, "revoke", ""), Req(S1, "get", ""),
     Req(S1, "subscribe", ""), Req(S2, "get", ""), Req(S2, "list", "")}
\* Next to the writes of a flow.
Subscribing ==
    {Req(O, "set", "private"), Req(S1, "subscribe", ""), Req(S2, "subscribe", "")}
\* Several clients write.
Writing ==
    {Req(O, "set", "public"), Req(S1, "set", "public"), Req(S1, "unsubscribe", ""),
     Req(S2, "set", "public"), Req(S2, "revoke", ""), Req(S2, "subscribe", "")}

Work(asks, most, writes) ==
    [asks |-> asks, flows |-> {}, late |-> {}, trusted |-> {}, fails |-> FALSE,
     most |-> most, writes |-> writes, leaves |-> 0]
All == {[Work(PublicReads, 4, 4) EXCEPT !.late = {R}],
        [Work(Subscribing, 3, 2) EXCEPT !.flows = {C1}, !.late = {R}],
        [Work(Writing, 3, 3) EXCEPT !.trusted = {S2}, !.fails = TRUE, !.leaves = 1]}
=============================================================================
