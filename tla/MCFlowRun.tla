----------------------------- MODULE MCFlowRun -----------------------------
(* Graphs and symmetry for the instances of FlowRun that TLC checks. *)
EXTENDS FlowRun, TLC

RunSymmetry == Permutations(Run)

(* One call node. *)
NoEdges  == {}
OneCases == [n \in 1..1 |-> {}]
NoRetry  == [n \in 1..1 |-> 0]
OneRetry == [n \in 1..1 |-> 1]

(* Node 1 is a branch to 2 or to 3; 4 follows 2; 5 joins 4 and 3.  Node 2 *)
(* may fail and node 3 has a retry. *)
Diamond == {[from |-> 1, to |-> 2, case |-> "a"],
            [from |-> 1, to |-> 3, case |-> "b"],
            [from |-> 2, to |-> 4, case |-> NoCase],
            [from |-> 3, to |-> 5, case |-> NoCase],
            [from |-> 4, to |-> 5, case |-> NoCase]}
DiamondCases == [n \in 1..5 |-> IF n = 1 THEN {"a", "b"} ELSE {}]
DiamondRetry == [n \in 1..5 |-> IF n = 3 THEN 1 ELSE 0]

============================================================================
