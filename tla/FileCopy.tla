------------------------------ MODULE FileCopy ------------------------------
(***************************************************************************)
(* What the file sub-protocol promises of one file name at the receiving   *)
(* node: a reader finds nothing there or one of the versions the source    *)
(* has announced, whole.  Nothing is said of when.                         *)
(***************************************************************************)
CONSTANTS Version, None

VARIABLES
    announced,   \* the versions a transfer was started for
    stored       \* what is under the final name: a version, or None

vars == <<announced, stored>>

Init == announced = {} /\ stored = None

Announce(v) ==
    /\ announced' = announced \cup {v}
    /\ UNCHANGED stored

Store(v) ==
    /\ v \in announced
    /\ stored' = v
    /\ UNCHANGED announced

(* The old file is taken away for a new one to take its place.             *)
Remove ==
    /\ announced # {}
    /\ stored' = None
    /\ UNCHANGED announced

Next == \/ \E v \in Version : Announce(v) \/ Store(v)
        \/ Remove

Spec == Init /\ [][Next]_vars
=============================================================================
