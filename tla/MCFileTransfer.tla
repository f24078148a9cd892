--------------------------- MODULE MCFileTransfer ---------------------------
(* Two versions that differ from the second block on, the first one longer. *)
EXTENDS FileTransfer, TLC

CONSTANTS v1, v2

Contents == (v1 :> <<"a1", "a2", "a3">>) @@ (v2 :> <<"a1", "b2">>)

Work(ps, os, overlap, kinds, most) ==
    [pulls |-> ps, offers |-> os, overlap |-> overlap, kinds |-> kinds, most |-> most]

All == {"rewrite", "lose", "repeat", "expire", "restart"}
\* The source is rewritten between and during offers made one after another.
Rewritten == Work(0, 3, FALSE, All, 3)
\* The source stays as it is, and so does the .part file a pull refers to.
Resumed == Work(2, 1, FALSE, {"lose", "repeat", "restart"}, 2)
Overlapping == Work(0, 2, TRUE, All \ {"rewrite"}, 1)
Workloads == {Rewritten, Resumed, Overlapping}
\* Pulls that overlap.
Pulls == {Work(2, 0, TRUE, {}, 0)}
=============================================================================
