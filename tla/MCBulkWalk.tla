----------------------------- MODULE MCBulkWalk -----------------------------
(***************************************************************************)
(* Small instances of BulkWalk: a subtree longer than a response with one  *)
(* inside it, and one that begins where the first ends.                    *)
(***************************************************************************)
EXTENDS BulkWalk

MCRoot == [i \in Varbinds |-> CASE i = 1 -> 0 [] i = 2 -> 1 [] OTHER -> 4]
MCLast == [i \in Varbinds |-> CASE i = 1 -> 4 [] i = 2 -> 3 [] OTHER -> 6]
=============================================================================
