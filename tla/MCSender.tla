------------------------------ MODULE MCSender ------------------------------
(***************************************************************************)
(* An instance of Sender: a chunk that is full and one that is not, and    *)
(* a copy of the task.                                                     *)
(***************************************************************************)
EXTENDS Sender

CONSTANTS m1, m2
=============================================================================
