----------------------------- MODULE MCSubtasks -----------------------------
(* Small instances of Subtasks: calls c1, c2 that borrow every handle. *)
EXTENDS Subtasks

CONSTANTS c1, c2, h1

Shared == [c \in Calls |-> Handles]
=============================================================================
