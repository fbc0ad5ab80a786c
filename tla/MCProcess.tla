----------------------------- MODULE MCProcess -----------------------------
(***************************************************************************)
(* Process with two objects, used by two threads.                          *)
(***************************************************************************)
EXTENDS Process, TLC

CONSTANTS p1, p2

Symmetry == Permutations({p1, p2})
=============================================================================
