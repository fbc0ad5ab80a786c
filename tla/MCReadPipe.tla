----------------------------- MODULE MCReadPipe -----------------------------
(***************************************************************************)
(* ReadPipe on small instances.  Two consumers are interchangeable.        *)
(***************************************************************************)
EXTENDS ReadPipe, TLC

Symmetry == Permutations(Consumers)
=============================================================================
