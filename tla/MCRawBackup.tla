---------------------------- MODULE MCRawBackup ----------------------------
(* RawBackup for TLC: observations and processes are interchangeable. *)
EXTENDS RawBackup, TLC

Symmetry == Permutations(Keys) \cup Permutations(Writers)
=============================================================================
