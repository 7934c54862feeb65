---------------------------- MODULE MCBootstrap ----------------------------
(***************************************************************************)
(* Server processes on one store.                                          *)
(***************************************************************************)
EXTENDS Bootstrap, TLC

Symmetry == Permutations(Procs) \cup Permutations(Keys) \cup Permutations(Codes)
=============================================================================
