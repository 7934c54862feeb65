-------------------------- MODULE MCJsonMapStore --------------------------
(***************************************************************************)
(* Instances of JsonMapStore for TLC.                                      *)
(***************************************************************************)
EXTENDS JsonMapStore

CONSTANT i1

\* One server process: every request goroutine goes through one instance.
OneInstance == [t \in Threads |-> i1]
=============================================================================
