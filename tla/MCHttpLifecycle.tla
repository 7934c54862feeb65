-------------------------- MODULE MCHttpLifecycle --------------------------
(***************************************************************************)
(* Instances of HttpLifecycle for TLC: a few requests are enough, they     *)
(* only interact through the command's own state.                          *)
(***************************************************************************)
EXTENDS HttpLifecycle
=============================================================================
