----------------------------- MODULE MCSimulator -----------------------------
(***************************************************************************)
(* The event loop with a few events, of the main thread and of others.     *)
(***************************************************************************)
EXTENDS Simulator
=============================================================================
