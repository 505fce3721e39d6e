----------------------------- MODULE MCFanetData -----------------------------
(***************************************************************************)
(* Telemetry in two clusters of one UAV each.                              *)
(***************************************************************************)
EXTENDS FanetData
=============================================================================
