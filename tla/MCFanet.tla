------------------------------- MODULE MCFanet -------------------------------
(***************************************************************************)
(* Two clusters of one UAV each, with handovers.                           *)
(***************************************************************************)
EXTENDS Fanet
=============================================================================
