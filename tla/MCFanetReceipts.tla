--------------------------- MODULE MCFanetReceipts ---------------------------
(***************************************************************************)
(* Root of the TLC run on the latency rows; every constant is a number    *)
(* given in the configuration.                                             *)
(***************************************************************************)
EXTENDS FanetReceipts
=============================================================================
