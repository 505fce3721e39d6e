---------------------------- MODULE MCReplayCache ----------------------------
(***************************************************************************)
(* One sender, a bitmap of two bits and a ring of two nonces, with         *)
(* sequence numbers that reach the end of their range.                     *)
(***************************************************************************)
EXTENDS ReplayCache
=============================================================================
