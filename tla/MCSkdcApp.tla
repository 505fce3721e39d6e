------------------------------ MODULE MCSkdcApp ------------------------------
(***************************************************************************)
(* One SKDC driven by an arbitrary environment.                            *)
(***************************************************************************)
EXTENDS SkdcApp
=============================================================================
