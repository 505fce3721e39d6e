--------------------------- MODULE MCGroupManagers ---------------------------
(***************************************************************************)
(* Root of the TLC runs on the managers.                                   *)
(***************************************************************************)
EXTENDS GroupManagers
=============================================================================
