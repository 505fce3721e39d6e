---------------------------- MODULE MCCrtManager ----------------------------
(***************************************************************************)
(* Three slaves with the safe primes 7 * 11, 23 * 47 and 59 * 83: the      *)
(* numbers x_i, y_i are odd and distinct, as MKeyGen needs them.           *)
(***************************************************************************)
EXTENDS CrtManager

SmallPairs == <<<<7, 11>>, <<23, 47>>, <<59, 83>>>>
=============================================================================
