---------------------------- MODULE TokenWeights ----------------------------
(***************************************************************************)
(* What the token of a cluster amounts to: every slave has a weight, the   *)
(* number of times the master exponent counts it, and the token is for a   *)
(* set of users.  A user can open the token when its weight is one.        *)
(***************************************************************************)
EXTENDS Integers

CONSTANT Slaves

VARIABLES weight, users

weightVars == <<weight, users>>

WeightInit ==
    /\ weight = [i \in Slaves |-> 1]
    /\ users  = Slaves

Join(i) ==
    /\ weight' = [weight EXCEPT ![i] = @ + 1]
    /\ users'  = users \union {i}

Leave(i) ==
    /\ weight' = [weight EXCEPT ![i] = @ - 1]
    /\ users'  = users \ {i}

WeightNext == \E i \in Slaves : Join(i) \/ Leave(i)

WeightSpec == WeightInit /\ [][WeightNext]_weightVars
=============================================================================
