----------------------------- MODULE CrtManager -----------------------------
(***************************************************************************)
(* The runtime state that CrtManager keeps for a cluster, from the loaded  *)
(* parameters through any sequence of joins and leaves.  Clusters do not   *)
(* share state and a mutex makes each call one step, so that one cluster   *)
(* is enough.  ProcessJoin and ProcessLeave do not ask who is a member:    *)
(* the model calls them with any slave, as often as the bound allows.      *)
(***************************************************************************)
EXTENDS CrtKeys

CONSTANTS
    Pairs,      \* the safe primes of each slave
    Exponents,  \* what GenerateEi may draw
    Teks,       \* TEKs as integers
    MaxRekeys   \* bound on rekey_count, which has 32 bits

Slaves == 1 .. Len(Pairs)

\* x_i, y_i, their product, and n_i of a slave.
X(i)  == Halves(Pairs[i])[1]
Y(i)  == Halves(Pairs[i])[2]
XY(i) == X(i) * Y(i)
N(i)  == Pairs[i][1] * Pairs[i][2]

\* p_i = 2 * x_i + 1 and q_i = 2 * y_i + 1 with x_i and y_i odd and more than one, and the
\* weights that the bound allows are distinct modulo x_i * y_i, which has 510 bits.
ASSUME PairsAssumption ==
    /\ Pairs \in Seq(Nat \X Nat) /\ MaxRekeys \in Nat
    /\ \A i \in Slaves : /\ Pairs[i][1] % 4 = 3 /\ Pairs[i][1] > 3
                         /\ Pairs[i][2] % 4 = 3 /\ Pairs[i][2] > 3
                         /\ XY(i) > 2 * MaxRekeys

\* GenerateEi returns 4 * R + 1.
ASSUME ExponentsAssumption == Exponents \subseteq Nat /\ \A e \in Exponents : e % 4 = 1

\* ModInverse throws for none of the M_i: the pairs have no prime in common.
ASSUME InversesExist ==
    \A i \in Slaves :
        Gcd(Product([j \in Slaves |-> XY(j)], Len(Pairs)) \div XY(i), XY(i)) = 1

\* Euler's theorem for 4 * x_i * y_i, since x_i and y_i are prime, and for n_i.
ASSUME EulerAssumption ==
    \A i \in Slaves :
        /\ \A e \in Exponents :
              Gcd(e, XY(i)) = 1 => ModPow(e, 2 * (X(i) - 1) * (Y(i) - 1), 4 * XY(i)) = 1
        /\ \A T \in Teks : ModPow(T, 2 * XY(i), N(i)) = 1

\* No TEK has a small order: that of a random T is at least x_i * y_i but for one T in
\* about x_i.
ASSUME OrderAssumption ==
    /\ Teks \subseteq Nat
    /\ \A i \in Slaves, T \in Teks : \A k \in 1 .. XY(i) - 1 : ModPow(T, k, N(i)) # 1

VARIABLES
    mkg,         \* the keys of the cluster
    mtoken,      \* the current token
    users,       \* user_indices of the token, of which only membership is ever asked
    version,     \* version of the token
    tek,         \* how often the TEK was rotated
    rekeyCount

crtVars == <<mkg, mtoken, users, version, tek, rekeyCount>>

\* MKeyGen draws an exponent again until it has no divisor in common with x_i * y_i.
Draws ==
    {es \in [Slaves -> Exponents] : \A i \in Slaves : Gcd(es[i], XY(i)) = 1}

\* LoadFromParams: the parameters hold MKeyGen's keys and MTokenGen's token for all.
LoadFromParams ==
    /\ \E es \in Draws : mkg = MKeyGen(Pairs, es)
    /\ \E T \in Teks : mtoken = MTokenGen(mkg, Slaves, T)
    /\ users = Slaves
    /\ version = 1 /\ tek = 0 /\ rekeyCount = 0

CountRekey ==
    /\ rekeyCount < MaxRekeys
    /\ rekeyCount' = rekeyCount + 1
    /\ version'    = version + 1

\* Fault variant: the modulus stays that of the group before.
ProcessJoinOldModulus(i) ==
    /\ CountRekey
    /\ users'  = users \union {i}
    /\ mtoken' = JoKeyUpdate(mkg, mtoken, users, i)
    /\ UNCHANGED <<mkg, tek>>

ProcessJoin(i) ==
    /\ CountRekey
    /\ users'  = users \union {i}
    /\ mtoken' = JoKeyUpdate(mkg, mtoken, users', i)
    /\ UNCHANGED <<mkg, tek>>

\* Every entry of the slave goes; the TEK is rotated, T stays.
ProcessLeave(i) ==
    /\ CountRekey
    /\ users'  = users \ {i}
    /\ mtoken' = LeKeyUpdate(mkg, mtoken, users', i)
    /\ tek'    = tek + 1
    /\ UNCHANGED mkg

CrtNext == \E i \in Slaves : ProcessJoin(i) \/ ProcessLeave(i)

CrtSpec == LoadFromParams /\ [][CrtNext]_crtVars

-----------------------------------------------------------------------------
(* Properties.                                                             *)

\* How often the exponent counts slave i, read off its residue modulo x_i * y_i.
Weight(i) ==
    CHOOSE w \in (1 - MaxRekeys) .. (1 + MaxRekeys) :
        (mtoken.e_MK - w * mkg.slaves[i].e) % mkg.slaves[i].xy = 0

\* Types of ClusterState; the exponent is in its normal form.
CrtTypeOK ==
    /\ mtoken.e_MK \in 1 .. 4 * mkg.nTotal - 1 /\ mtoken.e_MK % 4 = 1
    /\ mtoken.MT_K \in 0 .. mtoken.N_group - 1
    /\ users \subseteq Slaves
    /\ version = rekeyCount + 1 /\ tek \in 0 .. rekeyCount /\ rekeyCount \in 0 .. MaxRekeys

\* VerifyCluster for each user alone: through any history of updates, a user's private key
\* recovers T exactly when the exponent counts it once, whatever happened to the others.
RecoversIffCountedOnce ==
    \A i \in users : VerifySlaveDecrypt(mkg.slaves[i], mtoken) <=> Weight(i) = 1

\* Algorithms 3 and 5 agree with Algorithm 2: a token updated join by join and leave by leave
\* is the one that MTokenGen makes for its users, as long as no slave joined twice or left twice.
UpdatesAreExact ==
    (\A i \in Slaves : Weight(i) = IF i \in users THEN 1 ELSE 0)
        => mtoken = MTokenGen(mkg, users, mtoken.T)

\* A join counts the slave once more and a leave once less, and they change no other weight.
Weights == INSTANCE TokenWeights
               WITH weight <- [i \in Slaves |-> Weight(i)], users <- users

ImplementsWeights == Weights!WeightSpec
=============================================================================
