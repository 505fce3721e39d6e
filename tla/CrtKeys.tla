------------------------------- MODULE CrtKeys -------------------------------
(***************************************************************************)
(* The algorithms of the MKE-MGKM scheme (crypto/uav-crt-manager.cc) and   *)
(* the modular arithmetic below them (crypto/uav-bigint.cc), in real       *)
(* arithmetic on small safe primes.  A token is the TEK T, raised to a     *)
(* master exponent that is congruent to the exponent of each member        *)
(* modulo x_i * y_i, in the product of the members' moduli.                *)
(***************************************************************************)
EXTENDS Integers, Sequences

MulLimit == 46340  \* the largest number whose square has 31 bits

\* Multiples of a modulo m, by doubling: products beyond the integers of TLC never occur.
Multiples(a, m) ==
    LET mul[k \in Nat] ==
          IF k = 0 THEN 0 ELSE (2 * mul[k \div 2] + (k % 2) * (a % m)) % m
    IN  mul

ModMul(a, b, m) ==
    IF m <= MulLimit THEN ((a % m) * (b % m)) % m ELSE Multiples(a, m)[b % m]

\* Powers of b modulo m, by squaring.
Powers(b, m) ==
    LET pow[k \in Nat] ==
          IF k = 0 THEN 1 % m
          ELSE LET half   == pow[k \div 2]
                   square == ModMul(half, half, m)
               IN  IF k % 2 = 1 THEN ModMul(square, b, m) ELSE square
    IN  pow

ModPow(base, exp, m) == Powers(base, m)[exp]

\* The loop of ModInverse on <<old_r, r, old_s, s>>, from any of its states to the end.
Euclid[t \in Nat \X Nat \X Int \X Int] ==
    IF t[2] = 0 THEN t
    ELSE LET q == t[1] \div t[2]
         IN  Euclid[<<t[2], t[1] - q * t[2], t[4], t[3] - q * t[4]>>]

Gcd(a, b) == Euclid[<<a, b, 1, 0>>][1]

\* ModInverse throws unless Gcd(a, m) is one.
ModInverse(a, m) == Euclid[<<a, m, 1, 0>>][3] % m

-----------------------------------------------------------------------------

\* The loops over the slaves: running products and sums of f[1] .. f[n].
Products(f, n) ==
    LET prod[k \in 0 .. n] == IF k = 0 THEN 1 ELSE prod[k - 1] * f[k] IN prod

Sums(f, n) ==
    LET sum[k \in 0 .. n] == IF k = 0 THEN 0 ELSE sum[k - 1] + f[k] IN sum

Product(f, n) == Products(f, n)[n]
Sum(f, n)     == Sums(f, n)[n]

\* Fault variant: the one is subtracted after the power.
ComputeDiOutside(e, x, y) == (ModPow(e, 2 * (x - 1) * (y - 1), 4 * x * y) - 1) % (4 * x * y)

ComputeDi(e, x, y) == ModPow(e, 2 * (x - 1) * (y - 1) - 1, 4 * x * y)

\* x_i and y_i of a pair of safe primes.
Halves(pair) == <<(pair[1] - 1) \div 2, (pair[2] - 1) \div 2>>

\* The private half of slave i: the prime pair and the exponent give modulus and key.
Slave(pair, e) ==
    LET x == Halves(pair)[1]
        y == Halves(pair)[2]
    IN  [e |-> e, d |-> ComputeDi(e, x, y), n |-> pair[1] * pair[2], xy |-> x * y]

\* Fault variant: the exponent may be even.
NormaliseModOnly(a, n) == a % n

\* Reduction modulo n_total, then the first number of that class that is 1 modulo 4.
Normalise(a, n) ==
    LET r == a % n
        k == CHOOSE k \in 0 .. 3 : (r + k * n) % 4 = 1
    IN  r + k * n

\* MKeyGen on the given pairs and exponents; part[i] is e_i * M_i * N_i.
MKeyGen(pairs, es) ==
    LET size   == Len(pairs)
        slaves == [i \in 1 .. size |-> Slave(pairs[i], es[i])]
        total  == Product([i \in 1 .. size |-> slaves[i].xy], size)
        part   == [i \in 1 .. size |->
                     LET Mi == total \div slaves[i].xy
                     IN  slaves[i].e * Mi * ModInverse(Mi, slaves[i].xy)]
    IN  [slaves |-> slaves, size |-> size, nTotal |-> total, part |-> part,
         eM |-> Normalise(Sum(part, size), total)]

\* N_group: indices that are no slave's count for nothing.
GroupModulus(mkg, users) ==
    Product([i \in 1 .. mkg.size |-> IF i \in users THEN mkg.slaves[i].n ELSE 1], mkg.size)

Token(mkg, users, T, e) ==
    LET N == GroupModulus(mkg, users)
    IN  [MT_K |-> ModPow(T, e, N), e_MK |-> e, N_group |-> N, T |-> T]

\* MTokenGen subtracts from eM what the slaves outside the group contribute.
MTokenGen(mkg, users, T) ==
    LET out == Sum([i \in 1 .. mkg.size |-> IF i \in users THEN 0 ELSE mkg.part[i]], mkg.size)
    IN  Token(mkg, users, T, Normalise(mkg.eM - out, mkg.nTotal))

\* JoKeyUpdate, for the users that include the joining slave i.
JoKeyUpdate(mkg, token, users, i) ==
    Token(mkg, users, token.T, Normalise(token.e_MK + mkg.part[i], mkg.nTotal))

\* Fault variant: the exponent still counts the slave that leaves.
LeKeyUpdateKeepsPart(mkg, token, users, i) ==
    Token(mkg, users, token.T, Normalise(token.e_MK, mkg.nTotal))

\* LeKeyUpdate, for the users without the leaving slave i.
LeKeyUpdate(mkg, token, users, i) ==
    Token(mkg, users, token.T, Normalise(token.e_MK - mkg.part[i], mkg.nTotal))

SlaveDecrypt(slave, token) == ModPow(token.MT_K, slave.d, slave.n)

VerifySlaveDecrypt(slave, token) == SlaveDecrypt(slave, token) = token.T % slave.n
=============================================================================
