-------------------------- MODULE CrtManagerProofs --------------------------
(***************************************************************************)
(* Proofs about CrtManager, for any number of slaves, any safe primes,     *)
(* exponents and TEKs that satisfy the assumptions, and any number of      *)
(* rekeys up to the bound.  The token's exponent is always the normal form *)
(* of a sum of the parts of the slaves, each taken as often as its weight  *)
(* says; the residue of the exponent modulo x_i * y_i shows the weight; and *)
(* what user i decrypts is T raised to a number that is the weight of i    *)
(* modulo x_i * y_i, which is T again just when the weight is one.         *)
(***************************************************************************)
EXTENDS CrtManager, CrtKeysProofs

-----------------------------------------------------------------------------
(* The constants.                                                          *)

\* The number of slaves, n_total, and M_i, the product of all x_j * y_j but the one of slave i.
Size  == Len(Pairs)
Total == Product([j \in Slaves |-> XY(j)], Size)
M(i)  == Total \div XY(i)

\* The slaves are numbered from one.
LEMMA SizeType == Size \in Nat /\ Slaves = 1 .. Size
  <1>1. Pairs \in Seq(Nat \X Nat)
    BY PairsAssumption
  <1>2. Len(Pairs) \in Nat
    BY <1>1
  <1> QED BY <1>2 DEF Size, Slaves

\* x_i and y_i are odd and more than one.
LEMMA PairNumbers ==
  ASSUME NEW i \in Slaves
  PROVE  /\ X(i) \in Nat /\ X(i) > 1 /\ X(i) % 2 = 1
         /\ Y(i) \in Nat /\ Y(i) > 1 /\ Y(i) % 2 = 1
         /\ XY(i) \in Nat \ {0} /\ XY(i) > 1 /\ XY(i) % 2 = 1 /\ XY(i) > 2 * MaxRekeys
         /\ N(i) \in Nat \ {0} /\ N(i) > 1
  <1> DEFINE p == Pairs[i][1]
             q == Pairs[i][2]
             x == X(i)
             y == Y(i)
  <1>1. Pairs[i] \in Nat \X Nat
    BY PairsAssumption DEF Slaves
  <1>2. p \in Nat /\ q \in Nat /\ p % 4 = 3 /\ p > 3 /\ q % 4 = 3 /\ q > 3 /\ XY(i) > 2 * MaxRekeys
    BY <1>1, PairsAssumption
  <1>3. x = (p - 1) \div 2 /\ y = (q - 1) \div 2 /\ N(i) = p * q /\ XY(i) = x * y
    BY DEF X, Y, N, XY, Halves
  <1> HIDE DEF p, q, x, y
  <1>4. x \in Nat /\ x > 1 /\ x % 2 = 1
    BY <1>2, <1>3
  <1>5. y \in Nat /\ y > 1 /\ y % 2 = 1
    BY <1>2, <1>3
  <1>6. x * y >= 1 * y /\ x * y \in Nat
    BY <1>4, <1>5
  <1>7. (x * y) % 2 = 1
    <2>1. PICK a \in Int : x = 2 * a + 1
      BY <1>4
    <2> DEFINE ay == a * y
    <2>2. ay \in Int /\ x * y = 2 * ay + y
      BY <1>5, <2>1
    <2> HIDE DEF ay
    <2>3. (2 * ay + y) % 2 = 1
      BY <1>5, <2>2
    <2> QED BY <2>2, <2>3
  <1>8. p * q >= 1 * q /\ p * q \in Nat
    BY <1>2
  <1>9. XY(i) \in Nat \ {0} /\ XY(i) > 1 /\ XY(i) % 2 = 1
    <2> DEFINE xy == x * y
    <2>1. xy \in Nat /\ xy >= y /\ xy % 2 = 1 /\ XY(i) = xy
      BY <1>3, <1>5, <1>6, <1>7
    <2> HIDE DEF xy
    <2> QED BY <1>5, <2>1
  <1>10. N(i) \in Nat \ {0} /\ N(i) > 1
    BY <1>2, <1>3, <1>8
  <1> QED BY <1>2, <1>4, <1>5, <1>9, <1>10 DEF x, y

\* M_i is a multiple of every x_j * y_j but the one of slave i.
LEMMA TotalFacts ==
  /\ Total \in Nat \ {0} /\ Total % 2 = 1
  /\ \A i \in Slaves : /\ M(i) \in Nat \ {0} /\ Total = XY(i) * M(i)
                       /\ \A j \in Slaves : j # i => \E q \in Nat : M(i) = XY(j) * q
  <1> DEFINE f == [j \in Slaves |-> XY(j)]
  <1>0. Size \in Nat /\ Slaves = 1 .. Size
    BY SizeType
  <1>1. f \in [1 .. Size -> Nat \ {0}] /\ f \in [1 .. Size -> Int]
    BY <1>0, PairNumbers
  <1>2. \A i \in 1 .. Size : f[i] % 2 = 1 /\ f[i] = XY(i)
    BY <1>0, PairNumbers
  <1>3. Total = Product(f, Size)
    BY DEF Total
  <1> HIDE DEF f
  <1>4. Total \in Nat \ {0}
    BY <1>0, <1>1, <1>3, ProductPositive
  <1>5. Total % 2 = 1
    BY <1>0, <1>1, <1>2, <1>3, ProductOdd
  <1>6. ASSUME NEW i \in Slaves
        PROVE  /\ M(i) \in Nat \ {0} /\ Total = XY(i) * M(i)
               /\ \A j \in Slaves : j # i => \E q \in Nat : M(i) = XY(j) * q
    <2>1. PICK r \in Nat \ {0} :
             /\ Product(f, Size) = f[i] * r
             /\ \A j \in 1 .. Size : j # i => \E q \in Nat : r = f[j] * q
      BY <1>0, <1>1, ProductPositive
    <2>2. XY(i) \in Nat \ {0} /\ Total = XY(i) * r
      BY <1>0, <1>2, <1>3, <2>1, PairNumbers
    <2>3. M(i) = r
      BY <2>2, DivExact DEF M
    <2> QED BY <1>0, <1>2, <2>1, <2>2, <2>3
  <1> QED BY <1>4, <1>5, <1>6

\* What MKeyGen returns.
LEMMA Keys ==
  ASSUME NEW es \in Draws, NEW k, k = MKeyGen(Pairs, es)
  PROVE  /\ k.size = Size /\ k.nTotal = Total
         /\ \A i \in Slaves :
              /\ k.slaves[i].e = es[i] /\ k.slaves[i].xy = XY(i) /\ k.slaves[i].n = N(i)
              /\ k.slaves[i].d = ComputeDi(es[i], X(i), Y(i))
         /\ k.part = [i \in Slaves |-> es[i] * M(i) * ModInverse(M(i), XY(i))]
         /\ k.eM = Normalise(Sum(k.part, Size), Total)
  <1> DEFINE slaves == [i \in Slaves |-> Slave(Pairs[i], es[i])]
  <1>1. \A i \in Slaves :
          slaves[i] = [e |-> es[i], d |-> ComputeDi(es[i], X(i), Y(i)), n |-> N(i), xy |-> XY(i)]
    BY DEF Slave, X, Y, XY, N
  <1> HIDE DEF slaves
  <1>2. ASSUME NEW i \in Slaves
        PROVE  /\ slaves[i].xy = XY(i) /\ slaves[i].e = es[i] /\ slaves[i].n = N(i)
               /\ slaves[i].d = ComputeDi(es[i], X(i), Y(i))
    <2> DEFINE dd == ComputeDi(es[i], X(i), Y(i))
               s  == slaves[i]
    <2>1. s = [e |-> es[i], d |-> dd, n |-> N(i), xy |-> XY(i)]
      BY <1>1
    <2> HIDE DEF dd, s
    <2>2. s.xy = XY(i) /\ s.e = es[i] /\ s.n = N(i) /\ s.d = dd
      BY <2>1
    <2> QED BY <2>2 DEF dd, s
  <1>3. [i \in Slaves |-> slaves[i].xy] = [i \in Slaves |-> XY(i)]
    BY <1>2
  <1> DEFINE tot == Product([i \in Slaves |-> slaves[i].xy], Size)
             part == [i \in Slaves |->
                       LET Mi == tot \div slaves[i].xy
                       IN  slaves[i].e * Mi * ModInverse(Mi, slaves[i].xy)]
  <1>4. tot = Total
    BY <1>3 DEF Total
  <1>5. k = [slaves |-> slaves, size |-> Size, nTotal |-> tot, part |-> part,
             eM |-> Normalise(Sum(part, Size), tot)]
    BY DEF MKeyGen, slaves, Slaves, Size
  <1> HIDE DEF tot
  <1>6. part = [i \in Slaves |-> es[i] * M(i) * ModInverse(M(i), XY(i))]
    BY <1>2, <1>4 DEF M
  <1> HIDE DEF part
  <1>7. /\ k.slaves = slaves /\ k.size = Size /\ k.nTotal = Total /\ k.part = part
        /\ k.eM = Normalise(Sum(part, Size), Total)
    BY <1>4, <1>5
  <1> QED BY <1>2, <1>6, <1>7

\* The keys of one slave.
LEMMA KeysOf ==
  ASSUME NEW es \in Draws, NEW k, k = MKeyGen(Pairs, es), NEW i \in Slaves
  PROVE  /\ k.slaves[i].e = es[i] /\ k.slaves[i].xy = XY(i) /\ k.slaves[i].n = N(i)
         /\ k.slaves[i].d = ComputeDi(es[i], X(i), Y(i))
  BY Keys

\* An exponent of the group is a number that is 1 modulo 4 and invertible.
LEMMA DrawFacts ==
  ASSUME NEW es \in Draws, NEW i \in Slaves
  PROVE  /\ es[i] \in Exponents /\ es[i] \in Nat /\ es[i] % 4 = 1
         /\ \E v \in Int : Cong(es[i] * v, 1, XY(i))
  <1>1. es[i] \in Exponents /\ es[i] \in Nat /\ es[i] % 4 = 1 /\ Gcd(es[i], XY(i)) = 1
    BY ExponentsAssumption DEF Draws
  <1>2. XY(i) \in Nat \ {0}
    BY PairNumbers
  <1>3. ModInverse(es[i], XY(i)) \in Nat /\ Cong(es[i] * ModInverse(es[i], XY(i)), 1, XY(i))
    BY <1>1, <1>2, ModInverseCorrect
  <1> QED BY <1>1, <1>3

\* The part of slave i is its exponent modulo x_i * y_i and nothing modulo x_j * y_j.
LEMMA PartResidues ==
  ASSUME NEW es \in Draws, NEW k, k = MKeyGen(Pairs, es), NEW i \in Slaves
  PROVE  /\ k.part[i] \in Int /\ Cong(k.part[i], es[i], XY(i))
         /\ \A j \in Slaves : j # i => Cong(k.part[i], 0, XY(j))
  <1> DEFINE e == es[i]
             mi == M(i)
             x == XY(i)
             v == ModInverse(mi, x)
  <1>1. e \in Nat /\ mi \in Nat \ {0} /\ x \in Nat \ {0}
    BY DrawFacts, TotalFacts, PairNumbers
  <1>2. Gcd(mi, x) = 1
    BY InversesExist DEF M, Total, Size
  <1>3. v \in Nat /\ Cong(mi * v, 1, x)
    <2> HIDE DEF mi, x
    <2> QED BY <1>1, <1>2, ModInverseCorrect
  <1>4. k.part[i] = e * mi * v
    <2>1. k.part = [j \in Slaves |-> es[j] * M(j) * ModInverse(M(j), XY(j))]
      BY Keys
    <2> QED BY <2>1
  <1>5. \A j \in Slaves : j # i => \E q \in Nat : mi = XY(j) * q
    BY TotalFacts
  <1> HIDE DEF e, mi, x, v
  <1> DEFINE mv == mi * v
  <1>6. e * mi * v = e * mv /\ mv \in Int /\ e \in Int /\ x \in Int /\ 1 \in Int /\ e * 1 = e
    BY <1>1, <1>3
  <1>7. Cong(e * mv, e * 1, x)
    <2>1. Cong(mv, 1, x)
      BY <1>3
    <2> HIDE DEF mv
    <2> QED BY <1>6, <2>1, CongScale
  <1>8. Cong(k.part[i], e, x) /\ k.part[i] \in Int
    BY <1>4, <1>6, <1>7
  <1>9. ASSUME NEW j \in Slaves, j # i PROVE Cong(k.part[i], 0, XY(j))
    <2> DEFINE y == XY(j)
    <2>1. PICK q \in Nat : mi = y * q
      BY <1>5, <1>9
    <2>2. y \in Nat
      BY PairNumbers
    <2> HIDE DEF y
    <2> DEFINE c == (e * q) * v
    <2>3. (e * (y * q)) * v = c * y /\ c \in Int
      BY <1>1, <1>3, <2>2
    <2>4. k.part[i] - 0 = c * y
      BY <1>4, <1>8, <2>1, <2>3
    <2> QED BY <2>3, <2>4 DEF Cong, y
  <1> QED BY <1>8, <1>9 DEF e, x

-----------------------------------------------------------------------------
(* Exponents made of weights.                                              *)

\* The exponent that counts slave i w[i] times.
ExponentOf(part, w) ==
    Normalise(Sum([i \in Slaves |-> w[i] * part[i]], Size), Total)

\* Sums of integers.
LEMMA SumType ==
  ASSUME NEW f \in [Slaves -> Int]
  PROVE  Sum(f, Size) \in Int
  <1>1. Size \in Nat /\ f \in [1 .. Size -> Int] /\ 0 \in Int
    BY SizeType
  <1>2. \A i \in 1 .. Size : f[i] \in Int /\ Cong(f[i], f[i], 0)
    BY <1>1, CongRefl
  <1> QED BY <1>1, <1>2, SumCong

\* Modulo x_i * y_i such an exponent is w[i] times the exponent of slave i.
LEMMA ExponentResidue ==
  ASSUME NEW es \in Draws, NEW k, k = MKeyGen(Pairs, es), NEW w \in [Slaves -> Int]
  PROVE  /\ ExponentOf(k.part, w) \in 1 .. 4 * Total - 1
         /\ ExponentOf(k.part, w) % 4 = 1
         /\ \A i \in Slaves : Cong(ExponentOf(k.part, w), w[i] * es[i], XY(i))
  <1> DEFINE f == [i \in Slaves |-> w[i] * k.part[i]]
             s == Sum(f, Size)
             E == ExponentOf(k.part, w)
  <1>0. \A i \in Slaves : k.part[i] \in Int
    BY PartResidues
  <1>1. f \in [Slaves -> Int]
    BY <1>0
  <1>2. s \in Int
    <2> HIDE DEF f
    <2> QED BY <1>1, SumType
  <1>3. E = Normalise(s, Total)
    BY DEF ExponentOf
  <1>f. \A i \in Slaves : f[i] = w[i] * k.part[i]
    OBVIOUS
  <1>s. s = Sum(f, Size)
    OBVIOUS
  <1> HIDE DEF f, s, E
  <1>4. E \in 1 .. 4 * Total - 1 /\ E % 4 = 1 /\ Cong(E, s, Total)
    BY <1>2, <1>3, NormaliseForm, TotalFacts
  <1>5. ASSUME NEW i \in Slaves PROVE Cong(E, w[i] * es[i], XY(i))
    <2> DEFINE x == XY(i)
               t == w[i] * es[i]
               g == [j \in Slaves |-> IF j = i THEN t ELSE 0]
    <2>1. x \in Int /\ M(i) \in Int /\ Total = x * M(i) /\ E \in Int
      BY <1>4, PairNumbers, TotalFacts
    <2>2. t \in Int /\ w[i] \in Int /\ es[i] \in Int
      BY DrawFacts
    <2>3. Cong(E, s, x)
      <3>1. Cong(E, s, x * M(i))
        BY <1>4, <2>1
      <3> HIDE DEF x
      <3> QED BY <1>2, <2>1, <3>1, CongReduce
    <2>4. ASSUME NEW j \in Slaves PROVE Cong(f[j], g[j], x)
      <3>0. w[j] \in Int /\ k.part[j] \in Int /\ 0 \in Int
        BY <1>0
      <3>1. CASE j = i
        <4>1. Cong(k.part[i], es[i], x)
          BY PartResidues
        <4> HIDE DEF x
        <4>2. Cong(w[i] * k.part[i], w[i] * es[i], x)
          BY <2>1, <2>2, <3>0, <3>1, <4>1, CongScale, Zenon
        <4> QED BY <1>f, <3>1, <4>2
      <3>2. CASE j # i
        <4>1. Cong(k.part[j], 0, x)
          BY <3>2, PartResidues
        <4> HIDE DEF x
        <4>2. Cong(w[j] * k.part[j], w[j] * 0, x)
          BY <2>1, <3>0, <4>1, CongScale, Zenon
        <4>3. w[j] * 0 = 0
          BY <3>0
        <4> QED BY <1>f, <3>2, <4>2, <4>3
      <3> QED BY <3>1, <3>2
    <2>5. g \in [Slaves -> Int]
      BY <2>2
    <2>6. g[i] = t /\ \A j \in Slaves : j # i => g[j] = 0
      OBVIOUS
    <2> HIDE DEF g, t, x
    <2>7. Size \in Nat /\ Slaves = 1 .. Size
      BY SizeType
    <2>8. Cong(s, Sum(g, Size), x)
      BY <1>1, <1>s, <2>1, <2>4, <2>5, <2>7, SumCong
    <2>9. Sum(g, Size) = t
      BY <2>5, <2>6, <2>7, SumSingle
    <2>10. Cong(E, t, x)
      BY <1>2, <2>1, <2>2, <2>3, <2>8, <2>9, CongTrans, Zenon
    <2> QED BY <2>10 DEF t, x
  <1> QED BY <1>4, <1>5 DEF E

\* The weights are the only ones within the bound that give the exponent its residues.
LEMMA WeightUnique ==
  ASSUME NEW es \in Draws, NEW k, k = MKeyGen(Pairs, es), NEW w \in [Slaves -> Int],
         NEW i \in Slaves, w[i] \in (1 - MaxRekeys) .. (1 + MaxRekeys)
  PROVE  \A v \in (1 - MaxRekeys) .. (1 + MaxRekeys) :
            (ExponentOf(k.part, w) - v * k.slaves[i].e) % k.slaves[i].xy = 0 <=> v = w[i]
  <1> DEFINE E == ExponentOf(k.part, w)
             e == es[i]
             x == XY(i)
             W == (1 - MaxRekeys) .. (1 + MaxRekeys)
             wi == w[i]
  <1>0. MaxRekeys \in Nat /\ x \in Nat \ {0} /\ x > 2 * MaxRekeys
    BY PairsAssumption, PairNumbers
  <1>1. E \in Int /\ Cong(E, wi * e, x)
    BY ExponentResidue
  <1>2. e \in Int /\ wi \in Int /\ wi \in W
    BY DrawFacts
  <1>3. PICK u \in Int : Cong(e * u, 1, x)
    BY DrawFacts
  <1>4. k.slaves[i].e = e /\ k.slaves[i].xy = x
    BY Keys
  <1> HIDE DEF E, e, x, wi
  <1>5. ASSUME NEW v \in W PROVE (E - v * e) % x = 0 <=> Cong(E, v * e, x)
    <2> DEFINE ve == v * e
               dd == E - ve
    <2>1. ve \in Int /\ dd \in Int
      BY <1>0, <1>1, <1>2
    <2>2. Cong(dd, 0, x) <=> Cong(E, ve, x)
      <3>1. dd - 0 = E - ve
        BY <1>1, <2>1
      <3> QED BY <3>1 DEF Cong
    <2> HIDE DEF ve, dd
    <2>3. Cong(dd, 0, x) <=> dd % x = 0 % x
      BY <1>0, <2>1, CongIffMod
    <2>4. 0 % x = 0
      BY <1>0, SmallMod
    <2> QED BY <2>2, <2>3, <2>4 DEF dd, ve
  <1>6. (E - wi * e) % x = 0
    BY <1>1, <1>2, <1>5
  <1>7. ASSUME NEW v \in W, (E - v * e) % x = 0 PROVE v = wi
    <2>0. v \in Int /\ x \in Int /\ v * e \in Int /\ wi * e \in Int
      BY <1>0, <1>2
    <2>1. Cong(v * e, E, x)
      BY <1>1, <1>5, <1>7, <2>0, CongSym, Zenon
    <2>2. Cong(v * e, wi * e, x)
      BY <1>1, <2>0, <2>1, CongTrans, Zenon
    <2> DEFINE eu == e * u
    <2>3. eu \in Int /\ Cong(eu, 1, x) /\ 1 \in Int
      BY <1>2, <1>3
    <2>4. Cong((v * e) * u, (wi * e) * u, x)
      <3>1. Cong(u, u, x)
        BY <2>0, CongRefl
      <3> QED BY <2>0, <2>2, <3>1, CongMul, Zenon
    <2>5. (v * e) * u = v * eu /\ (wi * e) * u = wi * eu
      BY <1>2, <2>0
    <2> HIDE DEF eu
    <2>6. Cong(v * eu, v * 1, x) /\ Cong(wi * eu, wi * 1, x)
      BY <1>2, <2>0, <2>3, CongScale, Zenon
    <2>7. v * 1 = v /\ wi * 1 = wi /\ v * eu \in Int /\ wi * eu \in Int
      BY <1>2, <2>0, <2>3
    <2>8. Cong(v, v * eu, x)
      BY <2>0, <2>6, <2>7, CongSym
    <2>9. Cong(v, wi * eu, x)
      <3>1. Cong(v * eu, wi * eu, x)
        BY <2>4, <2>5
      <3> QED BY <2>0, <2>7, <2>8, <3>1, CongTrans, Zenon
    <2>10. Cong(v, wi, x)
      <3>1. Cong(wi * eu, wi, x)
        BY <2>6, <2>7
      <3> QED BY <1>2, <2>0, <2>7, <2>9, <3>1, CongTrans, Zenon
    <2>11. v - wi < x /\ wi - v < x
      BY <1>0, <1>2, <2>0
    <2> QED BY <1>2, <2>0, <2>10, <2>11, CongSmall
  <1>8. \A v \in W : (E - v * e) % x = 0 <=> v = wi
    BY <1>6, <1>7
  <1> QED BY <1>4, <1>8 DEF E, wi

\* Adding c times a part counts the slave c times more.
LEMMA ExponentAdd ==
  ASSUME NEW es \in Draws, NEW k, k = MKeyGen(Pairs, es), NEW w \in [Slaves -> Int],
         NEW i \in Slaves, NEW c \in Int
  PROVE  ExponentOf(k.part, [w EXCEPT ![i] = @ + c])
           = Normalise(ExponentOf(k.part, w) + c * k.part[i], Total)
  <1> DEFINE v == [w EXCEPT ![i] = @ + c]
             f == [j \in Slaves |-> w[j] * k.part[j]]
             g == [j \in Slaves |-> v[j] * k.part[j]]
             h == [j \in Slaves |-> IF j = i THEN c * k.part[i] ELSE 0]
             p == c * k.part[i]
             s == Sum(f, Size)
             E == ExponentOf(k.part, w)
  <1>0. Size \in Nat /\ Slaves = 1 .. Size
    BY SizeType
  <1>1. \A j \in Slaves : k.part[j] \in Int
    BY PartResidues
  <1>2. f \in [Slaves -> Int] /\ g \in [Slaves -> Int] /\ h \in [Slaves -> Int] /\ p \in Int
    BY <1>1
  <1>3. ASSUME NEW j \in Slaves PROVE g[j] = f[j] + h[j]
    <2> DEFINE q == k.part[j]
    <2>1. q \in Int /\ w[j] \in Int
      BY <1>1
    <2>2. CASE j = i
      <3>1. g[j] = (w[j] + c) * q /\ f[j] = w[j] * q /\ h[j] = c * q
        BY <2>2
      <3> HIDE DEF q, f, g, h
      <3> QED BY <2>1, <3>1
    <2>3. CASE j # i
      <3>1. g[j] = w[j] * q /\ f[j] = w[j] * q /\ h[j] = 0
        BY <2>3
      <3> HIDE DEF q, f, g, h
      <3> QED BY <2>1, <3>1
    <2> QED BY <2>2, <2>3
  <1>4. h[i] = p /\ \A j \in Slaves : j # i => h[j] = 0
    OBVIOUS
  <1>5. E = Normalise(s, Total) /\ ExponentOf(k.part, v) = Normalise(Sum(g, Size), Total)
    BY DEF ExponentOf
  <1>6. E \in Int
    BY ExponentResidue
  <1> HIDE DEF f, g, h, v, p, E
  <1>7. Sum(g, Size) = s + Sum(h, Size)
    BY <1>0, <1>2, <1>3, SumAdd
  <1>8. Sum(h, Size) = p
    BY <1>0, <1>2, <1>4, SumSingle
  <1>9. s \in Int
    BY <1>2, SumType
  <1> HIDE DEF s
  <1>10. Cong(s, E, Total) /\ Total \in Nat \ {0} /\ Total \in Int
    <2>1. Total \in Nat \ {0} /\ Total % 2 = 1
      BY TotalFacts
    <2>2. Cong(E, s, Total)
      BY <1>5, <1>9, <2>1, NormaliseForm
    <2> QED BY <1>6, <1>9, <2>1, <2>2, CongSym
  <1>11. Cong(s + p, E + p, Total) /\ s + p \in Int /\ E + p \in Int
    <2>1. Cong(p, p, Total)
      BY <1>2, <1>10, CongRefl
    <2> QED BY <1>2, <1>6, <1>9, <1>10, <2>1, CongAdd
  <1>12. Normalise(s + p, Total) = Normalise(E + p, Total)
    BY <1>10, <1>11, NormaliseCong, Zenon
  <1> QED BY <1>5, <1>7, <1>8, <1>12 DEF v, E, p

\* MTokenGen counts each user once and no one else.
LEMMA ExponentGroup ==
  ASSUME NEW es \in Draws, NEW k, k = MKeyGen(Pairs, es), NEW U \in SUBSET Slaves, NEW T
  PROVE  MTokenGen(k, U, T)
           = Token(k, U, T, ExponentOf(k.part, [i \in Slaves |-> IF i \in U THEN 1 ELSE 0]))
  <1> DEFINE w == [i \in Slaves |-> IF i \in U THEN 1 ELSE 0]
             f == [j \in Slaves |-> w[j] * k.part[j]]
             o == [j \in Slaves |-> IF j \in U THEN 0 ELSE k.part[j]]
             so == Sum(o, Size)
             sf == Sum(f, Size)
             sp == Sum(k.part, Size)
  <1>0. Size \in Nat /\ Slaves = 1 .. Size
    BY SizeType
  <1>1. k.part = [i \in Slaves |-> es[i] * M(i) * ModInverse(M(i), XY(i))]
    BY Keys
  <1>2. \A j \in Slaves : k.part[j] \in Int
    BY PartResidues
  <1>3. k.part \in [Slaves -> Int]
    BY <1>1, <1>2
  <1>4. f \in [Slaves -> Int] /\ o \in [Slaves -> Int]
    BY <1>2
  <1>5. ASSUME NEW j \in Slaves PROVE k.part[j] = f[j] + o[j]
    <2> DEFINE q == k.part[j]
    <2>1. q \in Int
      BY <1>2
    <2>2. CASE j \in U
      <3>1. f[j] = 1 * q /\ o[j] = 0
        BY <2>2
      <3> HIDE DEF q, f, o
      <3> QED BY <2>1, <3>1 DEF q
    <2>3. CASE j \notin U
      <3>1. f[j] = 0 * q /\ o[j] = q
        BY <2>3
      <3> HIDE DEF q, f, o
      <3> QED BY <2>1, <3>1 DEF q
    <2> QED BY <2>2, <2>3
  <1>6. ExponentOf(k.part, w) = Normalise(sf, Total)
    BY DEF ExponentOf
  <1>7. k.size = Size /\ k.nTotal = Total /\ k.eM = Normalise(sp, Total)
    BY Keys
  <1>8. MTokenGen(k, U, T) = Token(k, U, T, Normalise(k.eM - so, Total))
    BY <1>0, <1>7 DEF MTokenGen
  <1> HIDE DEF f, o, w
  <1>9. sp = sf + so
    BY <1>0, <1>3, <1>4, <1>5, SumAdd
  <1>10. sp \in Int /\ sf \in Int /\ so \in Int
    BY <1>3, <1>4, SumType
  <1> DEFINE m == k.eM
  <1> HIDE DEF sp, sf, so
  <1>11. Total \in Nat \ {0} /\ Total % 2 = 1 /\ Total \in Int
    BY TotalFacts
  <1>12. m \in Int /\ Cong(m, sp, Total)
    BY <1>7, <1>10, <1>11, NormaliseForm
  <1> HIDE DEF m
  <1>13. Cong(m - so, sp - so, Total) /\ m - so \in Int /\ sp - so \in Int
    <2>1. Cong(so, so, Total)
      BY <1>10, <1>11, CongRefl
    <2> QED BY <1>10, <1>11, <1>12, <2>1, CongAdd
  <1>14. sp - so = sf
    BY <1>9, <1>10
  <1>15. Normalise(m - so, Total) = Normalise(sf, Total)
    BY <1>11, <1>13, <1>14, NormaliseCong, Zenon
  <1> QED BY <1>6, <1>8, <1>15 DEF m, w

-----------------------------------------------------------------------------
(* Decryption.                                                             *)

\* A TEK that a power leaves at one: the exponent is a multiple of x_i * y_i.
LEMMA TekOrder ==
  ASSUME NEW i \in Slaves, NEW T \in Teks
  PROVE  /\ T \in Nat
         /\ Cong(Power(T, 2 * XY(i)), 1, N(i))
         /\ \A a \in Nat : Cong(Power(T, a), 1, N(i)) => \E c \in Nat : a = XY(i) * c
  <1> DEFINE x == XY(i)
             n == N(i)
             x2 == 2 * x
             Ones == {k \in Nat \ {0} : Cong(Power(T, k), 1, n)}
  <1>0. T \in Int /\ T \in Nat /\ x \in Nat \ {0} /\ n \in Nat /\ n > 1 /\ n \in Int
    BY OrderAssumption, PairNumbers
  <1>1. ModPow(T, x2, n) = 1
    BY EulerAssumption
  <1>2. \A k \in 1 .. x - 1 : ModPow(T, k, n) # 1
    BY OrderAssumption
  <1>x. x2 = 2 * x
    OBVIOUS
  <1> HIDE DEF x, n, x2
  <1>a. x2 \in Nat \ {0} /\ x2 \in Nat
    BY <1>0, <1>x
  <1>3. Cong(Power(T, x2), 1, n)
    BY <1>0, <1>1, <1>a, PowerIsOne
  <1>4. \A k \in 1 .. x - 1 : ~ Cong(Power(T, k), 1, n)
    BY <1>0, <1>2, PowerIsOne
  <1>5. PICK o \in Ones : \A k \in Ones : o <= k
    <2>1. x2 \in Ones /\ Ones \in SUBSET Nat
      BY <1>a, <1>3
    <2> HIDE DEF Ones
    <2> QED BY <2>1, Least
  <1>6. o \in Nat \ {0} /\ Cong(Power(T, o), 1, n) /\ IsOrder(o, T, n)
    BY <1>5 DEF IsOrder
  <1> HIDE DEF Ones
  <1>7. o >= x
    BY <1>0, <1>4, <1>6
  <1>8. PICK c \in Nat : x2 = o * c
    <2>1. T \in Int /\ n \in Int /\ IsOrder(o, T, n) /\ x2 \in Nat /\ Cong(Power(T, x2), 1, n)
      BY <1>0, <1>3, <1>6, <1>a
    <2> QED BY <2>1, OrderDivides
  <1>9. o = x * 1 \/ o = x * 2
    <2>1. c # 0
      BY <1>8, <1>6, <1>a
    <2>2. c = 1 \/ c = 2 \/ c >= 3
      BY <2>1
    <2>3. CASE c = 1
      BY <1>0, <1>6, <1>8, <1>x, <2>3
    <2>4. CASE c = 2
      BY <1>0, <1>6, <1>8, <1>x, <2>4
    <2>5. CASE c >= 3
      <3>1. o * c >= o * 3
        BY <1>6, <2>5
      <3> QED BY <1>0, <1>6, <1>7, <1>8, <1>x, <3>1
    <2> QED BY <2>2, <2>3, <2>4, <2>5
  <1>10. ASSUME NEW a \in Nat, Cong(Power(T, a), 1, n) PROVE \E g \in Nat : a = x * g
    <2>1. PICK g \in Nat : a = o * g
      <3>1. T \in Int /\ n \in Int /\ IsOrder(o, T, n) /\ a \in Nat /\ Cong(Power(T, a), 1, n)
        BY <1>0, <1>6, <1>10
      <3> QED BY <3>1, OrderDivides
    <2>2. CASE o = x * 1
      BY <1>0, <2>1, <2>2
    <2>3. CASE o = x * 2
      <3>1. (x * 2) * g = x * (2 * g) /\ 2 * g \in Nat
        BY <1>0
      <3> QED BY <2>1, <2>3, <3>1
    <2> QED BY <1>9, <2>2, <2>3
  <1> QED BY <1>0, <1>3, <1>x, <1>10 DEF x, n

\* The exponent of a slave and its private key are inverse to each other.
LEMMA SlaveKey ==
  ASSUME NEW es \in Draws, NEW i \in Slaves, NEW d, d = ComputeDi(es[i], X(i), Y(i))
  PROVE  d \in Nat \ {0} /\ d % 4 = 1 /\ Cong(es[i] * d, 1, XY(i))
  <1> DEFINE e == es[i]
             x == XY(i)
             m == 4 * x
             l == 2 * (X(i) - 1) * (Y(i) - 1)
             h == l - 1
             u == Power(e, h)
  <1>1. e \in Nat /\ e \in Int /\ e % 4 = 1 /\ e \in Exponents /\ Gcd(e, x) = 1
    BY DrawFacts DEF Draws
  <1>2. x \in Nat \ {0} /\ x \in Int
    BY PairNumbers
  <1>3. l \in Nat \ {0}
    <2> DEFINE a == X(i) - 1
               b == Y(i) - 1
    <2>1. a \in Nat \ {0} /\ b \in Nat \ {0}
      BY PairNumbers
    <2>2. l = 2 * a * b
      OBVIOUS
    <2> HIDE DEF a, b
    <2>3. a * b >= 1 * b
      BY <2>1
    <2>4. 2 * a * b = 2 * (a * b)
      BY <2>1
    <2>5. l \in Int /\ l > 0
      BY <2>1, <2>2, <2>3, <2>4
    <2> QED BY <2>5
  <1>4. ModPow(e, l, m) = 1
    <2>1. \A f \in Exponents :
             Gcd(f, XY(i)) = 1 => ModPow(f, 2 * (X(i) - 1) * (Y(i) - 1), 4 * XY(i)) = 1
      BY EulerAssumption, Zenon
    <2> QED BY <1>1, <2>1, Zenon
  <1>5. d = ModPow(e, h, m)
    <2>1. X(i) \in Int /\ Y(i) \in Int
      BY PairNumbers
    <2>2. 4 * X(i) * Y(i) = 4 * (X(i) * Y(i))
      BY <2>1
    <2>3. d = ModPow(e, h, 4 * X(i) * Y(i))
      BY DEF ComputeDi
    <2> QED BY <2>2, <2>3 DEF XY
  <1>m. m = 4 * x
    OBVIOUS
  <1> HIDE DEF e, x, m, l
  <1>6. m \in Nat /\ m \in Int /\ m > 1 /\ m \in Nat \ {0} /\ h \in Nat /\ l = h + 1
    BY <1>2, <1>3, <1>m
  <1> HIDE DEF h
  <1>7. u \in Int /\ Power(e, l) = u * e
    BY <1>1, <1>6, PowerDef
  <1>8. Cong(u * e, 1, m)
    <2>1. l \in Nat
      BY <1>3
    <2>2. Cong(Power(e, l), 1, m)
      BY <1>1, <1>4, <1>6, <2>1, PowerIsOne
    <2> QED BY <1>7, <2>2
  <1>9. d = u % m
    BY <1>1, <1>5, <1>6, ModPowIsPower
  <1> HIDE DEF u
  <1>10. d \in Nat /\ d \in Int /\ Cong(d, u, m)
    BY <1>6, <1>7, <1>9, CongMod
  <1>11. e * d \in Int /\ e * u \in Int /\ e * u = u * e /\ 1 \in Int
    BY <1>1, <1>7, <1>10
  <1>12. Cong(e * d, 1, m)
    <2>1. Cong(e * d, e * u, m)
      BY <1>1, <1>6, <1>7, <1>10, CongScale
    <2>2. Cong(e * u, 1, m)
      BY <1>8, <1>11
    <2> QED BY <1>6, <1>11, <2>1, <2>2, CongTrans, Zenon
  <1>13. Cong(e * d, 1, x)
    <2>1. Cong(e * d, 1, x * 4) /\ 4 \in Int
      <3>1. m = x * 4
        BY <1>2, <1>m
      <3> QED BY <1>12, <3>1
    <2> QED BY <1>2, <1>11, <2>1, CongReduce, Zenon
  <1>14. d % 4 = 1
    <2>1. PICK k \in Int : e * d - 1 = k * (4 * x)
      BY <1>12, <1>m DEF Cong
    <2>2. PICK a \in Int : e = 4 * a + 1
      BY <1>1
    <2> DEFINE ad == a * d
               kx == k * x
    <2>3. ad \in Int /\ kx \in Int /\ e * d = 4 * ad + d /\ k * (4 * x) = 4 * kx
      BY <1>2, <1>10, <2>2
    <2> HIDE DEF ad, kx
    <2>4. d = 4 * (kx - ad) + 1
      BY <1>10, <2>1, <2>3
    <2> QED BY <1>10, <2>3, <2>4
  <1> QED BY <1>10, <1>13, <1>14 DEF e, x

\* The modulus of a group is positive and a multiple of the modulus of every user.
LEMMA GroupModulusFacts ==
  ASSUME NEW es \in Draws, NEW k, k = MKeyGen(Pairs, es), NEW U \in SUBSET Slaves
  PROVE  /\ GroupModulus(k, U) \in Nat \ {0}
         /\ \A i \in U : \E r \in Nat : GroupModulus(k, U) = N(i) * r
  <1> DEFINE f == [i \in Slaves |-> IF i \in U THEN k.slaves[i].n ELSE 1]
  <1>0. Size \in Nat /\ Slaves = 1 .. Size /\ k.size = Size
    BY SizeType, Keys
  <1>1. \A i \in Slaves : k.slaves[i].n = N(i) /\ N(i) \in Nat \ {0}
    BY KeysOf, PairNumbers
  <1>2. GroupModulus(k, U) = Product(f, Size)
    BY <1>0 DEF GroupModulus
  <1>3. f \in [1 .. Size -> Nat \ {0}]
    BY <1>0, <1>1
  <1>4. \A i \in U : i \in 1 .. Size /\ f[i] = N(i)
    BY <1>0, <1>1
  <1> HIDE DEF f
  <1>5. Product(f, Size) \in Nat \ {0}
    BY <1>0, <1>3, ProductPositive
  <1>6. ASSUME NEW i \in U PROVE \E r \in Nat : GroupModulus(k, U) = N(i) * r
    <2>0. i \in 1 .. Size
      BY <1>4
    <2>1. PICK r \in Nat : Product(f, Size) = f[i] * r
      BY <1>0, <1>3, <2>0, FactorOfProduct
    <2> QED BY <1>2, <1>4, <2>1
  <1> QED BY <1>2, <1>5, <1>6

\* What a user decrypts is the TEK raised to the product of the two exponents.
LEMMA DecryptIsPower ==
  ASSUME NEW es \in Draws, NEW k, k = MKeyGen(Pairs, es), NEW U \in SUBSET Slaves,
         NEW T \in Teks, NEW E \in Nat, NEW i \in U
  PROVE  LET d == k.slaves[i].d
         IN  VerifySlaveDecrypt(k.slaves[i], Token(k, U, T, E)) <=> Cong(Power(T, E * d), T, N(i))
  <1> DEFINE d == k.slaves[i].d
             n == N(i)
             g == GroupModulus(k, U)
             t == Token(k, U, T, E)
             u == Power(T, E)
             c == u % g
             pc == Power(c, d)
             pu == Power(u, d)
  <1>0. i \in Slaves /\ T \in Int
    BY OrderAssumption
  <1>1. d \in Nat /\ k.slaves[i].n = n /\ n \in Nat \ {0} /\ n \in Int
    <2>1. d = ComputeDi(es[i], X(i), Y(i)) /\ k.slaves[i].n = n
      BY <1>0, KeysOf
    <2>2. d \in Nat
      <3> HIDE DEF d
      <3> QED BY <1>0, <2>1, SlaveKey
    <2> QED BY <1>0, <2>1, <2>2, PairNumbers
  <1>2. g \in Nat \ {0}
    BY GroupModulusFacts
  <1>3. PICK r \in Nat : g = n * r
    BY GroupModulusFacts
  <1>4. u \in Int
    BY <1>0, PowerDef
  <1>5. t.MT_K = ModPow(T, E, g) /\ t.T = T
    BY DEF Token
  <1>6. ModPow(T, E, g) = c
    <2> HIDE DEF g
    <2> QED BY <1>0, <1>2, ModPowIsPower
  <1>v. VerifySlaveDecrypt(k.slaves[i], t) <=> ModPow(t.MT_K, d, k.slaves[i].n) = t.T % k.slaves[i].n
    BY DEF VerifySlaveDecrypt, SlaveDecrypt
  <1>7. VerifySlaveDecrypt(k.slaves[i], t) <=> ModPow(c, d, n) = T % n
    BY <1>1, <1>5, <1>6, <1>v
  <1>8. pu = Power(T, E * d)
    BY <1>0, <1>1, PowerTimes
  <1> HIDE DEF d, n, g, t, u
  <1>9. c \in Int /\ Cong(c, u, g)
    BY <1>2, <1>4, CongMod
  <1> HIDE DEF c
  <1>10. Cong(c, u, n)
    <2>1. Cong(c, u, n * r) /\ r \in Int
      BY <1>3, <1>9
    <2> QED BY <1>1, <1>4, <1>9, <2>1, CongReduce, Zenon
  <1>11. Cong(pc, pu, n)
    BY <1>1, <1>4, <1>9, <1>10, PowerCong
  <1>12. pc \in Int /\ pu \in Int
    BY <1>1, <1>4, <1>9, PowerDef
  <1>13. ModPow(c, d, n) = pc % n
    BY <1>1, <1>9, ModPowIsPower
  <1> HIDE DEF pc, pu
  <1>14. pc % n = pu % n
    BY <1>1, <1>11, <1>12, CongIffMod
  <1>15. Cong(pu, T, n) <=> pu % n = T % n
    BY <1>0, <1>1, <1>12, CongIffMod
  <1> QED BY <1>7, <1>8, <1>13, <1>14, <1>15 DEF d, n, t

\* A TEK raised to an odd exponent a comes back just when a is one modulo x_i * y_i.
LEMMA ComesBackIff ==
  ASSUME NEW i \in Slaves, NEW T \in Teks, NEW a \in Nat, a % 2 = 1
  PROVE  Cong(Power(T, a), T, N(i)) <=> Cong(a, 1, XY(i))
  <1> DEFINE x == XY(i)
             n == N(i)
             b == a - 1
             x2 == 2 * x
             z == Power(T, b)
             y == Power(T, x2)
             h == x2 - 1
             v == Power(T, h)
  <1>0. /\ T \in Int /\ x \in Nat \ {0} /\ x % 2 = 1 /\ n \in Nat \ {0} /\ n \in Int /\ x \in Int
        /\ 1 \in Int
    BY OrderAssumption, PairNumbers
  <1>1. Cong(y, 1, n) /\ \A j \in Nat : Cong(Power(T, j), 1, n) => \E c \in Nat : j = x * c
    BY TekOrder
  <1>2. b \in Nat /\ a = b + 1
    OBVIOUS
  <1> HIDE DEF x, n
  <1>3. x2 \in Nat /\ h \in Nat /\ x2 = h + 1
    BY <1>0
  <1>x. x2 = 2 * x
    OBVIOUS
  <1> HIDE DEF b, x2, h
  <1>4. z \in Int /\ Power(T, a) = z * T
    BY <1>0, <1>2, PowerDef
  <1>5. v \in Int /\ y \in Int /\ y = v * T
    BY <1>0, <1>3, PowerDef
  <1>b. y = Power(T, x2) /\ z = Power(T, b)
    OBVIOUS
  <1> HIDE DEF z, y, v
  <1>6. ASSUME Cong(Power(T, a), T, n) PROVE Cong(a, 1, x)
    \* z is z * y, which is (z * T) * v, and so T * v, and one.
    <2>1. z * y = (z * T) * v /\ T * v = y /\ z * 1 = z
      BY <1>0, <1>4, <1>5
    <2>2. z * y \in Int /\ z * T \in Int /\ T * v \in Int
      BY <1>0, <1>4, <1>5
    <2>3. Cong(z * T, T, n) /\ Cong(v, v, n)
      BY <1>0, <1>4, <1>5, <1>6, CongRefl
    <2>4. Cong((z * T) * v, T * v, n)
      BY <1>0, <1>5, <2>2, <2>3, CongMul, Zenon
    <2>5. Cong(z * y, y, n)
      BY <2>1, <2>4
    <2>6. Cong(z * y, 1, n)
      BY <1>0, <1>1, <1>5, <2>2, <2>5, CongTrans, Zenon
    <2>7. Cong(z * y, z, n)
      <3>1. Cong(z * y, z * 1, n)
        BY <1>0, <1>1, <1>4, <1>5, CongScale, Zenon
      <3> QED BY <2>1, <3>1
    <2>8. Cong(z, z * y, n)
      BY <1>0, <1>4, <2>2, <2>7, CongSym, Zenon
    <2>9. Cong(z, 1, n)
      BY <1>0, <1>4, <2>2, <2>6, <2>8, CongTrans, Zenon
    <2>10. PICK c \in Nat : b = x * c
      BY <1>1, <1>2, <1>b, <2>9
    <2>11. a - 1 = c * x /\ c \in Int
      BY <1>0, <1>2, <2>10
    <2> QED BY <2>11 DEF Cong
  <1>7. ASSUME Cong(a, 1, x) PROVE Cong(Power(T, a), T, n)
    <2>1. PICK c \in Int : a - 1 = c * x
      BY <1>7 DEF Cong
    \* The exponent a - 1 is even and x_i * y_i is odd.
    <2>2. c % 2 = 0
      <3> SUFFICES ASSUME c % 2 # 0 PROVE FALSE
        OBVIOUS
      <3>1. PICK j \in Int : c = 2 * j + 1
        OBVIOUS
      <3>2. PICK l \in Int : x = 2 * l + 1
        BY <1>0
      <3> DEFINE jx == j * x
      <3>3. jx \in Int /\ c * x = 2 * jx + x
        BY <1>0, <3>1
      <3> HIDE DEF jx
      <3>4. a - 1 = 2 * (jx + l) + 1
        BY <1>0, <2>1, <3>2, <3>3
      <3> QED BY <3>2, <3>3, <3>4
    <2>3. PICK j \in Int : c = 2 * j
      BY <2>2
    <2>4. b = x2 * j
      BY <1>0, <1>2, <1>x, <2>1, <2>3
    <2>5. j \in Nat
      <3> SUFFICES ASSUME j < 0 PROVE FALSE
        OBVIOUS
      <3>1. x2 * j <= x2 * (-1)
        BY <1>0, <1>3
      <3>2. x2 > 0
        BY <1>0, <1>x
      <3> QED BY <1>2, <1>3, <2>4, <3>1, <3>2
    <2>6. Cong(z, 1, n)
      <3>1. Cong(Power(T, x2 * j), 1, n)
        <4>1. Cong(Power(T, x2), 1, n)
          BY <1>1, <1>b
        <4> QED BY <1>0, <1>3, <2>5, <4>1, PowerOfOne
      <3> QED BY <1>b, <2>4, <3>1
    <2>7. Cong(T * z, T * 1, n)
      BY <1>0, <1>4, <2>6, CongScale, Zenon
    <2>8. T * z = z * T /\ T * 1 = T
      BY <1>0, <1>4
    <2> QED BY <1>4, <2>7, <2>8
  <1> QED BY <1>6, <1>7 DEF x, n

\* A token whose exponent counts slave i w[i] times opens for user i just when w[i] is one.
LEMMA OpensIffOne ==
  ASSUME NEW es \in Draws, NEW k, k = MKeyGen(Pairs, es), NEW U \in SUBSET Slaves,
         NEW T \in Teks, NEW w \in [Slaves -> Int], NEW i \in U,
         w[i] \in (1 - MaxRekeys) .. (1 + MaxRekeys)
  PROVE  VerifySlaveDecrypt(k.slaves[i], Token(k, U, T, ExponentOf(k.part, w))) <=> w[i] = 1
  <1> DEFINE E == ExponentOf(k.part, w)
             d == k.slaves[i].d
             a == E * d
             x == XY(i)
             e == es[i]
             wi == w[i]
  <1>0. i \in Slaves /\ x \in Nat \ {0} /\ x \in Int /\ x > 2 * MaxRekeys /\ MaxRekeys \in Nat
    BY PairNumbers, PairsAssumption
  <1>1. E \in Nat /\ E \in Int /\ E % 4 = 1 /\ Cong(E, wi * e, x)
    BY <1>0, ExponentResidue, TotalFacts
  <1>2. e \in Int /\ wi \in Int /\ 1 \in Int
    BY <1>0, DrawFacts
  <1>3. d \in Nat /\ d \in Int /\ d % 4 = 1 /\ Cong(e * d, 1, x)
    <2>1. d = ComputeDi(es[i], X(i), Y(i))
      BY <1>0, KeysOf
    <2> HIDE DEF d
    <2> QED BY <1>0, <2>1, SlaveKey
  <1>4. VerifySlaveDecrypt(k.slaves[i], Token(k, U, T, E)) <=> Cong(Power(T, a), T, N(i))
    <2> HIDE DEF E
    <2> QED BY <1>1, DecryptIsPower
  <1> HIDE DEF E, d, x, e
  <1>5. a \in Nat /\ a % 2 = 1
    <2>0. E = 2 * (2 * (E \div 4)) + 1 /\ 2 * (E \div 4) \in Int
      BY <1>1
    <2>1. PICK j \in Int : E = 2 * j + 1
      BY <2>0
    <2> DEFINE jd == j * d
    <2>2. jd \in Int /\ E * d = 2 * jd + d
      BY <1>3, <2>1
    <2> HIDE DEF jd
    <2>3. (2 * jd + d) % 2 = 1
      BY <1>3, <2>2
    <2> QED BY <1>1, <1>3, <2>2, <2>3
  <1>6. Cong(a, wi, x)
    <2>0. E * d \in Int /\ wi * e \in Int /\ e * d \in Int /\ (wi * e) * d \in Int /\ wi * (e * d) \in Int
      BY <1>1, <1>2, <1>3
    <2>1. Cong(d, d, x)
      BY <1>0, <1>3, CongRefl
    <2>2. Cong(E * d, (wi * e) * d, x)
      BY <1>0, <1>1, <1>3, <2>0, <2>1, CongMul, Zenon
    <2>3. (wi * e) * d = wi * (e * d) /\ wi * 1 = wi
      <3> HIDE DEF wi
      <3> QED BY <1>2, <1>3
    <2>4. Cong(wi * (e * d), wi * 1, x)
      BY <1>0, <1>2, <1>3, <2>0, CongScale, Zenon
    <2>5. Cong((wi * e) * d, wi, x)
      BY <2>3, <2>4
    <2> QED BY <1>0, <1>2, <2>0, <2>2, <2>5, CongTrans, Zenon
  <1>7. Cong(Power(T, a), T, N(i)) <=> Cong(a, 1, x)
    <2> HIDE DEF a
    <2> QED BY <1>0, <1>5, ComesBackIff DEF x
  <1> HIDE DEF a
  <1>8. Cong(a, 1, x) <=> Cong(wi, 1, x)
    <2>1. a \in Int
      BY <1>5
    <2>2. Cong(wi, a, x)
      BY <1>0, <1>2, <1>6, <2>1, CongSym, Zenon
    <2> QED BY <1>0, <1>2, <1>6, <2>1, <2>2, CongTrans, Zenon
  <1>9. Cong(wi, 1, x) <=> wi = 1
    <2>1. wi - 1 < x /\ 1 - wi < x
      BY <1>0, <1>2
    <2>2. Cong(wi, 1, x) => wi = 1
      BY <1>0, <1>2, <2>1, CongSmall
    <2>3. Cong(1, 1, x)
      BY <1>0, <1>2, CongRefl
    <2> QED BY <2>2, <2>3
  <1> QED BY <1>4, <1>7, <1>8, <1>9 DEF E

-----------------------------------------------------------------------------
(* The invariant and the theorems.                                         *)

\* The weights of all slaves, as the residues of the exponent give them.
CurrentWeights == [i \in Slaves |-> Weight(i)]

\* The inductive invariant: the keys are MKeyGen's, the token is a token for the users, its
\* exponent is the one that counts each slave as often as its weight says, and a weight has
\* moved by at most one for each rekey.
CrtInvariant ==
    /\ \E es \in Draws : mkg = MKeyGen(Pairs, es)
    /\ mtoken.T \in Teks /\ mtoken = Token(mkg, users, mtoken.T, mtoken.e_MK)
    /\ mtoken.e_MK = ExponentOf(mkg.part, CurrentWeights)
    /\ \A i \in Slaves : Weight(i) \in (1 - rekeyCount) .. (1 + rekeyCount)
    /\ users \subseteq Slaves
    /\ version = rekeyCount + 1 /\ tek \in 0 .. rekeyCount /\ rekeyCount \in 0 .. MaxRekeys

\* The weights that an exponent was made of can be read off it.
LEMMA WeightsRead ==
  ASSUME NEW es \in Draws, NEW k, k = MKeyGen(Pairs, es), NEW w \in [Slaves -> Int],
         \A i \in Slaves : w[i] \in (1 - MaxRekeys) .. (1 + MaxRekeys),
         NEW e, e = ExponentOf(k.part, w)
  PROVE  w = [i \in Slaves |-> CHOOSE v \in (1 - MaxRekeys) .. (1 + MaxRekeys) :
                                  (e - v * k.slaves[i].e) % k.slaves[i].xy = 0]
  <1>1. ASSUME NEW i \in Slaves
        PROVE  w[i] = CHOOSE v \in (1 - MaxRekeys) .. (1 + MaxRekeys) :
                         (e - v * k.slaves[i].e) % k.slaves[i].xy = 0
    <2>1. w[i] \in (1 - MaxRekeys) .. (1 + MaxRekeys)
      OBVIOUS
    <2>2. \A v \in (1 - MaxRekeys) .. (1 + MaxRekeys) :
             (e - v * k.slaves[i].e) % k.slaves[i].xy = 0 <=> v = w[i]
      BY <2>1, WeightUnique
    <2> QED BY <2>1, <2>2
  <1> DEFINE W(i) == CHOOSE v \in (1 - MaxRekeys) .. (1 + MaxRekeys) :
                        (e - v * k.slaves[i].e) % k.slaves[i].xy = 0
  <1>2. \A i \in Slaves : w[i] = W(i)
    BY <1>1
  <1> HIDE DEF W
  <1>3. w = [i \in Slaves |-> W(i)]
    BY <1>2
  <1> QED BY <1>3 DEF W

\* The fields of a token.
LEMMA TokenFields ==
  ASSUME NEW k, NEW U, NEW T, NEW e, NEW t, t = Token(k, U, T, e)
  PROVE  t.T = T /\ t.e_MK = e /\ t.N_group = GroupModulus(k, U) /\ t.MT_K = ModPow(T, e, GroupModulus(k, U))
  BY DEF Token

\* The token that the parameters hold counts everyone once.
LEMMA LoadedWeights ==
  ASSUME LoadFromParams
  PROVE  CrtInvariant /\ CurrentWeights = [i \in Slaves |-> 1]
  <1> USE DEF LoadFromParams
  <1> DEFINE w == [i \in Slaves |-> 1]
             ind == [i \in Slaves |-> IF i \in Slaves THEN 1 ELSE 0]
             e == ExponentOf(mkg.part, w)
  <1>1. PICK es \in Draws : mkg = MKeyGen(Pairs, es)
    OBVIOUS
  <1>2. PICK T \in Teks : mtoken = MTokenGen(mkg, Slaves, T)
    OBVIOUS
  <1>3. mtoken = Token(mkg, Slaves, T, ExponentOf(mkg.part, ind))
    BY <1>1, <1>2, ExponentGroup
  <1>4. ind = w
    OBVIOUS
  <1>5. mtoken = Token(mkg, users, T, e)
    BY <1>3, <1>4
  <1> HIDE DEF ind, e
  <1>6. mtoken.T = T /\ mtoken.e_MK = e
    BY <1>5, TokenFields
  <1>0. MaxRekeys \in Nat
    BY PairsAssumption
  <1>7. w \in [Slaves -> Int] /\ \A i \in Slaves : w[i] \in (1 - MaxRekeys) .. (1 + MaxRekeys)
    BY <1>0
  <1>w. \A i \in Slaves : w[i] = 1
    OBVIOUS
  <1> HIDE DEF w
  <1>8. CurrentWeights = w
    BY <1>1, <1>6, <1>7, WeightsRead DEF CurrentWeights, Weight, e
  <1>9. \A i \in Slaves : Weight(i) = 1
    BY <1>8, <1>w DEF CurrentWeights
  <1>10. mtoken = Token(mkg, users, mtoken.T, mtoken.e_MK)
    BY <1>5, <1>6
  <1>11. mtoken.e_MK = ExponentOf(mkg.part, CurrentWeights)
    BY <1>6, <1>8 DEF e
  <1>12. \A i \in Slaves : Weight(i) \in (1 - rekeyCount) .. (1 + rekeyCount)
    BY <1>9
  <1>13. /\ users \subseteq Slaves
         /\ version = rekeyCount + 1 /\ tek \in 0 .. rekeyCount /\ rekeyCount \in 0 .. MaxRekeys
    BY <1>0
  <1> QED BY <1>1, <1>2, <1>6, <1>8, <1>10, <1>11, <1>12, <1>13 DEF CrtInvariant, w

\* A rekey that adds c times the part of slave i moves its weight by c and no other weight.
LEMMA WeightStep ==
  ASSUME CrtInvariant, NEW i \in Slaves, NEW c \in {1, -1}, CountRekey, mkg' = mkg,
         users' \subseteq Slaves, tek' \in {tek, tek + 1},
         mtoken' = Token(mkg, users', mtoken.T,
                         Normalise(mtoken.e_MK + c * mkg.part[i], mkg.nTotal))
  PROVE  CrtInvariant' /\ CurrentWeights' = [CurrentWeights EXCEPT ![i] = @ + c]
  <1> DEFINE w == CurrentWeights
             v == [w EXCEPT ![i] = @ + c]
             e == mtoken.e_MK
             f == Normalise(e + c * mkg.part[i], mkg.nTotal)
  <1>0. /\ MaxRekeys \in Nat /\ rekeyCount \in 0 .. MaxRekeys /\ rekeyCount < MaxRekeys
        /\ rekeyCount' = rekeyCount + 1 /\ version' = version + 1
        /\ version = rekeyCount + 1 /\ tek \in 0 .. rekeyCount
    BY PairsAssumption DEF CrtInvariant, CountRekey
  <1>1. PICK es \in Draws : mkg = MKeyGen(Pairs, es)
    BY DEF CrtInvariant
  <1>2. \A j \in Slaves : Weight(j) \in (1 - rekeyCount) .. (1 + rekeyCount)
    BY DEF CrtInvariant
  <1>3. w \in [Slaves -> Int] /\ \A j \in Slaves : w[j] \in (1 - rekeyCount) .. (1 + rekeyCount)
    <2>1. \A j \in Slaves : Weight(j) \in Int
      BY <1>0, <1>2
    <2> QED BY <1>2, <2>1 DEF CurrentWeights
  <1>4. e = ExponentOf(mkg.part, w)
    BY DEF CrtInvariant
  <1> HIDE DEF w, e
  <1>5. v \in [Slaves -> Int] /\ \A j \in Slaves : v[j] \in (1 - rekeyCount') .. (1 + rekeyCount')
    <2>1. \A j \in Slaves : v[j] = IF j = i THEN w[j] + c ELSE w[j]
      BY <1>3
    <2>2. v \in [Slaves -> Int]
      BY <1>3
    <2> HIDE DEF v
    <2>3. ASSUME NEW j \in Slaves PROVE v[j] \in (1 - rekeyCount') .. (1 + rekeyCount')
      <3>1. w[j] \in (1 - rekeyCount) .. (1 + rekeyCount) /\ w[j] \in Int
        BY <1>3
      <3>2. v[j] = w[j] \/ v[j] = w[j] + 1 \/ v[j] = w[j] - 1
        BY <2>1, <3>1
      <3> QED BY <1>0, <3>1, <3>2
    <2> QED BY <2>2, <2>3
  <1>6. f = ExponentOf(mkg.part, v)
    <2>1. mkg.nTotal = Total
      BY <1>1, Keys
    <2>2. c \in Int
      OBVIOUS
    <2>3. ExponentOf(mkg.part, v) = Normalise(ExponentOf(mkg.part, w) + c * mkg.part[i], Total)
      BY <1>1, <1>3, <2>2, ExponentAdd, Zenon
    <2> QED BY <1>4, <2>1, <2>3
  <1>7. mtoken'.T = mtoken.T /\ mtoken'.e_MK = f
    <2>1. mtoken' = Token(mkg, users', mtoken.T, f)
      BY DEF e
    <2> HIDE DEF f
    <2> QED BY <2>1, TokenFields
  <1>8. mtoken' = Token(mkg', users', mtoken'.T, mtoken'.e_MK)
    BY <1>7 DEF e
  <1> HIDE DEF f, v
  <1>9. CurrentWeights' = v
    <2>1. \A j \in Slaves : v[j] \in (1 - MaxRekeys) .. (1 + MaxRekeys)
      BY <1>0, <1>5
    <2>2. v = [j \in Slaves |-> CHOOSE u \in (1 - MaxRekeys) .. (1 + MaxRekeys) :
                                   (f - u * mkg.slaves[j].e) % mkg.slaves[j].xy = 0]
      BY <1>1, <1>5, <1>6, <2>1, WeightsRead
    <2> QED BY <1>7, <2>2 DEF CurrentWeights, Weight
  <1>10. mtoken'.e_MK = ExponentOf(mkg'.part, CurrentWeights')
    BY <1>6, <1>7, <1>9
  <1>11. \A j \in Slaves : Weight(j)' \in (1 - rekeyCount') .. (1 + rekeyCount')
    <2>1. \A j \in Slaves : CurrentWeights'[j] = Weight(j)'
      BY DEF CurrentWeights
    <2> QED BY <1>5, <1>9, <2>1
  <1>12. mtoken'.T \in Teks
    BY <1>7 DEF CrtInvariant
  <1>13. version' = rekeyCount' + 1 /\ tek' \in 0 .. rekeyCount' /\ rekeyCount' \in 0 .. MaxRekeys
    BY <1>0
  <1>14. CrtInvariant'
    BY <1>1, <1>8, <1>10, <1>11, <1>12, <1>13 DEF CrtInvariant
  <1> QED BY <1>9, <1>14 DEF v, w

\* ProcessJoin counts the slave once more.
LEMMA JoinStep ==
  ASSUME CrtInvariant, NEW i \in Slaves, ProcessJoin(i)
  PROVE  CrtInvariant' /\ CurrentWeights' = [CurrentWeights EXCEPT ![i] = @ + 1]
  <1> USE DEF ProcessJoin
  <1>1. PICK es \in Draws : mkg = MKeyGen(Pairs, es)
    BY DEF CrtInvariant
  <1>2. mkg.part[i] \in Int
    BY <1>1, PartResidues
  <1>3. 1 * mkg.part[i] = mkg.part[i]
    BY <1>2
  <1>4. mtoken' = Token(mkg, users', mtoken.T, Normalise(mtoken.e_MK + 1 * mkg.part[i], mkg.nTotal))
    BY <1>3 DEF JoKeyUpdate
  <1>5. users' \subseteq Slaves /\ tek' \in {tek, tek + 1} /\ mkg' = mkg /\ CountRekey
    BY DEF CrtInvariant
  <1>6. 1 \in {1, -1}
    OBVIOUS
  <1> QED BY <1>4, <1>5, <1>6, WeightStep, Zenon

\* ProcessLeave counts the slave once less.
LEMMA LeaveStep ==
  ASSUME CrtInvariant, NEW i \in Slaves, ProcessLeave(i)
  PROVE  CrtInvariant' /\ CurrentWeights' = [CurrentWeights EXCEPT ![i] = @ - 1]
  <1> USE DEF ProcessLeave
  <1> DEFINE e == mtoken.e_MK
             p == mkg.part[i]
  <1>1. PICK es \in Draws : mkg = MKeyGen(Pairs, es)
    BY DEF CrtInvariant
  <1>2. p \in Int
    BY <1>1, PartResidues
  <1>3. CurrentWeights \in [Slaves -> Int]
    <2>1. \A j \in Slaves : Weight(j) \in Int
      BY PairsAssumption DEF CrtInvariant
    <2> QED BY <2>1 DEF CurrentWeights
  <1>4. e \in Int
    <2>1. e = ExponentOf(mkg.part, CurrentWeights)
      BY DEF CrtInvariant
    <2>2. ExponentOf(mkg.part, CurrentWeights) \in Int
      BY <1>1, <1>3, ExponentResidue
    <2> QED BY <2>1, <2>2
  <1>5. mtoken' = Token(mkg, users', mtoken.T, Normalise(e - p, mkg.nTotal))
    BY DEF LeKeyUpdate
  <1> HIDE DEF e, p
  <1>6. e - p = e + (-1) * p
    BY <1>2, <1>4
  <1>7. mtoken' = Token(mkg, users', mtoken.T, Normalise(e + (-1) * p, mkg.nTotal))
    BY <1>5, <1>6
  <1>8. users' \subseteq Slaves /\ tek' \in {tek, tek + 1} /\ mkg' = mkg /\ CountRekey
    BY DEF CrtInvariant
  <1>9. -1 \in {1, -1}
    OBVIOUS
  <1>10. CrtInvariant' /\ CurrentWeights' = [CurrentWeights EXCEPT ![i] = @ + (-1)]
    <2> HIDE DEF ProcessLeave
    <2> QED BY <1>7, <1>8, <1>9, WeightStep, Zenon DEF e, p
  <1>11. [CurrentWeights EXCEPT ![i] = @ + (-1)] = [CurrentWeights EXCEPT ![i] = @ - 1]
    <2> DEFINE w == CurrentWeights
    <2> HIDE DEF w
    <2>1. w \in [Slaves -> Int]
      BY <1>3 DEF w
    <2>2. w[i] + (-1) = w[i] - 1
      BY <2>1
    <2>3. [w EXCEPT ![i] = @ + (-1)] = [w EXCEPT ![i] = @ - 1]
      BY <2>2
    <2> QED BY <2>3 DEF w
  <1> QED BY <1>10, <1>11

\* The invariant holds through every history of joins and leaves.
THEOREM CrtInvariance == CrtSpec => []CrtInvariant
  <1>1. LoadFromParams => CrtInvariant
    BY LoadedWeights
  <1>2. CrtInvariant /\ [CrtNext]_crtVars => CrtInvariant'
    <2> SUFFICES ASSUME CrtInvariant, [CrtNext]_crtVars PROVE CrtInvariant'
      OBVIOUS
    <2>1. ASSUME NEW i \in Slaves, ProcessJoin(i) PROVE CrtInvariant'
      BY <2>1, JoinStep
    <2>2. ASSUME NEW i \in Slaves, ProcessLeave(i) PROVE CrtInvariant'
      BY <2>2, LeaveStep
    <2>3. CASE UNCHANGED crtVars
      <3>1. mkg' = mkg /\ mtoken' = mtoken /\ users' = users /\ version' = version /\ tek' = tek
            /\ rekeyCount' = rekeyCount
        BY <2>3 DEF crtVars
      <3>2. \A i \in Slaves : Weight(i)' = Weight(i)
        BY <3>1 DEF Weight
      <3>3. CurrentWeights' = CurrentWeights
        BY <3>2 DEF CurrentWeights
      <3> QED BY <3>1, <3>2, <3>3 DEF CrtInvariant
    <2> QED BY <2>1, <2>2, <2>3 DEF CrtNext
  <1> QED BY <1>1, <1>2, PTL DEF CrtSpec

\* The exponent stays in its normal form, the token below the modulus, and the counters
\* agree (CrtTypeOK).
THEOREM CrtTypeCorrect == CrtSpec => []CrtTypeOK
  <1>1. CrtInvariant => CrtTypeOK
    <2> SUFFICES ASSUME CrtInvariant PROVE CrtTypeOK
      OBVIOUS
    <2> DEFINE e == mtoken.e_MK
               g == mtoken.N_group
    <2>1. PICK es \in Draws : mkg = MKeyGen(Pairs, es)
      BY DEF CrtInvariant
    <2>2. CurrentWeights \in [Slaves -> Int]
      <3>1. \A j \in Slaves : Weight(j) \in Int
        BY PairsAssumption DEF CrtInvariant
      <3> QED BY <3>1 DEF CurrentWeights
    <2>3. e = ExponentOf(mkg.part, CurrentWeights) /\ mkg.nTotal = Total
      BY <2>1, Keys DEF CrtInvariant
    <2>4. e \in 1 .. 4 * Total - 1 /\ e % 4 = 1
      <3> HIDE DEF e
      <3> QED BY <2>1, <2>2, <2>3, ExponentResidue
    <2>5. mtoken = Token(mkg, users, mtoken.T, e) /\ users \in SUBSET Slaves /\ mtoken.T \in Teks
      BY DEF CrtInvariant
    <2>6. g = GroupModulus(mkg, users) /\ mtoken.MT_K = ModPow(mtoken.T, e, g)
      BY <2>5, TokenFields
    <2>7. g \in Nat \ {0}
      BY <2>1, <2>5, <2>6, GroupModulusFacts
    <2>8. mtoken.T \in Int /\ e \in Nat
      <3>1. Total \in Nat /\ Teks \subseteq Nat
        BY OrderAssumption, TotalFacts
      <3> HIDE DEF e
      <3>2. e \in Nat
        BY <2>4, <3>1
      <3>3. mtoken.T \in Teks
        BY <2>5
      <3>4. \A T \in Teks : T \in Int
        BY <3>1
      <3> QED BY <3>2, <3>3, <3>4
    <2> HIDE DEF e, g
    <2>9. mtoken.MT_K = Power(mtoken.T, e) % g /\ Power(mtoken.T, e) \in Int
      BY <2>6, <2>7, <2>8, ModPowIsPower, PowerDef
    <2>10. mtoken.MT_K \in 0 .. g - 1
      BY <2>7, <2>9, CongMod
    <2> QED BY <2>3, <2>4, <2>10 DEF CrtTypeOK, CrtInvariant, e, g
  <1> QED BY <1>1, CrtInvariance, PTL

\* Through any history of ProcessJoin and ProcessLeave, a user recovers T from the token just
\* when the exponent counts it once (RecoversIffCountedOnce).
THEOREM RecoveryIsExact == CrtSpec => []RecoversIffCountedOnce
  <1>1. CrtInvariant => RecoversIffCountedOnce
    <2> SUFFICES ASSUME CrtInvariant, NEW i \in users
                 PROVE  VerifySlaveDecrypt(mkg.slaves[i], mtoken) <=> Weight(i) = 1
      BY DEF RecoversIffCountedOnce
    <2> DEFINE w == CurrentWeights
    <2>1. PICK es \in Draws : mkg = MKeyGen(Pairs, es)
      BY DEF CrtInvariant
    <2>2. \A j \in Slaves : Weight(j) \in Int /\ Weight(j) \in (1 - MaxRekeys) .. (1 + MaxRekeys)
      BY PairsAssumption DEF CrtInvariant
    <2>3. w \in [Slaves -> Int] /\ i \in Slaves /\ w[i] = Weight(i) /\ users \in SUBSET Slaves
      BY <2>2 DEF CurrentWeights, CrtInvariant
    <2>4. mtoken.T \in Teks /\ mtoken = Token(mkg, users, mtoken.T, ExponentOf(mkg.part, w))
      BY DEF CrtInvariant
    <2> HIDE DEF w
    <2>5. w[i] \in (1 - MaxRekeys) .. (1 + MaxRekeys)
      BY <2>2, <2>3
    <2>6. VerifySlaveDecrypt(mkg.slaves[i], Token(mkg, users, mtoken.T, ExponentOf(mkg.part, w)))
            <=> w[i] = 1
      BY <2>1, <2>3, <2>4, <2>5, OpensIffOne
    <2> QED BY <2>3, <2>4, <2>6
  <1> QED BY <1>1, CrtInvariance, PTL

\* JoKeyUpdate and LeKeyUpdate lead to the token of MTokenGen as long as every user is
\* counted once and no one else is counted (UpdatesAreExact).
THEOREM UpdatesMatchMTokenGen == CrtSpec => []UpdatesAreExact
  <1>1. CrtInvariant => UpdatesAreExact
    <2> SUFFICES ASSUME CrtInvariant, \A i \in Slaves : Weight(i) = IF i \in users THEN 1 ELSE 0
                 PROVE  mtoken = MTokenGen(mkg, users, mtoken.T)
      BY DEF UpdatesAreExact
    <2>1. PICK es \in Draws : mkg = MKeyGen(Pairs, es)
      BY DEF CrtInvariant
    <2>2. CurrentWeights = [i \in Slaves |-> IF i \in users THEN 1 ELSE 0]
      BY DEF CurrentWeights
    <2>3. users \in SUBSET Slaves
      BY DEF CrtInvariant
    <2>4. MTokenGen(mkg, users, mtoken.T)
            = Token(mkg, users, mtoken.T, ExponentOf(mkg.part, CurrentWeights))
      BY <2>1, <2>2, <2>3, ExponentGroup
    <2> QED BY <2>4 DEF CrtInvariant
  <1> QED BY <1>1, CrtInvariance, PTL

\* The arithmetic implements the counters of TokenWeights: a join adds one to the weight of
\* its slave, a leave takes one away, and no other weight moves.
THEOREM CrtImplementsWeights == CrtSpec => ImplementsWeights
  <1>1. LoadFromParams => Weights!WeightInit
    BY LoadedWeights DEF Weights!WeightInit, CurrentWeights, LoadFromParams
  <1>2. CrtInvariant /\ [CrtNext]_crtVars => [Weights!WeightNext]_(Weights!weightVars)
    <2> SUFFICES ASSUME CrtInvariant, [CrtNext]_crtVars
                 PROVE  [Weights!WeightNext]_(Weights!weightVars)
      OBVIOUS
    <2>1. ASSUME NEW i \in Slaves, ProcessJoin(i) PROVE Weights!Join(i)
      BY <2>1, JoinStep DEF Weights!Join, CurrentWeights, ProcessJoin
    <2>2. ASSUME NEW i \in Slaves, ProcessLeave(i) PROVE Weights!Leave(i)
      BY <2>2, LeaveStep DEF Weights!Leave, CurrentWeights, ProcessLeave
    <2>3. CASE UNCHANGED crtVars
      BY <2>3 DEF crtVars, Weights!weightVars, Weight
    <2> QED BY <2>1, <2>2, <2>3 DEF CrtNext, Weights!WeightNext
  <1> QED BY <1>1, <1>2, CrtInvariance, PTL DEF CrtSpec, ImplementsWeights, Weights!WeightSpec
=============================================================================
