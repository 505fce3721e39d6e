--------------------------- MODULE CrtKeysProofs ----------------------------
(***************************************************************************)
(* What the algorithms of CrtKeys compute, for every input.  Their loops   *)
(* are recursive functions.  The first sections give induction for sets of *)
(* natural numbers and the existence of a function defined by recursion    *)
(* along a measure; each loop then has a lemma (...Def) with its defining  *)
(* equation, and a lemma that compares it with what it stands for: ModMul  *)
(* with the product, ModPow with the power, ModInverse with an inverse,    *)
(* Normalise with a number of the same class.  Congruence is a relation of *)
(* its own, Cong, because congruences can be added and multiplied.         *)
(***************************************************************************)
EXTENDS CrtKeys, WellFoundedInduction, TLAPS

-----------------------------------------------------------------------------
(* Induction.                                                              *)

\* A nonempty set of natural numbers has a least element.
LEMMA Least ==
  ASSUME NEW S \in SUBSET Nat, S # {}
  PROVE  \E n \in S : \A k \in S : n <= k
  <1>1. PICK n \in S : \A k \in S : ~(<<k, n>> \in OpToRel(<, Nat))
    BY WFMin, NatLessThanWellFounded
  <1>2. ASSUME NEW k \in S PROVE n <= k
    <2>1. <<k, n>> \in OpToRel(<, Nat) <=> k < n
      BY DEF OpToRel
    <2>2. ~(k < n)
      BY <1>1, <2>1
    <2> QED BY <2>2
  <1> QED BY <1>2

\* Induction on a measure, for a set in place of a predicate.
LEMMA MeasureInduction ==
  ASSUME NEW D, NEW rank \in [D -> Nat], NEW Good \in SUBSET D,
         \A d \in D : (\A e \in D : rank[e] < rank[d] => e \in Good) => d \in Good
  PROVE  Good = D
  <1> SUFFICES ASSUME Good # D PROVE FALSE
    OBVIOUS
  <1> DEFINE Bad == {rank[d] : d \in D \ Good}
  <1>1. Bad \in SUBSET Nat /\ Bad # {}
    OBVIOUS
  <1>2. PICK n \in Bad : \A k \in Bad : n <= k
    BY <1>1, Least
  <1>3. PICK d \in D \ Good : rank[d] = n
    BY <1>2
  <1>4. ASSUME NEW e \in D, rank[e] < rank[d] PROVE e \in Good
    <2> SUFFICES ASSUME e \notin Good PROVE FALSE
      OBVIOUS
    <2>1. rank[e] \in Bad
      OBVIOUS
    <2>2. n <= rank[e] /\ rank[e] \in Nat /\ n \in Nat
      BY <1>1, <1>2, <2>1
    <2> QED BY <1>3, <1>4, <2>2
  <1> QED BY <1>3, <1>4

\* Induction over a segment of the natural numbers.
LEMMA SegmentInduction ==
  ASSUME NEW n \in Nat, NEW Good \in SUBSET (0 .. n), 0 \in Good,
         \A k \in 1 .. n : k - 1 \in Good => k \in Good
  PROVE  Good = 0 .. n
  <1> SUFFICES ASSUME NEW x \in (0 .. n) \ Good PROVE FALSE
    OBVIOUS
  <1> DEFINE Bad == (0 .. n) \ Good
  <1>1. Bad \in SUBSET Nat /\ Bad # {}
    OBVIOUS
  <1>2. PICK k \in Bad : \A j \in Bad : k <= j
    BY <1>1, Least
  <1>3. k \in 1 .. n /\ k - 1 \in 0 .. n /\ k - 1 \notin Bad
    BY <1>2
  <1> QED BY <1>2, <1>3

\* Induction over the natural numbers.
LEMMA NatInduct ==
  ASSUME NEW Good \in SUBSET Nat, 0 \in Good, \A k \in Nat : k \in Good => k + 1 \in Good
  PROVE  Good = Nat
  <1> SUFFICES ASSUME NEW x \in Nat \ Good PROVE FALSE
    OBVIOUS
  <1> DEFINE Bad == Nat \ Good
  <1>1. Bad \in SUBSET Nat /\ Bad # {}
    OBVIOUS
  <1>2. PICK k \in Bad : \A j \in Bad : k <= j
    BY <1>1, Least
  <1>3. k - 1 \in Nat /\ k - 1 \notin Bad /\ k = (k - 1) + 1
    BY <1>2
  <1>4. k - 1 \in Good
    BY <1>3
  <1> QED BY <1>2, <1>3, <1>4

\* Induction with all smaller numbers.
LEMMA StrongInduct ==
  ASSUME NEW Good \in SUBSET Nat,
         \A k \in Nat : (\A j \in Nat : j < k => j \in Good) => k \in Good
  PROVE  Good = Nat
  <1> SUFFICES ASSUME NEW x \in Nat \ Good PROVE FALSE
    OBVIOUS
  <1> DEFINE Bad == Nat \ Good
  <1>1. Bad \in SUBSET Nat /\ Bad # {}
    OBVIOUS
  <1>2. PICK k \in Bad : \A j \in Bad : k <= j
    BY <1>1, Least
  <1>3. \A j \in Nat : j < k => j \in Good
    BY <1>2
  <1> QED BY <1>2, <1>3


-----------------------------------------------------------------------------
(* Recursion.                                                              *)

\* Recursion along a measure: the value at d outside Stop is made of d and the value at
\* nx[d], whose rank is smaller.
Recursive(D, S, rank, Stop, base, nx, comb) ==
    /\ rank \in [D -> Nat] /\ Stop \in SUBSET D
    /\ base \in [D -> S] /\ nx \in [D -> D] /\ comb \in [D \X S -> S]
    /\ \A d \in D \ Stop : rank[nx[d]] < rank[d]

\* f satisfies the equation of the recursion.
Solution(f, D, S, Stop, base, nx, comb) ==
    /\ f \in [D -> S]
    /\ \A d \in D : f[d] = IF d \in Stop THEN base[d] ELSE comb[<<d, f[nx[d]]>>]

\* There is such a function: on the numbers below a bound it is unique, and exists by
\* induction on the bound.
LEMMA Recursion ==
  ASSUME NEW D, NEW S, NEW rank, NEW Stop, NEW base, NEW nx, NEW comb,
         Recursive(D, S, rank, Stop, base, nx, comb)
  PROVE  \E f : Solution(f, D, S, Stop, base, nx, comb)
  <1> USE DEF Recursive
  <1> DEFINE Below(n) == {d \in D : rank[d] < n}
             Solves(g, n) ==
               /\ g \in [Below(n) -> S]
               /\ \A d \in Below(n) :
                    g[d] = IF d \in Stop THEN base[d] ELSE comb[<<d, g[nx[d]]>>]
  <1>0. ASSUME NEW n \in Nat, NEW d \in Below(n), d \notin Stop PROVE nx[d] \in Below(n)
    <2>1. nx[d] \in D /\ rank[nx[d]] < rank[d] /\ rank[d] < n /\ rank[nx[d]] \in Nat /\ rank[d] \in Nat
      BY <1>0
    <2> QED BY <2>1
  \* Two solutions agree where both are defined.
  <1>1. ASSUME NEW n \in Nat, NEW m \in Nat, NEW g, NEW h, Solves(g, n), Solves(h, m)
        PROVE  \A d \in D : d \in Below(n) /\ d \in Below(m) => g[d] = h[d]
    <2> DEFINE Good == {d \in D : d \in Below(n) /\ d \in Below(m) => g[d] = h[d]}
    <2>1. ASSUME NEW d \in D, \A e \in D : rank[e] < rank[d] => e \in Good PROVE d \in Good
      <3> SUFFICES ASSUME d \in Below(n), d \in Below(m) PROVE g[d] = h[d]
        OBVIOUS
      <3>1. CASE d \in Stop
        BY <1>1, <3>1
      <3>2. CASE d \notin Stop
        <4>1. nx[d] \in Below(n) /\ nx[d] \in Below(m) /\ nx[d] \in D
          BY <1>0, <3>2
        <4>2. g[nx[d]] = h[nx[d]]
          BY <2>1, <3>2, <4>1
        <4> QED BY <1>1, <3>2, <4>2
      <3> QED BY <3>1, <3>2
    <2>2. Good \in SUBSET D
      OBVIOUS
    <2> HIDE DEF Good
    <2>3. Good = D
      BY <2>1, <2>2, MeasureInduction
    <2> QED BY <2>3 DEF Good
  \* There is a solution below every bound.
  <1>2. \A n \in Nat : \E g : Solves(g, n)
    <2> DEFINE Good == {n \in Nat : \E g : Solves(g, n)}
    <2>1. 0 \in Good
      <3>1. Below(0) = {}
        OBVIOUS
      <3>2. Solves([d \in {} |-> d], 0)
        BY <3>1
      <3> QED BY <3>2
    <2>2. ASSUME NEW n \in Nat, n \in Good PROVE n + 1 \in Good
      <3>1. PICK g : Solves(g, n)
        BY <2>2
      <3> DEFINE h == [d \in Below(n + 1) |->
                         IF d \in Stop THEN base[d] ELSE comb[<<d, g[nx[d]]>>]]
      <3>2. ASSUME NEW d \in Below(n + 1), d \notin Stop
            PROVE  nx[d] \in Below(n) /\ g[nx[d]] \in S
        <4>1. /\ nx[d] \in D /\ rank[nx[d]] < rank[d] /\ rank[d] < n + 1
              /\ rank[nx[d]] \in Nat /\ rank[d] \in Nat
          BY <3>2
        <4>2. nx[d] \in Below(n)
          BY <4>1
        <4> QED BY <3>1, <4>2
      <3>3. h \in [Below(n + 1) -> S]
        BY <3>2
      <3>4. \A d \in Below(n) : d \in Below(n + 1) /\ h[d] = g[d]
        BY <3>1
      <3>5. \A d \in Below(n + 1) :
               h[d] = IF d \in Stop THEN base[d] ELSE comb[<<d, h[nx[d]]>>]
        BY <3>2, <3>4
      <3> HIDE DEF h
      <3>6. Solves(h, n + 1)
        BY <3>3, <3>5
      <3> HIDE DEF Solves
      <3> QED BY <3>6
    <2>3. Good \in SUBSET Nat
      OBVIOUS
    <2> HIDE DEF Good
    <2>4. Good = Nat
      BY <2>1, <2>2, <2>3, NatInduct
    <2> QED BY <2>4 DEF Good
  <1> DEFINE sol(n) == CHOOSE g : Solves(g, n)
  <1>3. \A n \in Nat : Solves(sol(n), n)
    BY <1>2
  <1> HIDE DEF sol
  <1> DEFINE f == [d \in D |-> sol(rank[d] + 1)[d]]
  <1>4. ASSUME NEW d \in D, NEW n \in Nat, d \in Below(n) PROVE f[d] = sol(n)[d]
    <2>1. rank[d] + 1 \in Nat /\ d \in Below(rank[d] + 1)
      OBVIOUS
    <2>2. f[d] = sol(rank[d] + 1)[d]
      OBVIOUS
    <2>3. Solves(sol(n), n) /\ Solves(sol(rank[d] + 1), rank[d] + 1)
      BY <1>3, <2>1
    <2> HIDE DEF f, Solves, Below
    <2> QED BY <1>1, <1>4, <2>1, <2>2, <2>3
  <1>5. ASSUME NEW d \in D
        PROVE  f[d] \in S /\ f[d] = IF d \in Stop THEN base[d] ELSE comb[<<d, f[nx[d]]>>]
    <2> DEFINE n == rank[d] + 1
    <2>1. n \in Nat /\ d \in Below(n)
      OBVIOUS
    <2> HIDE DEF n
    <2>2. f[d] = sol(n)[d]
      BY <1>4, <2>1
    <2>3. Solves(sol(n), n)
      BY <1>3, <2>1
    <2>4. d \notin Stop => f[nx[d]] = sol(n)[nx[d]]
      BY <1>0, <1>4, <2>1
    <2> HIDE DEF f
    <2> QED BY <2>1, <2>2, <2>3, <2>4
  <1>6. f \in [D -> S]
    BY <1>5
  <1> HIDE DEF f
  <1> QED BY <1>5, <1>6 DEF Solution

-----------------------------------------------------------------------------
(* Congruences.                                                            *)

\* a and b leave the same remainder modulo m.
Cong(a, b, m) == \E k \in Int : a - b = k * m

\* Congruence modulo m is an equivalence: reflexivity.
LEMMA CongRefl == ASSUME NEW a \in Int, NEW m \in Int PROVE Cong(a, a, m)
  <1>1. a - a = 0 * m
    OBVIOUS
  <1> QED BY <1>1 DEF Cong

\* Symmetry.
LEMMA CongSym ==
  ASSUME NEW a \in Int, NEW b \in Int, NEW m \in Int, Cong(a, b, m)
  PROVE  Cong(b, a, m)
  <1>1. PICK k \in Int : a - b = k * m
    BY DEF Cong
  <1>2. b - a = (-k) * m /\ -k \in Int
    BY <1>1
  <1> QED BY <1>2 DEF Cong

\* Transitivity.
LEMMA CongTrans ==
  ASSUME NEW a \in Int, NEW b \in Int, NEW c \in Int, NEW m \in Int,
         Cong(a, b, m), Cong(b, c, m)
  PROVE  Cong(a, c, m)
  <1>1. PICK k \in Int : a - b = k * m
    BY DEF Cong
  <1>2. PICK j \in Int : b - c = j * m
    BY DEF Cong
  <1>3. a - c = (k + j) * m /\ k + j \in Int
    BY <1>1, <1>2
  <1> QED BY <1>3 DEF Cong

\* The sum and the difference of two congruences.
LEMMA CongAdd ==
  ASSUME NEW a \in Int, NEW b \in Int, NEW c \in Int, NEW d \in Int, NEW m \in Int,
         Cong(a, b, m), Cong(c, d, m)
  PROVE  Cong(a + c, b + d, m) /\ Cong(a - c, b - d, m)
  <1>1. PICK k \in Int : a - b = k * m
    BY DEF Cong
  <1>2. PICK j \in Int : c - d = j * m
    BY DEF Cong
  <1>3. (a + c) - (b + d) = (k + j) * m /\ k + j \in Int
    BY <1>1, <1>2
  <1>4. (a - c) - (b - d) = (k - j) * m /\ k - j \in Int
    BY <1>1, <1>2
  <1> QED BY <1>3, <1>4 DEF Cong

\* A congruence times a number.
LEMMA CongScale ==
  ASSUME NEW a \in Int, NEW b \in Int, NEW c \in Int, NEW m \in Int, Cong(a, b, m)
  PROVE  Cong(c * a, c * b, m)
  <1>1. PICK k \in Int : a - b = k * m
    BY DEF Cong
  <1>2. c * a - c * b = c * (a - b)
    OBVIOUS
  <1>3. c * (k * m) = (c * k) * m /\ c * k \in Int
    OBVIOUS
  <1>4. c * a - c * b = (c * k) * m
    BY <1>1, <1>2, <1>3
  <1> QED BY <1>3, <1>4 DEF Cong

\* The product of two congruences.
LEMMA CongMul ==
  ASSUME NEW a \in Int, NEW b \in Int, NEW c \in Int, NEW d \in Int, NEW m \in Int,
         Cong(a, b, m), Cong(c, d, m)
  PROVE  Cong(a * c, b * d, m)
  <1>1. Cong(c * a, c * b, m)
    BY CongScale
  <1>2. Cong(b * c, b * d, m)
    BY CongScale
  <1>3. c * a = a * c /\ c * b = b * c /\ a * c \in Int /\ b * c \in Int /\ b * d \in Int
    OBVIOUS
  <1> QED BY <1>1, <1>2, <1>3, CongTrans

\* A congruence modulo a multiple of m.
LEMMA CongReduce ==
  ASSUME NEW a \in Int, NEW b \in Int, NEW m \in Int, NEW c \in Int, Cong(a, b, m * c)
  PROVE  Cong(a, b, m)
  <1>1. PICK k \in Int : a - b = k * (m * c)
    BY DEF Cong
  <1>2. k * (m * c) = (k * c) * m /\ k * c \in Int
    OBVIOUS
  <1> QED BY <1>1, <1>2 DEF Cong

\* Numbers closer to each other than m are congruent only if they are equal.
LEMMA CongSmall ==
  ASSUME NEW a \in Int, NEW b \in Int, NEW m \in Int, Cong(a, b, m),
         a - b < m, b - a < m
  PROVE  a = b
  <1>1. PICK k \in Int : a - b = k * m
    BY DEF Cong
  <1>0. m > 0
    OBVIOUS
  <1>2. ~(k >= 1)
    <2> SUFFICES ASSUME k >= 1 PROVE FALSE
      OBVIOUS
    <2>1. k * m >= 1 * m
      BY <1>0
    <2> QED BY <1>1, <2>1
  <1>3. ~(k <= -1)
    <2> SUFFICES ASSUME k <= -1 PROVE FALSE
      OBVIOUS
    <2>1. k * m <= (-1) * m
      BY <1>0
    <2> QED BY <1>1, <2>1
  <1>4. k = 0
    BY <1>2, <1>3
  <1> QED BY <1>1, <1>4

\* A number and its remainder.
LEMMA CongMod ==
  ASSUME NEW a \in Int, NEW m \in Nat \ {0}
  PROVE  /\ a % m \in 0 .. m - 1 /\ a % m \in Nat /\ a % m \in Int
         /\ Cong(a, a % m, m) /\ Cong(a % m, a, m)
  <1> DEFINE q == a \div m
             r == a % m
  <1>1. a = m * q + r /\ r \in 0 .. m - 1 /\ q \in Int
    OBVIOUS
  <1> HIDE DEF q, r
  <1>2. a - r = q * m
    BY <1>1
  <1>3. Cong(a, r, m)
    BY <1>1, <1>2 DEF Cong
  <1>4. Cong(r, a, m)
    BY <1>1, <1>3, CongSym
  <1> QED BY <1>1, <1>3, <1>4 DEF r

\* Congruence is equality of remainders.
LEMMA CongIffMod ==
  ASSUME NEW a \in Int, NEW b \in Int, NEW m \in Nat \ {0}
  PROVE  Cong(a, b, m) <=> a % m = b % m
  <1> DEFINE r == a % m
             s == b % m
  <1>1. r \in 0 .. m - 1 /\ s \in 0 .. m - 1 /\ Cong(a, r, m) /\ Cong(b, s, m)
    BY CongMod
  <1> HIDE DEF r, s
  <1>2. r \in Int /\ s \in Int /\ m \in Int /\ Cong(r, a, m) /\ Cong(s, b, m)
    BY <1>1, CongSym
  <1>3. ASSUME Cong(a, b, m) PROVE r = s
    <2>1. Cong(r, b, m)
      BY <1>2, <1>3, CongTrans
    <2>2. Cong(r, s, m)
      BY <1>1, <1>2, <2>1, CongTrans
    <2>3. r - s < m /\ s - r < m
      BY <1>1
    <2> QED BY <1>2, <2>2, <2>3, CongSmall
  <1>4. ASSUME r = s PROVE Cong(a, b, m)
    BY <1>1, <1>2, <1>4, CongTrans
  <1> QED BY <1>3, <1>4 DEF r, s

\* A number below m is its own remainder.
LEMMA SmallMod ==
  ASSUME NEW m \in Nat \ {0}, NEW a \in 0 .. m - 1
  PROVE  a % m = a
  <1>1. a % m \in 0 .. m - 1 /\ Cong(a, a % m, m) /\ a \in Int /\ a % m \in Int /\ m \in Int
    BY CongMod
  <1>2. a - (a % m) < m /\ (a % m) - a < m
    BY <1>1
  <1> QED BY <1>1, <1>2, CongSmall

-----------------------------------------------------------------------------
(* Recursion by halving and step by step; products modulo m.               *)

\* The halves that Multiples and Powers recur on.
LEMMA Halving ==
  ASSUME NEW k \in Nat \ {0}
  PROVE  k \div 2 \in Nat /\ k \div 2 < k /\ k % 2 \in {0, 1} /\ k = 2 * (k \div 2) + (k % 2)
  OBVIOUS

\* Functions on the natural numbers, each value from the one at half the number.
LEMMA HalvingRecursion ==
  ASSUME NEW b \in Int, NEW comb \in [Nat \X Int -> Int]
  PROVE  \E f : /\ f \in [Nat -> Int]
                /\ \A k \in Nat : f[k] = IF k = 0 THEN b ELSE comb[<<k, f[k \div 2]>>]
  <1> DEFINE rank == [k \in Nat |-> k]
             base == [k \in Nat |-> b]
             half == [k \in Nat |-> k \div 2]
  <1>1. rank \in [Nat -> Nat] /\ base \in [Nat -> Int] /\ half \in [Nat -> Nat]
    OBVIOUS
  <1>2. \A k \in Nat \ {0} : rank[half[k]] < rank[k]
    OBVIOUS
  <1>3. Recursive(Nat, Int, rank, {0}, base, half, comb)
    BY <1>1, <1>2 DEF Recursive
  <1>4. PICK f : Solution(f, Nat, Int, {0}, base, half, comb)
    <2> HIDE DEF rank, base, half
    <2> QED BY <1>3, Recursion
  <1> QED BY <1>4 DEF Solution

\* Functions on a segment, each value from the one before.
LEMMA SegmentRecursion ==
  ASSUME NEW n \in Nat, NEW b \in Int, NEW comb \in [(0 .. n) \X Int -> Int]
  PROVE  \E f : /\ f \in [0 .. n -> Int]
                /\ \A k \in 0 .. n : f[k] = IF k = 0 THEN b ELSE comb[<<k, f[k - 1]>>]
  <1> DEFINE rank == [k \in 0 .. n |-> k]
             base == [k \in 0 .. n |-> b]
             pred == [k \in 0 .. n |-> IF k = 0 THEN 0 ELSE k - 1]
  <1>1. rank \in [0 .. n -> Nat] /\ base \in [0 .. n -> Int] /\ pred \in [0 .. n -> 0 .. n]
    OBVIOUS
  <1>2. \A k \in (0 .. n) \ {0} : rank[pred[k]] < rank[k]
    OBVIOUS
  <1>3. Recursive(0 .. n, Int, rank, {0}, base, pred, comb)
    BY <1>1, <1>2 DEF Recursive
  <1>4. PICK f : Solution(f, 0 .. n, Int, {0}, base, pred, comb)
    <2> HIDE DEF rank, base, pred
    <2> QED BY <1>3, Recursion
  <1> QED BY <1>4 DEF Solution

\* The same on all natural numbers.
LEMMA NatRecursion ==
  ASSUME NEW b \in Int, NEW comb \in [Nat \X Int -> Int]
  PROVE  \E f : /\ f \in [Nat -> Int]
                /\ \A k \in Nat : f[k] = IF k = 0 THEN b ELSE comb[<<k, f[k - 1]>>]
  <1> DEFINE rank == [k \in Nat |-> k]
             base == [k \in Nat |-> b]
             pred == [k \in Nat |-> IF k = 0 THEN 0 ELSE k - 1]
  <1>1. rank \in [Nat -> Nat] /\ base \in [Nat -> Int] /\ pred \in [Nat -> Nat]
    OBVIOUS
  <1>2. \A k \in Nat \ {0} : rank[pred[k]] < rank[k]
    OBVIOUS
  <1>3. Recursive(Nat, Int, rank, {0}, base, pred, comb)
    BY <1>1, <1>2 DEF Recursive
  <1>4. PICK f : Solution(f, Nat, Int, {0}, base, pred, comb)
    <2> HIDE DEF rank, base, pred
    <2> QED BY <1>3, Recursion
  <1> QED BY <1>4 DEF Solution

\* The defining equation of Multiples.
LEMMA MultiplesDef ==
  ASSUME NEW a \in Int, NEW m \in Nat \ {0}
  PROVE  LET mul == Multiples(a, m) IN
         /\ mul[0] = 0
         /\ \A k \in Nat \ {0} : mul[k] = (2 * mul[k \div 2] + (k % 2) * (a % m)) % m
  <1> DEFINE Body(g) == [k \in Nat |-> IF k = 0 THEN 0
                                       ELSE (2 * g[k \div 2] + (k % 2) * (a % m)) % m]
             comb == [x \in Nat \X Int |-> (2 * x[2] + (x[1] % 2) * (a % m)) % m]
  <1>1. comb \in [Nat \X Int -> Int]
    <2> SUFFICES ASSUME NEW x \in Nat \X Int
                 PROVE  (2 * x[2] + (x[1] % 2) * (a % m)) % m \in Int
      OBVIOUS
    <2>1. a % m \in Int /\ x[1] % 2 \in Int /\ x[2] \in Int
      BY CongMod
    <2>2. 2 * x[2] + (x[1] % 2) * (a % m) \in Int
      BY <2>1
    <2> QED BY <2>2, CongMod
  <1>2. PICK f : /\ f \in [Nat -> Int]
                 /\ \A k \in Nat : f[k] = IF k = 0 THEN 0 ELSE comb[<<k, f[k \div 2]>>]
    <2>1. 0 \in Int
      OBVIOUS
    <2> HIDE DEF comb
    <2> QED BY <1>1, <2>1, HalvingRecursion, Zenon
  <1>3. f = Body(f)
    <2>1. ASSUME NEW k \in Nat
          PROVE  f[k] = IF k = 0 THEN 0 ELSE (2 * f[k \div 2] + (k % 2) * (a % m)) % m
      <3>1. k \div 2 \in Nat /\ f[k \div 2] \in Int
        BY <1>2
      <3>2. comb[<<k, f[k \div 2]>>] = (2 * f[k \div 2] + (k % 2) * (a % m)) % m
        BY <3>1
      <3> HIDE DEF comb
      <3> QED BY <1>2, <3>2
    <2> QED BY <1>2, <2>1
  <1>4. Multiples(a, m) = CHOOSE g : g = Body(g)
    BY Zenon DEF Multiples
  <1>5. Multiples(a, m) = Body(Multiples(a, m))
    <2> HIDE DEF Body
    <2> QED BY <1>3, <1>4, Zenon
  <1> QED BY <1>5

\* ModMul computes the product modulo m, also where it adds up multiples by doubling.
THEOREM ModMulIsProduct ==
  ASSUME NEW a \in Int, NEW b \in Int, NEW m \in Nat \ {0}
  PROVE  ModMul(a, b, m) = (a * b) % m
  <1> DEFINE r == a % m
             s == b % m
  <1>a. r \in Nat /\ r \in Int /\ Cong(r, a, m)
    BY CongMod, Zenon
  <1>b. s \in Nat /\ s \in Int /\ Cong(s, b, m)
    BY CongMod, Zenon
  <1>0. /\ r \in Nat /\ s \in Nat /\ r \in Int /\ s \in Int /\ m \in Int
        /\ Cong(r, a, m) /\ Cong(s, b, m)
    BY <1>a, <1>b
  <1> HIDE DEF r, s
  <1>1. (r * s) % m = (a * b) % m
    <2>1. Cong(r * s, a * b, m)
      BY <1>0, CongMul, Zenon
    <2>2. r * s \in Int /\ a * b \in Int
      BY <1>0
    <2> QED BY <2>1, <2>2, CongIffMod, Zenon
  <1>2. Multiples(a, m)[s] = (a * b) % m
    <2> DEFINE mul == Multiples(a, m)
               Good == {k \in Nat : mul[k] = (k * a) % m}
    <2>1. ASSUME NEW k \in Nat, \A j \in Nat : j < k => j \in Good PROVE k \in Good
      <3>1. CASE k = 0
        <4>1. mul[k] = 0
          BY <3>1, MultiplesDef
        <4>2. k * a = 0 /\ 0 % m = 0
          BY <3>1, SmallMod
        <4> QED BY <4>1, <4>2
      <3>2. CASE k # 0
        <4> DEFINE h == k \div 2
                   c == k % 2
                   u == mul[h]
                   ha == h * a
        <4>1. h \in Nat /\ h < k /\ c \in Int /\ k = 2 * h + c
          BY <3>2, Halving
        <4>2. u = ha % m
          BY <2>1, <4>1
        <4>3. mul[k] = (2 * u + c * r) % m
          BY <3>2, MultiplesDef DEF r
        <4> HIDE DEF h, c, u
        <4>a. ha \in Int /\ 2 * ha + c * a = k * a
          BY <4>1
        <4> HIDE DEF ha
        <4>4. u \in Int /\ Cong(u, ha, m)
          BY <4>a, <4>2, CongMod
        <4>5. 2 \in Int /\ Cong(2 * u, 2 * ha, m)
          BY <4>4, <4>a, <1>0, CongScale
        <4>6. Cong(c * r, c * a, m)
          BY <1>0, <4>1, CongScale
        <4>7. /\ 2 * u \in Int /\ 2 * ha \in Int /\ c * r \in Int /\ c * a \in Int
              /\ 2 * u + c * r \in Int /\ 2 * ha + c * a \in Int
          BY <1>0, <4>1, <4>4, <4>a
        <4>8. Cong(2 * u + c * r, 2 * ha + c * a, m)
          BY <1>0, <4>5, <4>6, <4>7, CongAdd, Zenon
        <4>9. (2 * u + c * r) % m = (2 * ha + c * a) % m
          BY <4>7, <4>8, CongIffMod, Zenon
        <4> QED BY <4>3, <4>9, <4>a
      <3> QED BY <3>1, <3>2
    <2>2. Good \in SUBSET Nat
      OBVIOUS
    <2> HIDE DEF Good
    <2>3. Good = Nat
      BY <2>1, <2>2, StrongInduct
    <2>4. mul[s] = (s * a) % m
      BY <1>0, <2>3 DEF Good
    <2>5. Cong(a * s, a * b, m) /\ a * s = s * a /\ a * s \in Int /\ a * b \in Int
      BY <1>0, CongScale
    <2>6. (a * s) % m = (a * b) % m
      BY <2>5, CongIffMod, Zenon
    <2> QED BY <2>4, <2>5, <2>6
  <1> QED BY <1>1, <1>2 DEF ModMul, r, s

-----------------------------------------------------------------------------
(* Powers, and powers modulo m.                                            *)

\* Powers as integers.
PowersOf(b) ==
    LET pow[k \in Nat] == IF k = 0 THEN 1 ELSE pow[k - 1] * b
    IN  pow

Power(b, k) == PowersOf(b)[k]

\* The defining equation of Power.
LEMMA PowerDef ==
  ASSUME NEW b \in Int
  PROVE  /\ Power(b, 0) = 1
         /\ \A k \in Nat : Power(b, k) \in Int /\ Power(b, k + 1) = Power(b, k) * b
  <1> DEFINE Body(g) == [k \in Nat |-> IF k = 0 THEN 1 ELSE g[k - 1] * b]
             comb == [x \in Nat \X Int |-> x[2] * b]
  <1>1. comb \in [Nat \X Int -> Int]
    OBVIOUS
  <1>2. PICK f : /\ f \in [Nat -> Int]
                 /\ \A k \in Nat : f[k] = IF k = 0 THEN 1 ELSE comb[<<k, f[k - 1]>>]
    <2>1. 1 \in Int
      OBVIOUS
    <2> HIDE DEF comb
    <2> QED BY <1>1, <2>1, NatRecursion, Zenon
  <1>3. ASSUME NEW k \in Nat PROVE f[k] = IF k = 0 THEN 1 ELSE f[k - 1] * b
    <2>1. k # 0 => k - 1 \in Nat /\ f[k - 1] \in Int
      BY <1>2
    <2>2. k # 0 => comb[<<k, f[k - 1]>>] = f[k - 1] * b
      BY <2>1
    <2> HIDE DEF comb
    <2> QED BY <1>2, <2>2
  <1>4. f = Body(f)
    BY <1>2, <1>3
  <1>5. PowersOf(b) = CHOOSE g : g = Body(g)
    BY Zenon DEF PowersOf
  <1>6. PowersOf(b) = Body(PowersOf(b))
    <2> HIDE DEF Body
    <2> QED BY <1>4, <1>5, Zenon
  <1> DEFINE p == PowersOf(b)
  <1>7. p[0] = 1 /\ \A k \in Nat : p[k + 1] = p[k] * b
    <2>1. \A k \in Nat : p[k] = IF k = 0 THEN 1 ELSE p[k - 1] * b
      BY <1>6
    <2> HIDE DEF p
    <2>2. ASSUME NEW k \in Nat PROVE p[k + 1] = p[k] * b
      <3>1. k + 1 \in Nat /\ k + 1 # 0 /\ (k + 1) - 1 = k
        OBVIOUS
      <3> QED BY <2>1, <3>1
    <2> QED BY <2>1, <2>2
  <1> HIDE DEF p
  <1> DEFINE Good == {k \in Nat : p[k] \in Int}
  <1>8. Good = Nat
    <2>1. 0 \in Good
      BY <1>7
    <2>2. \A k \in Nat : k \in Good => k + 1 \in Good
      BY <1>7
    <2>3. Good \in SUBSET Nat
      OBVIOUS
    <2> HIDE DEF Good
    <2> QED BY <2>1, <2>2, <2>3, NatInduct
  <1>9. \A k \in Nat : p[k] \in Int
    BY <1>8
  <1> QED BY <1>7, <1>9 DEF Power, p

\* A sum in the exponent.
LEMMA PowerAdd ==
  ASSUME NEW b \in Int, NEW j \in Nat, NEW k \in Nat
  PROVE  Power(b, j + k) = Power(b, j) * Power(b, k)
  <1> DEFINE Good == {i \in Nat : Power(b, j + i) = Power(b, j) * Power(b, i)}
  <1>1. 0 \in Good
    <2>1. j + 0 = j /\ Power(b, 0) = 1 /\ Power(b, j) \in Int
      BY PowerDef
    <2> QED BY <2>1
  <1>2. ASSUME NEW i \in Nat, i \in Good PROVE i + 1 \in Good
    <2> DEFINE u == Power(b, j)
               v == Power(b, i)
               w == Power(b, j + i)
    <2>1. j + i \in Nat /\ (j + i) + 1 = j + (i + 1)
      OBVIOUS
    <2>2. u \in Int /\ v \in Int /\ w \in Int
      BY <2>1, PowerDef
    <2>3. Power(b, i + 1) = v * b /\ Power(b, (j + i) + 1) = w * b
      BY <2>1, PowerDef, Zenon
    <2>4. w = u * v
      BY <1>2
    <2> HIDE DEF u, v, w
    <2>5. (u * v) * b = u * (v * b)
      BY <2>2
    <2>6. Power(b, j + (i + 1)) = u * Power(b, i + 1)
      BY <2>1, <2>3, <2>4, <2>5
    <2> QED BY <2>6 DEF u
  <1>3. Good \in SUBSET Nat
    OBVIOUS
  <1> HIDE DEF Good
  <1>4. Good = Nat
    BY <1>1, <1>2, <1>3, NatInduct
  <1> QED BY <1>4 DEF Good

\* A product in the exponent.
LEMMA PowerTimes ==
  ASSUME NEW b \in Int, NEW j \in Nat, NEW k \in Nat
  PROVE  Power(Power(b, j), k) = Power(b, j * k)
  <1> DEFINE u == Power(b, j)
  <1>0. u \in Int
    BY PowerDef
  <1> HIDE DEF u
  <1> DEFINE Good == {i \in Nat : Power(u, i) = Power(b, j * i)}
  <1>1. 0 \in Good
    <2>1. j * 0 = 0 /\ Power(b, 0) = 1 /\ Power(u, 0) = 1
      BY <1>0, PowerDef
    <2> QED BY <2>1
  <1>2. ASSUME NEW i \in Nat, i \in Good PROVE i + 1 \in Good
    <2> DEFINE ji == j * i
    <2>1. ji \in Nat /\ ji + j = j * (i + 1)
      OBVIOUS
    <2>2. Power(u, i) = Power(b, ji)
      BY <1>2
    <2> HIDE DEF ji
    <2>3. Power(u, i + 1) = Power(u, i) * u
      BY <1>0, PowerDef, Zenon
    <2>4. Power(b, ji + j) = Power(b, ji) * u
      BY <2>1, PowerAdd, Zenon DEF u
    <2> QED BY <2>1, <2>2, <2>3, <2>4
  <1>3. Good \in SUBSET Nat
    OBVIOUS
  <1> HIDE DEF Good
  <1>4. Good = Nat
    BY <1>1, <1>2, <1>3, NatInduct
  <1> QED BY <1>4 DEF Good, u

\* Powers of congruent numbers are congruent.
LEMMA PowerCong ==
  ASSUME NEW b \in Int, NEW c \in Int, NEW m \in Int, Cong(b, c, m), NEW k \in Nat
  PROVE  Cong(Power(b, k), Power(c, k), m)
  <1> DEFINE Good == {i \in Nat : Cong(Power(b, i), Power(c, i), m)}
  <1>1. 0 \in Good
    <2>1. Power(b, 0) = 1 /\ Power(c, 0) = 1 /\ 1 \in Int
      BY PowerDef
    <2> QED BY <2>1, CongRefl
  <1>2. ASSUME NEW i \in Nat, i \in Good PROVE i + 1 \in Good
    <2> DEFINE u == Power(b, i)
               v == Power(c, i)
    <2>1. u \in Int /\ v \in Int
      BY PowerDef
    <2>2. Power(b, i + 1) = u * b /\ Power(c, i + 1) = v * c
      BY PowerDef, Zenon
    <2>3. Cong(u, v, m)
      BY <1>2
    <2> HIDE DEF u, v
    <2>4. Cong(u * b, v * c, m)
      BY <2>1, <2>3, CongMul, Zenon
    <2>5. Cong(Power(b, i + 1), Power(c, i + 1), m)
      BY <2>2, <2>4
    <2> QED BY <2>5
  <1>3. Good \in SUBSET Nat
    OBVIOUS
  <1> HIDE DEF Good
  <1>4. Good = Nat
    BY <1>1, <1>2, <1>3, NatInduct
  <1> QED BY <1>4 DEF Good

\* The defining equation of Powers.
LEMMA PowersDef ==
  ASSUME NEW b \in Int, NEW m \in Nat \ {0}
  PROVE  LET pow == Powers(b, m) IN
         /\ pow[0] = 1 % m
         /\ \A k \in Nat \ {0} :
               LET square == ModMul(pow[k \div 2], pow[k \div 2], m)
               IN  pow[k] = IF k % 2 = 1 THEN ModMul(square, b, m) ELSE square
  <1> DEFINE Step(k, h) == LET square == ModMul(h, h, m)
                           IN  IF k % 2 = 1 THEN ModMul(square, b, m) ELSE square
             Body(g) == [k \in Nat |-> IF k = 0 THEN 1 % m ELSE Step(k, g[k \div 2])]
             comb == [x \in Nat \X Int |-> Step(x[1], x[2])]
  <1>0. ASSUME NEW k \in Nat, NEW h \in Int PROVE Step(k, h) \in Int
    <2> DEFINE sq == ModMul(h, h, m)
    <2>1. h * h \in Int
      OBVIOUS
    <2>2. sq = (h * h) % m
      BY ModMulIsProduct, Zenon
    <2>3. sq \in Int
      BY <2>1, <2>2, CongMod
    <2> HIDE DEF sq
    <2>4. sq * b \in Int
      BY <2>3
    <2>5. ModMul(sq, b, m) = (sq * b) % m
      BY <2>3, ModMulIsProduct, Zenon
    <2>6. ModMul(sq, b, m) \in Int
      BY <2>4, <2>5, CongMod
    <2> QED BY <2>3, <2>6 DEF sq
  <1> HIDE DEF Step
  <1>1. comb \in [Nat \X Int -> Int]
    BY <1>0
  <1>a. 1 % m \in Int
    BY CongMod
  <1>2. PICK f : /\ f \in [Nat -> Int]
                 /\ \A k \in Nat : f[k] = IF k = 0 THEN 1 % m ELSE comb[<<k, f[k \div 2]>>]
    <2> HIDE DEF comb
    <2> QED BY <1>1, <1>a, HalvingRecursion, Zenon
  <1>3. ASSUME NEW k \in Nat PROVE f[k] = IF k = 0 THEN 1 % m ELSE Step(k, f[k \div 2])
    <2>1. k \div 2 \in Nat /\ f[k \div 2] \in Int
      BY <1>2
    <2>2. comb[<<k, f[k \div 2]>>] = Step(k, f[k \div 2])
      BY <2>1
    <2> HIDE DEF comb
    <2> QED BY <1>2, <2>2
  <1>4. f = Body(f)
    BY <1>2, <1>3
  <1>5. Powers(b, m) = CHOOSE g : g = Body(g)
    BY Zenon DEF Powers, Step
  <1>6. Powers(b, m) = Body(Powers(b, m))
    <2> HIDE DEF Body
    <2> QED BY <1>4, <1>5, Zenon
  <1> DEFINE p == Powers(b, m)
  <1>7. p[0] = 1 % m /\ \A k \in Nat \ {0} : p[k] = Step(k, p[k \div 2])
    BY <1>6
  <1> HIDE DEF p
  <1> QED BY <1>7 DEF p, Step

\* ModPow computes the power modulo m, by squaring, for every base, exponent and modulus.
THEOREM ModPowIsPower ==
  ASSUME NEW b \in Int, NEW k \in Nat, NEW m \in Nat \ {0}
  PROVE  ModPow(b, k, m) = Power(b, k) % m
  <1> DEFINE pow == Powers(b, m)
             Good == {i \in Nat : pow[i] = Power(b, i) % m}
  <1>1. ASSUME NEW i \in Nat, \A j \in Nat : j < i => j \in Good PROVE i \in Good
    <2>1. CASE i = 0
      BY <2>1, PowersDef, PowerDef
    <2>2. CASE i # 0
      <3> DEFINE h == i \div 2
                 u == pow[h]
                 v == Power(b, h)
                 sq == ModMul(u, u, m)
      <3>1. h \in Nat /\ h < i /\ (i % 2 = 0 \/ i % 2 = 1) /\ i = 2 * h + (i % 2)
        BY <2>2, Halving
      <3>2. u = v % m
        BY <1>1, <3>1
      <3>3. pow[i] = IF i % 2 = 1 THEN ModMul(sq, b, m) ELSE sq
        BY <2>2, PowersDef
      <3>4. v \in Int
        BY <3>1, PowerDef
      <3>5. u \in Int /\ Cong(u, v, m)
        BY <3>2, <3>4, CongMod
      <3>6. h + h \in Nat /\ 2 * h = h + h /\ Power(b, h + h) = v * v
        BY <3>1, PowerAdd
      <3> HIDE DEF h, u, v
      <3>7. sq = (u * u) % m
        BY <3>5, ModMulIsProduct, Zenon
      <3>m. m \in Int
        OBVIOUS
      <3>8. Cong(u * u, v * v, m) /\ u * u \in Int /\ v * v \in Int
        BY <3>4, <3>5, <3>m, CongMul
      <3>9. sq = (v * v) % m
        BY <3>7, <3>8, CongIffMod
      <3>10. CASE i % 2 = 0
        <4>1. i = h + h
          BY <3>1, <3>6, <3>10
        <4>2. pow[i] = sq
          BY <3>3, <3>10
        <4> QED BY <4>1, <4>2, <3>9, <3>6
      <3>11. CASE i % 2 = 1
        <4> DEFINE w == v * v
        <4>1. i = (h + h) + 1
          BY <3>1, <3>6, <3>11
        <4>2. Power(b, i) = w * b
          BY <4>1, <3>6, PowerDef
        <4>3. w \in Int
          BY <3>8
        <4>a. sq = w % m
          BY <3>9
        <4> HIDE DEF w, sq
        <4>4. sq \in Int /\ Cong(sq, w, m)
          BY <4>3, <4>a, CongMod
        <4>b. b \in Int /\ Cong(b, b, m)
          BY <3>m, CongRefl
        <4>5. Cong(sq * b, w * b, m) /\ sq * b \in Int /\ w * b \in Int
          BY <4>3, <4>4, <4>b, <3>m, CongMul
        <4>6. ModMul(sq, b, m) = (sq * b) % m
          BY <4>4, ModMulIsProduct, Zenon
        <4>7. (sq * b) % m = (w * b) % m
          BY <4>5, CongIffMod
        <4>8. pow[i] = ModMul(sq, b, m)
          BY <3>3, <3>11 DEF sq
        <4> QED BY <4>2, <4>6, <4>7, <4>8
      <3> QED BY <3>1, <3>10, <3>11
    <2> QED BY <2>1, <2>2
  <1>2. Good \in SUBSET Nat
    OBVIOUS
  <1> HIDE DEF Good
  <1>3. Good = Nat
    BY <1>1, <1>2, StrongInduct
  <1> QED BY <1>3 DEF Good, ModPow

\* A power that is one stays one.
LEMMA PowerOfOne ==
  ASSUME NEW b \in Int, NEW m \in Int, NEW o \in Nat, Cong(Power(b, o), 1, m), NEW c \in Nat
  PROVE  Cong(Power(b, o * c), 1, m)
  <1> DEFINE u == Power(b, o)
             Good == {k \in Nat : Power(1, k) = 1}
  <1>1. Good = Nat
    <2>0. 1 \in Int
      OBVIOUS
    <2>1. 0 \in Good
      BY <2>0, PowerDef
    <2>2. ASSUME NEW k \in Nat, k \in Good PROVE k + 1 \in Good
      <3>1. Power(1, k + 1) = Power(1, k) * 1 /\ Power(1, k) = 1
        BY <2>0, <2>2, PowerDef
      <3> QED BY <3>1
    <2>3. Good \in SUBSET Nat
      OBVIOUS
    <2> HIDE DEF Good
    <2> QED BY <2>1, <2>2, <2>3, NatInduct
  <1>2. u \in Int /\ 1 \in Int /\ Power(u, c) = Power(b, o * c)
    BY PowerDef, PowerTimes
  <1>3. Cong(u, 1, m)
    OBVIOUS
  <1> HIDE DEF u
  <1>4. Cong(Power(u, c), Power(1, c), m)
    BY <1>2, <1>3, PowerCong, Zenon
  <1>5. Power(1, c) = 1
    BY <1>1
  <1> QED BY <1>2, <1>4, <1>5

\* The least positive exponent that takes b to one, which divides every other.
IsOrder(o, b, m) ==
    /\ o \in Nat \ {0} /\ Cong(Power(b, o), 1, m)
    /\ \A k \in 1 .. o - 1 : ~ Cong(Power(b, k), 1, m)

\* The order divides every exponent that takes b to one.
LEMMA OrderDivides ==
  ASSUME NEW b \in Int, NEW m \in Int, NEW o, IsOrder(o, b, m),
         NEW a \in Nat, Cong(Power(b, a), 1, m)
  PROVE  \E c \in Nat : a = o * c
  <1> USE DEF IsOrder
  <1> DEFINE c == a \div o
             r == a % o
             oc == o * c
             u == Power(b, oc)
             v == Power(b, r)
  <1>1. c \in Nat /\ r \in 0 .. o - 1 /\ a = o * c + r
    <2>1. c \in Int /\ r \in 0 .. o - 1 /\ a = o * c + r
      OBVIOUS
    <2>2. c >= 0
      OBVIOUS
    <2> QED BY <2>1, <2>2
  <1> HIDE DEF c, r
  <1>2. oc \in Nat /\ r \in Nat /\ a = oc + r
    BY <1>1
  <1>3. Cong(u, 1, m)
    BY <1>1, PowerOfOne
  <1> HIDE DEF oc
  <1>4. Power(b, a) = u * v /\ u \in Int /\ v \in Int
    BY <1>2, PowerAdd, PowerDef
  <1> HIDE DEF u, v
  <1>5. u * v \in Int /\ 1 * v \in Int /\ 1 * v = v /\ 1 \in Int
    BY <1>4
  <1>6. Cong(u * v, 1 * v, m)
    <2>1. Cong(v, v, m)
      BY <1>4, CongRefl
    <2> QED BY <1>3, <1>4, <1>5, <2>1, CongMul, Zenon
  <1>7. Cong(v, u * v, m)
    BY <1>4, <1>5, <1>6, CongSym
  <1>8. Cong(v, 1, m)
    <2>1. Cong(u * v, 1, m)
      BY <1>4
    <2> QED BY <1>4, <1>5, <1>7, <2>1, CongTrans, Zenon
  <1>9. r = 0
    <2> SUFFICES ASSUME r # 0 PROVE FALSE
      OBVIOUS
    <2>1. r \in 1 .. o - 1
      BY <1>1
    <2> QED BY <1>8, <2>1 DEF v
  <1>10. a = o * c
    BY <1>1, <1>9
  <1> QED BY <1>1, <1>10

\* ModPow is one just when the power is congruent to one.
LEMMA PowerIsOne ==
  ASSUME NEW b \in Int, NEW k \in Nat, NEW m \in Nat, m > 1
  PROVE  ModPow(b, k, m) = 1 <=> Cong(Power(b, k), 1, m)
  <1> DEFINE u == Power(b, k)
  <1>1. u \in Int /\ 1 \in Int /\ m \in Nat \ {0}
    BY PowerDef
  <1>2. ModPow(b, k, m) = u % m
    BY <1>1, ModPowIsPower
  <1>3. 1 % m = 1
    BY <1>1, SmallMod
  <1> HIDE DEF u
  <1>4. Cong(u, 1, m) <=> u % m = 1 % m
    BY <1>1, CongIffMod, Zenon
  <1> QED BY <1>2, <1>3, <1>4 DEF u

-----------------------------------------------------------------------------
(* Sums and products over the slaves.                                      *)

\* The defining equation of Sums.
LEMMA SumsDef ==
  ASSUME NEW n \in Nat, NEW f \in [1 .. n -> Int]
  PROVE  LET sum == Sums(f, n) IN
         /\ sum[0] = 0
         /\ \A k \in 1 .. n : sum[k] = sum[k - 1] + f[k]
         /\ \A k \in 0 .. n : sum[k] \in Int
  <1> DEFINE Body(g) == [k \in 0 .. n |-> IF k = 0 THEN 0 ELSE g[k - 1] + f[k]]
             term == [k \in 0 .. n |-> IF k = 0 THEN 0 ELSE f[k]]
             comb == [x \in (0 .. n) \X Int |-> x[2] + term[x[1]]]
  <1>0. \A k \in 0 .. n : term[k] \in Int
    OBVIOUS
  <1>a. \A k \in 1 .. n : term[k] = f[k]
    OBVIOUS
  <1> HIDE DEF term
  <1>1. comb \in [(0 .. n) \X Int -> Int]
    BY <1>0
  <1>2. PICK g : /\ g \in [0 .. n -> Int]
                 /\ \A k \in 0 .. n : g[k] = IF k = 0 THEN 0 ELSE comb[<<k, g[k - 1]>>]
    <2>1. 0 \in Int
      OBVIOUS
    <2> HIDE DEF comb
    <2> QED BY <1>1, <2>1, SegmentRecursion, Zenon
  <1>3. ASSUME NEW k \in 0 .. n PROVE g[k] = IF k = 0 THEN 0 ELSE g[k - 1] + f[k]
    <2>1. k # 0 => k - 1 \in 0 .. n /\ g[k - 1] \in Int
      BY <1>2
    <2>2. k # 0 => comb[<<k, g[k - 1]>>] = g[k - 1] + f[k]
      BY <2>1, <1>a
    <2> HIDE DEF comb
    <2> QED BY <1>2, <2>2
  <1>4. g = Body(g)
    BY <1>2, <1>3
  <1>5. Sums(f, n) = CHOOSE h : h = Body(h)
    BY Zenon DEF Sums
  <1>6. Sums(f, n) = Body(Sums(f, n))
    <2> HIDE DEF Body
    <2> QED BY <1>4, <1>5, Zenon
  <1> DEFINE s == Sums(f, n)
  <1>7. \A k \in 0 .. n : s[k] = IF k = 0 THEN 0 ELSE s[k - 1] + f[k]
    BY <1>6
  <1> HIDE DEF s
  <1>8. s[0] = 0 /\ \A k \in 1 .. n : s[k] = s[k - 1] + f[k]
    BY <1>7
  <1> DEFINE Good == {k \in 0 .. n : s[k] \in Int}
  <1>9. Good = 0 .. n
    <2>1. 0 \in Good
      BY <1>8
    <2>2. \A k \in 1 .. n : k - 1 \in Good => k \in Good
      BY <1>8
    <2>3. Good \in SUBSET (0 .. n)
      OBVIOUS
    <2> HIDE DEF Good
    <2> QED BY <2>1, <2>2, <2>3, SegmentInduction
  <1>10. \A k \in 0 .. n : s[k] \in Int
    BY <1>9
  <1> QED BY <1>8, <1>10 DEF s

\* The defining equation of Products.
LEMMA ProductsDef ==
  ASSUME NEW n \in Nat, NEW f \in [1 .. n -> Int]
  PROVE  LET prod == Products(f, n) IN
         /\ prod[0] = 1
         /\ \A k \in 1 .. n : prod[k] = prod[k - 1] * f[k]
         /\ \A k \in 0 .. n : prod[k] \in Int
  <1> DEFINE Body(g) == [k \in 0 .. n |-> IF k = 0 THEN 1 ELSE g[k - 1] * f[k]]
             term == [k \in 0 .. n |-> IF k = 0 THEN 1 ELSE f[k]]
             comb == [x \in (0 .. n) \X Int |-> x[2] * term[x[1]]]
  <1>0. \A k \in 0 .. n : term[k] \in Int
    OBVIOUS
  <1>a. \A k \in 1 .. n : term[k] = f[k]
    OBVIOUS
  <1> HIDE DEF term
  <1>1. comb \in [(0 .. n) \X Int -> Int]
    BY <1>0
  <1>2. PICK g : /\ g \in [0 .. n -> Int]
                 /\ \A k \in 0 .. n : g[k] = IF k = 0 THEN 1 ELSE comb[<<k, g[k - 1]>>]
    <2>1. 1 \in Int
      OBVIOUS
    <2> HIDE DEF comb
    <2> QED BY <1>1, <2>1, SegmentRecursion, Zenon
  <1>3. ASSUME NEW k \in 0 .. n PROVE g[k] = IF k = 0 THEN 1 ELSE g[k - 1] * f[k]
    <2>1. k # 0 => k - 1 \in 0 .. n /\ g[k - 1] \in Int
      BY <1>2
    <2>2. k # 0 => comb[<<k, g[k - 1]>>] = g[k - 1] * f[k]
      BY <2>1, <1>a
    <2> HIDE DEF comb
    <2> QED BY <1>2, <2>2
  <1>4. g = Body(g)
    BY <1>2, <1>3
  <1>5. Products(f, n) = CHOOSE h : h = Body(h)
    BY Zenon DEF Products
  <1>6. Products(f, n) = Body(Products(f, n))
    <2> HIDE DEF Body
    <2> QED BY <1>4, <1>5, Zenon
  <1> DEFINE p == Products(f, n)
  <1>7. \A k \in 0 .. n : p[k] = IF k = 0 THEN 1 ELSE p[k - 1] * f[k]
    BY <1>6
  <1> HIDE DEF p
  <1>8. p[0] = 1 /\ \A k \in 1 .. n : p[k] = p[k - 1] * f[k]
    BY <1>7
  <1> DEFINE Good == {k \in 0 .. n : p[k] \in Int}
  <1>9. Good = 0 .. n
    <2>1. 0 \in Good
      BY <1>8
    <2>2. \A k \in 1 .. n : k - 1 \in Good => k \in Good
      BY <1>8
    <2>3. Good \in SUBSET (0 .. n)
      OBVIOUS
    <2> HIDE DEF Good
    <2> QED BY <2>1, <2>2, <2>3, SegmentInduction
  <1>10. \A k \in 0 .. n : p[k] \in Int
    BY <1>9
  <1> QED BY <1>8, <1>10 DEF p

\* The sum of two functions.
LEMMA SumAdd ==
  ASSUME NEW n \in Nat, NEW f \in [1 .. n -> Int], NEW g \in [1 .. n -> Int],
         NEW h \in [1 .. n -> Int], \A i \in 1 .. n : f[i] = g[i] + h[i]
  PROVE  Sum(f, n) = Sum(g, n) + Sum(h, n)
  <1> DEFINE sf == Sums(f, n)
             sg == Sums(g, n)
             sh == Sums(h, n)
             Good == {k \in 0 .. n : sf[k] = sg[k] + sh[k]}
  <1>1. /\ sf[0] = 0 /\ \A k \in 1 .. n : sf[k] = sf[k - 1] + f[k]
        /\ sg[0] = 0 /\ \A k \in 1 .. n : sg[k] = sg[k - 1] + g[k]
        /\ sh[0] = 0 /\ \A k \in 1 .. n : sh[k] = sh[k - 1] + h[k]
        /\ \A k \in 0 .. n : sf[k] \in Int /\ sg[k] \in Int /\ sh[k] \in Int
    BY SumsDef
  <1> HIDE DEF sf, sg, sh
  <1>2. 0 \in Good
    BY <1>1
  <1>3. ASSUME NEW k \in 1 .. n, k - 1 \in Good PROVE k \in Good
    <2>1. k \in 0 .. n /\ k - 1 \in 0 .. n
      OBVIOUS
    <2> QED BY <1>1, <1>3, <2>1
  <1>4. Good \in SUBSET (0 .. n)
    OBVIOUS
  <1> HIDE DEF Good
  <1>5. Good = 0 .. n
    BY <1>2, <1>3, <1>4, SegmentInduction
  <1>6. n \in Good
    BY <1>5
  <1> QED BY <1>6 DEF Good, Sum, sf, sg, sh

\* Sums of congruent terms are congruent.
LEMMA SumCong ==
  ASSUME NEW n \in Nat, NEW f \in [1 .. n -> Int], NEW g \in [1 .. n -> Int],
         NEW m \in Int, \A i \in 1 .. n : Cong(f[i], g[i], m)
  PROVE  Cong(Sum(f, n), Sum(g, n), m) /\ Sum(f, n) \in Int /\ Sum(g, n) \in Int
  <1> DEFINE sf == Sums(f, n)
             sg == Sums(g, n)
             Good == {k \in 0 .. n : Cong(sf[k], sg[k], m)}
  <1>1. /\ sf[0] = 0 /\ \A k \in 1 .. n : sf[k] = sf[k - 1] + f[k]
        /\ sg[0] = 0 /\ \A k \in 1 .. n : sg[k] = sg[k - 1] + g[k]
        /\ \A k \in 0 .. n : sf[k] \in Int /\ sg[k] \in Int
    BY SumsDef
  <1> HIDE DEF sf, sg
  <1>2. 0 \in Good
    BY <1>1, CongRefl
  <1>3. ASSUME NEW k \in 1 .. n, k - 1 \in Good PROVE k \in Good
    <2>1. k \in 0 .. n /\ k - 1 \in 0 .. n
      OBVIOUS
    <2>2. sf[k - 1] \in Int /\ sg[k - 1] \in Int /\ f[k] \in Int /\ g[k] \in Int
      BY <1>1, <2>1
    <2>3. Cong(sf[k - 1], sg[k - 1], m) /\ Cong(f[k], g[k], m)
      BY <1>3
    <2>4. Cong(sf[k - 1] + f[k], sg[k - 1] + g[k], m)
      BY <2>2, <2>3, CongAdd, Zenon
    <2> QED BY <1>1, <2>1, <2>4
  <1>4. Good \in SUBSET (0 .. n)
    OBVIOUS
  <1> HIDE DEF Good
  <1>5. Good = 0 .. n
    BY <1>2, <1>3, <1>4, SegmentInduction
  <1>6. n \in Good /\ n \in 0 .. n
    BY <1>5
  <1> QED BY <1>1, <1>6 DEF Good, Sum, sf, sg

\* A sum with one term that is not zero.
LEMMA SumSingle ==
  ASSUME NEW n \in Nat, NEW f \in [1 .. n -> Int], NEW i \in 1 .. n,
         \A j \in 1 .. n : j # i => f[j] = 0
  PROVE  Sum(f, n) = f[i]
  <1> DEFINE sf == Sums(f, n)
             Good == {k \in 0 .. n : sf[k] = IF k < i THEN 0 ELSE f[i]}
  <1>1. /\ sf[0] = 0 /\ \A k \in 1 .. n : sf[k] = sf[k - 1] + f[k]
        /\ \A k \in 0 .. n : sf[k] \in Int
    BY SumsDef
  <1> HIDE DEF sf
  <1>2. 0 \in Good
    BY <1>1
  <1>3. ASSUME NEW k \in 1 .. n, k - 1 \in Good PROVE k \in Good
    <2>1. k \in 0 .. n /\ k - 1 \in 0 .. n /\ f[i] \in Int
      OBVIOUS
    <2>2. sf[k] = sf[k - 1] + f[k] /\ sf[k - 1] = IF k - 1 < i THEN 0 ELSE f[i]
      BY <1>1, <1>3
    <2>3. CASE k = i
      BY <2>1, <2>2, <2>3
    <2>4. CASE k # i
      <3>1. f[k] = 0 /\ (k - 1 < i <=> k < i)
        BY <2>4
      <3> QED BY <2>1, <2>2, <3>1
    <2> QED BY <2>3, <2>4
  <1>4. Good \in SUBSET (0 .. n)
    OBVIOUS
  <1> HIDE DEF Good
  <1>5. Good = 0 .. n
    BY <1>2, <1>3, <1>4, SegmentInduction
  <1>6. n \in Good /\ ~(n < i)
    BY <1>5
  <1> QED BY <1>6 DEF Good, Sum, sf

\* Products of positive numbers: the product without one of the factors is a multiple
\* of every other.
LEMMA ProductPositive ==
  ASSUME NEW n \in Nat, NEW f \in [1 .. n -> Nat \ {0}]
  PROVE  /\ Product(f, n) \in Nat \ {0}
         /\ \A i \in 1 .. n : \E r \in Nat \ {0} :
               /\ Product(f, n) = f[i] * r
               /\ \A j \in 1 .. n : j # i => \E q \in Nat : r = f[j] * q
  <1> DEFINE p == Products(f, n)
             Good == {k \in 0 .. n :
                        /\ p[k] \in Nat \ {0}
                        /\ \A i \in 1 .. k : \E r \in Nat \ {0} :
                             /\ p[k] = f[i] * r
                             /\ \A j \in 1 .. k : j # i => \E q \in Nat : r = f[j] * q}
  <1>0. f \in [1 .. n -> Int]
    OBVIOUS
  <1>1. p[0] = 1 /\ \A k \in 1 .. n : p[k] = p[k - 1] * f[k]
    BY <1>0, ProductsDef
  <1> HIDE DEF p
  <1>2. 0 \in Good
    BY <1>1
  <1>3. ASSUME NEW k \in 1 .. n, k - 1 \in Good PROVE k \in Good
    <2>1. k \in 0 .. n /\ f[k] \in Nat \ {0} /\ \A i \in 1 .. k : i # k => i \in 1 .. k - 1
      OBVIOUS
    <2>2. p[k - 1] \in Nat \ {0} /\ p[k] = p[k - 1] * f[k]
      BY <1>1, <1>3
    <2> DEFINE u == p[k - 1]
               v == f[k]
    <2>3. u \in Nat \ {0} /\ v \in Nat \ {0} /\ u * v \in Nat \ {0} /\ u * v = v * u /\ p[k] = u * v
      <3>1. u \in Nat \ {0} /\ v \in Nat \ {0} /\ p[k] = u * v
        BY <2>1, <2>2
      <3> HIDE DEF u, v
      <3>2. u * v >= 1 * v
        BY <3>1
      <3> QED BY <3>1, <3>2
    <2>4. ASSUME NEW i \in 1 .. k - 1
          PROVE  \E r \in Nat \ {0} : /\ u = f[i] * r
                                      /\ \A j \in 1 .. k - 1 : j # i => \E q \in Nat : r = f[j] * q
      BY <1>3
    <2> HIDE DEF u, v, Good
    <2>5. ASSUME NEW i \in 1 .. k
          PROVE  \E r \in Nat \ {0} :
                   /\ p[k] = f[i] * r
                   /\ \A j \in 1 .. k : j # i => \E q \in Nat : r = f[j] * q
      <3>1. CASE i = k
        <4>1. ASSUME NEW j \in 1 .. k, j # i PROVE \E q \in Nat : u = f[j] * q
          BY <2>1, <2>4, <3>1, <4>1
        <4>2. p[k] = f[i] * u
          BY <2>3, <3>1 DEF v
        <4> QED BY <2>3, <4>1, <4>2
      <3>2. CASE i # k
        <4>1. PICK r \in Nat \ {0} :
                /\ u = f[i] * r
                /\ \A j \in 1 .. k - 1 : j # i => \E q \in Nat : r = f[j] * q
          BY <2>1, <2>4, <3>2
        <4> DEFINE a == f[i]
                   rv == r * v
        <4>2. a \in Nat /\ u = a * r
          BY <2>1, <4>1, <3>2
        <4> HIDE DEF a
        <4>3. rv \in Nat \ {0} /\ u * v = a * rv
          <5>1. r * v >= 1 * v
            BY <2>3
          <5>2. (a * r) * v = a * (r * v)
            BY <2>3, <4>2
          <5> QED BY <2>3, <4>2, <5>1, <5>2
        <4>4. ASSUME NEW j \in 1 .. k, j # i PROVE \E q \in Nat : rv = f[j] * q
          <5>1. CASE j = k
            <6>1. rv = f[j] * r
              BY <2>3, <5>1 DEF v
            <6> QED BY <6>1
          <5>2. CASE j # k
            <6>1. PICK q \in Nat : r = f[j] * q
              BY <2>1, <4>1, <4>4, <5>2
            <6> DEFINE b == f[j]
            <6>2. b \in Nat /\ r = b * q
              BY <2>1, <6>1, <5>2
            <6> HIDE DEF b
            <6>3. (b * q) * v = b * (q * v) /\ q * v \in Nat
              BY <2>3, <6>2
            <6>4. rv = b * (q * v)
              BY <6>2, <6>3
            <6> QED BY <6>3, <6>4 DEF b
          <5> QED BY <5>1, <5>2
        <4> HIDE DEF rv
        <4>5. p[k] = f[i] * rv
          BY <2>3, <4>3 DEF a
        <4> QED BY <4>3, <4>4, <4>5
      <3> QED BY <3>1, <3>2
    <2>6. p[k] \in Nat \ {0}
      BY <2>3
    <2> QED BY <2>1, <2>5, <2>6 DEF Good
  <1>4. Good \in SUBSET (0 .. n)
    OBVIOUS
  <1> HIDE DEF Good
  <1>5. Good = 0 .. n
    BY <1>2, <1>3, <1>4, SegmentInduction
  <1>6. n \in Good
    BY <1>5
  <1> QED BY <1>6, Zenon DEF Good, Product, p

\* Every factor divides the product.
LEMMA FactorOfProduct ==
  ASSUME NEW n \in Nat, NEW f \in [1 .. n -> Nat \ {0}], NEW i \in 1 .. n
  PROVE  \E r \in Nat : Product(f, n) = f[i] * r
  <1>1. PICK r \in Nat \ {0} :
           /\ Product(f, n) = f[i] * r
           /\ \A j \in 1 .. n : j # i => \E q \in Nat : r = f[j] * q
    BY ProductPositive
  <1> QED BY <1>1

\* A product of odd numbers is odd.
LEMMA ProductOdd ==
  ASSUME NEW n \in Nat, NEW f \in [1 .. n -> Int], \A i \in 1 .. n : f[i] % 2 = 1
  PROVE  Product(f, n) % 2 = 1
  <1> DEFINE p == Products(f, n)
             Good == {k \in 0 .. n : p[k] % 2 = 1}
  <1>1. /\ p[0] = 1 /\ \A k \in 1 .. n : p[k] = p[k - 1] * f[k]
        /\ \A k \in 0 .. n : p[k] \in Int
    BY ProductsDef
  <1> HIDE DEF p
  <1>2. 0 \in Good
    BY <1>1
  <1>3. ASSUME NEW k \in 1 .. n, k - 1 \in Good PROVE k \in Good
    <2> DEFINE u == p[k - 1]
               v == f[k]
    <2>1. k \in 0 .. n /\ k - 1 \in 0 .. n
      OBVIOUS
    <2>2. u \in Int /\ v \in Int /\ u % 2 = 1 /\ v % 2 = 1 /\ p[k] = u * v
      BY <1>1, <1>3, <2>1
    <2> HIDE DEF u, v
    <2>3. PICK a \in Int : u = 2 * a + 1
      BY <2>2
    <2>4. u * v = 2 * (a * v) + v /\ a * v \in Int
      BY <2>2, <2>3
    <2> DEFINE av == a * v
    <2> HIDE DEF av
    <2>5. av \in Int /\ u * v = 2 * av + v
      BY <2>4 DEF av
    <2>6. (2 * av + v) % 2 = 1
      BY <2>2, <2>5
    <2> QED BY <2>1, <2>2, <2>5, <2>6
  <1>4. Good \in SUBSET (0 .. n)
    OBVIOUS
  <1> HIDE DEF Good
  <1>5. Good = 0 .. n
    BY <1>2, <1>3, <1>4, SegmentInduction
  <1>6. n \in Good
    BY <1>5
  <1> QED BY <1>6 DEF Good, Product, p

\* Division of a multiple.
LEMMA DivExact ==
  ASSUME NEW a \in Nat \ {0}, NEW r \in Nat
  PROVE  (a * r) \div a = r
  <1> DEFINE b == a * r
             q == b \div a
             s == b % a
  <1>0. b \in Nat
    OBVIOUS
  <1>1. b = a * q + s /\ s \in 0 .. a - 1 /\ q \in Int
    <2> HIDE DEF b
    <2> QED BY <1>0
  <1>2. b = a * r
    OBVIOUS
  <1> HIDE DEF b, q, s
  <1>3. s - 0 = (r - q) * a /\ r - q \in Int
    BY <1>1, <1>2
  <1>4. Cong(s, 0, a) /\ s \in Int /\ 0 \in Int /\ a \in Int /\ s - 0 < a /\ 0 - s < a
    BY <1>1, <1>3 DEF Cong
  <1>5. s = 0
    BY <1>4, CongSmall
  <1>6. a * (r - q) = 0
    BY <1>1, <1>3, <1>5
  <1>7. r - q = 0
    BY <1>1, <1>6
  <1>8. r = q
    BY <1>1, <1>7
  <1> QED BY <1>8 DEF q, b

-----------------------------------------------------------------------------
(* Inverses and the normal form.                                           *)

\* The states <<old_r, r, old_s, s>> of the loop of ModInverse.
EuclidStates == Nat \X Nat \X Int \X Int

\* The state of the loop after one round.
Round(t) == LET q == t[1] \div t[2]
            IN  <<t[2], t[1] - q * t[2], t[4], t[3] - q * t[4]>>

\* A round of the loop makes r smaller.
LEMMA RoundState ==
  ASSUME NEW t \in EuclidStates, t[2] # 0
  PROVE  Round(t) \in EuclidStates /\ Round(t)[2] < t[2]
  <1> DEFINE a == t[1]
             b == t[2]
             q == a \div b
             qb == q * b
  <1>1. a \in Nat /\ b \in Nat \ {0} /\ t[3] \in Int /\ t[4] \in Int
    BY DEF EuclidStates
  <1> HIDE DEF a, b
  <1>2. q \in Int /\ a = b * q + (a % b) /\ a % b \in 0 .. b - 1
    BY <1>1
  <1> HIDE DEF q
  <1>3. qb \in Int /\ b * q = qb
    BY <1>1, <1>2
  <1> HIDE DEF qb
  <1>4. a - qb \in 0 .. b - 1
    BY <1>1, <1>2, <1>3
  <1>5. t[3] - q * t[4] \in Int
    BY <1>1, <1>2
  <1>6. Round(t) = <<b, a - qb, t[4], t[3] - q * t[4]>>
    BY DEF Round, a, b, q, qb
  <1>7. Round(t) \in Nat \X Nat \X Int \X Int
    BY <1>1, <1>4, <1>5, <1>6
  <1>8. Round(t)[2] < b
    BY <1>1, <1>4, <1>6
  <1> QED BY <1>7, <1>8 DEF EuclidStates, b

\* The defining equation of Euclid.
LEMMA EuclidDef ==
  \A t \in EuclidStates :
    Euclid[t] \in EuclidStates /\ Euclid[t] = IF t[2] = 0 THEN t ELSE Euclid[Round(t)]
  <1> DEFINE D == EuclidStates
             Body(g) == [t \in D |-> IF t[2] = 0 THEN t ELSE g[Round(t)]]
             rank == [t \in D |-> t[2]]
             Stop == {t \in D : t[2] = 0}
             base == [t \in D |-> t]
             nx == [t \in D |-> IF t[2] = 0 THEN t ELSE Round(t)]
             comb == [x \in D \X D |-> x[2]]
  <1>1. rank \in [D -> Nat]
    BY DEF EuclidStates
  <1>2. /\ Stop \in SUBSET D /\ base \in [D -> D] /\ comb \in [D \X D -> D]
        /\ nx \in [D -> D]
    BY RoundState
  <1>3. \A t \in D \ Stop : rank[nx[t]] < rank[t]
    BY RoundState
  <1>4. Recursive(D, D, rank, Stop, base, nx, comb)
    BY <1>1, <1>2, <1>3 DEF Recursive
  <1>5. PICK f : Solution(f, D, D, Stop, base, nx, comb)
    <2> HIDE DEF D, rank, Stop, base, nx, comb
    <2> QED BY <1>4, Recursion
  <1>6. f \in [D -> D] /\ \A t \in D : f[t] = IF t[2] = 0 THEN t ELSE f[Round(t)]
    <2>1. f \in [D -> D] /\ \A t \in D : f[t] = IF t \in Stop THEN base[t] ELSE comb[<<t, f[nx[t]]>>]
      BY <1>5 DEF Solution
    <2>2. ASSUME NEW t \in D PROVE f[t] = IF t[2] = 0 THEN t ELSE f[Round(t)]
      <3>1. CASE t[2] = 0
        BY <2>1, <3>1
      <3>2. CASE t[2] # 0
        <4>1. t \notin Stop /\ nx[t] = Round(t) /\ Round(t) \in D
          BY <3>2, RoundState
        <4>2. f[Round(t)] \in D /\ comb[<<t, f[Round(t)]>>] = f[Round(t)]
          BY <2>1, <4>1
        <4> QED BY <2>1, <3>2, <4>1, <4>2
      <3> QED BY <3>1, <3>2
    <2> QED BY <2>1, <2>2
  <1>7. f = Body(f)
    BY <1>6
  <1>8. Euclid = CHOOSE g : g = Body(g)
    BY Zenon DEF Euclid, Round, EuclidStates
  <1>9. Euclid = Body(Euclid)
    <2> HIDE DEF Body
    <2> QED BY <1>7, <1>8, Zenon
  <1>10. \A t \in D : Euclid[t] = IF t[2] = 0 THEN t ELSE Euclid[Round(t)]
    BY <1>9
  <1> DEFINE Good == {t \in D : Euclid[t] \in D}
  <1>11. ASSUME NEW t \in D, \A e \in D : rank[e] < rank[t] => e \in Good PROVE t \in Good
    <2>1. CASE t[2] = 0
      BY <1>10, <2>1
    <2>2. CASE t[2] # 0
      <3>1. Round(t) \in D /\ rank[Round(t)] < rank[t]
        BY <2>2, RoundState
      <3>2. Euclid[Round(t)] \in D
        BY <1>11, <3>1
      <3> QED BY <1>10, <2>2, <3>2
    <2> QED BY <2>1, <2>2
  <1>12. Good = D
    <2>1. Good \in SUBSET D
      OBVIOUS
    <2> HIDE DEF Good, D, rank
    <2> QED BY <1>1, <1>11, <2>1, MeasureInduction
  <1> QED BY <1>10, <1>12

\* a * old_s and a * s are congruent to old_r and r throughout the loop of ModInverse.
LEMMA Bezout ==
  ASSUME NEW a \in Int, NEW m \in Int, NEW t \in EuclidStates,
         Cong(a * t[3], t[1], m), Cong(a * t[4], t[2], m)
  PROVE  Cong(a * Euclid[t][3], Euclid[t][1], m)
  <1> DEFINE D == EuclidStates
             rank == [d \in D |-> d[2]]
             Good == {d \in D : Cong(a * d[3], d[1], m) /\ Cong(a * d[4], d[2], m)
                                  => Cong(a * Euclid[d][3], Euclid[d][1], m)}
  <1>1. ASSUME NEW d \in D, \A e \in D : rank[e] < rank[d] => e \in Good PROVE d \in Good
    <2> SUFFICES ASSUME Cong(a * d[3], d[1], m), Cong(a * d[4], d[2], m)
                 PROVE  Cong(a * Euclid[d][3], Euclid[d][1], m)
      OBVIOUS
    <2>1. CASE d[2] = 0
      BY <2>1, EuclidDef
    <2>2. CASE d[2] # 0
      <3> DEFINE e == Round(d)
                 b == d[1]
                 c == d[2]
                 u == d[3]
                 v == d[4]
                 q == b \div c
      <3>1. e \in D /\ rank[e] < rank[d]
        BY <2>2, RoundState
      <3>2. b \in Nat /\ c \in Nat \ {0} /\ u \in Int /\ v \in Int
        BY <2>2 DEF EuclidStates
      <3>3. e = <<c, b - q * c, v, u - q * v>>
        BY DEF Round
      <3>4. Cong(a * u, b, m) /\ Cong(a * v, c, m)
        OBVIOUS
      <3>5. Euclid[d] = Euclid[e]
        BY <2>2, EuclidDef
      <3>6. e[1] = c /\ e[2] = b - q * c /\ e[3] = v /\ e[4] = u - q * v
        BY <3>3
      <3> HIDE DEF b, c, u, v
      <3>7. q \in Int
        BY <3>2
      <3> HIDE DEF q
      <3>8. /\ a * u \in Int /\ a * v \in Int /\ b \in Int /\ c \in Int
            /\ q * (a * v) \in Int /\ q * c \in Int
        BY <3>2, <3>7
      <3>9. Cong(q * (a * v), q * c, m)
        BY <3>4, <3>7, <3>8, CongScale, Zenon
      <3>10. Cong(a * u - q * (a * v), b - q * c, m)
        BY <3>4, <3>8, <3>9, CongAdd, Zenon
      <3>11. a * u - q * (a * v) = a * (u - q * v)
        BY <3>2, <3>7
      <3>12. Cong(a * e[3], e[1], m) /\ Cong(a * e[4], e[2], m)
        <4>1. Cong(a * e[3], e[1], m)
          BY <3>4, <3>6
        <4>2. Cong(a * (u - q * v), b - q * c, m)
          BY <3>10, <3>11
        <4> QED BY <3>6, <4>1, <4>2
      <3> HIDE DEF e
      <3>13. e \in Good
        BY <1>1, <3>1
      <3> QED BY <3>5, <3>12, <3>13
    <2> QED BY <2>1, <2>2
  <1>2. rank \in [D -> Nat]
    BY DEF EuclidStates
  <1>3. Good = D
    <2>1. Good \in SUBSET D
      OBVIOUS
    <2> HIDE DEF Good, D, rank
    <2> QED BY <1>1, <1>2, <2>1, MeasureInduction
  <1> QED BY <1>3

\* ModInverse inverts a whenever it does not throw, that is, when Gcd(a, m) is one.
THEOREM ModInverseCorrect ==
  ASSUME NEW a \in Nat, NEW m \in Nat \ {0}, Gcd(a, m) = 1
  PROVE  ModInverse(a, m) \in Nat /\ Cong(a * ModInverse(a, m), 1, m)
  <1> DEFINE t == <<a, m, 1, 0>>
             s == Euclid[t][3]
             i == s % m
  <1>1. t \in EuclidStates
    BY DEF EuclidStates
  <1>2. s \in Int /\ Euclid[t][1] = 1
    BY <1>1, EuclidDef DEF EuclidStates, Gcd
  <1>3. Cong(a * t[3], t[1], m)
    <2>1. a \in Int /\ m \in Int /\ a * 1 = a
      OBVIOUS
    <2> QED BY <2>1, CongRefl
  <1>4. Cong(a * t[4], t[2], m)
    <2>1. a * 0 - m = (-1) * m /\ -1 \in Int
      OBVIOUS
    <2> QED BY <2>1 DEF Cong
  <1>5. Cong(a * s, 1, m)
    <2>1. a \in Int /\ m \in Int
      OBVIOUS
    <2> HIDE DEF t
    <2> QED BY <1>1, <1>2, <1>3, <1>4, <2>1, Bezout
  <1>6. ModInverse(a, m) = i
    BY DEF ModInverse
  <1> HIDE DEF t, s
  <1>7. i \in Nat /\ i \in Int /\ Cong(i, s, m)
    BY <1>2, CongMod
  <1> HIDE DEF i
  <1>8. a \in Int /\ m \in Int /\ a * i \in Int /\ a * s \in Int /\ 1 \in Int
    BY <1>2, <1>7
  <1>9. Cong(a * i, a * s, m)
    BY <1>2, <1>7, <1>8, CongScale
  <1>10. Cong(a * i, 1, m)
    BY <1>5, <1>8, <1>9, CongTrans, Zenon
  <1> QED BY <1>6, <1>7, <1>10

\* The normal form of an exponent, for an odd modulus.
LEMMA NormaliseForm ==
  ASSUME NEW a \in Int, NEW n \in Nat \ {0}, n % 2 = 1
  PROVE  /\ Normalise(a, n) \in 1 .. 4 * n - 1
         /\ Normalise(a, n) % 4 = 1
         /\ Cong(Normalise(a, n), a, n)
  <1> DEFINE r == a % n
             k == CHOOSE i \in 0 .. 3 : (r + i * n) % 4 = 1
  <1>1. r \in 0 .. n - 1 /\ r \in Int /\ Cong(r, a, n)
    BY CongMod
  <1>2. Normalise(a, n) = r + k * n
    BY DEF Normalise
  <1> HIDE DEF r
  <1>3. \E i \in 0 .. 3 : (r + i * n) % 4 = 1
    <2>1. r % 4 = 1 \/ (r + n) % 4 = 1 \/ (r + 2 * n) % 4 = 1 \/ (r + 3 * n) % 4 = 1
      BY <1>1
    <2>2. r = r + 0 * n /\ r + n = r + 1 * n
      BY <1>1
    <2> QED BY <2>1, <2>2
  <1>4. k \in 0 .. 3 /\ (r + k * n) % 4 = 1
    BY <1>3
  <1> HIDE DEF k
  <1>5. k * n \in 0 .. 3 * n
    BY <1>4
  <1>6. r + k * n \in 0 .. 4 * n - 1
    BY <1>1, <1>5
  <1>7. r + k * n # 0
    BY <1>4
  <1>8. Cong(r + k * n, r, n)
    <2>1. (r + k * n) - r = k * n /\ k \in Int
      BY <1>1, <1>4
    <2> QED BY <2>1 DEF Cong
  <1>9. r + k * n \in Int /\ n \in Int
    BY <1>6
  <1>10. Cong(r + k * n, a, n)
    BY <1>1, <1>8, <1>9, CongTrans, Zenon
  <1> QED BY <1>2, <1>4, <1>6, <1>7, <1>10

\* The normal form depends on the class alone.
LEMMA NormaliseCong ==
  ASSUME NEW a \in Int, NEW b \in Int, NEW n \in Nat \ {0}, Cong(a, b, n)
  PROVE  Normalise(a, n) = Normalise(b, n)
  <1>1. a % n = b % n
    BY CongIffMod
  <1> QED BY <1>1 DEF Normalise
=============================================================================
