------------------------- MODULE ExprCodeGenProofs -------------------------
(***************************************************************************)
(* Proofs about the lowering of expressions: for every width of int and    *)
(* char the compiled expressions do what C says, and every failure has one *)
(* of the reasons the invariants list.                                     *)
(*                                                                         *)
(* First what machine words do: powers of two, the bitwise operators by    *)
(* induction on the width, numbers modulo a power, and that the            *)
(* instructions compute what C says.  Then the inductive invariant, the    *)
(* stack of methods, one lemma per action, and the theorems.               *)
(*                                                                         *)
(* No theorem about recursion is used: an equation of a recursive function *)
(* follows from IterationExists, and induction is SetInduction, which      *)
(* comes from the well-foundedness of the order on the numbers.            *)
(***************************************************************************)
EXTENDS ExprCodeGen, WellFoundedInduction, TLAPS

-----------------------------------------------------------------------------
(* Induction and recursion.                                                *)

\* A set of numbers that holds 0 and every successor of a member holds all.
LEMMA SetInduction ==
    ASSUME NEW S, 0 \in S, \A n \in Nat : n \in S => n + 1 \in S
    PROVE  \A n \in Nat : n \in S
<1> SUFFICES ASSUME NEW k \in Nat, k \notin S PROVE FALSE
  OBVIOUS
<1> DEFINE less == OpToRel(<, Nat)
<1>1. PICK n \in Nat \ S : \A m \in Nat \ S : ~(<<m, n>> \in less)
  <2>1. Nat \ S \subseteq Nat /\ Nat \ S # {}
    OBVIOUS
  <2>2. IsWellFoundedOn(less, Nat)
    BY NatLessThanWellFounded
  <2> HIDE DEF less
  <2> QED BY <2>1, <2>2, WFMin
<1>2. n # 0 /\ n - 1 \in Nat
  <2> HIDE DEF less
  <2> QED BY <1>1
<1>3. <<n - 1, n>> \in less
  BY <1>2 DEF OpToRel
<1>4. n - 1 \in S
  <2> HIDE DEF less
  <2> QED BY <1>1, <1>2, <1>3
<1> HIDE DEF less
<1> QED BY <1>1, <1>2, <1>4

\* f is what iterating step from z gives.
StepOn(step, S) == step \in [S -> S]
Iterates(f, S, z, step) ==
    f \in [Nat -> S] /\ f[0] = z /\ \A n \in Nat : f[n + 1] = step[f[n]]

\* Iterating a step gives a sequence.
LEMMA IterationExists ==
    ASSUME NEW S, NEW z \in S, NEW step, StepOn(step, S)
    PROVE  \E f : Iterates(f, S, z, step)
<1> USE DEF StepOn, Iterates
<1> DEFINE Begun(n, g) == /\ g \in [0..n -> S] /\ g[0] = z
                          /\ \A i \in 0..n - 1 : g[i + 1] = step[g[i]]
           HasOne == {n \in Nat : \E g : Begun(n, g)}
           Alike == {n \in Nat : \A k \in Nat : \A g, h :
                        n <= k /\ Begun(n, g) /\ Begun(k, h) => g[n] = h[n]}
<1>1. \A n \in Nat : n \in HasOne
  <2>1. 0 \in HasOne
    <3>1. Begun(0, [i \in 0..0 |-> z])
      OBVIOUS
    <3> QED BY <3>1
  <2>2. ASSUME NEW n \in Nat, n \in HasOne PROVE n + 1 \in HasOne
    <3>1. PICK g : Begun(n, g)
      BY <2>2
    <3> DEFINE h == [i \in 0..n + 1 |-> IF i = n + 1 THEN step[g[n]] ELSE g[i]]
    <3>2. Begun(n + 1, h)
      <4>1. \A i \in 0..n : h[i] = g[i]
        OBVIOUS
      <4>2. h[n + 1] = step[g[n]] /\ step[g[n]] \in S
        BY <3>1
      <4>3. h \in [0..n + 1 -> S]
        BY <3>1, <4>1, <4>2
      <4>4. ASSUME NEW i \in 0..n + 1 - 1 PROVE h[i + 1] = step[h[i]]
        <5>1. CASE i = n
          BY <4>1, <4>2, <5>1
        <5>2. CASE i \in 0..n - 1
          BY <3>1, <4>1, <5>2
        <5> QED BY <5>1, <5>2
      <4> HIDE DEF h
      <4> QED BY <3>1, <4>1, <4>3, <4>4
    <3> HIDE DEF h, Begun
    <3> QED BY <3>2
  <2> HIDE DEF HasOne
  <2> QED BY <2>1, <2>2, SetInduction
<1>2. \A n \in Nat : n \in Alike
  <2>1. 0 \in Alike
    OBVIOUS
  <2>2. ASSUME NEW n \in Nat, n \in Alike PROVE n + 1 \in Alike
    <3> SUFFICES ASSUME NEW k \in Nat, NEW g, NEW h, n + 1 <= k,
                        Begun(n + 1, g), Begun(k, h)
                 PROVE  g[n + 1] = h[n + 1]
      OBVIOUS
    <3> DEFINE gn == [i \in 0..n |-> g[i]]
    <3>1. Begun(n, gn)
      OBVIOUS
    <3>2. gn[n] = h[n]
      <4> HIDE DEF gn, Begun
      <4> QED BY <3>1, <2>2
    <3>3. g[n] = h[n]
      BY <3>2
    <3>4. n \in 0..n + 1 - 1 /\ n \in 0..k - 1
      OBVIOUS
    <3> QED BY <3>3, <3>4
  <2> HIDE DEF Alike
  <2> QED BY <2>1, <2>2, SetInduction
<1> DEFINE p == [n \in Nat |-> CHOOSE g : Begun(n, g)]
           f == [n \in Nat |-> p[n][n]]
<1>3. \A n \in Nat : Begun(n, p[n])
  <2> HIDE DEF Begun
  <2> QED BY <1>1
<1>4. ASSUME NEW n \in Nat PROVE f[n] \in S
  <2>1. p[n] \in [0..n -> S]
    BY <1>3
  <2>2. f[n] = p[n][n]
    OBVIOUS
  <2> HIDE DEF f, p
  <2> QED BY <2>1, <2>2
<1>5. f \in [Nat -> S]
  BY <1>4
<1>6. f[0] = z
  <2>1. f[0] = p[0][0]
    OBVIOUS
  <2>2. Begun(0, p[0])
    <3> HIDE DEF Begun, p
    <3> QED BY <1>3
  <2> HIDE DEF f, p
  <2> QED BY <2>1, <2>2
<1>7. ASSUME NEW n \in Nat PROVE f[n + 1] = step[f[n]]
  <2> DEFINE g == p[n + 1]
  <2>1. Begun(n + 1, g) /\ Begun(n, p[n])
    <3> HIDE DEF Begun, p
    <3> QED BY <1>3
  <2>2. p[n][n] = g[n]
    <3>1. n \in Alike
      BY <1>2
    <3>2. \A k \in Nat : \A d, h : n <= k /\ Begun(n, d) /\ Begun(k, h) => d[n] = h[n]
      <4> HIDE DEF Begun
      <4> QED BY <3>1
    <3> HIDE DEF Begun, p, g, Alike
    <3> QED BY <2>1, <3>2
  <2>3. g[n + 1] = step[g[n]]
    <3> n \in 0..n + 1 - 1
      OBVIOUS
    <3> HIDE DEF p, g
    <3> QED BY <2>1
  <2>4. f[n] = p[n][n] /\ f[n + 1] = g[n + 1]
    BY DEF p
  <2> QED BY <2>2, <2>3, <2>4
<1> HIDE DEF f
<1> QED BY <1>5, <1>6, <1>7

\* The powers of two.
LEMMA PowersOfTwo ==
    /\ Pow2 \in [Nat -> Nat \ {0}]
    /\ Pow2[0] = 1
    /\ \A n \in Nat : Pow2[n + 1] = 2 * Pow2[n]
<1> DEFINE S == Nat \ {0}
           step == [x \in S |-> 2 * x]
           Defines(g) == g = [n \in Nat |-> IF n = 0 THEN 1 ELSE 2 * g[n - 1]]
<1>1. PICK f : Iterates(f, S, 1, step)
  <2>1. 1 \in S /\ StepOn(step, S)
    BY DEF StepOn
  <2> HIDE DEF S, step
  <2> QED BY <2>1, IterationExists
<1> USE DEF Iterates
<1>2. Defines(f)
  <2>1. ASSUME NEW n \in Nat PROVE f[n] = IF n = 0 THEN 1 ELSE 2 * f[n - 1]
    <3>1. CASE n = 0
      BY <1>1, <3>1
    <3>2. CASE n # 0
      <4>1. n - 1 \in Nat /\ (n - 1) + 1 = n
        BY <3>2
      <4> QED BY <1>1, <3>2, <4>1
    <3> QED BY <3>1, <3>2
  <2> QED BY <1>1, <2>1
<1>3. Defines(Pow2)
  <2>1. Pow2 = CHOOSE g : Defines(g)
    BY DEF Pow2
  <2> HIDE DEF Defines
  <2> QED BY <1>2, <2>1
<1>4. \A n \in Nat : Pow2[n] = IF n = 0 THEN 1 ELSE 2 * Pow2[n - 1]
  BY <1>3
<1>5. \A n \in Nat : Pow2[n + 1] = 2 * Pow2[n]
  BY <1>4
<1> DEFINE T == {n \in Nat : Pow2[n] \in Nat \ {0}}
<1>6. \A n \in Nat : n \in T
  <2>1. 0 \in T
    BY <1>4
  <2>2. ASSUME NEW n \in Nat, n \in T PROVE n + 1 \in T
    BY <1>5, <2>2
  <2> HIDE DEF T
  <2> QED BY <2>1, <2>2, SetInduction
<1> QED BY <1>3, <1>4, <1>5, <1>6

\* The powers are numbers.
LEMMA PowerType == \A n \in Nat : Pow2[n] \in Nat /\ Pow2[n] >= 1
BY PowersOfTwo

\* The first two powers.
LEMMA FirstPowers == Pow2[0] = 1 /\ Pow2[1] = 2
<1>1. 1 = 0 + 1 /\ 0 \in Nat
  OBVIOUS
<1> QED BY <1>1, PowersOfTwo

\* They grow.
LEMMA PowersGrow ==
    /\ \A n \in Nat : Pow2[n] < Pow2[n + 1]
    /\ \A n, m \in Nat : m < n => 2 * Pow2[m] <= Pow2[n]
    /\ \A n \in Nat \ {0} : Pow2[n] = 2 * Pow2[n - 1]
<1>1. \A n \in Nat : Pow2[n] < Pow2[n + 1]
  BY PowersOfTwo
<1>2. \A n \in Nat \ {0} : Pow2[n] = 2 * Pow2[n - 1]
  <2> TAKE n \in Nat \ {0}
  <2>1. n - 1 \in Nat /\ (n - 1) + 1 = n
    OBVIOUS
  <2> QED BY <2>1, PowersOfTwo
<1>3. ASSUME NEW m \in Nat PROVE \A n \in Nat : m < n => 2 * Pow2[m] <= Pow2[n]
  <2> DEFINE T == {n \in Nat : m < n => 2 * Pow2[m] <= Pow2[n]}
  <2>1. 0 \in T
    OBVIOUS
  <2>2. ASSUME NEW n \in Nat, n \in T PROVE n + 1 \in T
    <3>1. CASE m = n
      BY <3>1, PowersOfTwo
    <3>2. CASE m < n
      <4>1. 2 * Pow2[m] <= Pow2[n]
        BY <2>2, <3>2
      <4> QED BY <4>1, <1>1, PowersOfTwo
    <3>3. CASE m > n
      BY <3>3
    <3> QED BY <3>1, <3>2, <3>3
  <2>3. \A n \in Nat : n \in T
    <3> HIDE DEF T
    <3> QED BY <2>1, <2>2, SetInduction
  <2> QED BY <2>3
<1> QED BY <1>1, <1>2, <1>3

-----------------------------------------------------------------------------
(* The bitwise operators.                                                  *)

\* A number is twice its half, and its last bit.
LEMMA HalfType == \A a \in Nat : a \div 2 \in Nat /\ a % 2 \in {0, 1} /\ a = 2 * (a \div 2) + (a % 2)
OBVIOUS

\* What the recursive definition of Bitwise says.
FromHalves(n, op, a, b) ==
    Bitwise[n + 1][op][a][b] =
      OnBits(op, a % 2, b % 2) + 2 * Bitwise[n][op][a \div 2][b \div 2]

\* The two equations of Bitwise.
LEMMA BitwiseIs ==
    /\ \A n \in Nat : \A op \in BitOps, a, b \in Nat :
          Bitwise[n][op][a][b] \in Nat /\ FromHalves(n, op, a, b)
    /\ \A op \in BitOps, a, b \in Nat : Bitwise[0][op][a][b] = 0
<1> DEFINE S == [BitOps -> [Nat -> [Nat -> Nat]]]
           Row(g) == [op \in BitOps |-> [a \in Nat |-> [b \in Nat |->
                        OnBits(op, a % 2, b % 2) + 2 * g[op][a \div 2][b \div 2]]]]
           step == [g \in S |-> Row(g)]
           zero == [op \in BitOps |-> [a \in Nat |-> [b \in Nat |-> 0]]]
           Body(g, n) ==
              [op \in BitOps |-> [a \in Nat |-> [b \in Nat |->
                 IF n = 0 THEN 0
                 ELSE OnBits(op, a % 2, b % 2) + 2 * g[n - 1][op][a \div 2][b \div 2]]]]
           Defines(g) == g = [n \in Nat |-> Body(g, n)]
<1>1. \A g \in S : Row(g) \in S
  <2> SUFFICES ASSUME NEW g \in S, NEW op \in BitOps, NEW a \in Nat, NEW b \in Nat
               PROVE  OnBits(op, a % 2, b % 2) + 2 * g[op][a \div 2][b \div 2] \in Nat
    OBVIOUS
  <2>1. g[op][a \div 2][b \div 2] \in Nat
    BY HalfType
  <2>2. OnBits(op, a % 2, b % 2) \in Nat
    BY DEF OnBits
  <2>3. \A p, q \in Nat : p + 2 * q \in Nat
    OBVIOUS
  <2> HIDE DEF S, step, zero, Row, Body, Defines
  <2> QED BY <2>1, <2>2, <2>3
<1>2. PICK f : Iterates(f, S, zero, step)
  <2>1. zero \in S /\ StepOn(step, S)
    BY <1>1 DEF StepOn
  <2> HIDE DEF S, step, zero
  <2> QED BY <2>1, IterationExists
<1>3. f \in [Nat -> S] /\ f[0] = zero /\ \A n \in Nat : f[n + 1] = Row(f[n])
  <2>1. f \in [Nat -> S] /\ f[0] = zero /\ \A n \in Nat : f[n + 1] = step[f[n]]
    BY <1>2 DEF Iterates
  <2>2. \A g \in S : step[g] = Row(g)
    OBVIOUS
  <2> HIDE DEF S, step, zero, Row
  <2> QED BY <2>1, <2>2
<1>4. Defines(f)
  <2>1. ASSUME NEW n \in Nat PROVE f[n] = Body(f, n)
    <3>1. CASE n = 0
      BY <1>3, <3>1
    <3>2. CASE n # 0
      <4>1. n - 1 \in Nat /\ (n - 1) + 1 = n
        BY <3>2
      <4>2. f[n] = Row(f[n - 1])
        <5> HIDE DEF S, Row, zero
        <5> QED BY <1>3, <4>1
      <4>3. Row(f[n - 1]) = Body(f, n)
        BY <3>2
      <4> QED BY <4>2, <4>3
    <3> QED BY <3>1, <3>2
  <2> HIDE DEF Body, S
  <2> QED BY <1>3, <2>1
<1>5. Defines(Bitwise)
  <2>1. Bitwise = CHOOSE g : Defines(g)
    BY DEF Bitwise
  <2> HIDE DEF Defines
  <2> QED BY <1>4, <2>1
<1>6. ASSUME NEW n \in Nat PROVE Bitwise[n] = Body(Bitwise, n)
  <2> HIDE DEF Body
  <2> QED BY <1>5
<1>7. \A op \in BitOps, a, b \in Nat : Bitwise[0][op][a][b] = 0
  <2>1. Bitwise[0] = Body(Bitwise, 0)
    <3> HIDE DEF Body
    <3> QED BY <1>6
  <2>2. \A op \in BitOps, a, b \in Nat : Body(Bitwise, 0)[op][a][b] = 0
    OBVIOUS
  <2> HIDE DEF Body
  <2> QED BY <2>1, <2>2
<1>8. \A n \in Nat, op \in BitOps, a, b \in Nat :
        Bitwise[n + 1][op][a][b] =
          OnBits(op, a % 2, b % 2) + 2 * Bitwise[n][op][a \div 2][b \div 2]
  <2> TAKE n \in Nat, op \in BitOps, a, b \in Nat
  <2> DEFINE m == n + 1
  <2>1. m \in Nat /\ m # 0 /\ m - 1 = n
    OBVIOUS
  <2> HIDE DEF m
  <2>2. Bitwise[m][op][a][b] = Body(Bitwise, m)[op][a][b]
    <3> HIDE DEF Body
    <3> QED BY <1>6, <2>1
  <2>3. Bitwise[m][op][a][b] =
          OnBits(op, a % 2, b % 2) + 2 * Bitwise[n][op][a \div 2][b \div 2]
    BY <2>1, <2>2
  <2> QED BY <2>3 DEF m
<1> DEFINE T == {n \in Nat : \A op \in BitOps, a, b \in Nat : Bitwise[n][op][a][b] \in Nat}
<1>9. \A n \in Nat : n \in T
  <2>1. 0 \in T
    BY <1>7
  <2>2. ASSUME NEW n \in Nat, n \in T PROVE n + 1 \in T
    <3> SUFFICES ASSUME NEW op \in BitOps, NEW a \in Nat, NEW b \in Nat
                 PROVE  Bitwise[n + 1][op][a][b] \in Nat
      OBVIOUS
    <3>1. Bitwise[n][op][a \div 2][b \div 2] \in Nat
      BY <2>2, HalfType
    <3>2. OnBits(op, a % 2, b % 2) \in Nat
      BY DEF OnBits
    <3>3. Bitwise[n + 1][op][a][b] =
            OnBits(op, a % 2, b % 2) + 2 * Bitwise[n][op][a \div 2][b \div 2]
      BY <1>8
    <3> QED BY <3>1, <3>2, <3>3
  <2> HIDE DEF T
  <2> QED BY <2>1, <2>2, SetInduction
<1>10. \A n \in Nat : \A op \in BitOps, a, b \in Nat : FromHalves(n, op, a, b)
  BY <1>8 DEF FromHalves
<1> QED BY <1>7, <1>9, <1>10

\* A bitwise operator gives a word of the width it works on.
LEMMA BitwiseType ==
    \A n \in Nat : \A op \in BitOps, a, b \in Nat : Bitwise[n][op][a][b] \in Words(n)
<1> DEFINE T == {n \in Nat : \A op \in BitOps, a, b \in Nat :
                    Bitwise[n][op][a][b] \in Words(n)}
<1>1. 0 \in T
  <2>1. \A op \in BitOps, a, b \in Nat : Bitwise[0][op][a][b] = 0
    BY BitwiseIs
  <2>2. 0 \in Words(0)
    BY FirstPowers DEF Words
  <2> QED BY <2>1, <2>2
<1>2. ASSUME NEW n \in Nat, n \in T PROVE n + 1 \in T
  <2> SUFFICES ASSUME NEW op \in BitOps, NEW a \in Nat, NEW b \in Nat
               PROVE  Bitwise[n + 1][op][a][b] \in Words(n + 1)
    OBVIOUS
  <2> DEFINE q == Bitwise[n][op][a \div 2][b \div 2]
             p == OnBits(op, a % 2, b % 2)
  <2>1. q \in Words(n)
    BY <1>2, HalfType
  <2>2. p \in {0, 1}
    BY DEF OnBits
  <2>3. Bitwise[n + 1][op][a][b] = p + 2 * q
    <3>1. FromHalves(n, op, a, b)
      BY BitwiseIs
    <3> QED BY <3>1 DEF FromHalves
  <2> HIDE DEF p, q
  <2> QED BY <2>1, <2>2, <2>3, PowersOfTwo DEF Words
<1>3. \A n \in Nat : n \in T
  <2> HIDE DEF T
  <2> QED BY <1>1, <1>2, SetInduction
<1> QED BY <1>3

\* On two bits, whatever the width.
LEMMA BitwiseBit ==
    ASSUME NEW op \in BitOps, NEW p \in {0, 1}, NEW q \in {0, 1}, NEW w \in Nat \ {0}
    PROVE  Bitwise[w][op][p][q] = OnBits(op, p, q)
<1> DEFINE T == {n \in Nat : Bitwise[n][op][0][0] = 0}
<1>1. \A n \in Nat : n \in T
  <2>1. 0 \in T
    BY BitwiseIs
  <2>2. ASSUME NEW n \in Nat, n \in T PROVE n + 1 \in T
    <3>1. 0 % 2 = 0 /\ 0 \div 2 = 0
      OBVIOUS
    <3>2. FromHalves(n, op, 0, 0)
      BY BitwiseIs
    <3>3. OnBits(op, 0, 0) = 0
      BY DEF OnBits, BitOps
    <3> QED BY <2>2, <3>1, <3>2, <3>3 DEF FromHalves
  <2> HIDE DEF T
  <2> QED BY <2>1, <2>2, SetInduction
<1> DEFINE m == w - 1
<1>2. m \in Nat /\ w = m + 1
  OBVIOUS
<1>3. Bitwise[m + 1][op][p][q] = OnBits(op, p % 2, q % 2) + 2 * Bitwise[m][op][p \div 2][q \div 2]
  <2>1. p \in Nat /\ q \in Nat
    OBVIOUS
  <2>2. FromHalves(m, op, p, q)
    <3> HIDE DEF m
    <3> QED BY <1>2, <2>1, BitwiseIs
  <2> QED BY <2>2 DEF FromHalves
<1>4. p % 2 = p /\ q % 2 = q /\ p \div 2 = 0 /\ q \div 2 = 0
  OBVIOUS
<1>5. Bitwise[m][op][0][0] = 0
  BY <1>1, <1>2
<1>6. OnBits(op, p, q) \in {0, 1}
  BY DEF OnBits
<1> HIDE DEF m
<1> QED BY <1>2, <1>3, <1>4, <1>5, <1>6

\* The k-bit word v with its sign bit repeated up to w bits.
Extended(k, w, v) == IF v < Pow2[k - 1] THEN v ELSE v + (Pow2[w] - Pow2[k])

\* On two words that repeat one bit.
LEMMA BitwiseOfSigns ==
    ASSUME NEW op \in BitOps, NEW p \in {0, 1}, NEW q \in {0, 1}
    PROVE  \A w \in Nat : LET sign == Pow2[w] - 1
                         IN  Bitwise[w][op][p * sign][q * sign] = OnBits(op, p, q) * sign
<1> DEFINE S(w) == Pow2[w] - 1
           T == {w \in Nat : Bitwise[w][op][p * S(w)][q * S(w)] = OnBits(op, p, q) * S(w)}
<1>0. OnBits(op, p, q) \in {0, 1}
  BY DEF OnBits
<1>1. 0 \in T
  <2>1. S(0) = 0
    BY FirstPowers
  <2>2. p * 0 = 0 /\ q * 0 = 0 /\ OnBits(op, p, q) * 0 = 0
    BY <1>0
  <2>3. Bitwise[0][op][0][0] = 0
    BY BitwiseIs
  <2> HIDE DEF S
  <2> QED BY <2>1, <2>2, <2>3
<1>2. ASSUME NEW w \in Nat, w \in T PROVE w + 1 \in T
  <2> DEFINE s == S(w)
             t == S(w + 1)
             a == p * t
             b == q * t
  <2>1. s \in Nat /\ t \in Nat /\ t = 2 * s + 1
    BY PowersOfTwo
  <2> HIDE DEF s, t
  <2>2. a \in Nat /\ a % 2 = p /\ a \div 2 = p * s
    BY <2>1
  <2>3. b \in Nat /\ b % 2 = q /\ b \div 2 = q * s
    BY <2>1
  <2>4. Bitwise[w + 1][op][a][b] = OnBits(op, p, q) + 2 * Bitwise[w][op][p * s][q * s]
    <3> HIDE DEF a, b
    <3>1. FromHalves(w, op, a, b)
      BY <2>2, <2>3, BitwiseIs
    <3> QED BY <2>2, <2>3, <3>1 DEF FromHalves
  <2>5. Bitwise[w][op][p * s][q * s] = OnBits(op, p, q) * s
    BY <1>2 DEF s
  <2>6. Bitwise[w + 1][op][a][b] = OnBits(op, p, q) * t
    BY <2>1, <2>4, <2>5, <1>0
  <2> QED BY <2>6 DEF t
<1>3. \A w \in Nat : w \in T
  <2> HIDE DEF T
  <2> QED BY <1>1, <1>2, SetInduction
<1> QED BY <1>3

\* The lowest bit of an extended word, and the rest of it.
LEMMA ExtendedHalf ==
    ASSUME NEW k \in Nat \ {0}, NEW w \in Nat, k <= w, NEW v \in Words(k + 1)
    PROVE  /\ v \div 2 \in Words(k)
           /\ Extended(k + 1, w + 1, v) \in Nat
           /\ Extended(k + 1, w + 1, v) % 2 = v % 2
           /\ Extended(k + 1, w + 1, v) \div 2 = Extended(k, w, v \div 2)
           /\ Extended(k + 1, w + 1, v) = (v % 2) + 2 * Extended(k, w, v \div 2)
<1> DEFINE h == v \div 2
           r == v % 2
<1>1. h \in Nat /\ r \in {0, 1} /\ v = 2 * h + r
  BY HalfType DEF Words
<1>2. Pow2[k + 1] = 2 * Pow2[k] /\ Pow2[k] = 2 * Pow2[k - 1] /\ Pow2[w + 1] = 2 * Pow2[w]
  BY PowersOfTwo, PowersGrow
<1>3. Pow2[k - 1] \in Nat /\ Pow2[k] \in Nat /\ Pow2[w] \in Nat /\ Pow2[k] <= Pow2[w]
  <2>1. k - 1 \in Nat
    OBVIOUS
  <2>2. Pow2[k - 1] \in Nat /\ Pow2[k] \in Nat /\ Pow2[w] \in Nat
    BY <2>1, PowerType
  <2>3. k < w => 2 * Pow2[k] <= Pow2[w]
    BY PowersGrow
  <2>4. k = w \/ k < w
    OBVIOUS
  <2> QED BY <2>2, <2>3, <2>4
<1> HIDE DEF h, r
<1>4. h \in Words(k)
  BY <1>1, <1>2, <1>3 DEF Words
<1>5. Extended(k + 1, w + 1, v) = r + 2 * Extended(k, w, h) /\ Extended(k, w, h) \in Nat
  BY <1>1, <1>2, <1>3 DEF Extended
<1>6. \A x \in Nat : (r + 2 * x) % 2 = r /\ (r + 2 * x) \div 2 = x /\ r + 2 * x \in Nat
  BY <1>1
<1> QED BY <1>4, <1>5, <1>6 DEF h, r

\* A bitwise operator on two extended words gives the extended result.
LEMMA BitwiseExtended ==
    ASSUME NEW op \in BitOps
    PROVE  \A k \in Nat \ {0} : \A w \in Nat : k <= w =>
             \A a, b \in Words(k) :
               Bitwise[w][op][Extended(k, w, a)][Extended(k, w, b)]
                 = Extended(k, w, Bitwise[k][op][a][b])
<1> DEFINE Holds(k) == \A w \in Nat : k <= w =>
             \A a, b \in Words(k) :
               Bitwise[w][op][Extended(k, w, a)][Extended(k, w, b)]
                 = Extended(k, w, Bitwise[k][op][a][b])
           T == {k \in Nat : Holds(k + 1)}
<1>1. 0 \in T
  <2> SUFFICES ASSUME NEW w \in Nat, 1 <= w, NEW a \in Words(1), NEW b \in Words(1)
               PROVE  Bitwise[w][op][Extended(1, w, a)][Extended(1, w, b)]
                        = Extended(1, w, Bitwise[1][op][a][b])
    OBVIOUS
  <2>1. Pow2[0] = 1 /\ Pow2[1] = 2 /\ Pow2[w] \in Nat
    BY PowersOfTwo
  <2>2. a \in {0, 1} /\ b \in {0, 1}
    BY <2>1 DEF Words
  <2>3. \A v \in {0, 1} : Extended(1, w, v) = v * (Pow2[w] - 1)
    BY <2>1 DEF Extended
  <2>4. Bitwise[1][op][a][b] = OnBits(op, a, b) /\ OnBits(op, a, b) \in {0, 1}
    <3>1. 1 \in Nat \ {0}
      OBVIOUS
    <3>2. Bitwise[1][op][a][b] = OnBits(op, a, b)
      BY <2>2, <3>1, BitwiseBit
    <3> QED BY <3>2 DEF OnBits
  <2>5. Bitwise[w][op][a * (Pow2[w] - 1)][b * (Pow2[w] - 1)] = OnBits(op, a, b) * (Pow2[w] - 1)
    BY <2>2, BitwiseOfSigns
  <2> QED BY <2>2, <2>3, <2>4, <2>5
<1>2. ASSUME NEW n \in Nat, n \in T PROVE n + 1 \in T
  <2> DEFINE k == n + 1
  <2> SUFFICES ASSUME NEW x \in Nat, k + 1 <= x, NEW a \in Words(k + 1), NEW b \in Words(k + 1)
               PROVE  Bitwise[x][op][Extended(k + 1, x, a)][Extended(k + 1, x, b)]
                        = Extended(k + 1, x, Bitwise[k + 1][op][a][b])
    OBVIOUS
  <2> DEFINE w == x - 1
  <2>1. k \in Nat \ {0} /\ w \in Nat /\ k <= w /\ x = w + 1
    OBVIOUS
  <2>2. Holds(k)
    BY <1>2
  <2> DEFINE ah == a \div 2
             bh == b \div 2
             p == OnBits(op, a % 2, b % 2)
             q == Bitwise[k][op][ah][bh]
             A == Extended(k + 1, w + 1, a)
             C == Extended(k + 1, w + 1, b)
             v == Bitwise[k + 1][op][a][b]
  <2> HIDE DEF k, w, Holds
  <2>3. /\ ah \in Words(k) /\ A \in Nat /\ A % 2 = a % 2 /\ A \div 2 = Extended(k, w, ah)
        /\ bh \in Words(k) /\ C \in Nat /\ C % 2 = b % 2 /\ C \div 2 = Extended(k, w, bh)
    BY <2>1, ExtendedHalf
  <2>4. Bitwise[w][op][Extended(k, w, ah)][Extended(k, w, bh)] = Extended(k, w, q)
    <3> HIDE DEF ah, bh
    <3> QED BY <2>1, <2>2, <2>3 DEF Holds
  <2>5. a \in Nat /\ b \in Nat
    BY DEF Words
  <2>6. v = p + 2 * q
    <3>1. FromHalves(k, op, a, b)
      BY <2>1, <2>5, BitwiseIs
    <3> QED BY <3>1 DEF FromHalves
  <2>7. Bitwise[w + 1][op][A][C] = p + 2 * Extended(k, w, q)
    <3>1. Bitwise[w + 1][op][A][C] =
            OnBits(op, A % 2, C % 2) + 2 * Bitwise[w][op][A \div 2][C \div 2]
      <4> HIDE DEF A, C
      <4>1. FromHalves(w, op, A, C)
        BY <2>1, <2>3, BitwiseIs
      <4> QED BY <4>1 DEF FromHalves
    <3> HIDE DEF A, C, ah, bh, q
    <3> QED BY <3>1, <2>3, <2>4
  <2>8. p \in {0, 1} /\ q \in Nat
    <3>1. ah \in Nat /\ bh \in Nat
      BY <2>5, HalfType
    <3> HIDE DEF ah, bh
    <3> QED BY <2>1, <3>1, BitwiseIs DEF OnBits
  <2>9. v \in Words(k + 1)
    BY <2>1, <2>5, BitwiseType
  <2> HIDE DEF p, q, v
  <2>10. v % 2 = p /\ v \div 2 = q
    BY <2>6, <2>8
  <2>11. Extended(k + 1, w + 1, v) = p + 2 * Extended(k, w, q)
    BY <2>1, <2>9, <2>10, ExtendedHalf
  <2> QED BY <2>1, <2>7, <2>11 DEF v
<1>3. \A n \in Nat : n \in T
  <2> HIDE DEF T
  <2> QED BY <1>1, <1>2, SetInduction
<1>4. ASSUME NEW k \in Nat \ {0} PROVE Holds(k)
  <2>1. k - 1 \in Nat /\ (k - 1) + 1 = k
    OBVIOUS
  <2>2. k - 1 \in T
    BY <1>3, <2>1
  <2> HIDE DEF Holds
  <2> QED BY <2>1, <2>2
<1> QED BY <1>4

-----------------------------------------------------------------------------
(* Arithmetic modulo a power of two.                                       *)

\* x and y differ by a multiple of m.
Same(x, y, m) == x \in Int /\ y \in Int /\ \E k \in Int : x = y + k * m

\* The remainder of a multiple of m and a rest below m.
LEMMA RemainderIs ==
    ASSUME NEW m \in Nat \ {0}, NEW q \in Int, NEW r \in 0..m - 1
    PROVE  (q * m + r) % m = r
<1> DEFINE x == q * m + r
           d == x \div m
           s == x % m
<1>1. x \in Int
  OBVIOUS
<1> HIDE DEF x
<1>2. d \in Int /\ s \in 0..m - 1 /\ x = m * d + s
  BY <1>1
<1> HIDE DEF d, s
<1>3. m * (d - q) = r - s
  BY <1>2 DEF x
<1> DEFINE e == d - q
<1>4. e \in Int
  BY <1>2
<1> HIDE DEF e
<1>5. m * e = r - s /\ -m < r - s /\ r - s < m
  BY <1>2, <1>3 DEF e
<1>6. e = 0
  <2>1. CASE e >= 1
    <3>1. m * e >= m
      BY <1>4, <2>1
    <3> QED BY <3>1, <1>2, <1>5
  <2>2. CASE e <= -1
    <3>1. m * e <= -m
      BY <1>4, <2>2
    <3> QED BY <3>1, <1>2, <1>5
  <2> QED BY <1>4, <2>1, <2>2
<1>7. r = s
  BY <1>2, <1>5, <1>6
<1> QED BY <1>7 DEF s, x

\* Numbers that are the same modulo m have one remainder.
LEMMA SameRemainder ==
    ASSUME NEW m \in Nat \ {0}, NEW x, NEW y, Same(x, y, m)
    PROVE  x % m = y % m
<1>1. PICK k \in Int : x = y + k * m
  BY DEF Same
<1>2. x \in Int /\ y \in Int
  BY DEF Same
<1> DEFINE q == y \div m
           r == y % m
<1>3. q \in Int /\ r \in 0..m - 1 /\ y = m * q + r
  BY <1>2
<1> HIDE DEF q, r
<1>4. x = (q + k) * m + r /\ q + k \in Int
  BY <1>1, <1>3
<1>5. x % m = r
  BY <1>3, <1>4, RemainderIs
<1> QED BY <1>5 DEF r

\* A number is the same as itself.
LEMMA SameRefl == ASSUME NEW m \in Nat, NEW x \in Int PROVE Same(x, x, m)
<1>1. x = x + 0 * m
  OBVIOUS
<1> QED BY <1>1 DEF Same

\* A number is the same as the number less m.
LEMMA SameByOne == ASSUME NEW m \in Nat, NEW x \in Int PROVE Same(x - m, x, m)
<1>1. x - m = x + (-1) * m /\ -1 \in Int /\ x - m \in Int
  OBVIOUS
<1> QED BY <1>1 DEF Same

\* A number is the same as its remainder.
LEMMA SameAsRemainder ==
    ASSUME NEW m \in Nat \ {0}, NEW x \in Int PROVE Same(x % m, x, m)
<1> DEFINE q == x \div m
<1>1. q \in Int /\ x % m \in Int /\ x = m * q + (x % m)
  OBVIOUS
<1> HIDE DEF q
<1>2. x % m = x + (-q) * m /\ -q \in Int
  BY <1>1
<1> QED BY <1>1, <1>2 DEF Same

\* Sums of numbers that are the same are the same.
LEMMA SameSum ==
    ASSUME NEW m \in Nat, NEW a, NEW b, NEW x, NEW y, Same(a, x, m), Same(b, y, m)
    PROVE  Same(a + b, x + y, m)
<1>1. a \in Int /\ b \in Int /\ x \in Int /\ y \in Int
  BY DEF Same
<1>2. PICK k \in Int, j \in Int : a = x + k * m /\ b = y + j * m
  BY DEF Same
<1>3. a + b = (x + y) + (k + j) * m /\ k + j \in Int /\ a + b \in Int /\ x + y \in Int
  BY <1>1, <1>2
<1> HIDE <1>2
<1> QED BY <1>1, <1>3 DEF Same

\* So are differences,
LEMMA SameDifference ==
    ASSUME NEW m \in Nat, NEW a, NEW b, NEW x, NEW y, Same(a, x, m), Same(b, y, m)
    PROVE  Same(a - b, x - y, m)
<1>1. a \in Int /\ b \in Int /\ x \in Int /\ y \in Int
  BY DEF Same
<1>2. PICK k \in Int, j \in Int : a = x + k * m /\ b = y + j * m
  BY DEF Same
<1>3. a - b = (x - y) + (k - j) * m /\ k - j \in Int /\ a - b \in Int /\ x - y \in Int
  BY <1>1, <1>2
<1> HIDE <1>2
<1> QED BY <1>1, <1>3 DEF Same

\* and products.
LEMMA SameProduct ==
    ASSUME NEW m \in Nat, NEW a, NEW b, NEW x, NEW y, Same(a, x, m), Same(b, y, m)
    PROVE  Same(a * b, x * y, m)
<1>1. a \in Int /\ b \in Int /\ x \in Int /\ y \in Int
  BY DEF Same
<1>2. PICK k \in Int, j \in Int : a = x + k * m /\ b = y + j * m
  BY DEF Same
<1>3. a * b = x * y + (x * j + k * y + k * j * m) * m
  BY <1>1, <1>2
<1>4. x * j + k * y + k * j * m \in Int /\ a * b \in Int /\ x * y \in Int
  BY <1>1
<1> QED BY <1>3, <1>4 DEF Same

-----------------------------------------------------------------------------
(* Words.                                                                  *)

\* A word read as two's complement, and a number written as a word.
LEMMA SignedIs ==
    ASSUME NEW w \in Nat \ {0}, NEW v \in Words(w)
    PROVE  /\ Signed(v, w) \in Int
           /\ Same(Signed(v, w), v, Pow2[w])
           /\ (Signed(v, w) = 0) = (v = 0)
           /\ Signed(v, w) >= 0 => Signed(v, w) = v
<1>1. w - 1 \in Nat /\ Pow2[w] \in Nat /\ Pow2[w - 1] \in Nat /\ Pow2[w - 1] >= 1 /\ v \in Int
  BY PowerType DEF Words
<1>2. Same(v, v, Pow2[w]) /\ Same(v - Pow2[w], v, Pow2[w])
  BY <1>1, SameRefl, SameByOne
<1> QED BY <1>1, <1>2 DEF Signed, Words

\* What wrapping a number to w bits gives.
LEMMA UnsignedIs ==
    ASSUME NEW w \in Nat, NEW n \in Int
    PROVE  /\ Unsigned(n, w) \in Words(w)
           /\ Unsigned(n, w) \in Int
           /\ Same(Unsigned(n, w), n, Pow2[w])
           /\ n \in Words(w) => Unsigned(n, w) = n
<1>1. Pow2[w] \in Nat \ {0}
  BY PowerType
<1>2. \A m \in Nat \ {0} : n % m \in 0..m - 1 /\ (n \in 0..m - 1 => n % m = n)
  OBVIOUS
<1>3. Same(n % Pow2[w], n, Pow2[w])
  BY <1>1, SameAsRemainder
<1> QED BY <1>1, <1>2, <1>3 DEF Unsigned, Words

\* Numbers that are the same wrap to one word.
LEMMA SameUnsigned ==
    ASSUME NEW w \in Nat, NEW x, NEW y, Same(x, y, Pow2[w])
    PROVE  Unsigned(x, w) = Unsigned(y, w)
<1>1. Pow2[w] \in Nat \ {0}
  BY PowerType
<1> QED BY <1>1, SameRemainder DEF Unsigned

\* The quotient is a number.
LEMMA QuotType ==
    ASSUME NEW n \in Int, NEW d \in Int \ {0} PROVE Quot(n, d) \in Int
<1>1. Abs(n) \in Nat /\ Abs(d) \in Nat \ {0}
  BY DEF Abs
<1>2. \A x \in Nat, y \in Nat \ {0} : x \div y \in Int
  OBVIOUS
<1> QED BY <1>1, <1>2 DEF Quot

-----------------------------------------------------------------------------
(* The arithmetic of C and of LLVM.                                        *)

\* So is what sdiv gives,
LEMMA SDivType ==
    ASSUME NEW w \in Nat \ {0}, NEW a \in Words(w), NEW b \in Int
    PROVE  SDiv(a, b, w) \in Int
<1> DEFINE v == Unsigned(b, w)
<1>1. v \in Words(w)
  BY UnsignedIs
<1>2. CASE v = 0
  BY <1>2 DEF SDiv
<1>3. CASE v # 0
  <2> HIDE DEF v
  <2>1. Signed(a, w) \in Int /\ Signed(v, w) \in Int \ {0}
    BY <1>1, <1>3, SignedIs
  <2>2. Quot(Signed(a, w), Signed(v, w)) \in Int
    BY <2>1, QuotType
  <2>3. Unsigned(Quot(Signed(a, w), Signed(v, w)), w) \in Int
    BY <2>2, UnsignedIs
  <2> QED BY <1>3, <2>3 DEF SDiv, v
<1> QED BY <1>2, <1>3

\* what the shifts give,
LEMMA ShiftType ==
    ASSUME NEW a \in Int, NEW b \in Nat
    PROVE  a \div Pow2[b] \in Int /\ a * Pow2[b] \in Int
<1>1. Pow2[b] \in Nat \ {0}
  BY PowerType
<1>2. \A m \in Nat \ {0} : a \div m \in Int /\ a * m \in Int
  OBVIOUS
<1> QED BY <1>1, <1>2

\* and what any instruction of an arithmetic operator gives.
LEMMA OArithType ==
    ASSUME NEW op \in ArithOps, NEW w \in Nat \ {0}, NEW a \in Words(w), NEW b \in Nat
    PROVE  OArith(op, a, b, w) \in Int
<1>1. a \in Nat
  BY DEF Words
<1>2. SDiv(a, b, w) \in Int
  BY SDivType
<1>3. /\ Unsigned(a + b, w) \in Int /\ Unsigned(a - b, w) \in Int
      /\ Unsigned(a * b, w) \in Int /\ Unsigned(a * Pow2[b], w) \in Int
      /\ Unsigned(a - b * SDiv(a, b, w), w) \in Int
  <2>1. a + b \in Int /\ a - b \in Int /\ a * b \in Int
    BY <1>1
  <2>2. a * Pow2[b] \in Int
    BY <1>1, ShiftType
  <2>3. a - b * SDiv(a, b, w) \in Int
    BY <1>1, <1>2
  <2> QED BY <2>1, <2>2, <2>3, UnsignedIs
<1>4. a \div Pow2[b] \in Int
  BY <1>1, ShiftType
<1>5. op \in BitOps => Bitwise[w][op][a][b] \in Int
  BY <1>1, BitwiseIs
<1> HIDE DEF BitOps
<1>6. /\ "+" \notin BitOps /\ "-" \notin BitOps /\ "*" \notin BitOps /\ "/" \notin BitOps
      /\ "%" \notin BitOps /\ "<<" \notin BitOps /\ ">>" \notin BitOps
      /\ ArithOps = {"+", "-", "*", "/", "%", "<<", ">>"} \cup BitOps
  BY DEF BitOps, ArithOps
<1> QED BY <1>2, <1>3, <1>4, <1>5, <1>6 DEF OArith, Remainder, ShiftRight


\* On words of one width the instructions compute what C says: everything
\* but >>, which is logical, of a negative number.
LEMMA ArithAgrees ==
    ASSUME NEW op \in ArithOps, NEW w \in Nat \ {0}, NEW a \in Words(w), NEW b \in Words(w),
           op = ">>" => Signed(a, w) >= 0
    PROVE  CArith(op, a, b, w) = OArith(op, a, b, w)
<1> DEFINE n == Signed(a, w)
           d == Signed(b, w)
           m == Pow2[w]
<1>1. a \in Nat /\ b \in Nat /\ m \in Nat
  BY PowerType DEF Words
<1>2. n \in Int /\ d \in Int /\ Same(n, a, m) /\ Same(d, b, m) /\ (d = 0) = (b = 0) /\ (n >= 0 => n = a)
  BY SignedIs
<1>3. CASE Meaningless(op, a, b, w)
  BY <1>3 DEF CArith, OArith
<1> SUFFICES ASSUME ~Meaningless(op, a, b, w) PROVE CArith(op, a, b, w) = OArith(op, a, b, w)
  BY <1>3
<1> HIDE DEF n, d, m
<1>4. CASE op = "+"
  <2>1. Unsigned(n + d, w) = Unsigned(a + b, w)
    BY <1>1, <1>2, SameSum, SameUnsigned DEF m
  <2> QED BY <1>4, <2>1 DEF CArith, OArith, n, d
<1>5. CASE op = "-"
  <2>1. Unsigned(n - d, w) = Unsigned(a - b, w)
    BY <1>1, <1>2, SameDifference, SameUnsigned DEF m
  <2> QED BY <1>5, <2>1 DEF CArith, OArith, n, d
<1>6. CASE op = "*"
  <2>1. Unsigned(n * d, w) = Unsigned(a * b, w)
    BY <1>1, <1>2, SameProduct, SameUnsigned DEF m
  <2> QED BY <1>6, <2>1 DEF CArith, OArith, n, d
<1>7. CASE op = "/" \/ op = "%"
  <2>1. Unsigned(b, w) = b
    BY <1>1, UnsignedIs
  <2>2. b # 0
    BY <1>7 DEF Meaningless, Traps
  <2>3. SDiv(a, b, w) = Unsigned(Quot(n, d), w)
    BY <2>1, <2>2 DEF SDiv, n, d
  <2> DEFINE q == Quot(n, d)
  <2>4. q \in Int
    BY <1>2, <2>2, QuotType
  <2> HIDE DEF q
  <2>5. Same(Unsigned(q, w), q, m)
    BY <2>4, UnsignedIs DEF m
  <2>6. Same(n, a, m) /\ Same(d * q, b * Unsigned(q, w), m)
    <3>1. Same(q, Unsigned(q, w), m)
      <4>1. PICK k \in Int : Unsigned(q, w) = q + k * m
        BY <2>5 DEF Same
      <4>2. q = Unsigned(q, w) + (-k) * m /\ -k \in Int
        BY <1>1, <2>4, <4>1
      <4>3. Unsigned(q, w) \in Int
        BY <2>4, UnsignedIs
      <4> QED BY <2>4, <4>2, <4>3 DEF Same
    <3> QED BY <1>1, <1>2, <3>1, SameProduct
  <2>7. Unsigned(n - d * q, w) = Unsigned(a - b * Unsigned(q, w), w)
    BY <1>1, <2>6, SameDifference, SameUnsigned DEF m
  <2> QED BY <1>7, <2>3, <2>7 DEF CArith, OArith, Remainder, n, d, q
<1>8. CASE op = "<<"
  <2>1. Pow2[b] \in Int
    BY <1>1, PowerType
  <2>2. Same(Pow2[b], Pow2[b], m)
    BY <1>1, <2>1, SameRefl
  <2>3. Unsigned(n * Pow2[b], w) = Unsigned(a * Pow2[b], w)
    BY <1>1, <1>2, <2>2, SameProduct, SameUnsigned DEF m
  <2> QED BY <1>8, <2>3 DEF CArith, OArith, n
<1>9. CASE op = ">>"
  <2>1. n = a
    BY <1>2, <1>9 DEF n
  <2>2. a \div Pow2[b] \in Words(w)
    <3>1. Pow2[b] \in Nat \ {0}
      BY <1>1, PowerType
    <3>2. \A e \in Nat \ {0} : a \div e \in Nat /\ a \div e <= a
      BY <1>1
    <3> QED BY <3>1, <3>2, <1>1 DEF Words, m
  <2>3. Unsigned(a \div Pow2[b], w) = a \div Pow2[b]
    <3>1. a \div Pow2[b] \in Int
      BY <2>2 DEF Words
    <3> QED BY <2>2, <3>1, UnsignedIs
  <2> QED BY <1>9, <2>1, <2>3 DEF CArith, OArith, ShiftRight, n
<1>10. CASE op \in BitOps
  <2>1. CArith(op, a, b, w) = Bitwise[w][op][a][b] /\ OArith(op, a, b, w) = Bitwise[w][op][a][b]
    BY <1>10 DEF CArith, OArith, BitOps
  <2> QED BY <2>1
<1> QED BY <1>4, <1>5, <1>6, <1>7, <1>8, <1>9, <1>10 DEF ArithOps, BitOps

\* What C computes on two words is a word.
LEMMA CArithType ==
    ASSUME NEW op \in ArithOps, NEW w \in Nat \ {0}, NEW a \in Words(w), NEW b \in Words(w)
    PROVE  CArith(op, a, b, w) \in Words(w)
<1> DEFINE n == Signed(a, w)
           d == Signed(b, w)
<1>1. a \in Nat /\ b \in Nat /\ n \in Int /\ d \in Int /\ ((d = 0) = (b = 0))
  BY SignedIs DEF Words
<1>2. 0 \in Words(w)
  BY PowerType DEF Words
<1>3. CASE Meaningless(op, a, b, w)
  BY <1>2, <1>3 DEF CArith
<1> SUFFICES ASSUME ~Meaningless(op, a, b, w) PROVE CArith(op, a, b, w) \in Words(w)
  BY <1>3
<1>4. CASE op \in BitOps
  <2>1. CArith(op, a, b, w) = Bitwise[w][op][a][b]
    BY <1>4 DEF CArith, BitOps
  <2> QED BY <1>1, <1>4, <2>1, BitwiseType
<1> HIDE DEF n, d
<1>5. CASE op \notin BitOps
  <2>1. n * Pow2[b] \in Int /\ n \div Pow2[b] \in Int
    BY <1>1, ShiftType
  <2>2. CASE op = "+"
    <3>1. CArith(op, a, b, w) = Unsigned(n + d, w)
      BY <2>2 DEF CArith, BitOps, n, d
    <3> QED BY <1>1, <3>1, UnsignedIs
  <2>3. CASE op = "-"
    <3>1. CArith(op, a, b, w) = Unsigned(n - d, w)
      BY <2>3 DEF CArith, BitOps, n, d
    <3> QED BY <1>1, <3>1, UnsignedIs
  <2>4. CASE op = "*"
    <3>1. CArith(op, a, b, w) = Unsigned(n * d, w)
      BY <2>4 DEF CArith, BitOps, n, d
    <3>2. n * d \in Int
      BY <1>1
    <3> QED BY <3>1, <3>2, UnsignedIs
  <2>5. CASE op = "/" \/ op = "%"
    <3>1. b # 0
      BY <2>5 DEF Meaningless, Traps
    <3>2. Quot(n, d) \in Int
      BY <1>1, <3>1, QuotType
    <3>3. n - d * Quot(n, d) \in Int
      BY <1>1, <3>2
    <3>4. op = "/" => CArith(op, a, b, w) = Unsigned(Quot(n, d), w)
      BY DEF CArith, BitOps, n, d
    <3>5. op = "%" => CArith(op, a, b, w) = Unsigned(n - d * Quot(n, d), w)
      BY DEF CArith, BitOps, n, d
    <3> QED BY <2>5, <3>2, <3>3, <3>4, <3>5, UnsignedIs
  <2>6. CASE op = "<<"
    <3>1. CArith(op, a, b, w) = Unsigned(n * Pow2[b], w)
      BY <2>6 DEF CArith, BitOps, n
    <3> QED BY <2>1, <3>1, UnsignedIs
  <2>7. CASE op = ">>"
    <3>1. CArith(op, a, b, w) = Unsigned(n \div Pow2[b], w)
      BY <2>7 DEF CArith, BitOps, n
    <3> QED BY <2>1, <3>1, UnsignedIs
  <2> QED BY <1>5, <2>2, <2>3, <2>4, <2>5, <2>6, <2>7 DEF ArithOps, BitOps
<1> QED BY <1>4, <1>5

-----------------------------------------------------------------------------
(* The inductive invariant.                                                *)

\* What a dispatch returns.  Only an identifier has a name, and it is an int.
Results == [id : Vars \cup {NoVar}, src : Words(W), ty : Types \ {"i64"},
            val : Nat, const : BOOLEAN]
Values  == {r \in Results : /\ r.val \in Words(Bits(r.ty))
                            /\ r.id # NoVar => r.ty = "i32"}
Lefts   == {<< >>} \cup {<<r>> : r \in Values}

OpsOf(kind) ==
    CASE kind = "stmt"    -> {""}
      [] kind = "paren"   -> {"()"}
      [] kind = "unary"   -> UnaryOps
      [] kind = "prefix"  -> StepOps
      [] kind = "postfix" -> StepOps
      [] kind = "arith"   -> ArithOps
      [] kind = "compare" -> CondOps
      [] kind = "logic"   -> LogicOps
      [] kind = "assign"  -> AssignOps
      [] kind = "call"    -> {"func", "proc"}
Ops == {"", "()", "func", "proc"} \cup UnaryOps \cup StepOps \cup AssignOps
         \cup CondOps \cup LogicOps

Methods == {f \in [kind : Kinds, op : Ops, live : BOOLEAN, right : BOOLEAN, left : Lefts] :
              f.op \in OpsOf(f.kind)}

Differences == {"narrow", "prefix", "skipped", "mixed", "shift", "select",
                "narrowStore", "literal"}

FlowTyped ==
    /\ phase \in {"rest", "down", "up", "crashed", "asserted"}
    /\ frames \in Seq(Methods)
    /\ \A i \in 1..Len(frames) : (frames[i].kind = "stmt") = (i = 1)
    /\ phase \in {"down", "up"} => frames # << >>
    /\ phase = "rest" => frames = << >>
    /\ ret \in Values

Typed ==
    /\ FlowTyped
    /\ smem \in [Vars -> Words(W)] /\ omem \in [Vars -> Words(W)]
    /\ sout \in Seq(Nat) /\ oout \in Seq(Nat)
    /\ logged \in BOOLEAN /\ rejected \in BOOLEAN
    /\ sUndef \in BOOLEAN /\ oTrap \in BOOLEAN
    /\ odd \subseteq Differences
    /\ used \subseteq Sorts
    /\ cost \in 0..MaxCost /\ nStmts \in 0..MaxStmts

\* Why a value is not an int, by the sorts u of nodes met and by whether an
\* error was logged.
Justified(r, u, log) ==
    /\ r.ty = "i1" => u \cap {"compare", "logic", "!"} # {}
    /\ r.ty = "i8" => "char" \in u
    /\ r.ty = "null" => log \/ "proc" \in u

FlowJustified ==
    /\ phase = "up" => Justified(ret, used, logged)
    /\ \A i \in 1..Len(frames) :
         /\ {frames[i].kind, frames[i].op} \cap Sorts \subseteq used
         /\ frames[i].left # << >> => Justified(frames[i].left[1], used, logged)

Explained == FlowJustified /\ CrashExplained /\ RejectionExplained

\* The llvm::Value of a result stands for what C says its value is.
Agrees(r) ==
    /\ r.ty = "i1" => r.src = r.val
    /\ r.ty = "i8" => r.src = Extended(B, W, r.val)
    /\ r.ty \in {"i32", "null"} => r.src = r.val

FlowAgrees ==
    /\ Agrees(ret)
    /\ \A i \in 1..Len(frames) : frames[i].left # << >> => Agrees(frames[i].left[1])

Agreement == Faithful => FlowAgrees /\ smem = omem /\ sout = oout /\ ~oTrap

-----------------------------------------------------------------------------
(* Values.                                                                 *)

\* What the assumption on the two widths says about their powers.
LEMMA WidthFacts ==
    /\ W \in Nat \ {0} /\ B \in Nat \ {0} /\ 1 < B /\ B < W
    /\ \A ty \in {"i1", "i8", "i32", "null"} : Bits(ty) \in Nat \ {0} /\ Bits(ty) <= W
    /\ Pow2[B] \in Nat /\ Pow2[W] \in Nat /\ Pow2[B - 1] \in Nat /\ Pow2[W - 1] \in Nat
    /\ Pow2[B - 1] >= 2 /\ Pow2[B] = 2 * Pow2[B - 1] /\ Pow2[W] = 2 * Pow2[W - 1]
    /\ Pow2[B] <= Pow2[W - 1]
    /\ 0 \in Words(W) /\ 1 \in Words(W)
<1>1. W \in Nat \ {0} /\ B \in Nat \ {0} /\ 1 < B /\ B < W
  BY WidthsAreSane
<1>2. B - 1 \in Nat /\ W - 1 \in Nat /\ 0 \in Nat /\ 0 < B - 1
  BY <1>1
<1>3. Pow2[B] \in Nat /\ Pow2[W] \in Nat /\ Pow2[B - 1] \in Nat /\ Pow2[W - 1] \in Nat
  BY <1>1, <1>2, PowerType
<1>4. Pow2[B] = 2 * Pow2[B - 1] /\ Pow2[W] = 2 * Pow2[W - 1]
  BY <1>1, PowersGrow
<1>5. 2 * Pow2[0] <= Pow2[B - 1] /\ 2 * Pow2[B] <= Pow2[W]
  BY <1>1, <1>2, PowersGrow
<1>6. Pow2[B - 1] >= 2 /\ Pow2[B] <= Pow2[W - 1]
  BY <1>3, <1>4, <1>5, FirstPowers
<1>7. \A ty \in {"i1", "i8", "i32", "null"} : Bits(ty) \in Nat \ {0} /\ Bits(ty) <= W
  BY <1>1 DEF Bits
<1>8. 0 \in Words(W) /\ 1 \in Words(W)
  BY <1>3, <1>4, <1>6 DEF Words
<1> QED BY <1>1, <1>3, <1>4, <1>6, <1>7, <1>8

\* The widths of the types.
LEMMA BitsOf ==
    Bits("i1") = 1 /\ Bits("i8") = B /\ Bits("i32") = W /\ Bits("null") = W
BY DEF Bits

ValueTypes == {"i1", "i8", "i32", "null"}

\* No dispatch returns an i64.
LEMMA ValueTypesAre == ValueTypes = Types \ {"i64"}
BY DEF ValueTypes, Types

\* The parts of a value.
LEMMA ValueFields ==
    ASSUME NEW r \in Values
    PROVE  /\ r.src \in Words(W) /\ r.src \in Nat
           /\ r.val \in Words(Bits(r.ty)) /\ r.val \in Nat
           /\ r.ty \in ValueTypes /\ r.const \in BOOLEAN
           /\ r.id \in Vars \cup {NoVar}
           /\ r.id # NoVar => r.ty = "i32"
BY DEF Values, Results, Words, ValueTypes, Types

\* Result makes a value, without a name.
LEMMA ResultIs ==
    ASSUME NEW src \in Words(W), NEW ty \in ValueTypes, NEW val \in Int, NEW const \in BOOLEAN
    PROVE  LET r == Result(src, ty, val, const)
           IN  /\ r \in Values
               /\ r.id = NoVar /\ r.src = src /\ r.ty = ty
               /\ r.val = Unsigned(val, Bits(ty))
<1>1. Bits(ty) \in Nat
  BY WidthFacts DEF ValueTypes
<1>2. Unsigned(val, Bits(ty)) \in Words(Bits(ty)) /\ Unsigned(val, Bits(ty)) \in Nat
  <2>1. Unsigned(val, Bits(ty)) \in Words(Bits(ty)) /\ Unsigned(val, Bits(ty)) \in Int
    BY <1>1, UnsignedIs
  <2>2. Pow2[Bits(ty)] \in Nat
    BY <1>1, PowerType
  <2> QED BY <2>1, <2>2 DEF Words
<1> QED BY <1>2 DEF Result, Values, Results, ValueTypes, Types

\* An extended word, and what it is as a number.
LEMMA ExtendedIs ==
    ASSUME NEW v \in Words(B)
    PROVE  /\ Extended(B, W, v) \in Words(W)
           /\ (Extended(B, W, v) = 0) = (v = 0)
           /\ Signed(Extended(B, W, v), W) = Signed(v, B)
BY WidthFacts DEF Extended, Words, Signed

\* A char literal.
LEMMA CharAgrees ==
    ASSUME NEW c \in -Pow2[B - 1]..Pow2[B - 1] - 1
    PROVE  /\ c \in Int
           /\ Unsigned(c, W) = Extended(B, W, Unsigned(c, B))
<1>1. c \in Int
  OBVIOUS
<1>2. CASE c >= 0
  <2>1. c \in Words(B) /\ c \in Words(W) /\ c < Pow2[B - 1]
    BY <1>2, WidthFacts DEF Words
  <2>2. Unsigned(c, W) = c /\ Unsigned(c, B) = c
    BY <2>1, UnsignedIs, WidthFacts
  <2> QED BY <1>1, <2>1, <2>2 DEF Extended
<1>3. CASE c < 0
  <2> DEFINE x == c + Pow2[B]
             y == c + Pow2[W]
  <2>1. x \in Words(B) /\ y \in Words(W) /\ ~(x < Pow2[B - 1]) /\ y = x + (Pow2[W] - Pow2[B]) /\ x \in Int /\ y \in Int
    BY <1>3, WidthFacts DEF Words
  <2>2. c = x - Pow2[B] /\ c = y - Pow2[W]
    BY WidthFacts
  <2> HIDE DEF x, y
  <2>3. Same(c, x, Pow2[B]) /\ Same(c, y, Pow2[W])
    BY <2>1, <2>2, SameByOne, WidthFacts
  <2>4. Unsigned(c, B) = x
    BY <2>1, <2>3, SameUnsigned, UnsignedIs, WidthFacts
  <2>5. Unsigned(c, W) = y
    BY <2>1, <2>3, SameUnsigned, UnsignedIs, WidthFacts
  <2> QED BY <1>1, <2>1, <2>4, <2>5 DEF Extended
<1> QED BY <1>1, <1>2, <1>3

\* Only zero stands for zero.
LEMMA ZeroAgrees ==
    ASSUME NEW r \in Values, Agrees(r)
    PROVE  (r.src = 0) = (r.val = 0)
<1>1. CASE r.ty = "i8"
  BY <1>1, ValueFields, BitsOf, ExtendedIs DEF Agrees
<1>2. CASE r.ty # "i8"
  BY <1>2, ValueFields DEF Agrees, ValueTypes
<1> QED BY <1>1, <1>2

\* Signed values of one type compare as the numbers of C do; two bits are
\* only alike or not.
LEMMA CompareAgrees ==
    ASSUME NEW op \in CondOps, NEW l \in Values, NEW r \in Values, Agrees(l), Agrees(r),
           l.ty = r.ty, l.ty = "i1" => op \in {"==", "!="}
    PROVE  CCompare(op, l.src, r.src, W) = CCompare(op, l.val, r.val, Bits(l.ty))
<1>1. CASE l.ty = "i8"
  <2>1. Signed(l.src, W) = Signed(l.val, B) /\ Signed(r.src, W) = Signed(r.val, B)
    BY <1>1, ValueFields, BitsOf, ExtendedIs DEF Agrees
  <2> QED BY <1>1, <2>1, BitsOf DEF CCompare
<1>2. CASE l.ty = "i1"
  <2>1. l.src \in {0, 1} /\ r.src \in {0, 1} /\ l.val = l.src /\ r.val = r.src
    <3>1. l.val \in Words(1) /\ r.val \in Words(1) /\ l.val = l.src /\ r.val = r.src
      BY <1>2, ValueFields, BitsOf DEF Agrees
    <3> QED BY <3>1, FirstPowers DEF Words
  <2>2. Signed(0, W) = 0 /\ Signed(1, W) = 1
    BY WidthFacts DEF Signed
  <2>3. Signed(0, 1) = 0 /\ Signed(1, 1) = -1
    <3>1. 1 - 1 = 0
      OBVIOUS
    <3> QED BY <3>1, FirstPowers DEF Signed
  <2>4. Bits(l.ty) = 1
    BY <1>2, BitsOf
  <2>5. (Signed(l.src, W) = Signed(r.src, W)) = (Signed(l.val, 1) = Signed(r.val, 1))
    BY <2>1, <2>2, <2>3
  <2>6. op = "==" \/ op = "!="
    BY <1>2
  <2> QED BY <2>4, <2>5, <2>6 DEF CCompare
<1>3. CASE l.ty \in {"i32", "null"}
  <2>1. l.src = l.val /\ r.src = r.val /\ Bits(l.ty) = W
    BY <1>3, BitsOf DEF Agrees
  <2> QED BY <2>1
<1>4. l.ty \in ValueTypes
  BY ValueFields
<1> QED BY <1>1, <1>2, <1>3, <1>4 DEF ValueTypes

\* A bitwise operator on two values of one type.
LEMMA BitwiseAgrees ==
    ASSUME NEW op \in BitOps, NEW l \in Values, NEW r \in Values, Agrees(l), Agrees(r),
           l.ty = r.ty
    PROVE  /\ Bitwise[Bits(l.ty)][op][l.val][r.val] \in Words(Bits(l.ty))
           /\ LET src == Bitwise[W][op][l.src][r.src]
                  val == Bitwise[Bits(l.ty)][op][l.val][r.val]
              IN  /\ l.ty = "i1" => src = val
                  /\ l.ty = "i8" => src = Extended(B, W, val)
                  /\ l.ty \in {"i32", "null"} => src = val
<1>1. Bitwise[Bits(l.ty)][op][l.val][r.val] \in Words(Bits(l.ty))
  <2>1. Bits(l.ty) \in Nat /\ l.val \in Nat /\ r.val \in Nat
    BY ValueFields, WidthFacts DEF ValueTypes
  <2> QED BY <2>1, BitwiseType
<1>2. CASE l.ty = "i8"
  <2>1. l.src = Extended(B, W, l.val) /\ r.src = Extended(B, W, r.val)
    BY <1>2 DEF Agrees
  <2>2. l.val \in Words(B) /\ r.val \in Words(B)
    BY <1>2, ValueFields, BitsOf
  <2>3. B \in Nat \ {0} /\ W \in Nat /\ B <= W
    BY WidthFacts
  <2>4. Bitwise[W][op][Extended(B, W, l.val)][Extended(B, W, r.val)] = Extended(B, W, Bitwise[B][op][l.val][r.val])
    BY <2>2, <2>3, BitwiseExtended
  <2> QED BY <1>1, <1>2, <2>1, <2>4, BitsOf
<1>3. CASE l.ty = "i1"
  <2>1. l.src \in {0, 1} /\ r.src \in {0, 1} /\ l.val = l.src /\ r.val = r.src
    <3>1. l.val \in Words(1) /\ r.val \in Words(1) /\ l.val = l.src /\ r.val = r.src
      BY <1>3, ValueFields, BitsOf DEF Agrees
    <3> QED BY <3>1, FirstPowers DEF Words
  <2>2. Bitwise[W][op][l.src][r.src] = OnBits(op, l.src, r.src)
    BY <2>1, BitwiseBit, WidthFacts
  <2>3. Bitwise[1][op][l.src][r.src] = OnBits(op, l.src, r.src)
    <3>1. 1 \in Nat \ {0}
      OBVIOUS
    <3> QED BY <2>1, <3>1, BitwiseBit
  <2> QED BY <1>1, <1>3, <2>1, <2>2, <2>3, BitsOf
<1>4. CASE l.ty \in {"i32", "null"}
  <2>1. l.src = l.val /\ r.src = r.val /\ Bits(l.ty) = W
    BY <1>4, BitsOf DEF Agrees
  <2> QED BY <1>1, <1>4, <2>1
<1>5. l.ty \in ValueTypes
  BY ValueFields
<1> QED BY <1>1, <1>2, <1>3, <1>4, <1>5 DEF ValueTypes

-----------------------------------------------------------------------------
(* The stack of methods.                                                   *)

\* The innermost method, and the stack below it.
LEMMA StackFacts ==
    ASSUME FlowTyped, frames # << >>
    PROVE  /\ Len(frames) \in Nat \ {0}
           /\ Top \in Methods
           /\ (Top.kind = "stmt") = (Len(frames) = 1)
           /\ Below \in Seq(Methods)
           /\ Len(Below) = Len(frames) - 1
           /\ \A i \in 1..Len(frames) - 1 : Below[i] = frames[i]
<1>1. frames \in Seq(Methods) /\ Len(frames) \in Nat \ {0}
  BY DEF FlowTyped
<1> DEFINE n == Len(frames)
<1>2. n \in 1..n
  BY <1>1
<1>3. Below \in Seq(Methods) /\ Len(Below) = n - 1 /\ \A i \in 1..n - 1 : Below[i] = frames[i]
  BY <1>1 DEF Below
<1> QED BY <1>1, <1>2, <1>3 DEF FlowTyped, Top

\* The parts of a frame.
LEMMA MethodFields ==
    ASSUME NEW f \in Methods
    PROVE  /\ f.kind \in Kinds /\ f.op \in OpsOf(f.kind)
           /\ f.live \in BOOLEAN /\ f.right \in BOOLEAN
           /\ f.left = << >> \/ \E r \in Values : f.left = <<r>>
           /\ f.left # << >> => f.left[1] \in Values /\ Len(f.left) = 1
           /\ Len(f.left) \in 0..1
<1>1. f.kind \in Kinds /\ f.op \in OpsOf(f.kind) /\ f.live \in BOOLEAN /\ f.right \in BOOLEAN /\ f.left \in Lefts
  BY DEF Methods
<1>2. \A r : <<r>> # << >> /\ <<r>>[1] = r /\ Len(<<r>>) = 1
  OBVIOUS
<1>3. Len(<< >>) = 0
  OBVIOUS
<1> QED BY <1>1, <1>2, <1>3 DEF Lefts

\* A method that returns leaves a stack of methods,
LEMMA ReturnTyped ==
    ASSUME FlowTyped, frames # << >>, Top.kind # "stmt", NEW r \in Values, Return(r)
    PROVE  FlowTyped'
<1>1. Len(frames) \in Nat /\ Len(frames) > 1
  BY StackFacts
<1>2. frames' \in Seq(Methods) /\ Len(frames') = Len(frames) - 1
      /\ \A i \in 1..Len(frames) - 1 : frames'[i] = frames[i]
  BY StackFacts DEF Return
<1>3. \A i \in 1..Len(frames') : (frames'[i].kind = "stmt") = (i = 1)
  BY <1>1, <1>2 DEF FlowTyped
<1>4. frames' # << >>
  BY <1>1, <1>2
<1> QED BY <1>2, <1>3, <1>4 DEF FlowTyped, Return

\* whose values have their reasons,
LEMMA ReturnJustified ==
    ASSUME FlowTyped, frames # << >>, FlowJustified, NEW r \in Values, Return(r),
           used \subseteq used', logged => logged', Justified(r, used', logged')
    PROVE  FlowJustified'
<1>1. Len(frames) \in Nat \ {0} /\ frames' \in Seq(Methods) /\ Len(frames') = Len(frames) - 1
      /\ \A i \in 1..Len(frames) - 1 : frames'[i] = frames[i]
  BY StackFacts DEF Return
<1>2. \A x : Justified(x, used, logged) => Justified(x, used', logged')
  BY DEF Justified
<1> HIDE DEF Justified
<1> QED BY <1>1, <1>2 DEF FlowJustified, Return

\* and stand for what C says.
LEMMA ReturnAgrees ==
    ASSUME FlowTyped, frames # << >>, FlowAgrees, NEW r, Return(r), Agrees(r)
    PROVE  FlowAgrees'
<1>1. Len(frames) \in Nat \ {0} /\ frames' \in Seq(Methods) /\ Len(frames') = Len(frames) - 1
      /\ \A i \in 1..Len(frames) - 1 : frames'[i] = frames[i]
  BY StackFacts DEF Return
<1> HIDE DEF Agrees
<1> QED BY <1>1 DEF FlowAgrees, Return

\* So does a leaf that answers.
LEMMA AnswerFlow ==
    ASSUME FlowTyped, phase = "down", NEW r \in Values, Answer(r),
           used \subseteq used', logged => logged'
    PROVE  /\ FlowTyped'
           /\ FlowJustified /\ Justified(r, used', logged') => FlowJustified'
           /\ FlowAgrees /\ Agrees(r) => FlowAgrees'
<1>1. \A x : Justified(x, used, logged) => Justified(x, used', logged')
  BY DEF Justified
<1>2. FlowTyped'
  BY DEF FlowTyped, Answer
<1> HIDE DEF Justified, Agrees
<1>3. FlowJustified /\ Justified(r, used', logged') => FlowJustified'
  BY <1>1 DEF FlowJustified, Answer
<1>4. FlowAgrees /\ Agrees(r) => FlowAgrees'
  BY DEF FlowAgrees, Answer
<1> QED BY <1>2, <1>3, <1>4

\* The stack with a method on it.
LEMMA EnterFlow ==
    ASSUME FlowTyped, phase = "down", NEW kind \in Kinds \ {"stmt"}, NEW op \in OpsOf(kind),
           Enter(kind, op)
    PROVE  /\ FlowTyped'
           /\ FlowJustified => FlowJustified'
           /\ FlowAgrees => FlowAgrees'
<1> DEFINE f == Frame(kind, op, LiveNow)
           n == Len(frames)
<1>1. frames \in Seq(Methods) /\ n \in Nat \ {0}
  BY DEF FlowTyped
<1>2. /\ f \in Methods /\ f.kind = kind /\ f.op = op /\ f.left = << >>
  <2>1. LiveNow \in BOOLEAN
    BY StackFacts, MethodFields DEF LiveNow, FlowTyped
  <2>2. op \in Ops
    <3> DEFINE all == OpsOf(kind)
    <3>1. \/ all = {"()"} \/ all = UnaryOps \/ all = StepOps \/ all = ArithOps \/ all = CondOps
          \/ all = LogicOps \/ all = AssignOps \/ all = {"func", "proc"}
      BY DEF OpsOf, Kinds
    <3> HIDE DEF all
    <3>2. op \in all
      BY DEF all
    <3> QED BY <3>1, <3>2 DEF Ops, AssignOps
  <2> QED BY <2>1, <2>2 DEF Frame, Methods, Lefts
<1> HIDE DEF f
<1>3. /\ frames' = Append(frames, f) /\ frames' \in Seq(Methods) /\ Len(frames') = n + 1
      /\ \A i \in 1..n : frames'[i] = frames[i]
      /\ frames'[n + 1] = f
  BY <1>1, <1>2 DEF Enter, f
<1>4. phase' = "down" /\ ret' = ret /\ used' = used \cup ({kind, op} \cap Sorts) /\ logged' = logged
  BY DEF Enter, flags
<1>5. \A i \in 1..Len(frames') : i \in 1..n \/ i = n + 1
  BY <1>1, <1>3
<1>6. FlowTyped'
  <2>1. \A i \in 1..Len(frames') : (frames'[i].kind = "stmt") = (i = 1)
    BY <1>1, <1>2, <1>3, <1>5 DEF FlowTyped
  <2>2. frames' # << >>
    BY <1>1, <1>3
  <2> QED BY <1>3, <1>4, <2>1, <2>2 DEF FlowTyped
<1>7. ASSUME FlowJustified PROVE FlowJustified'
  <2>1. \A x : Justified(x, used, logged) => Justified(x, used', logged')
    BY <1>4 DEF Justified
  <2>2. ASSUME NEW i \in 1..Len(frames')
        PROVE  /\ {frames'[i].kind, frames'[i].op} \cap Sorts \subseteq used'
               /\ frames'[i].left # << >> => Justified(frames'[i].left[1], used', logged')
    <3>1. CASE i \in 1..n
      <4> HIDE DEF Justified
      <4> QED BY <1>3, <1>4, <1>7, <2>1, <3>1 DEF FlowJustified
    <3>2. CASE i = n + 1
      BY <1>2, <1>3, <1>4, <3>2
    <3> QED BY <1>5, <3>1, <3>2
  <2> QED BY <1>4, <2>2 DEF FlowJustified
<1>8. ASSUME FlowAgrees PROVE FlowAgrees'
  <2> HIDE DEF Agrees
  <2>1. ASSUME NEW i \in 1..Len(frames'), frames'[i].left # << >>
        PROVE  Agrees(frames'[i].left[1])
    <3>1. CASE i \in 1..n
      BY <1>3, <1>8, <2>1, <3>1 DEF FlowAgrees
    <3>2. CASE i = n + 1
      BY <1>2, <1>3, <2>1, <3>2
    <3> QED BY <1>5, <3>1, <3>2
  <2> QED BY <1>4, <1>8, <2>1 DEF FlowAgrees
<1> QED BY <1>6, <1>7, <1>8

\* The left operand goes into the innermost method.
LEMMA LeftDoneFlow ==
    ASSUME FlowTyped, LeftDone
    PROVE  /\ FlowTyped'
           /\ FlowJustified => FlowJustified'
           /\ FlowAgrees => FlowAgrees'
<1> DEFINE n == Len(frames)
           g == [Top EXCEPT !.left = <<ret>>, !.right = RightIsLive(Top, ret)]
<1>1. phase = "up" /\ frames # << >> /\ frames \in Seq(Methods) /\ n \in Nat \ {0} /\ ret \in Values
  BY DEF FlowTyped, LeftDone
<1>2. Top \in Methods /\ Top = frames[n]
  BY <1>1, StackFacts DEF Top
<1>3. RightIsLive(Top, ret) \in BOOLEAN
  BY DEF RightIsLive
<1>4. g \in Methods /\ g.kind = Top.kind /\ g.op = Top.op /\ g.left = <<ret>>
  BY <1>1, <1>2, <1>3 DEF Methods, Lefts
<1>5. frames' = [frames EXCEPT ![n] = g]
  BY <1>1, <1>2 DEF LeftDone
<1> HIDE DEF g
<1>6. /\ frames' \in Seq(Methods) /\ Len(frames') = n
      /\ \A i \in 1..n : i # n => frames'[i] = frames[i]
      /\ frames'[n] = g
  BY <1>1, <1>4, <1>5
<1>7. phase' = "down" /\ ret' = ret /\ used' = used /\ logged' = logged
  BY DEF LeftDone, flags
<1>8. FlowTyped'
  <2>1. \A i \in 1..n : (frames'[i].kind = "stmt") = (i = 1)
    BY <1>1, <1>2, <1>4, <1>6 DEF FlowTyped
  <2>2. frames' # << >>
    BY <1>1, <1>6
  <2> QED BY <1>1, <1>6, <1>7, <2>1, <2>2 DEF FlowTyped
<1>9. ASSUME FlowJustified PROVE FlowJustified'
  <2> HIDE DEF Justified
  <2>1. ASSUME NEW i \in 1..n
        PROVE  /\ {frames'[i].kind, frames'[i].op} \cap Sorts \subseteq used
               /\ frames'[i].left # << >> => Justified(frames'[i].left[1], used, logged)
    <3>1. CASE i # n
      BY <1>6, <1>9, <3>1 DEF FlowJustified
    <3>2. CASE i = n
      <4>1. Justified(ret, used, logged)
        BY <1>1, <1>9 DEF FlowJustified
      <4>2. {Top.kind, Top.op} \cap Sorts \subseteq used
        BY <1>1, <1>2, <1>9 DEF FlowJustified
      <4>3. <<ret>>[1] = ret
        OBVIOUS
      <4> QED BY <1>4, <1>6, <3>2, <4>1, <4>2, <4>3
    <3> QED BY <3>1, <3>2
  <2> QED BY <1>6, <1>7, <2>1 DEF FlowJustified
<1>10. ASSUME FlowAgrees PROVE FlowAgrees'
  <2> HIDE DEF Agrees
  <2>1. ASSUME NEW i \in 1..n, frames'[i].left # << >> PROVE Agrees(frames'[i].left[1])
    <3>1. CASE i # n
      BY <1>6, <1>10, <2>1, <3>1 DEF FlowAgrees
    <3>2. CASE i = n
      <4>1. Agrees(ret)
        BY <1>10 DEF FlowAgrees
      <4>2. <<ret>>[1] = ret
        OBVIOUS
      <4> QED BY <1>4, <1>6, <3>2, <4>1, <4>2
    <3> QED BY <3>1, <3>2
  <2> QED BY <1>6, <1>7, <1>10, <2>1 DEF FlowAgrees
<1> QED BY <1>8, <1>9, <1>10

\* The stack is empty once the statement is done.
LEMMA EndFlow ==
    ASSUME FlowTyped, phase' = "rest", frames' = << >>, ret' = ret
    PROVE  /\ FlowTyped' /\ FlowJustified' /\ (FlowAgrees => FlowAgrees')
<1>1. Len(<< >>) = 0 /\ << >> \in Seq(Methods)
  OBVIOUS
<1> QED BY <1>1 DEF FlowTyped, FlowJustified, FlowAgrees

\* A step that stops the builder leaves the stack as it is.
LEMMA StopFlow ==
    ASSUME FlowTyped, NEW how \in {"crashed", "asserted"}, Stop(how)
    PROVE  /\ FlowTyped' /\ (FlowJustified => FlowJustified') /\ (FlowAgrees => FlowAgrees')
BY DEF FlowTyped, FlowJustified, FlowAgrees, Stop, flags

\* A statement begins with its own frame alone.
LEMMA BeginFlow ==
    ASSUME FlowTyped, Begin
    PROVE  /\ FlowTyped' /\ FlowJustified' /\ (FlowAgrees => FlowAgrees')
<1> DEFINE f == Frame("stmt", "", TRUE)
<1>1. f \in Methods /\ f.kind = "stmt" /\ f.op = "" /\ f.left = << >>
  BY DEF Frame, Methods, Lefts, OpsOf, Kinds, Ops
<1>2. frames' = <<f>> /\ phase' = "down" /\ ret' = ret
  BY DEF Begin
<1> HIDE DEF f
<1>3. frames' \in Seq(Methods) /\ Len(frames') = 1 /\ frames'[1] = f /\ frames' # << >>
  <2>1. \A x \in Methods : <<x>> \in Seq(Methods) /\ Len(<<x>>) = 1 /\ <<x>>[1] = x /\ <<x>> # << >>
    <3> HIDE DEF Methods
    <3> QED OBVIOUS
  <2> HIDE DEF Methods
  <2> QED BY <1>1, <1>2, <2>1
<1>4. "stmt" \notin Sorts /\ "" \notin Sorts
  BY DEF Sorts
<1>5. FlowTyped'
  <2>1. ASSUME NEW i \in 1..Len(frames') PROVE (frames'[i].kind = "stmt") = (i = 1)
    <3>1. i = 1
      BY <1>3
    <3> QED BY <1>1, <1>3, <3>1
  <2> QED BY <1>2, <1>3, <2>1 DEF FlowTyped
<1>6. FlowJustified'
  <2>1. \A i \in 1..Len(frames') : frames'[i] = f
    BY <1>3
  <2> QED BY <1>1, <1>2, <1>4, <2>1 DEF FlowJustified
<1>7. FlowAgrees => FlowAgrees'
  <2>1. \A i \in 1..Len(frames') : frames'[i] = f
    BY <1>3
  <2> HIDE DEF Agrees
  <2> QED BY <1>1, <1>2, <2>1 DEF FlowAgrees
<1> QED BY <1>5, <1>6, <1>7

-----------------------------------------------------------------------------
(* The steps.                                                              *)

\* What the flags say is never taken back.
LEMMA StillExplained ==
    ASSUME CrashExplained, RejectionExplained, used \subseteq used', logged => logged',
           rejected' = rejected, phase' = "crashed" => phase = "crashed"
    PROVE  CrashExplained' /\ RejectionExplained'
BY DEF CrashExplained, RejectionExplained

\* A null pointer that is used has a reason.
LEMMA NullExplained ==
    ASSUME CrashExplained, RejectionExplained, Stop("crashed"), NEW r, IsNull(r),
           Justified(r, used, logged)
    PROVE  CrashExplained' /\ RejectionExplained'
BY DEF CrashExplained, RejectionExplained, Stop, flags, IsNull, Justified

\* A step that stops the builder changes nothing else.
LEMMA StopKeeps ==
    ASSUME Typed, NEW how \in {"crashed", "asserted"}, Stop(how)
    PROVE  /\ Typed'
           /\ FlowJustified => FlowJustified'
           /\ Agreement => Agreement'
<1>1. FlowTyped' /\ (FlowJustified => FlowJustified') /\ (FlowAgrees => FlowAgrees')
  BY StopFlow DEF Typed
<1>2. Typed'
  BY <1>1 DEF Typed, Stop, mems, outs, flags
<1>3. Agreement => Agreement'
  BY <1>1 DEF Agreement, Faithful, Stop, mems, outs, flags
<1> QED BY <1>1, <1>2, <1>3

\* A statement is begun.
LEMMA BeginKeeps ==
    ASSUME Typed, Begin
    PROVE  Typed' /\ (Explained => Explained') /\ (Agreement => Agreement')
<1>1. FlowTyped' /\ FlowJustified' /\ (FlowAgrees => FlowAgrees')
  BY BeginFlow DEF Typed
<1>0. nStmts' \in 0..MaxStmts
  <2>1. nStmts \in 0..MaxStmts
    BY DEF Typed
  <2>2. nStmts < MaxStmts /\ nStmts' = nStmts + 1
    BY DEF Begin
  <2> QED BY <2>1, <2>2, BoundsAreNumbers
<1>2. Typed'
  BY <1>0, <1>1 DEF Typed, Begin, mems, outs, flags
<1>3. Explained => Explained'
  BY <1>1, StillExplained DEF Explained, Begin, flags
<1>4. Agreement => Agreement'
  BY <1>1 DEF Agreement, Faithful, Begin, mems, outs, flags
<1> QED BY <1>2, <1>3, <1>4

-----------------------------------------------------------------------------
(* Leaves.                                                                 *)

\* An int literal: the i32 has the bits C gives the literal in an int.
LEMMA IntLiteralKeeps ==
    ASSUME Typed, NEW n \in Literals, IntLiteral(n)
    PROVE  Typed' /\ (Explained => Explained') /\ (Agreement => Agreement')
<1> DEFINE r == Result(Unsigned(n, W), "i32", n, TRUE)
<1>1. n \in Int /\ W \in Nat
  BY InputsFit, WidthFacts
<1>2. r \in Values /\ Justified(r, used', logged') /\ Agrees(r)
  <2>1. Unsigned(n, W) \in Words(W)
    BY <1>1, UnsignedIs
  <2>2. "i32" \in ValueTypes
    BY DEF ValueTypes
  <2>3. r \in Values /\ r.ty = "i32" /\ r.src = Unsigned(n, W) /\ r.val = Unsigned(n, Bits("i32"))
    <3>1. TRUE \in BOOLEAN
      OBVIOUS
    <3> QED BY <1>1, <2>1, <2>2, <3>1, ResultIs
  <2> QED BY <2>3, BitsOf DEF Justified, Agrees
<1> HIDE DEF r
<1>3. /\ phase = "down" /\ Answer(r)
      /\ odd' = odd \/ odd' = odd \cup {"literal"}
      /\ UNCHANGED <<mems, outs, logged, rejected, sUndef, oTrap, used, cost, nStmts>>
  BY DEF IntLiteral, r
<1>4. /\ FlowTyped'
      /\ FlowJustified => FlowJustified'
      /\ FlowAgrees => FlowAgrees'
  BY <1>2, <1>3, AnswerFlow DEF Typed
<1>5. Typed'
  BY <1>3, <1>4 DEF Typed, Differences, mems, outs
<1>6. Explained => Explained'
  BY <1>3, <1>4, StillExplained DEF Explained, Answer
<1>7. Agreement => Agreement'
  BY <1>3, <1>4 DEF Agreement, Faithful, mems, outs
<1> QED BY <1>5, <1>6, <1>7

\* A char literal: the i8 stands for the char that C promotes.
LEMMA CharLiteralKeeps ==
    ASSUME Typed, NEW c \in Chars, CharLiteral(c)
    PROVE  Typed' /\ (Explained => Explained') /\ (Agreement => Agreement')
<1> DEFINE r == Result(Unsigned(c, W), "i8", c, TRUE)
<1>1. c \in Int /\ W \in Nat /\ Unsigned(c, W) = Extended(B, W, Unsigned(c, B))
  BY InputsFit, WidthFacts, CharAgrees
<1>2. r \in Values /\ Agrees(r) /\ r.ty = "i8"
  <2>1. Unsigned(c, W) \in Words(W)
    BY <1>1, UnsignedIs
  <2>2. "i8" \in ValueTypes /\ TRUE \in BOOLEAN
    BY DEF ValueTypes
  <2>3. r \in Values /\ r.ty = "i8" /\ r.src = Unsigned(c, W) /\ r.val = Unsigned(c, Bits("i8"))
    BY <1>1, <2>1, <2>2, ResultIs
  <2> QED BY <1>1, <2>3, BitsOf DEF Agrees
<1> HIDE DEF r
<1>3. /\ phase = "down" /\ Answer(r) /\ used' = used \cup {"char"}
      /\ UNCHANGED <<mems, outs, flags, cost, nStmts>>
  BY DEF CharLiteral, r
<1>4. Justified(r, used', logged')
  BY <1>2, <1>3 DEF Justified
<1>5. /\ FlowTyped'
      /\ FlowJustified => FlowJustified'
      /\ FlowAgrees => FlowAgrees'
  BY <1>2, <1>3, <1>4, AnswerFlow DEF Typed, flags
<1>6. Typed'
  BY <1>3, <1>5 DEF Typed, Sorts, mems, outs, flags
<1>7. Explained => Explained'
  BY <1>3, <1>5, StillExplained DEF Explained, Answer, flags
<1>8. Agreement => Agreement'
  BY <1>3, <1>5 DEF Agreement, Faithful, mems, outs, flags
<1> QED BY <1>6, <1>7, <1>8

\* Below Faithful the two memories are one, so that a load agrees.
LEMMA IdentifierKeeps ==
    ASSUME Typed, NEW v \in Vars, Identifier(v)
    PROVE  Typed' /\ (Explained => Explained') /\ (Agreement => Agreement')
<1> DEFINE q == Result(smem[v], "i32", omem[v], FALSE)
           r == [q EXCEPT !.id = v]
<1>1. smem[v] \in Words(W) /\ omem[v] \in Words(W) /\ omem[v] \in Int /\ "i32" \in ValueTypes /\ FALSE \in BOOLEAN
  BY DEF Typed, ValueTypes, Words
<1>2. q \in Values /\ q.ty = "i32" /\ q.src = smem[v] /\ q.val = Unsigned(omem[v], Bits("i32"))
  BY <1>1, ResultIs
<1>3. q.val = omem[v]
  BY <1>1, <1>2, BitsOf, UnsignedIs, WidthFacts
<1> HIDE DEF q
<1>4. r \in Values /\ r.ty = "i32" /\ r.src = smem[v] /\ r.val = omem[v]
  BY <1>2, <1>3, NoVarIsNone DEF Values, Results
<1> HIDE DEF r
<1>5. phase = "down" /\ Answer(r) /\ UNCHANGED <<mems, outs, flags, used, cost, nStmts>>
  BY DEF Identifier, r, q
<1>6. Justified(r, used', logged')
  BY <1>4 DEF Justified
<1>7. FlowTyped' /\ (FlowJustified => FlowJustified') /\ (FlowAgrees /\ Agrees(r) => FlowAgrees')
  BY <1>4, <1>5, <1>6, AnswerFlow DEF Typed, flags
<1>8. Typed'
  BY <1>5, <1>7 DEF Typed, mems, outs, flags
<1>9. Explained => Explained'
  BY <1>5, <1>7, StillExplained DEF Explained, Answer, flags
<1>10. ASSUME Agreement PROVE Agreement'
  <2> SUFFICES ASSUME Faithful' PROVE FlowAgrees' /\ smem' = omem' /\ sout' = oout' /\ ~oTrap'
    BY DEF Agreement
  <2>1. Faithful
    BY <1>5 DEF Faithful, flags
  <2>2. FlowAgrees /\ smem = omem /\ sout = oout /\ ~oTrap
    BY <1>10, <2>1 DEF Agreement
  <2>3. Agrees(r)
    BY <1>4, <2>2 DEF Agrees
  <2> QED BY <1>5, <1>7, <2>2, <2>3 DEF mems, outs, flags
<1> QED BY <1>8, <1>9, <1>10

\* A global variable crashes the builder, which the invariant names as a reason.
LEMMA GlobalIdentifierKeeps ==
    ASSUME Typed, GlobalIdentifier
    PROVE  Typed' /\ (Explained => Explained') /\ (Agreement => Agreement')
<1>1. Typed'
  BY DEF Typed, FlowTyped, GlobalIdentifier, Sorts, mems, outs, flags
<1>2. ASSUME Explained PROVE Explained'
  <2>1. \A x : Justified(x, used, logged) => Justified(x, used', logged')
    BY DEF Justified, GlobalIdentifier, flags
  <2>2. FlowJustified'
    <3> HIDE DEF Justified
    <3> QED BY <1>2, <2>1 DEF Explained, FlowJustified, GlobalIdentifier
  <2>3. CrashExplained' /\ RejectionExplained'
    BY <1>2 DEF Explained, CrashExplained, RejectionExplained, GlobalIdentifier, flags
  <2> QED BY <2>2, <2>3 DEF Explained
<1>3. Agreement => Agreement'
  BY DEF Agreement, Faithful, FlowAgrees, GlobalIdentifier, mems, outs, flags
<1> QED BY <1>1, <1>2, <1>3

\* The null value.
LEMMA NullIs ==
    Null \in Values /\ Null.ty = "null" /\ Null.id = NoVar /\ Agrees(Null)
<1>1. 0 \in Words(W) /\ "null" \in ValueTypes /\ 0 \in Int /\ FALSE \in BOOLEAN
  BY WidthFacts DEF ValueTypes
<1>2. Null \in Values /\ Null.ty = "null" /\ Null.id = NoVar /\ Null.src = 0 /\ Null.val = Unsigned(0, Bits("null"))
  BY <1>1, ResultIs DEF Null
<1>3. Unsigned(0, W) = 0
  BY <1>1, UnsignedIs, WidthFacts
<1> QED BY <1>2, <1>3, BitsOf DEF Agrees

\* An expression that is not supported: an error is logged before null is answered.
LEMMA UnsupportedKeeps ==
    ASSUME Typed, Unsupported
    PROVE  Typed' /\ (Explained => Explained') /\ (Agreement => Agreement')
<1>1. phase = "down" /\ Answer(Null) /\ logged' = TRUE
      /\ UNCHANGED <<mems, outs, rejected, sUndef, oTrap, odd, used, cost, nStmts>>
  BY DEF Unsupported
<1>2. Justified(Null, used', logged')
  BY <1>1, NullIs DEF Justified
<1>3. FlowTyped' /\ (FlowJustified => FlowJustified')
  BY <1>1, <1>2, NullIs, AnswerFlow DEF Typed
<1>4. Typed'
  BY <1>1, <1>3 DEF Typed, mems, outs
<1>5. Explained => Explained'
  BY <1>1, <1>3, StillExplained DEF Explained, Answer
<1>6. Agreement'
  BY <1>1 DEF Agreement, Faithful
<1> QED BY <1>4, <1>5, <1>6

\* A method is called.
LEMMA EnterKeeps ==
    ASSUME Typed, NEW kind \in Kinds \ {"stmt"}, NEW op \in OpsOf(kind), Enter(kind, op)
    PROVE  Typed' /\ (Explained => Explained') /\ (Agreement => Agreement')
<1>1. FlowTyped' /\ (FlowJustified => FlowJustified') /\ (FlowAgrees => FlowAgrees')
  <2>1. FlowTyped /\ phase = "down"
    BY DEF Typed, Enter
  <2> QED BY <2>1, EnterFlow
<1>2. cost' \in 0..MaxCost
  <2>1. Cost(op) \in {2, 3}
    BY DEF Cost
  <2> QED BY <2>1, BoundsAreNumbers DEF Typed, Enter
<1>3. /\ phase' = phase /\ used' = used \cup ({kind, op} \cap Sorts)
      /\ UNCHANGED <<mems, outs, flags, nStmts>>
  BY DEF Enter
<1>4. Typed'
  BY <1>1, <1>2, <1>3 DEF Typed, mems, outs, flags
<1>5. Explained => Explained'
  BY <1>1, <1>3, StillExplained DEF Explained, flags
<1>6. Agreement => Agreement'
  BY <1>1, <1>3 DEF Agreement, Faithful, mems, outs, flags
<1> QED BY <1>4, <1>5, <1>6

-----------------------------------------------------------------------------
(* Methods with one operand.                                               *)

\* What holds when an operand is there.
LEMMA OperandFacts ==
    ASSUME Typed, phase = "up"
    PROVE  /\ frames # << >> /\ ret \in Values /\ Top \in Methods
           /\ Top.kind \in Kinds /\ Top.op \in OpsOf(Top.kind)
           /\ Top.live \in BOOLEAN /\ Top.right \in BOOLEAN
           /\ Top.left # << >> => Left \in Values
           /\ Explained => /\ Justified(ret, used, logged)
                           /\ {Top.kind, Top.op} \cap Sorts \subseteq used
                           /\ Top.left # << >> => Justified(Left, used, logged)
           /\ FlowAgrees => Agrees(ret) /\ (Top.left # << >> => Agrees(Left))
<1>1. FlowTyped /\ frames # << >> /\ ret \in Values
  BY DEF Typed, FlowTyped
<1>2. Top \in Methods /\ Len(frames) \in 1..Len(frames) /\ Top = frames[Len(frames)]
  BY <1>1, StackFacts DEF Top
<1>3. /\ Top.kind \in Kinds /\ Top.op \in OpsOf(Top.kind)
      /\ Top.live \in BOOLEAN /\ Top.right \in BOOLEAN
      /\ Top.left # << >> => Left \in Values
  BY <1>2, MethodFields DEF Left
<1> HIDE DEF Justified, Agrees
<1>4. Explained => /\ Justified(ret, used, logged)
                   /\ {Top.kind, Top.op} \cap Sorts \subseteq used
                   /\ Top.left # << >> => Justified(Left, used, logged)
  BY <1>2 DEF Explained, FlowJustified, Left
<1>5. FlowAgrees => Agrees(ret) /\ (Top.left # << >> => Agrees(Left))
  BY <1>2 DEF FlowAgrees, Left
<1> QED BY <1>1, <1>2, <1>3, <1>4, <1>5

\* A method that returns.
LEMMA ReturnMoves ==
    ASSUME Typed, phase = "up", Top.kind # "stmt", NEW r \in Values, Return(r),
           UNCHANGED <<logged, used, cost, nStmts>>,
           smem' \in [Vars -> Words(W)], omem' \in [Vars -> Words(W)],
           sout' \in Seq(Nat), oout' \in Seq(Nat),
           rejected' \in BOOLEAN, sUndef' \in BOOLEAN, oTrap' \in BOOLEAN,
           odd' \subseteq Differences
    PROVE  /\ Typed'
           /\ Explained /\ Justified(r, used, logged) => FlowJustified' /\ CrashExplained'
           /\ FlowAgrees /\ Agrees(r) => FlowAgrees'
<1>1. FlowTyped /\ frames # << >>
  BY DEF Typed, FlowTyped
<1>2. FlowTyped'
  BY <1>1, ReturnTyped
<1>3. Typed'
  BY <1>2 DEF Typed
<1>4. ASSUME Explained, Justified(r, used, logged) PROVE FlowJustified' /\ CrashExplained'
  <2>1. FlowJustified'
    BY <1>1, <1>4, ReturnJustified DEF Explained
  <2>2. CrashExplained'
    BY DEF CrashExplained, Return
  <2> QED BY <2>1, <2>2
<1>5. FlowAgrees /\ Agrees(r) => FlowAgrees'
  BY <1>1, ReturnAgrees
<1> QED BY <1>3, <1>4, <1>5

\* A method that returns without touching the memories.
LEMMA ReturnKeeps ==
    ASSUME Typed, phase = "up", Top.kind # "stmt", NEW r \in Values, Return(r),
           UNCHANGED <<mems, outs, logged, used, cost, nStmts>>,
           rejected' \in BOOLEAN, sUndef' \in BOOLEAN, oTrap' \in BOOLEAN,
           odd' \subseteq Differences
    PROVE  /\ Typed'
           /\ Explained /\ Justified(r, used, logged) => FlowJustified' /\ CrashExplained'
           /\ FlowAgrees /\ Agrees(r) => FlowAgrees'
<1>1. /\ smem' \in [Vars -> Words(W)] /\ omem' \in [Vars -> Words(W)]
      /\ sout' \in Seq(Nat) /\ oout' \in Seq(Nat)
  BY DEF Typed, mems, outs
<1> QED BY <1>1, ReturnMoves

\* A parenthesised expression has the value of its child.
LEMMA ParenKeeps ==
    ASSUME Typed, Paren
    PROVE  Typed' /\ (Explained => Explained') /\ (Agreement => Agreement')
<1> DEFINE r == [ret EXCEPT !.id = NoVar]
<1>1. phase = "up" /\ Top.kind = "paren" /\ Return(r) /\ UNCHANGED <<mems, outs, flags, used, cost, nStmts>>
  BY DEF Paren, AtOperand
<1>2. ret \in Values
  BY <1>1, OperandFacts
<1>3. r \in Values /\ (Justified(ret, used, logged) => Justified(r, used, logged)) /\ (Agrees(ret) => Agrees(r))
  BY <1>2 DEF Values, Results, Justified, Agrees
<1> HIDE DEF r
<1>4. UNCHANGED <<mems, outs, logged, used, cost, nStmts>> /\ rejected' \in BOOLEAN /\ sUndef' \in BOOLEAN
      /\ oTrap' \in BOOLEAN /\ odd' \subseteq Differences /\ rejected' = rejected
  BY <1>1 DEF flags, Typed
<1>5. /\ Typed'
      /\ Explained /\ Justified(r, used, logged) => FlowJustified' /\ CrashExplained'
      /\ FlowAgrees /\ Agrees(r) => FlowAgrees'
  BY <1>1, <1>3, <1>4, ReturnKeeps
<1>6. Explained => Explained'
  BY <1>1, <1>3, <1>4, <1>5, OperandFacts DEF Explained, RejectionExplained
<1>7. Agreement => Agreement'
  BY <1>1, <1>3, <1>5, OperandFacts DEF Agreement, Faithful, mems, outs, flags
<1> QED BY <1>5, <1>6, <1>7

\* The results of the unary operators.
LEMMA UnaryResultIs ==
    ASSUME NEW op \in UnaryOps, NEW r \in Values
    PROVE  /\ UnaryResult(op, r) \in Values
           /\ UnaryResult(op, r).ty = IF op = "!" THEN "i1" ELSE r.ty
           /\ Agrees(r) /\ ~(IsNarrow(r) /\ op \in {"-", "~"}) => Agrees(UnaryResult(op, r))
<1> DEFINE w == Bits(r.ty)
<1>1. r.src \in Words(W) /\ r.src \in Nat /\ r.val \in Words(w) /\ r.val \in Nat /\ r.ty \in ValueTypes /\ r.const \in BOOLEAN
  BY ValueFields
<1>2. w \in Nat /\ W \in Nat /\ Pow2[w] \in Nat /\ Pow2[W] \in Nat
  BY <1>1, WidthFacts, PowerType DEF ValueTypes
<1> HIDE DEF w
<1>3. CASE op = "-"
  <2> DEFINE s == Unsigned(-r.src, W)
             v == Unsigned(-r.val, w)
             q == Result(s, r.ty, v, r.const)
  <2>1. s \in Words(W) /\ v \in Words(w) /\ v \in Int
    <3>1. -r.src \in Int /\ -r.val \in Int
      BY <1>1
    <3> QED BY <1>2, <3>1, UnsignedIs
  <2>2. q \in Values /\ q.ty = r.ty /\ q.src = s /\ q.val = Unsigned(v, w)
    <3> HIDE DEF s, v
    <3> QED BY <1>1, <2>1, ResultIs DEF w
  <2>3. q.val = v
    BY <1>2, <2>1, <2>2, UnsignedIs
  <2>4. UnaryResult(op, r) = q
    BY <1>3 DEF UnaryResult, w
  <2>5. ASSUME Agrees(r), ~IsNarrow(r) PROVE Agrees(q)
    <3>1. r.src = r.val /\ w = W
      BY <1>1, <2>5, BitsOf DEF Agrees, IsNarrow, ValueTypes, w
    <3>2. s = v
      BY <3>1
    <3> QED BY <1>1, <2>2, <2>3, <2>5, <3>2 DEF Agrees, IsNarrow, ValueTypes
  <2> HIDE DEF q
  <2> QED BY <1>3, <2>2, <2>4, <2>5
<1>4. CASE op = "~"
  <2> DEFINE s == Pow2[W] - 1 - r.src
             v == Pow2[w] - 1 - r.val
             q == Result(s, r.ty, v, r.const)
  <2>1. s \in Words(W) /\ v \in Words(w) /\ v \in Int
    BY <1>1, <1>2 DEF Words
  <2>2. q \in Values /\ q.ty = r.ty /\ q.src = s /\ q.val = Unsigned(v, w)
    <3> HIDE DEF s, v
    <3> QED BY <1>1, <2>1, ResultIs DEF w
  <2>3. q.val = v
    <3> HIDE DEF v
    <3> QED BY <1>2, <2>1, <2>2, UnsignedIs
  <2>4. UnaryResult(op, r) = q
    BY <1>4 DEF UnaryResult, w
  <2>5. ASSUME Agrees(r), ~IsNarrow(r) PROVE Agrees(q)
    <3>1. r.src = r.val /\ w = W
      BY <1>1, <2>5, BitsOf DEF Agrees, IsNarrow, ValueTypes, w
    <3>2. s = v
      BY <3>1
    <3> QED BY <1>1, <2>2, <2>3, <2>5, <3>2 DEF Agrees, IsNarrow, ValueTypes
  <2> HIDE DEF q
  <2> QED BY <1>4, <2>2, <2>4, <2>5
<1>5. CASE op = "!"
  <2> DEFINE s == Bit(r.src = 0)
             v == Bit(r.val = 0)
             q == Result(s, "i1", v, r.const)
  <2>1. s \in {0, 1} /\ v \in {0, 1}
    BY DEF Bit
  <2>2. s \in Words(W) /\ v \in Int /\ "i1" \in ValueTypes
    BY <2>1, WidthFacts DEF ValueTypes
  <2>3. q \in Values /\ q.ty = "i1" /\ q.src = s /\ q.val = Unsigned(v, Bits("i1"))
    <3> HIDE DEF s, v
    <3> QED BY <1>1, <2>2, ResultIs
  <2>4. q.val = v
    <3>1. v \in Words(1) /\ 1 \in Nat
      BY <2>1, FirstPowers DEF Words
    <3> HIDE DEF v
    <3> QED BY <2>2, <2>3, <3>1, BitsOf, UnsignedIs
  <2>5. UnaryResult(op, r) = q
    BY <1>5 DEF UnaryResult
  <2>6. ASSUME Agrees(r) PROVE Agrees(q)
    <3>1. s = v
      BY <2>6, ZeroAgrees DEF Bit
    <3> QED BY <2>3, <2>4, <3>1 DEF Agrees
  <2> HIDE DEF q
  <2> QED BY <1>5, <2>3, <2>5, <2>6
<1>6. CASE op = "+"
  <2>1. UnaryResult(op, r) = [r EXCEPT !.id = NoVar]
    BY <1>6 DEF UnaryResult
  <2> QED BY <1>6, <2>1 DEF Values, Results, Agrees
<1> QED BY <1>3, <1>4, <1>5, <1>6 DEF UnaryOps

\* A unary operator.
LEMMA UnaryKeeps ==
    ASSUME Typed, Unary
    PROVE  Typed' /\ (Explained => Explained') /\ (Agreement => Agreement')
<1>1. phase = "up" /\ Top.kind = "unary"
  BY DEF Unary, AtOperand
<1>2. ret \in Values /\ Top.op \in UnaryOps
  BY <1>1, OperandFacts DEF OpsOf
<1>3. CASE IsNull(ret) /\ Top.op # "+"
  <2>1. Stop("crashed")
    BY <1>3 DEF Unary
  <2>2. Explained => Explained'
    BY <1>1, <1>3, <2>1, OperandFacts, NullExplained, StopKeeps DEF Explained
  <2> QED BY <2>1, <2>2, StopKeeps
<1>4. CASE ~(IsNull(ret) /\ Top.op # "+")
  <2> DEFINE r == UnaryResult(Top.op, ret)
  <2>1. /\ Return(r)
        /\ odd' = IF IsNarrow(ret) /\ Top.op \in {"-", "~"} THEN odd \cup {"narrow"} ELSE odd
        /\ UNCHANGED <<mems, outs, logged, rejected, sUndef, oTrap, used, cost, nStmts>>
    BY <1>4 DEF Unary
  <2>2. /\ r \in Values /\ r.ty = IF Top.op = "!" THEN "i1" ELSE ret.ty
        /\ Agrees(ret) /\ ~(IsNarrow(ret) /\ Top.op \in {"-", "~"}) => Agrees(r)
    BY <1>2, UnaryResultIs
  <2> HIDE DEF r
  <2>3. rejected' \in BOOLEAN /\ sUndef' \in BOOLEAN /\ oTrap' \in BOOLEAN /\ odd' \subseteq Differences
    BY <2>1 DEF Typed, Differences
  <2>4. /\ Typed'
        /\ Explained /\ Justified(r, used, logged) => FlowJustified' /\ CrashExplained'
        /\ FlowAgrees /\ Agrees(r) => FlowAgrees'
    BY <1>1, <2>1, <2>2, <2>3, ReturnKeeps
  <2>5. ASSUME Explained PROVE Explained'
    <3>1. Justified(ret, used, logged) /\ (Top.op = "!" => "!" \in used)
      BY <1>1, <2>5, OperandFacts DEF Sorts
    <3>2. Justified(r, used, logged)
      BY <2>2, <3>1 DEF Justified
    <3> QED BY <2>1, <2>4, <2>5, <3>2 DEF Explained, RejectionExplained
  <2>6. ASSUME Agreement, Faithful' PROVE FlowAgrees' /\ smem' = omem' /\ sout' = oout' /\ ~oTrap'
    <3>1. Faithful /\ ~(IsNarrow(ret) /\ Top.op \in {"-", "~"})
      BY <2>1, <2>6 DEF Faithful
    <3> QED BY <1>1, <2>1, <2>2, <2>4, <2>6, <3>1, OperandFacts DEF Agreement, mems, outs
  <2> QED BY <2>4, <2>5, <2>6 DEF Agreement
<1> QED BY <1>3, <1>4

\* A variable that gets a word still has one.
LEMMA StoreTyped ==
    ASSUME NEW mem \in [Vars -> Words(W)], NEW v, NEW n \in Words(W)
    PROVE  [mem EXCEPT ![v] = n] \in [Vars -> Words(W)]
OBVIOUS

\* ++ and -- add and subtract, and never shift or divide.
LEMMA StepFacts ==
    ASSUME NEW op \in StepOps
    PROVE  StepOp(op) \in ArithOps /\ StepOp(op) \notin {">>", "/", "%", "<<"}
BY DEF StepOps, StepOp, ArithOps

\* A prefix ++ or --: the difference is recorded, and so is the reason LLVM rejects it.
LEMMA PrefixKeeps ==
    ASSUME Typed, Prefix
    PROVE  Typed' /\ (Explained => Explained') /\ (Agreement => Agreement')
<1>1. phase = "up" /\ Top.kind = "prefix"
  BY DEF Prefix, AtOperand
<1>2. ret \in Values /\ Top.op \in StepOps
  BY <1>1, OperandFacts DEF OpsOf
<1>3. CASE IsNull(ret)
  <2>1. Stop("crashed")
    BY <1>3 DEF Prefix
  <2>2. Explained => Explained'
    BY <1>1, <1>3, <2>1, OperandFacts, NullExplained, StopKeeps DEF Explained
  <2> QED BY <2>1, <2>2, StopKeeps
<1>4. CASE ~IsNull(ret)
  <2> DEFINE v == ret.id
             op == StepOp(Top.op)
             new == CArith(op, ret.src, 1, W)
             val == OArith(op, ret.val, 1, Bits(ret.ty))
             r == Result(new, ret.ty, val, ret.const)
  <2>1. /\ Return(r)
        /\ smem' = IF Top.live /\ v \in Vars THEN [smem EXCEPT ![v] = new] ELSE smem
        /\ rejected' \in (IF ret.const THEN {rejected, TRUE} ELSE {TRUE})
        /\ odd' = odd \cup {"prefix"}
        /\ sUndef' = (sUndef \/ (v \notin Vars))
        /\ UNCHANGED <<omem, outs, logged, oTrap, used, cost, nStmts>>
    BY <1>4 DEF Prefix
  <2>2. op \in ArithOps
    BY <1>2, StepFacts
  <2> HIDE DEF op
  <2>3. ret.ty \in ValueTypes /\ ret.src \in Words(W) /\ ret.val \in Words(Bits(ret.ty)) /\ ret.const \in BOOLEAN
    BY <1>2, ValueFields
  <2>4. Bits(ret.ty) \in Nat \ {0} /\ W \in Nat \ {0} /\ 1 \in Words(W) /\ 1 \in Nat
    BY <2>3, WidthFacts DEF ValueTypes
  <2>5. new \in Words(W)
    BY <2>2, <2>3, <2>4, CArithType
  <2>6. val \in Int
    BY <2>2, <2>3, <2>4, OArithType
  <2> HIDE DEF new, val
  <2>7. r \in Values /\ r.ty = ret.ty
    <3> DEFINE ty == ret.ty
               const == ret.const
    <3>1. ty \in ValueTypes /\ const \in BOOLEAN /\ r = Result(new, ty, val, const)
      BY <2>3
    <3> HIDE DEF ty, const, r
    <3>2. r \in Values /\ r.ty = ty
      BY <2>5, <2>6, <3>1, ResultIs
    <3> QED BY <3>2 DEF ty
  <2> HIDE DEF r
  <2>8. smem' \in [Vars -> Words(W)] /\ omem' \in [Vars -> Words(W)]
    BY <2>1, <2>5, StoreTyped DEF Typed
  <2>9. /\ sout' \in Seq(Nat) /\ oout' \in Seq(Nat) /\ UNCHANGED <<logged, used, cost, nStmts>>
        /\ rejected' \in BOOLEAN /\ sUndef' \in BOOLEAN /\ oTrap' \in BOOLEAN /\ odd' \subseteq Differences
    BY <2>1 DEF Typed, Differences, outs
  <2>10. Typed' /\ (Explained /\ Justified(r, used, logged) => FlowJustified' /\ CrashExplained')
    BY <1>1, <2>1, <2>7, <2>8, <2>9, ReturnMoves
  <2>11. ASSUME Explained PROVE Explained'
    <3>1. Justified(ret, used, logged) /\ "prefix" \in used
      BY <1>1, <2>11, OperandFacts DEF Sorts
    <3>2. Justified(r, used, logged)
      BY <2>7, <3>1 DEF Justified
    <3> QED BY <2>1, <2>10, <2>11, <3>1, <3>2 DEF Explained, RejectionExplained
  <2>12. Agreement'
    BY <2>1 DEF Agreement, Faithful
  <2> QED BY <2>10, <2>11, <2>12
<1> QED BY <1>3, <1>4

\* A postfix ++ or --: both memories change alike, when C evaluates it.
LEMMA PostfixKeeps ==
    ASSUME Typed, Postfix
    PROVE  Typed' /\ (Explained => Explained') /\ (Agreement => Agreement')
<1>1. phase = "up" /\ Top.kind = "postfix"
  BY DEF Postfix, AtOperand
<1>2. ret \in Values /\ Top.op \in StepOps
  BY <1>1, OperandFacts DEF OpsOf
<1>3. CASE ret.id \notin Vars
  <2>1. Stop("asserted")
    BY <1>3 DEF Postfix
  <2>2. UNCHANGED <<used, logged, rejected>> /\ phase' = "asserted"
    BY <2>1 DEF Stop, flags
  <2>3. Explained => Explained'
    BY <2>1, <2>2, StillExplained, StopKeeps DEF Explained
  <2> QED BY <2>1, <2>3, StopKeeps
<1>4. CASE ret.id \in Vars
  <2> DEFINE v == ret.id
             op == StepOp(Top.op)
             new == CArith(op, ret.src, 1, W)
             val == OArith(op, ret.val, 1, W)
             r == [ret EXCEPT !.id = NoVar]
  <2>1. /\ Return(r)
        /\ smem' = IF Top.live THEN [smem EXCEPT ![v] = new] ELSE smem
        /\ omem' = [omem EXCEPT ![v] = val]
        /\ odd' = odd \cup Effect(Top.live)
        /\ UNCHANGED <<outs, logged, rejected, sUndef, oTrap, used, cost, nStmts>>
    BY <1>4 DEF Postfix
  <2>2. op \in ArithOps /\ op # ">>"
    BY <1>2, StepFacts
  <2> HIDE DEF op
  <2>3. ret.ty = "i32" /\ ret.src \in Words(W) /\ ret.val \in Words(W)
    <3>1. ret.id # NoVar
      BY <1>4, NoVarIsNone
    <3> QED BY <1>2, <3>1, ValueFields, BitsOf
  <2>4. W \in Nat \ {0} /\ 1 \in Words(W)
    BY WidthFacts
  <2>5. /\ new \in Words(W)
        /\ CArith(op, ret.val, 1, W) = val /\ CArith(op, ret.val, 1, W) \in Words(W)
    BY <2>2, <2>3, <2>4, CArithType, ArithAgrees
  <2>6. ret.src = ret.val => new = val
    BY <2>5
  <2> HIDE DEF new, val
  <2>7. r \in Values /\ (Justified(ret, used, logged) => Justified(r, used, logged)) /\ (Agrees(ret) => Agrees(r))
    BY <1>2 DEF Values, Results, Justified, Agrees
  <2> HIDE DEF r
  <2>8. smem' \in [Vars -> Words(W)] /\ omem' \in [Vars -> Words(W)]
    BY <2>1, <2>5, StoreTyped DEF Typed
  <2>9. /\ sout' \in Seq(Nat) /\ oout' \in Seq(Nat) /\ UNCHANGED <<logged, used, cost, nStmts>>
        /\ rejected' \in BOOLEAN /\ sUndef' \in BOOLEAN /\ oTrap' \in BOOLEAN /\ odd' \subseteq Differences
    BY <2>1 DEF Typed, Differences, Effect, outs
  <2>10. /\ Typed'
         /\ Explained /\ Justified(r, used, logged) => FlowJustified' /\ CrashExplained'
         /\ FlowAgrees /\ Agrees(r) => FlowAgrees'
    BY <1>1, <2>1, <2>7, <2>8, <2>9, ReturnMoves
  <2>11. Explained => Explained'
    BY <1>1, <2>1, <2>7, <2>10, OperandFacts DEF Explained, RejectionExplained
  <2>12. ASSUME Agreement, Faithful' PROVE FlowAgrees' /\ smem' = omem' /\ sout' = oout' /\ ~oTrap'
    <3>1. Faithful /\ Top.live
      BY <2>1, <2>12 DEF Faithful, Effect
    <3>2. FlowAgrees /\ smem = omem /\ sout = oout /\ ~oTrap
      BY <2>12, <3>1 DEF Agreement
    <3>3. Agrees(ret) /\ new = val
      BY <1>1, <2>3, <2>6, <3>2, OperandFacts DEF Agrees
    <3> QED BY <2>1, <2>7, <2>10, <3>1, <3>2, <3>3 DEF outs
  <2> QED BY <2>10, <2>11, <2>12 DEF Agreement
<1> QED BY <1>3, <1>4

\* A call: both runs record one argument, when C evaluates the call.
LEMMA CallKeeps ==
    ASSUME Typed, Call
    PROVE  Typed' /\ (Explained => Explained') /\ (Agreement => Agreement')
<1>1. phase = "up" /\ Top.kind = "call"
  BY DEF Call, AtOperand
<1>2. ret \in Values
  BY <1>1, OperandFacts
<1>3. CASE IsNull(ret)
  <2>1. Stop("crashed")
    BY <1>3 DEF Call
  <2>2. Explained => Explained'
    BY <1>1, <1>3, <2>1, OperandFacts, NullExplained, StopKeeps DEF Explained
  <2> QED BY <2>1, <2>2, StopKeeps
<1>4. CASE ~IsNull(ret)
  <2> DEFINE q == Result(ret.src, "i32", ret.val, FALSE)
             r == IF Top.op = "proc" THEN Null ELSE q
  <2>1. /\ Return(r)
        /\ sout' = IF Top.live THEN Append(sout, ret.src) ELSE sout
        /\ oout' = Append(oout, ret.val)
        /\ rejected' = (rejected \/ ret.ty # "i32")
        /\ odd' = odd \cup Effect(Top.live)
        /\ UNCHANGED <<mems, logged, sUndef, oTrap, used, cost, nStmts>>
    BY <1>4 DEF Call
  <2>2. ret.src \in Words(W) /\ ret.src \in Nat /\ ret.val \in Nat /\ ret.val \in Int
        /\ ret.val \in Words(Bits(ret.ty)) /\ ret.ty \in ValueTypes
    BY <1>2, ValueFields
  <2>3. q \in Values /\ q.ty = "i32" /\ q.src = ret.src /\ q.val = Unsigned(ret.val, W)
    <3>1. "i32" \in ValueTypes /\ FALSE \in BOOLEAN
      BY DEF ValueTypes
    <3>2. q \in Values /\ q.ty = "i32" /\ q.src = ret.src /\ q.val = Unsigned(ret.val, Bits("i32"))
      BY <2>2, <3>1, ResultIs
    <3> QED BY <3>2, BitsOf
  <2> HIDE DEF q
  <2>4. r \in Values
    BY <2>3, NullIs
  <2>5. ret.ty = "i32" /\ Agrees(ret) => Agrees(r)
    <3>1. ASSUME ret.ty = "i32", Agrees(ret) PROVE Agrees(q)
      <4>1. Unsigned(ret.val, W) = ret.val
        BY <2>2, <3>1, BitsOf, UnsignedIs, WidthFacts
      <4> QED BY <2>3, <3>1, <4>1 DEF Agrees
    <3> QED BY <3>1, NullIs
  <2>6. (Top.op = "proc" => "proc" \in used) => Justified(r, used, logged)
    BY <2>3, NullIs DEF Justified
  <2> HIDE DEF r
  <2>7. /\ smem' \in [Vars -> Words(W)] /\ omem' \in [Vars -> Words(W)]
        /\ sout' \in Seq(Nat) /\ oout' \in Seq(Nat) /\ UNCHANGED <<logged, used, cost, nStmts>>
        /\ rejected' \in BOOLEAN /\ sUndef' \in BOOLEAN /\ oTrap' \in BOOLEAN /\ odd' \subseteq Differences
    BY <2>1, <2>2 DEF Typed, Differences, Effect, mems
  <2>8. /\ Typed'
        /\ Explained /\ Justified(r, used, logged) => FlowJustified' /\ CrashExplained'
        /\ FlowAgrees /\ Agrees(r) => FlowAgrees'
    BY <1>1, <2>1, <2>4, <2>7, ReturnMoves
  <2>9. ASSUME Explained PROVE Explained'
    <3>1. Justified(ret, used, logged) /\ (Top.op = "proc" => "proc" \in used)
      BY <1>1, <2>9, OperandFacts DEF Sorts
    <3>2. Justified(r, used, logged)
      BY <2>6, <3>1
    <3>3. ret.ty # "i32" => logged \/ used \cap {"compare", "logic", "!", "char", "prefix", "proc"} # {}
      BY <2>2, <3>1 DEF Justified, ValueTypes
    <3> QED BY <2>1, <2>8, <2>9, <3>2, <3>3 DEF Explained, RejectionExplained
  <2>10. ASSUME Agreement, Faithful' PROVE FlowAgrees' /\ smem' = omem' /\ sout' = oout' /\ ~oTrap'
    <3>1. Faithful /\ Top.live /\ ret.ty = "i32"
      BY <2>1, <2>10 DEF Faithful, Effect
    <3>2. FlowAgrees /\ smem = omem /\ sout = oout /\ ~oTrap
      BY <2>10, <3>1 DEF Agreement
    <3>3. Agrees(ret) /\ ret.src = ret.val
      BY <1>1, <3>1, <3>2, OperandFacts DEF Agrees
    <3> QED BY <2>1, <2>5, <2>8, <3>1, <3>2, <3>3 DEF mems
  <2> QED BY <2>8, <2>9, <2>10 DEF Agreement
<1> QED BY <1>3, <1>4

-----------------------------------------------------------------------------
(* Methods with two operands.                                              *)

\* The left operand is kept.
LEMMA LeftDoneKeeps ==
    ASSUME Typed, LeftDone
    PROVE  Typed' /\ (Explained => Explained') /\ (Agreement => Agreement')
<1>1. FlowTyped' /\ (FlowJustified => FlowJustified') /\ (FlowAgrees => FlowAgrees')
  BY LeftDoneFlow DEF Typed
<1>2. phase' = "down" /\ UNCHANGED <<ret, mems, outs, flags, used, cost, nStmts>>
  BY DEF LeftDone
<1>3. Typed'
  BY <1>1, <1>2 DEF Typed, mems, outs, flags
<1>4. Explained => Explained'
  BY <1>1, <1>2, StillExplained DEF Explained, flags
<1>5. Agreement => Agreement'
  BY <1>1, <1>2 DEF Agreement, Faithful, mems, outs, flags
<1> QED BY <1>3, <1>4, <1>5

\* What holds when both operands are there.
LEMMA OperandsFacts ==
    ASSUME Typed, phase = "up", Top.left # << >>
    PROVE  /\ Left \in Values /\ ret \in Values
           /\ Left.ty \in ValueTypes /\ ret.ty \in ValueTypes
           /\ Left.src \in Words(W) /\ ret.src \in Words(W)
           /\ Left.val \in Words(Bits(Left.ty)) /\ ret.val \in Nat
           /\ Left.const \in BOOLEAN /\ ret.const \in BOOLEAN
           /\ Top.live \in BOOLEAN
BY OperandFacts, ValueFields

\* A binary operation on two types has a reason.
Reasons == {"compare", "logic", "!", "char", "prefix", "proc"}

\* Two types that differ have a reason, since one of them is not int.
LEMMA MixedExplained ==
    ASSUME NEW l \in Values, NEW r \in Values, NEW u, NEW log \in BOOLEAN,
           Justified(l, u, log), Justified(r, u, log), l.ty # r.ty
    PROVE  log \/ u \cap Reasons # {}
BY ValueFields DEF Justified, Reasons, ValueTypes

\* A null operand has one too.
LEMMA OneNullExplained ==
    ASSUME Typed, phase = "up", Top.left # << >>, OneIsNull, Stop("crashed")
    PROVE  Typed' /\ (Explained => Explained') /\ (Agreement => Agreement')
<1>1. Explained => Explained'
  BY OperandFacts, NullExplained, StopKeeps DEF Explained, OneIsNull
<1> QED BY <1>1, StopKeeps

\* The instruction of an arithmetic operator has the type of the left operand.
LEMMA ArithResultIs ==
    ASSUME NEW op \in ArithOps, NEW l \in Values, NEW r \in Values, NEW c \in BOOLEAN
    PROVE  LET q == Result(CArith(op, l.src, r.src, W), l.ty,
                           OArith(op, l.val, r.val, Bits(l.ty)), c)
           IN  /\ q \in Values /\ q.ty = l.ty
               /\ q.src = CArith(op, l.src, r.src, W)
               /\ q.val = Unsigned(OArith(op, l.val, r.val, Bits(l.ty)), Bits(l.ty))
<1> DEFINE s == CArith(op, l.src, r.src, W)
           t == l.ty
           v == OArith(op, l.val, r.val, Bits(l.ty))
<1>1. s \in Words(W)
  BY CArithType, ValueFields, WidthFacts
<1>2. t \in ValueTypes /\ Bits(t) \in Nat \ {0}
  BY ValueFields, WidthFacts DEF ValueTypes
<1>3. v \in Int
  BY <1>2, OArithType, ValueFields
<1> HIDE DEF s, t, v
<1>4. LET q == Result(s, t, v, c)
      IN  q \in Values /\ q.ty = t /\ q.src = s /\ q.val = Unsigned(v, Bits(t))
  BY <1>1, <1>2, <1>3, ResultIs
<1> QED BY <1>4 DEF s, t, v

\* It computes what C says on operands of one type, when they are ints or
\* the operator is a bitwise one.
LEMMA ArithResultAgrees ==
    ASSUME NEW op \in ArithOps, NEW l \in Values, NEW r \in Values, NEW c \in BOOLEAN,
           Agrees(l), Agrees(r), l.ty = r.ty,
           op \notin BitOps => ~IsNarrow(l),
           op = ">>" => Signed(l.src, W) >= 0
    PROVE  Agrees(Result(CArith(op, l.src, r.src, W), l.ty,
                         OArith(op, l.val, r.val, Bits(l.ty)), c))
<1> DEFINE s == CArith(op, l.src, r.src, W)
           w == Bits(l.ty)
           v == OArith(op, l.val, r.val, w)
           q == Result(s, l.ty, v, c)
<1> SUFFICES Agrees(q)
  OBVIOUS
<1>1. q.ty = l.ty /\ q.src = s /\ q.val = Unsigned(v, w)
  BY ArithResultIs
<1>2. l.ty \in ValueTypes /\ w \in Nat \ {0}
  BY ValueFields, WidthFacts DEF ValueTypes
<1>3. CASE op \in BitOps
  <2>1. ~Meaningless(op, l.src, r.src, W) /\ ~Meaningless(op, l.val, r.val, w)
    BY <1>3 DEF Meaningless, Traps, BitOps
  <2>2. s = Bitwise[W][op][l.src][r.src] /\ v = Bitwise[w][op][l.val][r.val]
    BY <1>3, <2>1 DEF CArith, OArith, BitOps
  <2>3. v \in Words(w) /\ v \in Int
    <3>1. v \in Words(w)
      BY <1>3, <2>2, BitwiseAgrees
    <3>2. Pow2[w] \in Nat
      BY <1>2, PowerType
    <3> QED BY <3>1, <3>2 DEF Words
  <2>4. q.val = v
    BY <1>1, <1>2, <2>3, UnsignedIs
  <2>5. /\ l.ty = "i1" => s = v
        /\ l.ty = "i8" => s = Extended(B, W, v)
        /\ l.ty \in {"i32", "null"} => s = v
    BY <1>3, <2>2, BitwiseAgrees
  <2> HIDE DEF q, s, v, w
  <2> QED BY <1>1, <2>4, <2>5 DEF Agrees
<1>4. CASE op \notin BitOps
  <2>1. l.ty \in {"i32", "null"} /\ w = W
    BY <1>2, <1>4, BitsOf DEF IsNarrow, ValueTypes
  <2>2. l.src = l.val /\ r.src = r.val /\ l.src \in Words(W) /\ r.src \in Words(W)
    BY <2>1, ValueFields DEF Agrees
  <2>3. s = v /\ s \in Words(W)
    BY <2>1, <2>2, WidthFacts, ArithAgrees, CArithType
  <2>4. v \in Int
    BY <2>3, WidthFacts DEF Words
  <2>5. Unsigned(v, w) = v
    BY <2>1, <2>3, <2>4, UnsignedIs, WidthFacts
  <2> HIDE DEF q, s, v, w
  <2> QED BY <1>1, <2>1, <2>3, <2>5 DEF Agrees
<1> QED BY <1>3, <1>4

\* What the flags say about the operands of an arithmetic operator.
LEMMA ArithFlagsTyped ==
    ASSUME Typed, phase = "up", Top.left # << >>, NEW op \in ArithOps, ArithFlags(op)
    PROVE  /\ rejected' \in BOOLEAN /\ sUndef' \in BOOLEAN /\ oTrap' \in BOOLEAN
           /\ odd' \subseteq Differences
           /\ rejected' => rejected \/ Left.ty # ret.ty
<1>1. rejected' \in BOOLEAN /\ (rejected' => rejected \/ Left.ty # ret.ty)
  BY DEF ArithFlags, Rejection, SameType, Typed
<1>2. odd' \subseteq Differences
  BY DEF ArithFlags, OddArith, Mixed, Effect, Differences, Typed
<1>3. sUndef' \in BOOLEAN /\ oTrap' \in BOOLEAN
  BY OperandsFacts DEF ArithFlags, Typed, Meaningless, Traps
<1> QED BY <1>1, <1>2, <1>3

\* When no flag is raised, the operands are of one type, C goes there, and the
\* operation neither traps nor shifts a negative number.
LEMMA ArithFlagsSay ==
    ASSUME Typed, phase = "up", Top.left # << >>, NEW op \in ArithOps, ArithFlags(op),
           logged' = logged, Faithful'
    PROVE  /\ Faithful
           /\ Left.ty = ret.ty
           /\ op \notin BitOps => ~IsNarrow(Left) /\ ~IsNarrow(ret)
           /\ op = ">>" => Signed(Left.src, W) >= 0
           /\ FlowAgrees /\ ~oTrap => ~oTrap'
           /\ Top.kind = "assign" => Top.live
<1>1. odd' = {} /\ ~logged' /\ ~rejected' /\ ~sUndef'
  BY DEF Faithful
<1>2. SameType /\ odd = {}
  BY <1>1 DEF ArithFlags, OddArith, Mixed
<1>3. rejected' = rejected
  BY <1>2 DEF ArithFlags, Rejection
<1>4. Faithful /\ (Top.live => ~Meaningless(op, Left.src, ret.src, W))
  BY <1>1, <1>2, <1>3 DEF ArithFlags, Faithful
<1>5. op \notin BitOps => ~IsNarrow(Left) /\ ~IsNarrow(ret)
  BY <1>1 DEF ArithFlags, OddArith, BitOps
<1>6. op = ">>" => Signed(Left.src, W) >= 0
  <2>1. op = ">>" => ~(Signed(Left.src, W) < 0)
    BY <1>1 DEF ArithFlags, OddArith
  <2>2. Signed(Left.src, W) \in Int
    BY OperandsFacts, SignedIs, WidthFacts
  <2> QED BY <2>1, <2>2
<1>7. Top.kind = "assign" => Top.live
  BY <1>1 DEF ArithFlags, Effect
<1>8. Traps(op, Left.val, ret.val, Bits(Left.ty)) => Top.live
  BY <1>1 DEF ArithFlags, OddArith, Effect
<1>9. ASSUME FlowAgrees PROVE ~Traps(op, Left.val, ret.val, Bits(Left.ty))
  <2> SUFFICES ASSUME Traps(op, Left.val, ret.val, Bits(Left.ty)) PROVE FALSE
    OBVIOUS
  <2>1. Top.live /\ op \in {"/", "%"} /\ op \notin BitOps
    BY <1>8 DEF Traps, BitOps
  <2>2. Left.ty \in {"i32", "null"} /\ ret.ty \in {"i32", "null"}
    BY <1>5, <2>1, OperandsFacts DEF IsNarrow, ValueTypes
  <2>3. Left.src = Left.val /\ ret.src = ret.val /\ Bits(Left.ty) = W
    BY <1>9, <2>2, OperandFacts, BitsOf DEF Agrees
  <2> QED BY <1>4, <2>1, <2>3 DEF Meaningless
<1>10. FlowAgrees /\ ~oTrap => ~oTrap'
  BY <1>9 DEF ArithFlags
<1> QED BY <1>2, <1>4, <1>5, <1>6, <1>7, <1>10 DEF SameType

\* An arithmetic operator.
LEMMA BinaryArithKeeps ==
    ASSUME Typed, BinaryArith
    PROVE  Typed' /\ (Explained => Explained') /\ (Agreement => Agreement')
<1>1. phase = "up" /\ Top.kind = "arith" /\ Top.left # << >>
  BY DEF BinaryArith, AtRight, AtOperand
<1>2. Top.op \in ArithOps /\ Left \in Values /\ ret \in Values
  BY <1>1, OperandFacts DEF OpsOf
<1>3. CASE OneIsNull
  <2>1. Stop("crashed")
    BY <1>3 DEF BinaryArith
  <2> QED BY <1>1, <1>3, <2>1, OneNullExplained
<1>4. CASE ~OneIsNull
  <2> DEFINE c == Left.const /\ ret.const
             r == Result(CArith(Top.op, Left.src, ret.src, W), Left.ty,
                         OArith(Top.op, Left.val, ret.val, Bits(Left.ty)), c)
  <2>1. Return(r) /\ ArithFlags(Top.op) /\ UNCHANGED <<mems, outs, logged, used, cost, nStmts>>
    BY <1>4 DEF BinaryArith
  <2>2. r \in Values /\ r.ty = Left.ty
    <3>1. c \in BOOLEAN
      OBVIOUS
    <3> HIDE DEF c
    <3> QED BY <1>2, <3>1, ArithResultIs
  <2>3. /\ rejected' \in BOOLEAN /\ sUndef' \in BOOLEAN /\ oTrap' \in BOOLEAN /\ odd' \subseteq Differences
        /\ rejected' => rejected \/ Left.ty # ret.ty
    BY <1>1, <1>2, <2>1, ArithFlagsTyped
  <2>4. /\ Typed'
        /\ Explained /\ Justified(r, used, logged) => FlowJustified' /\ CrashExplained'
        /\ FlowAgrees /\ Agrees(r) => FlowAgrees'
    <3> HIDE DEF r
    <3> QED BY <1>1, <2>1, <2>2, <2>3, ReturnKeeps
  <2>5. ASSUME Explained PROVE Explained'
    <3>1. Justified(ret, used, logged) /\ Justified(Left, used, logged)
      BY <1>1, <2>5, OperandFacts
    <3>2. Justified(r, used, logged)
      BY <2>2, <3>1 DEF Justified
    <3>3. Left.ty # ret.ty => logged \/ used \cap Reasons # {}
      <4>1. logged \in BOOLEAN
        BY DEF Typed
      <4> QED BY <1>2, <3>1, <4>1, MixedExplained
    <3> HIDE DEF r
    <3> QED BY <2>1, <2>3, <2>4, <2>5, <3>2, <3>3 DEF Explained, RejectionExplained, Reasons
  <2>6. ASSUME Agreement, Faithful' PROVE FlowAgrees' /\ smem' = omem' /\ sout' = oout' /\ ~oTrap'
    <3>1. /\ Faithful /\ Left.ty = ret.ty
          /\ Top.op \notin BitOps => ~IsNarrow(Left)
          /\ Top.op = ">>" => Signed(Left.src, W) >= 0
          /\ FlowAgrees /\ ~oTrap => ~oTrap'
      BY <1>1, <1>2, <2>1, <2>6, ArithFlagsSay
    <3>2. FlowAgrees /\ smem = omem /\ sout = oout /\ ~oTrap
      BY <2>6, <3>1 DEF Agreement
    <3>3. Agrees(ret) /\ Agrees(Left)
      BY <1>1, <3>2, OperandFacts
    <3>4. Agrees(r)
      <4>1. c \in BOOLEAN
        OBVIOUS
      <4> HIDE DEF c
      <4> QED BY <1>2, <3>1, <3>3, <4>1, ArithResultAgrees
    <3> HIDE DEF r
    <3> QED BY <2>1, <2>4, <3>1, <3>2, <3>4 DEF mems, outs
  <2> QED BY <2>4, <2>5, <2>6 DEF Agreement
<1> QED BY <1>3, <1>4

\* A bit stands for the truth value it was made of.
LEMMA BitResultIs ==
    ASSUME NEW p \in BOOLEAN, NEW q \in BOOLEAN, NEW c \in BOOLEAN
    PROVE  LET r == Result(Bit(p), "i1", Bit(q), c)
           IN  r \in Values /\ r.ty = "i1" /\ (p = q => Agrees(r))
<1> DEFINE s == Bit(p)
           v == Bit(q)
           r == Result(s, "i1", v, c)
<1>1. s \in {0, 1} /\ v \in {0, 1} /\ (p = q => s = v)
  BY DEF Bit
<1>2. s \in Words(W) /\ v \in Int /\ v \in Words(1) /\ "i1" \in ValueTypes
  BY <1>1, WidthFacts, FirstPowers DEF ValueTypes, Words
<1> HIDE DEF s, v
<1>3. r \in Values /\ r.ty = "i1" /\ r.src = s /\ r.val = Unsigned(v, Bits("i1"))
  BY <1>2, ResultIs
<1>4. r.val = v
  BY <1>2, <1>3, BitsOf, UnsignedIs
<1>5. p = q => Agrees(r)
  BY <1>1, <1>3, <1>4 DEF Agrees
<1> QED BY <1>3, <1>5 DEF s, v

\* A comparison has a truth value.
LEMMA CompareType ==
    ASSUME NEW op \in CondOps, NEW w, NEW a, NEW b
    PROVE  CCompare(op, a, b, w) \in BOOLEAN
<1> DEFINE n == Signed(a, w)
           d == Signed(b, w)
<1>1. CASE op = "<"
  <2>1. CCompare(op, a, b, w) = (n < d)
    BY <1>1 DEF CCompare
  <2> QED BY <2>1
<1>2. CASE op = "<="
  <2>1. CCompare(op, a, b, w) = (n <= d)
    BY <1>2 DEF CCompare
  <2> QED BY <2>1
<1>3. CASE op = ">"
  <2>1. CCompare(op, a, b, w) = (n > d)
    BY <1>3 DEF CCompare
  <2> QED BY <2>1
<1>4. CASE op = ">="
  <2>1. CCompare(op, a, b, w) = (n >= d)
    BY <1>4 DEF CCompare
  <2> QED BY <2>1
<1>5. CASE op = "=="
  <2>1. CCompare(op, a, b, w) = (n = d)
    BY <1>5 DEF CCompare
  <2> QED BY <2>1
<1>6. CASE op = "!="
  <2>1. CCompare(op, a, b, w) = (n # d)
    BY <1>6 DEF CCompare
  <2> QED BY <2>1
<1> QED BY <1>1, <1>2, <1>3, <1>4, <1>5, <1>6 DEF CondOps

\* A comparison.
LEMMA CompareKeeps ==
    ASSUME Typed, Compare
    PROVE  Typed' /\ (Explained => Explained') /\ (Agreement => Agreement')
<1>1. phase = "up" /\ Top.kind = "compare" /\ Top.left # << >>
  BY DEF Compare, AtRight, AtOperand
<1>2. Top.op \in CondOps /\ Left \in Values /\ ret \in Values
  BY <1>1, OperandFacts DEF OpsOf
<1>3. CASE OneIsNull
  <2>1. Stop("crashed")
    BY <1>3 DEF Compare
  <2> QED BY <1>1, <1>3, <2>1, OneNullExplained
<1>4. CASE ~OneIsNull
  <2> DEFINE r == CompareResult(Top.op, Left, ret)
  <2>1. /\ Return(r)
        /\ rejected' \in Rejection(SameType)
        /\ odd' = odd \cup Mixed(SameType)
                      \cup (IF Left.ty = "i1" /\ Top.op \notin {"==", "!="}
                            THEN {"narrow"} ELSE {})
        /\ UNCHANGED <<mems, outs, logged, sUndef, oTrap, used, cost, nStmts>>
    BY <1>4 DEF Compare
  <2>2. /\ r \in Values /\ r.ty = "i1"
        /\ CCompare(Top.op, Left.src, ret.src, W)
             = CCompare(Top.op, Left.val, ret.val, Bits(Left.ty)) => Agrees(r)
    <3> DEFINE p == CCompare(Top.op, Left.src, ret.src, W)
               q == CCompare(Top.op, Left.val, ret.val, Bits(Left.ty))
               c == Left.const /\ ret.const
    <3>1. p \in BOOLEAN /\ q \in BOOLEAN /\ c \in BOOLEAN
      BY <1>2, CompareType, ValueFields
    <3>2. r = Result(Bit(p), "i1", Bit(q), c)
      BY DEF CompareResult
    <3> HIDE DEF p, q, c, r
    <3>3. r \in Values /\ r.ty = "i1" /\ (p = q => Agrees(r))
      BY <3>1, <3>2, BitResultIs
    <3> QED BY <3>3 DEF p, q
  <2> HIDE DEF r
  <2>3. /\ rejected' \in BOOLEAN /\ sUndef' \in BOOLEAN /\ oTrap' \in BOOLEAN /\ odd' \subseteq Differences
        /\ rejected' => rejected \/ Left.ty # ret.ty
    BY <2>1 DEF Typed, Differences, Rejection, Mixed, SameType
  <2>4. /\ Typed'
        /\ Explained /\ Justified(r, used, logged) => FlowJustified' /\ CrashExplained'
        /\ FlowAgrees /\ Agrees(r) => FlowAgrees'
    BY <1>1, <2>1, <2>2, <2>3, ReturnKeeps
  <2>5. ASSUME Explained PROVE Explained'
    <3>1. Justified(ret, used, logged) /\ Justified(Left, used, logged) /\ "compare" \in used
      BY <1>1, <2>5, OperandFacts DEF Sorts
    <3>2. Justified(r, used, logged)
      BY <2>2, <3>1 DEF Justified
    <3>3. RejectionExplained'
      BY <2>1, <3>1 DEF RejectionExplained
    <3> QED BY <2>4, <2>5, <3>2, <3>3 DEF Explained
  <2>6. ASSUME Agreement, Faithful' PROVE FlowAgrees' /\ smem' = omem' /\ sout' = oout' /\ ~oTrap'
    <3>1. odd' = {} /\ ~logged' /\ ~rejected' /\ ~sUndef'
      BY <2>6 DEF Faithful
    <3>2. SameType /\ odd = {} /\ (Left.ty = "i1" => Top.op \in {"==", "!="})
      BY <2>1, <3>1 DEF Mixed
    <3>3. Faithful
      BY <2>1, <3>1, <3>2 DEF Faithful, Rejection
    <3>4. FlowAgrees /\ smem = omem /\ sout = oout /\ ~oTrap
      BY <2>6, <3>3 DEF Agreement
    <3>5. Agrees(ret) /\ Agrees(Left)
      BY <1>1, <3>4, OperandFacts
    <3>6. Agrees(r)
      BY <1>2, <2>2, <3>2, <3>5, CompareAgrees DEF SameType
    <3> QED BY <2>1, <2>4, <3>4, <3>6 DEF mems, outs
  <2> QED BY <2>4, <2>5, <2>6 DEF Agreement
<1> QED BY <1>3, <1>4

\* The value of a select on two operands.
LEMMA LogicIs ==
    ASSUME NEW op \in LogicOps, NEW l \in Values, NEW r \in Values, NEW c \in BOOLEAN
    PROVE  LET q == Result(LogicSource(op, l, r), r.ty, LogicSelect(op, l, r), c)
           IN  /\ q \in Values /\ q.ty = r.ty
               /\ l.ty = "i1" /\ r.ty = "i1" /\ Agrees(l) /\ Agrees(r) => Agrees(q)
<1> DEFINE s == LogicSource(op, l, r)
           v == LogicSelect(op, l, r)
           q == Result(s, r.ty, v, c)
<1>1. s \in {0, 1} /\ s \in Words(W)
  <2>1. s \in {0, 1}
    BY DEF LogicSource, Bit
  <2> QED BY <2>1, WidthFacts
<1>2. v \in Int
  <2>1. r.val \in Int /\ Pow2[Bits(r.ty)] \in Nat
    BY ValueFields, WidthFacts, PowerType DEF ValueTypes
  <2> QED BY <2>1 DEF LogicSelect
<1>3. q \in Values /\ q.ty = r.ty /\ q.src = s /\ q.val = Unsigned(v, Bits(r.ty))
  <2> HIDE DEF s, v
  <2> QED BY <1>1, <1>2, ValueFields, ResultIs
<1>4. ASSUME l.ty = "i1", r.ty = "i1", Agrees(l), Agrees(r) PROVE Agrees(q)
  <2>1. l.src = l.val /\ r.src = r.val /\ l.val \in {0, 1} /\ r.val \in {0, 1}
    <3>1. l.val \in Words(1) /\ r.val \in Words(1) /\ l.val = l.src /\ r.val = r.src
      BY <1>4, ValueFields, BitsOf DEF Agrees
    <3> QED BY <3>1, FirstPowers DEF Words
  <2>2. Pow2[Bits(r.ty)] - 1 = 1
    BY <1>4, BitsOf, FirstPowers
  <2>3. v = s
    BY <2>1, <2>2 DEF LogicSelect, LogicSource, Bit, LogicOps
  <2>4. s \in Words(1) /\ s \in Int
    BY <1>1, FirstPowers DEF Words
  <2> HIDE DEF s, v
  <2>5. Unsigned(v, Bits(r.ty)) = s
    BY <1>4, <2>3, <2>4, BitsOf, UnsignedIs
  <2> HIDE DEF q
  <2> QED BY <1>3, <1>4, <2>5 DEF Agrees
<1> HIDE DEF q
<1> QED BY <1>3, <1>4 DEF q

\* The operators && and ||, which select.
LEMMA LogicKeeps ==
    ASSUME Typed, Logic
    PROVE  Typed' /\ (Explained => Explained') /\ (Agreement => Agreement')
<1>1. phase = "up" /\ Top.kind = "logic" /\ Top.left # << >>
  BY DEF Logic, AtRight, AtOperand
<1>2. Top.op \in LogicOps /\ Left \in Values /\ ret \in Values
  BY <1>1, OperandFacts DEF OpsOf
<1>3. CASE OneIsNull
  <2>1. Stop("crashed")
    BY <1>3 DEF Logic
  <2> QED BY <1>1, <1>3, <2>1, OneNullExplained
<1>4. CASE ~OneIsNull
  <2> DEFINE c == Left.const /\ ret.const
             r == Result(LogicSource(Top.op, Left, ret), ret.ty,
                         LogicSelect(Top.op, Left, ret), c)
             fits == Left.ty = "i1"
  <2>1. /\ Return(r)
        /\ rejected' \in Rejection(fits)
        /\ odd' = odd \cup Mixed(fits) \cup (IF ret.ty # "i1" THEN {"select"} ELSE {})
        /\ UNCHANGED <<mems, outs, logged, sUndef, oTrap, used, cost, nStmts>>
    BY <1>4 DEF Logic
  <2>2. /\ r \in Values /\ r.ty = ret.ty
        /\ fits /\ ret.ty = "i1" /\ Agrees(Left) /\ Agrees(ret) => Agrees(r)
    <3>1. c \in BOOLEAN
      OBVIOUS
    <3> HIDE DEF c
    <3> QED BY <1>2, <3>1, LogicIs
  <2> HIDE DEF r
  <2>3. rejected' \in BOOLEAN /\ sUndef' \in BOOLEAN /\ oTrap' \in BOOLEAN /\ odd' \subseteq Differences
    BY <2>1 DEF Typed, Differences, Rejection, Mixed
  <2>4. /\ Typed'
        /\ Explained /\ Justified(r, used, logged) => FlowJustified' /\ CrashExplained'
        /\ FlowAgrees /\ Agrees(r) => FlowAgrees'
    BY <1>1, <2>1, <2>2, <2>3, ReturnKeeps
  <2>5. ASSUME Explained PROVE Explained'
    <3>1. Justified(ret, used, logged) /\ "logic" \in used
      BY <1>1, <2>5, OperandFacts DEF Sorts
    <3>2. Justified(r, used, logged)
      BY <2>2, <3>1 DEF Justified
    <3>3. RejectionExplained'
      BY <2>1, <3>1 DEF RejectionExplained
    <3> QED BY <2>4, <2>5, <3>2, <3>3 DEF Explained
  <2>6. ASSUME Agreement, Faithful' PROVE FlowAgrees' /\ smem' = omem' /\ sout' = oout' /\ ~oTrap'
    <3>1. odd' = {} /\ ~logged' /\ ~rejected' /\ ~sUndef'
      BY <2>6 DEF Faithful
    <3>2. fits /\ odd = {} /\ ret.ty = "i1"
      BY <2>1, <3>1 DEF Mixed
    <3>3. Faithful
      BY <2>1, <3>1, <3>2 DEF Faithful, Rejection
    <3>4. FlowAgrees /\ smem = omem /\ sout = oout /\ ~oTrap
      BY <2>6, <3>3 DEF Agreement
    <3>5. Agrees(r)
      BY <1>1, <2>2, <3>2, <3>4, OperandFacts
    <3> QED BY <2>1, <2>4, <3>4, <3>5 DEF mems, outs
  <2> QED BY <2>4, <2>5, <2>6 DEF Agreement
<1> QED BY <1>3, <1>4

-----------------------------------------------------------------------------
(* Stores.                                                                 *)

\* Widths add as powers multiply.
LEMMA PowersMultiply ==
    \A m, n \in Nat : Pow2[m + n] = Pow2[m] * Pow2[n]
<1> SUFFICES ASSUME NEW m \in Nat PROVE \A n \in Nat : Pow2[m + n] = Pow2[m] * Pow2[n]
  OBVIOUS
<1> DEFINE T == {n \in Nat : Pow2[m + n] = Pow2[m] * Pow2[n]}
<1>1. 0 \in T
  <2>1. Pow2[m] \in Nat /\ m + 0 = m
    BY PowerType
  <2> QED BY <2>1, FirstPowers
<1>2. ASSUME NEW n \in Nat, n \in T PROVE n + 1 \in T
  <2>1. m + n \in Nat /\ m + (n + 1) = (m + n) + 1
    OBVIOUS
  <2>2. Pow2[m + (n + 1)] = 2 * Pow2[m + n] /\ Pow2[n + 1] = 2 * Pow2[n]
    BY <2>1, PowersOfTwo
  <2>3. Pow2[m] \in Nat /\ Pow2[n] \in Nat /\ Pow2[m + n] = Pow2[m] * Pow2[n]
    BY <1>2, PowerType
  <2>4. \A a, b \in Nat : a * (2 * b) = 2 * (a * b)
    OBVIOUS
  <2> QED BY <2>2, <2>3, <2>4
<1> HIDE DEF T
<1>3. \A n \in Nat : n \in T
  BY <1>1, <1>2, SetInduction
<1> QED BY <1>3 DEF T

\* The low bytes of a number are replaced.
LEMMA LowPart ==
    ASSUME NEW m \in Nat \ {0}, NEW k \in Nat, NEW a \in 0..m * k - 1, NEW x \in 0..m - 1
    PROVE  (a \div m) * m + x \in 0..m * k - 1
<1> DEFINE q == a \div m
<1>1. m * k \in Nat
  OBVIOUS
<1>2. a \in Nat /\ a < m * k
  BY <1>1
<1>3. q \in Nat /\ q * m <= a
  BY <1>2
<1> HIDE DEF q
<1>4. q < k
  <2> SUFFICES ASSUME k <= q PROVE FALSE
    BY <1>3
  <2>1. m * k <= q * m
    BY <1>3
  <2> QED BY <1>1, <1>2, <1>3, <2>1
<1>5. q * m \in Nat /\ q * m + m <= m * k
  <2>1. q + 1 <= k
    BY <1>3, <1>4
  <2>2. (q + 1) * m <= k * m
    BY <1>3, <2>1
  <2>3. (q + 1) * m = q * m + m /\ k * m = m * k
    BY <1>3
  <2> QED BY <1>1, <1>3, <2>2, <2>3
<1>6. q * m + x \in 0..m * k - 1
  BY <1>1, <1>5
<1> QED BY <1>6 DEF q

\* A store leaves a word in the variable, and the value when it is an int.
LEMMA StoredIs ==
    ASSUME NEW old \in Words(W), NEW r \in Values
    PROVE  /\ Stored(old, r) \in Words(W)
           /\ ~IsNarrow(r) => Stored(old, r) = r.val
<1>1. r.val \in Words(Bits(r.ty)) /\ r.ty \in ValueTypes
  BY ValueFields
<1>2. CASE ~IsNarrow(r)
  BY <1>1, <1>2, BitsOf DEF Stored, IsNarrow, ValueTypes
<1>3. CASE IsNarrow(r)
  <2> DEFINE m == Pow2[B]
             k == Pow2[W - B]
  <2>1. B \in Nat /\ W - B \in Nat /\ B + (W - B) = W /\ m \in Nat \ {0} /\ k \in Nat
    <3>1. B \in Nat /\ W - B \in Nat /\ B + (W - B) = W
      BY WidthsAreSane
    <3> QED BY <3>1, PowersOfTwo
  <2>2. Pow2[W] = m * k
    BY <2>1, PowersMultiply
  <2>3. r.val \in 0..m - 1
    <3>1. r.val \in Words(1) \/ r.val \in Words(B)
      BY <1>1, <1>3, BitsOf DEF IsNarrow
    <3>2. 2 <= m
      BY WidthFacts
    <3> QED BY <2>1, <3>1, <3>2, FirstPowers DEF Words
  <2> HIDE DEF m, k
  <2>4. old \in 0..m * k - 1
    BY <2>2 DEF Words
  <2>5. (old \div m) * m + r.val \in 0..m * k - 1
    BY <2>1, <2>3, <2>4, LowPart
  <2> QED BY <1>3, <2>2, <2>5 DEF Stored, Words, m
<1> QED BY <1>2, <1>3

\* A variable is an int.
LEMMA VariableIs ==
    ASSUME NEW r \in Values, r.id \in Vars
    PROVE  r.ty = "i32" /\ Bits(r.ty) = W /\ ~IsNull(r) /\ ~IsNarrow(r)
<1>1. r.id # NoVar
  BY NoVarIsNone
<1> QED BY <1>1, ValueFields, BitsOf DEF IsNull, IsNarrow

\* What an assignment answers is loaded from the variable.
LEMMA LoadIs ==
    ASSUME NEW s \in Words(W), NEW v \in Words(W)
    PROVE  LET r == Result(s, "i32", v, FALSE)
           IN  r \in Values /\ r.ty = "i32" /\ (s = v => Agrees(r))
<1> DEFINE r == Result(s, "i32", v, FALSE)
<1>1. v \in Int /\ "i32" \in ValueTypes /\ FALSE \in BOOLEAN
  BY WidthFacts DEF ValueTypes, Words
<1>2. r \in Values /\ r.ty = "i32" /\ r.src = s /\ r.val = Unsigned(v, Bits("i32"))
  BY <1>1, ResultIs
<1>3. r.val = v
  BY <1>1, <1>2, BitsOf, UnsignedIs, WidthFacts
<1>4. s = v => Agrees(r)
  BY <1>2, <1>3 DEF Agrees
<1> QED BY <1>2, <1>4

\* What an assignment that goes through does.
AssignSrc == IF Top.op = "=" THEN ret.src ELSE CArith(Top.op, Left.src, ret.src, W)
AssignVal == IF Top.op = "=" THEN ret
             ELSE Result(AssignSrc, Left.ty, OArith(Top.op, Left.val, ret.val, W), FALSE)

Assigns ==
    /\ Left.id \in Vars /\ ~IsNull(ret)
    /\ smem' = IF Top.live THEN [smem EXCEPT ![Left.id] = AssignSrc] ELSE smem
    /\ omem' = [omem EXCEPT ![Left.id] = Stored(omem[Left.id], AssignVal)]
    /\ Return(Result(AssignSrc, "i32", Stored(omem[Left.id], AssignVal), FALSE))
    /\ IF Top.op = "="
       THEN /\ odd' = odd \cup NarrowStore(ret) \cup Effect(Top.live)
            /\ UNCHANGED <<rejected, sUndef, oTrap>>
       ELSE ArithFlags(Top.op)
    /\ UNCHANGED <<outs, logged, used, cost, nStmts>>

\* An assignment crashes, stops at the assertion, or goes through.
LEMMA AssignCases ==
    ASSUME Typed, Assign
    PROVE  \/ OneIsNull /\ Stop("crashed")
           \/ Stop("asserted")
           \/ Assigns
<1>1. phase = "up" /\ Top.left # << >>
  BY DEF Assign, AtRight, AtOperand
<1>2. omem \in [Vars -> Words(W)]
  BY DEF Typed
<1>3. CASE (Top.op # "=" /\ OneIsNull) \/ (Left.id \in Vars /\ IsNull(ret))
  <2>1. Stop("crashed")
    BY <1>3 DEF Assign
  <2> QED BY <1>3, <2>1 DEF OneIsNull
<1>4. CASE /\ ~((Top.op # "=" /\ OneIsNull) \/ (Left.id \in Vars /\ IsNull(ret)))
           /\ Left.id \notin Vars
  BY <1>4 DEF Assign
<1>5. CASE /\ ~((Top.op # "=" /\ OneIsNull) \/ (Left.id \in Vars /\ IsNull(ret)))
           /\ Left.id \in Vars
  <2>1. /\ smem' = IF Top.live THEN [smem EXCEPT ![Left.id] = AssignSrc] ELSE smem
        /\ omem' = [omem EXCEPT ![Left.id] = Stored(omem[Left.id], AssignVal)]
        /\ Return(Result(AssignSrc, "i32", omem'[Left.id], FALSE))
        /\ IF Top.op = "="
           THEN /\ odd' = odd \cup NarrowStore(ret) \cup Effect(Top.live)
                /\ UNCHANGED <<rejected, sUndef, oTrap>>
           ELSE ArithFlags(Top.op)
        /\ UNCHANGED <<outs, logged, used, cost, nStmts>>
    BY <1>5 DEF Assign, AssignSrc, AssignVal
  <2>2. omem'[Left.id] = Stored(omem[Left.id], AssignVal)
    BY <1>2, <1>5, <2>1
  <2> QED BY <1>5, <2>1, <2>2 DEF Assigns
<1> QED BY <1>3, <1>4, <1>5

\* The value that is stored is the one C assigns.
LEMMA AssignValIs ==
    ASSUME Typed, phase = "up", Top.kind = "assign", Top.left # << >>, Assigns
    PROVE  /\ AssignSrc \in Words(W) /\ AssignVal \in Values
           /\ Agreement /\ Faithful' =>
                /\ Faithful /\ Top.live /\ FlowAgrees /\ smem = omem /\ sout = oout /\ ~oTrap'
                /\ ~IsNarrow(AssignVal) /\ AssignVal.val = AssignSrc
<1>1. Top.op \in AssignOps /\ Left \in Values /\ ret \in Values /\ Top.live \in BOOLEAN
  BY OperandFacts DEF OpsOf
<1>2. /\ Left.ty = "i32" /\ Bits(Left.ty) = W /\ Left.src \in Words(W) /\ Left.val \in Words(W)
      /\ ret.src \in Words(W) /\ ret.val \in Words(Bits(ret.ty)) /\ ret.ty \in ValueTypes
  BY <1>1, VariableIs, ValueFields DEF Assigns
<1>3. CASE Top.op = "="
  <2>1. AssignSrc = ret.src /\ AssignVal = ret
    BY <1>3 DEF AssignSrc, AssignVal
  <2>2. ASSUME Agreement, Faithful'
        PROVE  /\ Faithful /\ Top.live /\ FlowAgrees /\ smem = omem /\ sout = oout /\ ~oTrap'
               /\ ~IsNarrow(ret) /\ ret.val = ret.src
    <3>1. odd' = odd \cup NarrowStore(ret) \cup Effect(Top.live)
          /\ UNCHANGED <<rejected, sUndef, oTrap, logged>>
      BY <1>3 DEF Assigns
    <3>2. Faithful /\ Top.live /\ ~IsNarrow(ret)
      BY <2>2, <3>1 DEF Faithful, NarrowStore, Effect
    <3>3. FlowAgrees /\ smem = omem /\ sout = oout /\ ~oTrap
      BY <2>2, <3>2 DEF Agreement
    <3>4. Agrees(ret)
      BY <3>3, OperandFacts
    <3>5. ret.val = ret.src
      BY <1>2, <3>2, <3>4 DEF Agrees, IsNarrow, ValueTypes
    <3> QED BY <3>1, <3>2, <3>3, <3>5
  <2> QED BY <1>1, <1>2, <2>1, <2>2
<1>4. CASE Top.op # "="
  <2> DEFINE q == Result(AssignSrc, Left.ty, OArith(Top.op, Left.val, ret.val, W), FALSE)
  <2>1. Top.op \in ArithOps /\ AssignSrc = CArith(Top.op, Left.src, ret.src, W) /\ AssignVal = q
    BY <1>1, <1>4 DEF AssignOps, AssignSrc, AssignVal
  <2>2. AssignSrc \in Words(W)
    BY <1>2, <2>1, WidthFacts, CArithType
  <2>3. /\ q \in Values /\ q.ty = "i32"
        /\ q.val = Unsigned(OArith(Top.op, Left.val, ret.val, W), W)
    <3>1. FALSE \in BOOLEAN
      OBVIOUS
    <3> QED BY <1>1, <1>2, <2>1, <3>1, ArithResultIs
  <2>4. ASSUME Agreement, Faithful'
        PROVE  /\ Faithful /\ Top.live /\ FlowAgrees /\ smem = omem /\ sout = oout /\ ~oTrap'
               /\ ~IsNarrow(q) /\ q.val = AssignSrc
    <3>1. ArithFlags(Top.op) /\ logged' = logged
      BY <1>4 DEF Assigns
    <3>2. /\ Faithful /\ Left.ty = ret.ty /\ Top.live
          /\ Top.op = ">>" => Signed(Left.src, W) >= 0
          /\ FlowAgrees /\ ~oTrap => ~oTrap'
      BY <2>1, <2>4, <3>1, ArithFlagsSay
    <3>3. FlowAgrees /\ smem = omem /\ sout = oout /\ ~oTrap
      BY <2>4, <3>2 DEF Agreement
    <3>4. Left.src = Left.val /\ ret.src = ret.val
      BY <1>2, <3>2, <3>3, OperandFacts DEF Agrees
    <3>5. OArith(Top.op, Left.val, ret.val, W) = AssignSrc
      BY <1>2, <2>1, <3>2, <3>4, ArithAgrees, WidthFacts
    <3>6. q.val = AssignSrc
      <4>1. AssignSrc \in Int
        BY <2>2, WidthFacts DEF Words
      <4> QED BY <2>2, <2>3, <3>5, <4>1, UnsignedIs, WidthFacts
    <3> HIDE DEF q
    <3> QED BY <2>3, <3>2, <3>3, <3>6 DEF IsNarrow
  <2> HIDE DEF q
  <2> QED BY <2>1, <2>2, <2>3, <2>4
<1> QED BY <1>3, <1>4

\* An assignment.
LEMMA AssignKeeps ==
    ASSUME Typed, Assign
    PROVE  Typed' /\ (Explained => Explained') /\ (Agreement => Agreement')
<1>1. phase = "up" /\ Top.kind = "assign" /\ Top.left # << >>
  BY DEF Assign, AtRight, AtOperand
<1>2. CASE OneIsNull /\ Stop("crashed")
  BY <1>1, <1>2, OneNullExplained
<1>3. CASE Stop("asserted")
  <2>1. UNCHANGED <<used, logged, rejected>> /\ phase' = "asserted"
    BY <1>3 DEF Stop, flags
  <2>2. Explained => Explained'
    BY <1>3, <2>1, StillExplained, StopKeeps DEF Explained
  <2> QED BY <1>3, <2>2, StopKeeps
<1>4. CASE Assigns
  <2> DEFINE v == Left.id
             word == Stored(omem[v], AssignVal)
             r == Result(AssignSrc, "i32", word, FALSE)
  <2>1. AssignSrc \in Words(W) /\ AssignVal \in Values
    BY <1>1, <1>4, AssignValIs
  <2>2. word \in Words(W) /\ (~IsNarrow(AssignVal) => word = AssignVal.val)
    <3>1. omem[v] \in Words(W)
      BY <1>4 DEF Assigns, Typed
    <3> QED BY <2>1, <3>1, StoredIs
  <2>3. /\ smem' = IF Top.live THEN [smem EXCEPT ![v] = AssignSrc] ELSE smem
        /\ omem' = [omem EXCEPT ![v] = word]
        /\ Return(r)
        /\ UNCHANGED <<outs, logged, used, cost, nStmts>>
    BY <1>4 DEF Assigns
  <2> HIDE DEF word
  <2>4. r \in Values /\ r.ty = "i32" /\ (AssignSrc = word => Agrees(r))
    BY <2>1, <2>2, LoadIs
  <2> HIDE DEF r, v
  <2>5. smem' \in [Vars -> Words(W)] /\ omem' \in [Vars -> Words(W)]
    BY <2>1, <2>2, <2>3, StoreTyped DEF Typed
  <2>6. /\ rejected' \in BOOLEAN /\ sUndef' \in BOOLEAN /\ oTrap' \in BOOLEAN /\ odd' \subseteq Differences
        /\ rejected' => rejected \/ Left.ty # ret.ty
    <3>1. CASE Top.op = "="
      BY <1>4, <3>1 DEF Assigns, Typed, Differences, NarrowStore, Effect
    <3>2. CASE Top.op # "="
      <4>1. Top.op \in ArithOps
        BY <1>1, <3>2, OperandFacts DEF OpsOf, AssignOps
      <4> QED BY <1>1, <1>4, <3>2, <4>1, ArithFlagsTyped DEF Assigns
    <3> QED BY <3>1, <3>2
  <2>7. sout' \in Seq(Nat) /\ oout' \in Seq(Nat)
    BY <2>3 DEF Typed, outs
  <2>8. /\ Typed'
        /\ Explained /\ Justified(r, used, logged) => FlowJustified' /\ CrashExplained'
        /\ FlowAgrees /\ Agrees(r) => FlowAgrees'
    BY <1>1, <2>3, <2>4, <2>5, <2>6, <2>7, ReturnMoves
  <2>9. ASSUME Explained PROVE Explained'
    <3>1. Left \in Values /\ ret \in Values /\ Justified(ret, used, logged) /\ Justified(Left, used, logged)
      BY <1>1, <2>9, OperandFacts
    <3>2. Justified(r, used, logged)
      BY <2>4 DEF Justified
    <3>3. Left.ty # ret.ty => logged \/ used \cap Reasons # {}
      <4>1. logged \in BOOLEAN
        BY DEF Typed
      <4> QED BY <3>1, <4>1, MixedExplained
    <3> QED BY <2>3, <2>6, <2>8, <2>9, <3>2, <3>3 DEF Explained, RejectionExplained, Reasons
  <2>10. ASSUME Agreement, Faithful' PROVE FlowAgrees' /\ smem' = omem' /\ sout' = oout' /\ ~oTrap'
    <3>1. /\ Faithful /\ Top.live /\ FlowAgrees /\ smem = omem /\ sout = oout /\ ~oTrap'
          /\ ~IsNarrow(AssignVal) /\ AssignVal.val = AssignSrc
      BY <1>1, <1>4, <2>10, AssignValIs
    <3>2. AssignSrc = word
      BY <2>2, <3>1
    <3> QED BY <2>3, <2>4, <2>8, <3>1, <3>2 DEF outs
  <2> QED BY <2>8, <2>9, <2>10 DEF Agreement
<1> QED BY <1>2, <1>3, <1>4, AssignCases

-----------------------------------------------------------------------------
(* Statements.                                                             *)

\* A statement that ends.
LEMMA EndMoves ==
    ASSUME Typed, AtEnd, ret' = ret, UNCHANGED <<logged, used, cost, nStmts>>,
           smem' \in [Vars -> Words(W)], omem' \in [Vars -> Words(W)],
           sout' \in Seq(Nat), oout' \in Seq(Nat),
           rejected' \in BOOLEAN, sUndef' \in BOOLEAN, oTrap' \in BOOLEAN,
           odd' \subseteq Differences
    PROVE  /\ Typed' /\ FlowJustified' /\ CrashExplained'
           /\ FlowAgrees => FlowAgrees'
           /\ ret \in Values
           /\ FlowAgrees => Agrees(ret)
<1>1. FlowTyped' /\ FlowJustified' /\ (FlowAgrees => FlowAgrees')
  BY EndFlow DEF Typed, AtEnd
<1>2. Typed'
  BY <1>1 DEF Typed
<1>3. CrashExplained'
  BY DEF CrashExplained, AtEnd
<1>4. ret \in Values /\ (FlowAgrees => Agrees(ret))
  BY OperandFacts DEF AtEnd, AtOperand
<1> QED BY <1>1, <1>2, <1>3, <1>4

\* An expression statement drops the value.
LEMMA EndExprStmtKeeps ==
    ASSUME Typed, EndExprStmt
    PROVE  Typed' /\ (Explained => Explained') /\ (Agreement => Agreement')
<1>1. AtEnd /\ UNCHANGED <<ret, mems, outs, flags, used, cost, nStmts>>
  BY DEF EndExprStmt
<1>2. Typed' /\ FlowJustified' /\ CrashExplained' /\ (FlowAgrees => FlowAgrees')
  <2>1. /\ UNCHANGED <<ret, logged, used, cost, nStmts>>
        /\ smem' \in [Vars -> Words(W)] /\ omem' \in [Vars -> Words(W)]
        /\ sout' \in Seq(Nat) /\ oout' \in Seq(Nat)
        /\ rejected' \in BOOLEAN /\ sUndef' \in BOOLEAN /\ oTrap' \in BOOLEAN
        /\ odd' \subseteq Differences
    BY <1>1 DEF Typed, mems, outs, flags
  <2> QED BY <1>1, <2>1, EndMoves
<1>3. Explained => Explained'
  BY <1>1, <1>2 DEF Explained, RejectionExplained, flags
<1>4. Agreement => Agreement'
  BY <1>1, <1>2 DEF Agreement, Faithful, mems, outs, flags
<1> QED BY <1>2, <1>3, <1>4

\* A statement that needs the value crashes on null.
LEMMA NullAtEndKeeps ==
    ASSUME Typed, NullAtEnd
    PROVE  Typed' /\ (Explained => Explained') /\ (Agreement => Agreement')
<1>1. phase = "up" /\ IsNull(ret) /\ Stop("crashed")
  BY DEF NullAtEnd, AtOperand
<1>2. Explained => Explained'
  BY <1>1, OperandFacts, NullExplained, StopKeeps DEF Explained
<1> QED BY <1>1, <1>2, StopKeeps

\* An initialiser stores the value.
LEMMA EndInitKeeps ==
    ASSUME Typed, NEW v \in Vars, EndInit(v)
    PROVE  Typed' /\ (Explained => Explained') /\ (Agreement => Agreement')
<1> DEFINE word == Stored(omem[v], ret)
<1>1. /\ AtEnd /\ phase = "up" /\ ~IsNull(ret)
      /\ smem' = [smem EXCEPT ![v] = ret.src]
      /\ omem' = [omem EXCEPT ![v] = word]
      /\ odd' = odd \cup NarrowStore(ret)
      /\ UNCHANGED <<ret, outs, logged, rejected, sUndef, oTrap, used, cost, nStmts>>
  <2>1. omem \in [Vars -> Words(W)]
    BY DEF Typed
  <2> QED BY <2>1 DEF EndInit, AtEnd, AtOperand
<1>2. ret \in Values /\ ret.src \in Words(W) /\ ret.ty \in ValueTypes
  BY <1>1, OperandFacts, ValueFields
<1>3. word \in Words(W) /\ (~IsNarrow(ret) => word = ret.val)
  <2>1. omem[v] \in Words(W)
    BY DEF Typed
  <2> QED BY <1>2, <2>1, StoredIs
<1> HIDE DEF word
<1>4. Typed' /\ FlowJustified' /\ CrashExplained' /\ (FlowAgrees => FlowAgrees' /\ Agrees(ret))
  <2>1. smem' \in [Vars -> Words(W)] /\ omem' \in [Vars -> Words(W)]
    BY <1>1, <1>2, <1>3, StoreTyped DEF Typed
  <2>2. /\ UNCHANGED <<ret, logged, used, cost, nStmts>>
        /\ sout' \in Seq(Nat) /\ oout' \in Seq(Nat)
        /\ rejected' \in BOOLEAN /\ sUndef' \in BOOLEAN /\ oTrap' \in BOOLEAN
        /\ odd' \subseteq Differences
    BY <1>1 DEF Typed, outs, Differences, NarrowStore
  <2> QED BY <1>1, <2>1, <2>2, EndMoves
<1>5. Explained => Explained'
  BY <1>1, <1>4 DEF Explained, RejectionExplained
<1>6. ASSUME Agreement, Faithful' PROVE FlowAgrees' /\ smem' = omem' /\ sout' = oout' /\ ~oTrap'
  <2>1. Faithful /\ ~IsNarrow(ret)
    BY <1>1, <1>6 DEF Faithful, NarrowStore
  <2>2. FlowAgrees /\ smem = omem /\ sout = oout /\ ~oTrap
    BY <1>6, <2>1 DEF Agreement
  <2>3. ret.src = ret.val
    BY <1>2, <1>4, <2>1, <2>2 DEF Agrees, IsNarrow, ValueTypes
  <2> QED BY <1>1, <1>3, <1>4, <2>1, <2>2, <2>3 DEF outs
<1> QED BY <1>4, <1>5, <1>6 DEF Agreement

\* A test branches as C does.
LEMMA EndTestKeeps ==
    ASSUME Typed, EndTest
    PROVE  Typed' /\ (Explained => Explained') /\ (Agreement => Agreement')
<1>1. /\ AtEnd /\ phase = "up"
      /\ sout' = Append(sout, Bit(ret.src # 0))
      /\ oout' = Append(oout, Bit(ret.val # 0))
      /\ UNCHANGED <<ret, mems, flags, used, cost, nStmts>>
  BY DEF EndTest, AtEnd, AtOperand
<1>2. Typed' /\ FlowJustified' /\ CrashExplained' /\ (FlowAgrees => FlowAgrees' /\ Agrees(ret)) /\ ret \in Values
  <2>1. Bit(ret.src # 0) \in Nat /\ Bit(ret.val # 0) \in Nat
    BY DEF Bit
  <2>2. /\ UNCHANGED <<ret, logged, used, cost, nStmts>>
        /\ smem' \in [Vars -> Words(W)] /\ omem' \in [Vars -> Words(W)]
        /\ sout' \in Seq(Nat) /\ oout' \in Seq(Nat)
        /\ rejected' \in BOOLEAN /\ sUndef' \in BOOLEAN /\ oTrap' \in BOOLEAN
        /\ odd' \subseteq Differences
    BY <1>1, <2>1 DEF Typed, mems, flags
  <2> QED BY <1>1, <2>2, EndMoves
<1>3. Explained => Explained'
  BY <1>1, <1>2 DEF Explained, RejectionExplained, flags
<1>4. ASSUME Agreement, Faithful' PROVE FlowAgrees' /\ smem' = omem' /\ sout' = oout' /\ ~oTrap'
  <2>1. Faithful
    BY <1>1, <1>4 DEF Faithful, flags
  <2>2. FlowAgrees /\ smem = omem /\ sout = oout /\ ~oTrap
    BY <1>4, <2>1 DEF Agreement
  <2>3. (ret.src = 0) = (ret.val = 0)
    BY <1>2, <2>2, ZeroAgrees
  <2>4. Bit(ret.src # 0) = Bit(ret.val # 0)
    BY <2>3 DEF Bit
  <2> QED BY <1>1, <1>2, <2>2, <2>4 DEF mems, flags
<1> QED BY <1>2, <1>3, <1>4 DEF Agreement

\* A return statement returns what C returns.
LEMMA EndReturnKeeps ==
    ASSUME Typed, EndReturn
    PROVE  Typed' /\ (Explained => Explained') /\ (Agreement => Agreement')
<1>1. /\ AtEnd /\ phase = "up"
      /\ sout' = Append(sout, ret.src)
      /\ oout' = Append(oout, ret.val)
      /\ rejected' = (rejected \/ ret.ty # "i32")
      /\ UNCHANGED <<ret, mems, logged, sUndef, oTrap, odd, used, cost, nStmts>>
  BY DEF EndReturn, AtEnd, AtOperand
<1>2. ret \in Values /\ ret.src \in Nat /\ ret.val \in Nat /\ ret.ty \in ValueTypes
  BY <1>1, OperandFacts, ValueFields
<1>3. Typed' /\ FlowJustified' /\ CrashExplained' /\ (FlowAgrees => FlowAgrees' /\ Agrees(ret))
  <2>1. /\ UNCHANGED <<ret, logged, used, cost, nStmts>>
        /\ smem' \in [Vars -> Words(W)] /\ omem' \in [Vars -> Words(W)]
        /\ sout' \in Seq(Nat) /\ oout' \in Seq(Nat)
        /\ rejected' \in BOOLEAN /\ sUndef' \in BOOLEAN /\ oTrap' \in BOOLEAN
        /\ odd' \subseteq Differences
    BY <1>1, <1>2 DEF Typed, mems
  <2> QED BY <1>1, <2>1, EndMoves
<1>4. ASSUME Explained PROVE Explained'
  <2>1. Justified(ret, used, logged)
    BY <1>1, <1>4, OperandFacts
  <2>2. ret.ty # "i32" => logged \/ used \cap {"compare", "logic", "!", "char", "prefix", "proc"} # {}
    BY <1>2, <2>1 DEF Justified, ValueTypes
  <2> QED BY <1>1, <1>3, <1>4, <2>2 DEF Explained, RejectionExplained
<1>5. ASSUME Agreement, Faithful' PROVE FlowAgrees' /\ smem' = omem' /\ sout' = oout' /\ ~oTrap'
  <2>1. Faithful /\ ret.ty = "i32"
    BY <1>1, <1>5 DEF Faithful
  <2>2. FlowAgrees /\ smem = omem /\ sout = oout /\ ~oTrap
    BY <1>5, <2>1 DEF Agreement
  <2>3. ret.src = ret.val
    BY <1>3, <2>1, <2>2 DEF Agrees
  <2> QED BY <1>1, <1>3, <2>2, <2>3 DEF mems
<1> QED BY <1>3, <1>4, <1>5 DEF Agreement

-----------------------------------------------------------------------------
(* The theorems.                                                           *)

\* No run has begun: the two memories are one, and nothing was met.
LEMMA InitKeeps ==
    ASSUME Init
    PROVE  Typed /\ Explained /\ Agreement
<1>1. Len(<< >>) = 0 /\ << >> \in Seq(Methods) /\ << >> \in Seq(Nat)
  OBVIOUS
<1>2. FlowTyped
  BY <1>1, NullIs DEF Init, FlowTyped
<1>3. smem \in [Vars -> Words(W)] /\ omem = smem
  <2>1. smem \in [Vars -> InitVals] /\ omem = smem /\ InitVals \subseteq Words(W)
    BY InputsFit DEF Init
  <2> QED BY <2>1
<1>4. cost \in 0..MaxCost /\ nStmts \in 0..MaxStmts
  BY BoundsAreNumbers DEF Init
<1>5. Typed
  BY <1>1, <1>2, <1>3, <1>4 DEF Init, Typed
<1>6. Explained
  BY <1>1 DEF Init, Explained, FlowJustified, CrashExplained, RejectionExplained
<1>7. Agreement
  BY <1>1, NullIs DEF Init, Agreement, FlowAgrees
<1> QED BY <1>5, <1>6, <1>7

\* The leaves keep the three parts of the invariant,
LEMMA LeafKeeps ==
    ASSUME Typed, Leaf
    PROVE  Typed' /\ (Explained => Explained') /\ (Agreement => Agreement')
BY IntLiteralKeeps, CharLiteralKeeps, IdentifierKeeps, GlobalIdentifierKeeps,
   UnsupportedKeeps DEF Leaf

\* so do the calls of methods,
LEMMA NodeKeeps ==
    ASSUME Typed, Node
    PROVE  Typed' /\ (Explained => Explained') /\ (Agreement => Agreement')
<1>1. /\ OpsOf("paren") = {"()"} /\ OpsOf("unary") = UnaryOps
      /\ OpsOf("prefix") = StepOps /\ OpsOf("postfix") = StepOps
      /\ OpsOf("arith") = ArithOps /\ OpsOf("compare") = CondOps
      /\ OpsOf("logic") = LogicOps /\ OpsOf("assign") = AssignOps
      /\ OpsOf("call") = {"func", "proc"}
  BY DEF OpsOf
<1>2. {"paren", "unary", "prefix", "postfix", "arith", "compare", "logic", "assign", "call"}
        \subseteq Kinds \ {"stmt"}
  BY DEF Kinds
<1>3. \A kind \in Kinds \ {"stmt"} : \A op \in OpsOf(kind) :
        Enter(kind, op) => Typed' /\ (Explained => Explained') /\ (Agreement => Agreement')
  BY EnterKeeps
<1>4. \E kind \in Kinds \ {"stmt"} : \E op \in OpsOf(kind) : Enter(kind, op)
  <2>1. CASE Enter("paren", "()")
    BY <1>1, <1>2, <2>1
  <2>2. CASE \E op \in UnaryOps : Enter("unary", op)
    BY <1>1, <1>2, <2>2
  <2>3. CASE \E op \in StepOps : Enter("prefix", op) \/ Enter("postfix", op)
    BY <1>1, <1>2, <2>3
  <2>4. CASE \E op \in ArithOps : Enter("arith", op)
    BY <1>1, <1>2, <2>4
  <2>5. CASE \E op \in CondOps : Enter("compare", op)
    BY <1>1, <1>2, <2>5
  <2>6. CASE \E op \in LogicOps : Enter("logic", op)
    BY <1>1, <1>2, <2>6
  <2>7. CASE \E op \in AssignOps : Enter("assign", op)
    BY <1>1, <1>2, <2>7
  <2>8. CASE \E f \in {"func", "proc"} : Enter("call", f)
    BY <1>1, <1>2, <2>8
  <2> QED BY <2>1, <2>2, <2>3, <2>4, <2>5, <2>6, <2>7, <2>8 DEF Node
<1> QED BY <1>3, <1>4

\* the methods that go on with an operand,
LEMMA CombineKeeps ==
    ASSUME Typed, Combine
    PROVE  Typed' /\ (Explained => Explained') /\ (Agreement => Agreement')
BY ParenKeeps, UnaryKeeps, PrefixKeeps, PostfixKeeps, CallKeeps, LeftDoneKeeps,
   BinaryArithKeeps, CompareKeeps, LogicKeeps, AssignKeeps, EndExprStmtKeeps,
   NullAtEndKeeps, EndInitKeeps, EndTestKeeps, EndReturnKeeps DEF Combine

\* and every step.
LEMMA NextKeeps ==
    ASSUME Typed, [Next]_vars
    PROVE  Typed' /\ (Explained => Explained') /\ (Agreement => Agreement')
<1>1. CASE Next
  BY <1>1, BeginKeeps, LeafKeeps, NodeKeeps, CombineKeeps DEF Next, Lower
<1>2. CASE UNCHANGED vars
  <2>1. UNCHANGED <<phase, frames, ret, smem, omem, sout, oout, logged, rejected,
                    sUndef, oTrap, odd, used, cost, nStmts>>
    BY <1>2 DEF vars, flow, mems, outs, flags
  <2>2. Typed'
    BY <2>1 DEF Typed, FlowTyped
  <2>3. Explained => Explained'
    BY <2>1 DEF Explained, FlowJustified, Justified, CrashExplained, RejectionExplained
  <2>4. Agreement => Agreement'
    BY <2>1 DEF Agreement, Faithful, FlowAgrees, Agrees
  <2> QED BY <2>2, <2>3, <2>4
<1> QED BY <1>1, <1>2

\* What Typed says of the stack and of the value returned.
LEMMA TypedTypes ==
    ASSUME Typed
    PROVE  TypeOK
<1>1. frames \in Seq(Methods) /\ ret \in Values
  BY DEF Typed, FlowTyped
<1>2. ASSUME NEW i \in 1..Len(frames)
      PROVE  /\ frames[i].kind \in Kinds
             /\ (frames[i].kind = "stmt") = (i = 1)
             /\ frames[i].live \in BOOLEAN /\ frames[i].right \in BOOLEAN
             /\ Len(frames[i].left) \in 0..1
  <2>1. frames[i] \in Methods
    BY <1>1
  <2> QED BY <2>1, MethodFields DEF Typed, FlowTyped
<1>3. ret.ty \in Types /\ ret.val \in Words(Bits(ret.ty)) /\ ret.src \in Words(W)
  BY <1>1, ValueFields, ValueTypesAre
<1> QED BY <1>2, <1>3 DEF Typed, FlowTyped, Differences, TypeOK

\* Every dispatch returns a value of a type the builder makes, inside the
\* width of that type, and the stack of methods is in order.
THEOREM TypedInvariant == Spec => []Typed
<1>1. Init => Typed
  BY InitKeeps
<1>2. Typed /\ [Next]_vars => Typed'
  BY NextKeeps
<1> QED BY <1>1, <1>2, PTL DEF Spec

\* The type invariant, for every width of int and char.
THEOREM TypesKept == Spec => []TypeOK
<1>1. Typed => TypeOK
  BY TypedTypes
<1> QED BY <1>1, TypedInvariant, PTL

\* The compiled function does what C says the source does, until one of the
\* eight differences is met, an error is logged or LLVM rejects the function:
\* for every width of int and char, every expression and any number of them
\* (ObjBuilder::CGGeneralExprDispatch and the methods it calls).
THEOREM ExpressionsAgreeWithC == Spec => []AgreesWithC
<1>1. Init => Agreement
  BY InitKeeps
<1>2. Typed /\ Agreement /\ [Next]_vars => Agreement'
  BY NextKeeps
<1>3. Agreement => AgreesWithC
  BY DEF Agreement, AgreesWithC
<1> QED BY <1>1, <1>2, <1>3, TypedInvariant, PTL DEF Spec

\* Why a failure is explained: the sorts of nodes met and the errors logged
\* account for every value that is not an int.
THEOREM ExplainedInvariant == Spec => []Explained
<1>1. Init => Explained
  BY InitKeeps
<1>2. Typed /\ Explained /\ [Next]_vars => Explained'
  BY NextKeeps
<1> QED BY <1>1, <1>2, TypedInvariant, PTL DEF Spec

\* A null llvm::Value is used only after an error was logged, or for the value
\* of a void function or a global variable (CGCallExpr, CGExprID).
THEOREM CrashesExplained == Spec => []CrashExplained
<1>1. Explained => CrashExplained
  BY DEF Explained
<1> QED BY <1>1, ExplainedInvariant, PTL

\* llvm::verifyFunction rejects an expression only for a value narrower than
\* an int, a prefix ++ or --, a logical operator, or a missing value.
THEOREM RejectionsExplained == Spec => []RejectionExplained
<1>1. Explained => RejectionExplained
  BY DEF Explained
<1> QED BY <1>1, ExplainedInvariant, PTL
=============================================================================
