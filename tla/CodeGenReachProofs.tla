------------------------ MODULE CodeGenReachProofs -------------------------
(***************************************************************************)
(* What the generated code does of what the source says.                   *)
(*                                                                         *)
(* The history variables of CodeGenReach change nothing in CodeGen: every  *)
(* behaviour of CodeGenReach is one of CodeGen, so that what is proved of  *)
(* CodeGen holds in CodeGenReach.                                          *)
(*                                                                         *)
(* That code is generated where the source statement can be reached, and   *)
(* that a function is only rejected for a reason, needs an invariant that  *)
(* looks ahead: Flowing says of every open if and while which blocks it    *)
(* still has to place, and whether control comes to them.  Of              *)
(* ReachableFrom the proofs use that it is the least closed set with the   *)
(* first block, which is proved by induction on its rounds.                *)
(***************************************************************************)
EXTENDS CodeGenReach, CodeGenProofs, FiniteSetTheorems

LEMMA ReachStep == [ReachNext]_reachVars => [Next]_vars
<1> SUFFICES ASSUME [ReachNext]_reachVars PROVE [Next]_vars
  OBVIOUS
<1>1. CASE UNCHANGED reachVars
  BY <1>1 DEF reachVars
<1>2. CASE ReachNext
  BY <1>2 DEF ReachNext, Next, Begin, Straight, Return, Swap, Join, Leave
<1> QED BY <1>1, <1>2

\* Following the flow of the source does not restrict the builder.
THEOREM HistoryOnlyAdds == ReachSpec => Spec
<1>1. ReachInit => Init
  BY DEF ReachInit
<1> QED BY <1>1, ReachStep, PTL DEF ReachSpec, Spec

\* So a module generated with success is complete there too.
THEOREM ReachComplete == ReachSpec => []ModuleComplete
BY HistoryOnlyAdds, SuccessMeansComplete, PTL

-----------------------------------------------------------------------------
(* Where the blocks of a function are.  Only the blocks an active if or     *)
(* while has still to place are outside the function, each of them belongs  *)
(* to one construct, and nothing has been generated in it.                  *)

Branches(c) == c.kind \in {"then", "else", "while"}

\* The blocks a construct will place.
Pending(c) == {b \in {c.target, c.next} :
                   \/ c.kind = "then"
                   \/ Branches(c) /\ b = c.next}

Fresh(block) == /\ block.terms = 0 /\ ~block.closed
                /\ ~block.mistyped /\ block.succ = {}

Sealed(block) == block.terms = 1 /\ block.closed /\ ~block.mistyped

Tidy(bs) == \A b \in 1..Len(bs) : /\ bs[b].succ \subseteq 1..Len(bs)
                                  /\ ~bs[b].placed => Fresh(bs[b])

InWork(cs, bs, ins) ==
    /\ cs # << >>
    /\ cs[1].target \in 1..Len(bs)
    /\ bs[ins].placed
    /\ \A b \in 1..Len(bs) :
           bs[b].placed <=> \A i \in 1..Len(cs) : b \notin Pending(cs[i])
    /\ \A i, j \in 1..Len(cs) :
           i # j => Pending(cs[i]) \cap Pending(cs[j]) = {}
    /\ \A i \in 1..Len(cs) : cs[i].kind = "then" => cs[i].target # cs[i].next

Layout ==
    /\ \A f \in Fns : Tidy(blocks[f])
    /\ \A f \in Fns \ {cur} : \A b \in 1..Len(blocks[f]) :
           blocks[f][b].placed /\ Sealed(blocks[f][b])
    /\ cur # NoFn => InWork(constructs, blocks[cur], insert)

\* As long as the source gives no reason to reject the function, every block
\* in it ends with the one terminator it has; only the block code is added to
\* may have none yet, and has none where the source can be reached.
Orderly(bs, ins, alive) ==
    /\ \A b \in 1..Len(bs) : b # ins /\ bs[b].placed => Sealed(bs[b])
    /\ IF bs[ins].closed THEN Sealed(bs[ins]) /\ ~alive ELSE Fresh(bs[ins])

NoStrayCode == cur # NoFn /\ blame = {} => Orderly(blocks[cur], insert, live)

\* What saved says of the construct it belongs to, where control can come to
\* the blocks of reach.
Promise(c, s, reach) ==
    /\ c.kind = "then"  => s /\ c.target \in reach /\ c.next \notin reach
    /\ c.kind = "else"  => (s <=> c.next \in reach)
    /\ c.kind = "while" => s /\ c.target \in reach /\ c.next \in reach

Records(owner, cs, sv) ==
    /\ owner \in [1..Len(sv) -> 1..Len(cs)]
    /\ \A i \in 1..Len(sv) : Branches(cs[owner[i]])
    /\ \A i, j \in 1..Len(sv) : i < j => owner[i] < owner[j]
    /\ \A k \in 1..Len(cs) :
           Branches(cs[k]) => \E i \in 1..Len(sv) : owner[i] = k

Kept(cs, sv, reach) ==
    \E owner \in [1..Len(sv) -> 1..Len(cs)] :
        /\ Records(owner, cs, sv)
        /\ \A i \in 1..Len(sv) : Promise(cs[owner[i]], sv[i], reach)

Follows(cs, bs, ins, alive, sv) ==
    LET reach == ReachableFrom(bs, cs[1].target)
    IN  /\ alive \in BOOLEAN
        /\ sv \in Seq(BOOLEAN)
        /\ alive <=> ins \in reach /\ ~bs[ins].closed
        /\ Kept(cs, sv, reach)

FlowFollows ==
    cur # NoFn /\ blame = {} =>
        Follows(constructs, blocks[cur], insert, live, saved)

Flowing == Layout /\ NoStrayCode /\ FlowFollows

-----------------------------------------------------------------------------
(* The blocks control can come to.  ReachableFrom computes them in rounds;  *)
(* what is used of it is that it is the least set that has the first block  *)
(* and, with a block, those it branches to.                                 *)

ClosedUnder(bs, C) ==
    \A i \in 1..Len(bs) : i \in C => bs[i].succ \subseteq C

IsReach(R, bs, b) ==
    /\ R \subseteq 1..Len(bs)
    /\ b \in R
    /\ ClosedUnder(bs, R)
    /\ \A C \in SUBSET (1..Len(bs)) : b \in C /\ ClosedUnder(bs, C) => R \subseteq C

Round(bs, near) == near \cup UNION {bs[i].succ : i \in near}

Rounds(w, bs, b, n) ==
    /\ w \in [0..n -> SUBSET (1..Len(bs))]
    /\ w[0] = {b}
    /\ \A k \in 1..n : w[k] = Round(bs, w[k - 1])

LEMMA ReachUnique ==
    ASSUME NEW bs, NEW b, NEW R, NEW Q, IsReach(R, bs, b), IsReach(Q, bs, b)
    PROVE  R = Q
BY DEF IsReach

LEMMA Induction ==
    ASSUME NEW S, 0 \in S, \A n \in Nat : n \in S => n + 1 \in S
    PROVE  Nat \subseteq S
<1> SUFFICES ASSUME Nat \ S # {} PROVE FALSE
  OBVIOUS
<1>1. PICK m \in Nat \ S : \A k \in Nat \ S : m <= k
  BY LeastNatural
<1>2. m # 0 /\ m - 1 \in Nat
  BY <1>1
<1>3. m - 1 \in S
  BY <1>1, <1>2
<1>4. (m - 1) + 1 = m
  BY <1>1
<1>5. m \in S
  BY <1>2, <1>3, <1>4
<1> QED BY <1>1, <1>5

LEMMA RoundType ==
    ASSUME NEW bs \in Seq(Blocks), Tidy(bs), NEW near \in SUBSET (1..Len(bs))
    PROVE  Round(bs, near) \in SUBSET (1..Len(bs))
BY DEF Round, Tidy

LEMMA RoundsExist ==
    ASSUME NEW bs \in Seq(Blocks), Tidy(bs), NEW b \in 1..Len(bs), NEW n \in Nat
    PROVE  \E w : Rounds(w, bs, b, n)
<1> DEFINE S == {m \in Nat : \E w : Rounds(w, bs, b, m)}
<1>1. 0 \in S
  <2> DEFINE w == [k \in 0..0 |-> {b}]
  <2>1. w \in [0..0 -> SUBSET (1..Len(bs))] /\ w[0] = {b}
    OBVIOUS
  <2>2. Rounds(w, bs, b, 0)
    BY <2>1 DEF Rounds
  <2> QED BY <2>2
<1>2. \A m \in Nat : m \in S => m + 1 \in S
  <2> SUFFICES ASSUME NEW m \in Nat, NEW w, Rounds(w, bs, b, m)
               PROVE  \E v : Rounds(v, bs, b, m + 1)
    OBVIOUS
  <2> DEFINE v == [k \in 0..(m + 1) |-> IF k = m + 1 THEN Round(bs, w[m])
                                                    ELSE w[k]]
  <2>1. w[m] \in SUBSET (1..Len(bs))
    BY DEF Rounds
  <2>2. Round(bs, w[m]) \in SUBSET (1..Len(bs))
    BY <2>1, RoundType
  <2>3. v \in [0..(m + 1) -> SUBSET (1..Len(bs))]
    <3>1. \A k \in 0..(m + 1) : k = m + 1 \/ k \in 0..m
      OBVIOUS
    <3> QED BY <2>2, <3>1 DEF Rounds
  <2>4. v[m + 1] = Round(bs, w[m]) /\ \A k \in 0..m : v[k] = w[k]
    OBVIOUS
  <2> HIDE DEF v
  <2>5. \A k \in 1..(m + 1) : v[k] = Round(bs, v[k - 1])
    <3> TAKE k \in 1..(m + 1)
    <3>1. k - 1 \in 0..m /\ v[k - 1] = w[k - 1]
      BY <2>4
    <3>2. CASE k = m + 1
      <4>1. k - 1 = m
        BY <3>2
      <4> QED BY <2>4, <3>1, <3>2, <4>1
    <3>3. CASE k \in 1..m
      <4>1. w[k] = Round(bs, w[k - 1]) /\ k \in 0..m
        BY <3>3 DEF Rounds
      <4> QED BY <2>4, <3>1, <4>1
    <3> QED BY <3>2, <3>3
  <2>6. Rounds(v, bs, b, m + 1)
    <3>1. v[0] = {b}
      BY <2>4 DEF Rounds
    <3> QED BY <2>3, <2>5, <3>1 DEF Rounds
  <2> QED BY <2>6
<1> HIDE DEF S
<1>3. n \in S
  BY <1>1, <1>2, Induction
<1> QED BY <1>3 DEF S

LEMMA ReachIsRounds ==
    ASSUME NEW bs \in Seq(Blocks), Tidy(bs), NEW b \in 1..Len(bs)
    PROVE  \E w : /\ Rounds(w, bs, b, Len(bs))
                  /\ ReachableFrom(bs, b) = w[Len(bs)]
<1> DEFINE n == Len(bs)
           F(g) == [k \in 0..n |-> IF k = 0 THEN {b}
                                   ELSE g[k - 1] \cup UNION {bs[i].succ : i \in g[k - 1]}]
           within == CHOOSE g : g = F(g)
<1>1. n \in Nat
  BY LenProperties
<1>2. PICK w : Rounds(w, bs, b, n)
  BY <1>1, RoundsExist
<1>3. w = F(w)
  <2>1. \A k \in 0..n : k # 0 => k \in 1..n
    BY <1>1
  <2>2. \A k \in 0..n :
            w[k] = IF k = 0 THEN {b}
                   ELSE w[k - 1] \cup UNION {bs[i].succ : i \in w[k - 1]}
    BY <1>2, <2>1 DEF Rounds, Round
  <2> QED BY <1>2, <2>2 DEF Rounds
<1>4. within = F(within)
  <2> HIDE DEF F
  <2> QED BY <1>3
<1>5. ReachableFrom(bs, b) = within[n]
  BY DEF ReachableFrom
<1> HIDE DEF within
<1>6. \A k \in 0..n :
          within[k] = IF k = 0 THEN {b} ELSE Round(bs, within[k - 1])
  BY <1>4 DEF Round
<1> DEFINE S == {k \in Nat : k <= n => within[k] \in SUBSET (1..n)}
<1>s. \A k \in Nat : k \in S <=> (k <= n => within[k] \in SUBSET (1..n))
  OBVIOUS
<1> HIDE DEF S
<1>7. 0 \in S
  BY <1>1, <1>6, <1>s
<1>8. \A k \in Nat : k \in S => k + 1 \in S
  <2> SUFFICES ASSUME NEW k \in Nat, k \in S, k + 1 <= n
               PROVE  within[k + 1] \in SUBSET (1..n)
    BY <1>s
  <2>1. k <= n /\ k + 1 \in 0..n /\ k + 1 # 0 /\ (k + 1) - 1 = k
    BY <1>1
  <2>2. within[k] \in SUBSET (1..n)
    BY <1>s, <2>1
  <2>3. within[k + 1] = Round(bs, within[k])
    BY <1>6, <2>1
  <2> QED BY <2>2, <2>3, RoundType
<1>9. Nat \subseteq S
  BY <1>7, <1>8, Induction
<1>10. \A k \in 0..n : within[k] \in SUBSET (1..n)
  <2>1. \A k \in 0..n : k \in Nat /\ k <= n
    BY <1>1
  <2> QED BY <1>9, <1>s, <2>1
<1>11. within \in [0..n -> SUBSET (1..n)]
  BY <1>4, <1>10
<1>12. Rounds(within, bs, b, n)
  BY <1>1, <1>6, <1>11 DEF Rounds
<1> QED BY <1>5, <1>12

\* After as many rounds as there are blocks nothing is added any more.
LEMMA RoundsEnd ==
    ASSUME NEW bs \in Seq(Blocks), Tidy(bs), NEW b \in 1..Len(bs), NEW w,
           Rounds(w, bs, b, Len(bs))
    PROVE  Round(bs, w[Len(bs)]) = w[Len(bs)]
<1> DEFINE n == Len(bs)
           S == {k \in Nat : k <= n => \/ Round(bs, w[k]) = w[k]
                                       \/ Cardinality(w[k]) >= k + 1}
<1>1. n \in Nat
  BY LenProperties
<1>2. /\ \A k \in 0..n : w[k] \in SUBSET (1..n)
      /\ w[0] = {b}
      /\ \A k \in 0..n : k + 1 <= n => w[k + 1] = Round(bs, w[k])
  BY <1>1 DEF Rounds
<1>3. IsFiniteSet(1..n) /\ Cardinality(1..n) = n
  BY <1>1, FS_Interval
<1>4. \A k \in 0..n : /\ IsFiniteSet(w[k]) /\ Cardinality(w[k]) \in Nat
                      /\ Cardinality(w[k]) <= n
  BY <1>2, <1>3, FS_Subset, FS_CardinalityType
<1>5. 0 \in S
  <2>1. Cardinality(w[0]) = 1
    BY <1>2, FS_Singleton
  <2> QED BY <2>1
<1>6. \A k \in Nat : k \in S => k + 1 \in S
  <2> SUFFICES ASSUME NEW k \in Nat, k \in S, k + 1 <= n
               PROVE  \/ Round(bs, w[k + 1]) = w[k + 1]
                      \/ Cardinality(w[k + 1]) >= (k + 1) + 1
    OBVIOUS
  <2>1. k \in 0..n /\ k + 1 \in 0..n /\ k <= n
    BY <1>1
  <2>2. w[k + 1] = Round(bs, w[k])
    BY <1>2, <2>1
  <2>3. CASE Round(bs, w[k]) = w[k]
    BY <2>2, <2>3
  <2>4. CASE Round(bs, w[k]) # w[k] /\ Cardinality(w[k]) >= k + 1
    <3>1. w[k] \subseteq w[k + 1] /\ w[k] # w[k + 1]
      BY <2>2, <2>4 DEF Round
    <3>2. Cardinality(w[k]) < Cardinality(w[k + 1])
      <4>1. IsFiniteSet(w[k + 1]) /\ w[k] \in SUBSET w[k + 1]
        BY <1>4, <2>1, <3>1
      <4>2. /\ Cardinality(w[k]) <= Cardinality(w[k + 1])
            /\ Cardinality(w[k]) # Cardinality(w[k + 1])
        BY <3>1, <4>1, FS_Subset
      <4>3. Cardinality(w[k]) \in Nat /\ Cardinality(w[k + 1]) \in Nat
        BY <1>4, <2>1
      <4> QED BY <4>2, <4>3
    <3> QED BY <1>4, <2>1, <2>4, <3>2
  <2> QED BY <2>1, <2>3, <2>4
<1> HIDE DEF S
<1>7. n \in S
  BY <1>1, <1>5, <1>6, Induction
<1>8. ~(Cardinality(w[n]) >= n + 1)
  BY <1>1, <1>4
<1> QED BY <1>1, <1>7, <1>8 DEF S

LEMMA ReachIs ==
    ASSUME NEW bs \in Seq(Blocks), Tidy(bs), NEW b \in 1..Len(bs)
    PROVE  IsReach(ReachableFrom(bs, b), bs, b)
<1> DEFINE n == Len(bs)
<1>1. n \in Nat
  BY LenProperties
<1>2. PICK w : Rounds(w, bs, b, n) /\ ReachableFrom(bs, b) = w[n]
  BY ReachIsRounds
<1>3. /\ \A k \in 0..n : w[k] \in SUBSET (1..n)
      /\ w[0] = {b}
      /\ \A k \in 0..n : k + 1 <= n => w[k + 1] = Round(bs, w[k])
  BY <1>1, <1>2 DEF Rounds
<1>4. ClosedUnder(bs, w[n])
  <2>1. Round(bs, w[n]) = w[n]
    BY <1>2, RoundsEnd
  <2> QED BY <2>1 DEF ClosedUnder, Round
<1> DEFINE S == {k \in Nat : k <= n => b \in w[k]}
<1>5. b \in w[n]
  <2>1. 0 \in S
    BY <1>3
  <2>2. \A k \in Nat : k \in S => k + 1 \in S
    <3> SUFFICES ASSUME NEW k \in Nat, k \in S, k + 1 <= n
                 PROVE  b \in w[k + 1]
      OBVIOUS
    <3>1. k \in 0..n /\ k <= n
      BY <1>1
    <3> QED BY <1>3, <3>1 DEF Round
  <2> HIDE DEF S
  <2>3. n \in S
    BY <1>1, <2>1, <2>2, Induction
  <2> QED BY <1>1, <2>3 DEF S
<1>6. ASSUME NEW C \in SUBSET (1..n), b \in C, ClosedUnder(bs, C)
      PROVE  w[n] \subseteq C
  <2> DEFINE T == {k \in Nat : k <= n => w[k] \subseteq C}
  <2>1. 0 \in T
    BY <1>3, <1>6
  <2>2. \A k \in Nat : k \in T => k + 1 \in T
    <3> SUFFICES ASSUME NEW k \in Nat, k \in T, k + 1 <= n
                 PROVE  w[k + 1] \subseteq C
      OBVIOUS
    <3>1. k \in 0..n /\ w[k] \subseteq C
      BY <1>1
    <3>2. w[k + 1] = Round(bs, w[k]) /\ w[k] \subseteq 1..n
      BY <1>3, <3>1
    <3> QED BY <1>6, <3>1, <3>2 DEF Round, ClosedUnder
  <2> HIDE DEF T
  <2>3. n \in T
    BY <1>1, <2>1, <2>2, Induction
  <2> QED BY <1>1, <2>3 DEF T
<1> QED BY <1>1, <1>2, <1>3, <1>4, <1>5, <1>6 DEF IsReach

\* Branches to the blocks of T are added to the end of block ins, and blocks
\* that do not branch at the end of bs.
Extended(ns, bs, b, ins, T) ==
    /\ bs \in Seq(Blocks) /\ Tidy(bs) /\ b \in 1..Len(bs)
    /\ ns \in Seq(Blocks) /\ Tidy(ns) /\ Len(ns) >= Len(bs)
    /\ ins \in 1..Len(bs) /\ T \in SUBSET (1..Len(ns))
    /\ \A i \in 1..Len(bs) : i # ins => ns[i].succ = bs[i].succ
    /\ ns[ins].succ = bs[ins].succ \cup T
    /\ \A i \in 1..Len(ns) : i > Len(bs) => ns[i].succ = {}
    /\ \A t \in T : t \notin ReachableFrom(bs, b) => ns[t].succ = {}

\* If control comes to ins, the branches bring their targets, from which
\* control goes on to no block that was not reached before.
LEMMA BranchesAdded ==
    ASSUME NEW ns, NEW bs, NEW b, NEW ins, NEW T, Extended(ns, bs, b, ins, T)
    PROVE  ReachableFrom(ns, b) =
               ReachableFrom(bs, b)
                   \cup (IF ins \in ReachableFrom(bs, b) THEN T ELSE {})
<1>0. /\ bs \in Seq(Blocks) /\ Tidy(bs) /\ b \in 1..Len(bs)
      /\ ns \in Seq(Blocks) /\ Tidy(ns) /\ Len(ns) >= Len(bs)
      /\ ins \in 1..Len(bs) /\ T \in SUBSET (1..Len(ns))
      /\ \A i \in 1..Len(bs) : i # ins => ns[i].succ = bs[i].succ
      /\ ns[ins].succ = bs[ins].succ \cup T
      /\ \A i \in 1..Len(ns) : i > Len(bs) => ns[i].succ = {}
      /\ \A t \in T : t \notin ReachableFrom(bs, b) => ns[t].succ = {}
  BY DEF Extended
<1> DEFINE R == ReachableFrom(bs, b)
           Q == R \cup (IF ins \in R THEN T ELSE {})
           n == Len(bs)
           m == Len(ns)
<1>1. n \in Nat /\ m \in Nat /\ b \in 1..m /\ 1..n \subseteq 1..m
  BY <1>0, LenProperties
<1>2. IsReach(R, bs, b) /\ IsReach(ReachableFrom(ns, b), ns, b)
  BY <1>0, <1>1, ReachIs
<1> HIDE DEF R, n, m
<1>3. R \subseteq 1..n /\ b \in R /\ ClosedUnder(bs, R)
  BY <1>2 DEF IsReach, n
<1>4. Q \subseteq 1..m /\ b \in Q
  BY <1>0, <1>1, <1>3 DEF m
<1>5. ClosedUnder(ns, Q)
  <2> SUFFICES ASSUME NEW i \in 1..m, i \in Q PROVE ns[i].succ \subseteq Q
    BY DEF ClosedUnder, m
  <2>1. CASE i \in R
    <3>1. i \in 1..n /\ bs[i].succ \subseteq R
      BY <1>3, <2>1 DEF ClosedUnder, n
    <3> QED BY <1>0, <2>1, <3>1 DEF n
  <2>2. CASE i \notin R
    <3>1. ns[i].succ = {}
      BY <1>0, <2>2 DEF R, n, m
    <3> QED BY <3>1
  <2> QED BY <2>1, <2>2
<1>6. ASSUME NEW C \in SUBSET (1..m), b \in C, ClosedUnder(ns, C)
      PROVE  Q \subseteq C
  <2> DEFINE D == C \cap (1..n)
  <2>1. D \in SUBSET (1..n) /\ b \in D
    BY <1>3, <1>6
  <2>2. ClosedUnder(bs, D)
    <3> SUFFICES ASSUME NEW i \in 1..n, i \in C PROVE bs[i].succ \subseteq D
      BY DEF ClosedUnder, n
    <3>1. bs[i].succ \subseteq ns[i].succ
      BY <1>0 DEF n
    <3>2. bs[i].succ \subseteq 1..n /\ i \in 1..m
      BY <1>0, <1>1 DEF Tidy, n
    <3> QED BY <1>6, <3>1, <3>2 DEF ClosedUnder, m
  <2>3. R \subseteq C
    BY <1>2, <2>1, <2>2 DEF IsReach, n
  <2>4. ins \in R => T \subseteq C
    BY <1>0, <1>1, <1>3, <1>6, <2>3 DEF ClosedUnder, m
  <2> QED BY <2>3, <2>4
<1>7. IsReach(Q, ns, b)
  BY <1>4, <1>5, <1>6 DEF IsReach, m
<1>8. ReachableFrom(ns, b) = Q
  BY <1>2, <1>7, ReachUnique
<1> QED BY <1>8 DEF R

-----------------------------------------------------------------------------
(* What an instruction changes in the blocks of a function.                *)

\* Nothing but what the block ins holds.
Rewritten(ns, bs, ins) ==
    /\ ns \in Seq(Blocks)
    /\ Len(ns) = Len(bs)
    /\ \A j \in 1..Len(bs) : /\ j # ins => ns[j] = bs[j]
                             /\ ns[j].placed = bs[j].placed

LEMMA InstEffect ==
    ASSUME NEW bs \in Seq(Blocks), NEW b \in 1..Len(bs), NEW ns,
           ns = WithInst(bs, b)
    PROVE  /\ Rewritten(ns, bs, b)
           /\ ns[b].succ = bs[b].succ
           /\ ~bs[b].closed => ns[b] = bs[b]
<1> DEFINE e == [bs[b] EXCEPT !.closed = FALSE]
<1>1. bs[b] \in Blocks
  BY ElementOfSeq
<1>2. /\ e \in Blocks
      /\ e.succ = bs[b].succ /\ e.placed = bs[b].placed
      /\ ~bs[b].closed => e = bs[b]
  BY <1>1 DEF Blocks
<1>3. ns = [bs EXCEPT ![b] = e]
  BY DEF WithInst
<1> HIDE DEF e
<1>4. /\ ns \in Seq(Blocks) /\ Len(ns) = Len(bs)
      /\ \A j \in 1..Len(bs) : ns[j] = IF j = b THEN e ELSE bs[j]
  BY <1>2, <1>3, ExceptSeq
<1> QED BY <1>2, <1>4 DEF Rewritten

LEMMA TermEffect ==
    ASSUME NEW bs \in Seq(Blocks), NEW b \in 1..Len(bs),
           NEW targets \in SUBSET Nat, NEW ns, ns = WithTerm(bs, b, targets)
    PROVE  /\ Rewritten(ns, bs, b)
           /\ ns[b].succ = bs[b].succ \cup targets
           /\ ns[b].terms = bs[b].terms + 1
           /\ ns[b].closed
           /\ ns[b].mistyped = bs[b].mistyped
<1> DEFINE e == [bs[b] EXCEPT !.terms = @ + 1, !.closed = TRUE,
                              !.succ = @ \cup targets]
<1>1. bs[b] \in Blocks /\ DOMAIN bs = 1..Len(bs)
  BY ElementOfSeq
<1>2. e \in Blocks
  BY <1>1, TermInBlock
<1>3. /\ e.succ = bs[b].succ \cup targets
      /\ e.terms = bs[b].terms + 1
      /\ e.closed
      /\ e.mistyped = bs[b].mistyped
      /\ e.placed = bs[b].placed
  BY <1>1 DEF Blocks
<1>4. ns = [bs EXCEPT ![b] = e]
  BY <1>1 DEF WithTerm
<1> HIDE DEF e
<1>5. /\ ns \in Seq(Blocks) /\ Len(ns) = Len(bs)
      /\ \A j \in 1..Len(bs) : ns[j] = IF j = b THEN e ELSE bs[j]
  BY <1>2, <1>4, ExceptSeq
<1> QED BY <1>3, <1>5 DEF Rewritten

LEMMA ReturnEffect ==
    ASSUME NEW bs \in Seq(Blocks), NEW b \in 1..Len(bs), NEW fits \in BOOLEAN,
           NEW ns, ns = WithReturn(bs, b, fits)
    PROVE  /\ Rewritten(ns, bs, b)
           /\ ns[b].succ = bs[b].succ
           /\ ns[b].terms = bs[b].terms + 1
           /\ ns[b].closed
           /\ fits => ns[b].mistyped = bs[b].mistyped
<1>0. PICK T \in SUBSET Nat : T = {}
  OBVIOUS
<1>1. PICK ts : ts = WithTerm(bs, b, T)
  OBVIOUS
<1> DEFINE e == [ts[b] EXCEPT !.mistyped = @ \/ ~fits]
<1>2. /\ Rewritten(ts, bs, b)
      /\ ts[b].succ = bs[b].succ \cup T
      /\ ts[b].terms = bs[b].terms + 1
      /\ ts[b].closed
      /\ ts[b].mistyped = bs[b].mistyped
  BY <1>1, TermEffect
<1>3. ts \in Seq(Blocks) /\ Len(ts) = Len(bs) /\ b \in 1..Len(ts)
  BY <1>2 DEF Rewritten
<1>4. ts[b] \in Blocks
  BY <1>3, ElementOfSeq
<1>5. /\ e \in Blocks
      /\ e.succ = ts[b].succ
      /\ e.terms = ts[b].terms
      /\ e.closed = ts[b].closed
      /\ fits => e.mistyped = ts[b].mistyped
      /\ e.placed = ts[b].placed
  BY <1>4 DEF Blocks
<1>6. ns = [ts EXCEPT ![b] = e]
  BY <1>0, <1>1, <1>3, <1>4 DEF WithReturn
<1> HIDE DEF e
<1>7. /\ ns \in Seq(Blocks) /\ Len(ns) = Len(ts)
      /\ \A j \in 1..Len(ts) : ns[j] = IF j = b THEN e ELSE ts[j]
  BY <1>3, <1>5, <1>6, ExceptSeq
<1> QED BY <1>0, <1>2, <1>3, <1>5, <1>7 DEF Rewritten

LEMMA PlacedEffect ==
    ASSUME NEW bs \in Seq(Blocks), NEW b \in 1..Len(bs), NEW ns,
           ns = Placed(bs, b)
    PROVE  /\ ns \in Seq(Blocks)
           /\ Len(ns) = Len(bs)
           /\ \A j \in 1..Len(bs) : j # b => ns[j] = bs[j]
           /\ ns[b].placed
           /\ ns[b].succ = bs[b].succ
           /\ ns[b].closed = bs[b].closed
           /\ Fresh(bs[b]) => Fresh(ns[b])
<1> DEFINE e == [bs[b] EXCEPT !.placed = TRUE]
<1>1. bs[b] \in Blocks
  BY ElementOfSeq
<1>2. /\ e \in Blocks
      /\ e.succ = bs[b].succ /\ e.placed
      /\ e.terms = bs[b].terms /\ e.closed = bs[b].closed
      /\ e.mistyped = bs[b].mistyped
  BY <1>1 DEF Blocks
<1>3. ns = [bs EXCEPT ![b] = e]
  BY DEF Placed
<1> HIDE DEF e
<1>4. /\ ns \in Seq(Blocks) /\ Len(ns) = Len(bs)
      /\ \A j \in 1..Len(bs) : ns[j] = IF j = b THEN e ELSE bs[j]
  BY <1>2, <1>3, ExceptSeq
<1> QED BY <1>2, <1>4 DEF Fresh

LEMMA NewBlockEffect ==
    \A isPlaced \in BOOLEAN : /\ Fresh(NewBlock(isPlaced))
                              /\ NewBlock(isPlaced).placed = isPlaced
                              /\ NewBlock(isPlaced).succ = {}
BY DEF Fresh, NewBlock

\* Three blocks at the end.
Longer(ns, bs, c1, c2, c3) ==
    /\ ns \in Seq(Blocks)
    /\ Len(ns) = Len(bs) + 3
    /\ \A j \in 1..Len(bs) : ns[j] = bs[j]
    /\ ns[Len(bs) + 1] = c1
    /\ ns[Len(bs) + 2] = c2
    /\ ns[Len(bs) + 3] = c3

LEMMA BlocksEffect ==
    ASSUME NEW bs \in Seq(Blocks), NEW ns,
           NEW c1 \in Blocks, NEW c2 \in Blocks, NEW c3 \in Blocks,
           ns = bs \o <<c1, c2, c3>>
    PROVE  Longer(ns, bs, c1, c2, c3)
<1> DEFINE more == <<c1, c2, c3>>
<1>1. more \in Seq(Blocks) /\ Len(more) = 3
  OBVIOUS
<1>2. /\ more[1] = c1 /\ more[2] = c2
      /\ more[3] = c3
  OBVIOUS
<1>3. Len(bs) \in Nat
  BY LenProperties
<1> HIDE DEF more
<1>4. /\ ns \in Seq(Blocks)
      /\ Len(ns) = Len(bs) + Len(more)
      /\ \A i \in 1..(Len(bs) + Len(more)) :
             ns[i] = IF i <= Len(bs) THEN bs[i] ELSE more[i - Len(bs)]
  BY <1>1, ConcatProperties DEF more
<1>5. /\ ns[Len(bs) + 1] = more[1]
      /\ ns[Len(bs) + 2] = more[2]
      /\ ns[Len(bs) + 3] = more[3]
      /\ \A j \in 1..Len(bs) : ns[j] = bs[j]
  <2>1. \A k \in {1, 2, 3} : /\ Len(bs) + k \in 1..(Len(bs) + Len(more))
                             /\ ~(Len(bs) + k <= Len(bs))
                             /\ (Len(bs) + k) - Len(bs) = k
    BY <1>1, <1>3
  <2>2. \A k \in {1, 2, 3} : ns[Len(bs) + k] = more[k]
    BY <1>4, <2>1
  <2>3. \A j \in 1..Len(bs) : j \in 1..(Len(bs) + Len(more)) /\ j <= Len(bs)
    BY <1>1, <1>3
  <2> QED BY <1>4, <2>2, <2>3
<1> QED BY <1>1, <1>2, <1>4, <1>5 DEF Longer

-----------------------------------------------------------------------------
(* What keeps the layout of a function in work.                            *)

Alike(ds, cs) ==
    /\ Len(ds) = Len(cs)
    /\ \A i \in 1..Len(cs) : /\ ds[i].kind = cs[i].kind
                             /\ ds[i].target = cs[i].target
                             /\ ds[i].next = cs[i].next

LEMMA PendingIs ==
    ASSUME NEW c
    PROVE  /\ c.kind = "then" => Pending(c) = {c.target, c.next}
           /\ c.kind \in {"else", "while"} => Pending(c) = {c.next}
           /\ ~Branches(c) => Pending(c) = {}
BY DEF Pending, Branches

LEMMA PendingExists ==
    ASSUME NEW cs, NEW k \in Nat, Shape(cs, k), NEW i \in 1..Len(cs)
    PROVE  Pending(cs[i]) \subseteq 1..k
BY DEF Pending, Branches, Shape

LEMMA WorkRewritten ==
    ASSUME NEW cs, NEW bs \in Seq(Blocks), Tidy(bs), NEW ins \in 1..Len(bs),
           InWork(cs, bs, ins),
           NEW ns, Rewritten(ns, bs, ins), ns[ins].succ \subseteq 1..Len(bs)
    PROVE  Tidy(ns) /\ InWork(cs, ns, ins)
<1>1. \A j \in 1..Len(bs) : ns[j].placed = bs[j].placed
  BY DEF Rewritten
<1>2. Tidy(ns)
  <2> SUFFICES ASSUME NEW j \in 1..Len(bs)
               PROVE  /\ ns[j].succ \subseteq 1..Len(bs)
                      /\ ~ns[j].placed => Fresh(ns[j])
    BY DEF Tidy, Rewritten
  <2>1. CASE j = ins
    BY <1>1, <2>1 DEF InWork
  <2>2. CASE j # ins
    BY <2>2 DEF Tidy, Rewritten
  <2> QED BY <2>1, <2>2
<1>3. InWork(cs, ns, ins)
  BY <1>1 DEF InWork, Rewritten
<1> QED BY <1>2, <1>3

LEMMA WorkAlike ==
    ASSUME NEW cs \in Seq(Constructs), NEW ds \in Seq(Constructs), Alike(ds, cs),
           NEW bs, NEW ins, InWork(cs, bs, ins)
    PROVE  InWork(ds, bs, ins)
<1>1. Len(cs) \in Nat /\ Len(ds) = Len(cs) /\ cs # << >>
  BY LenProperties DEF Alike, InWork
<1>2. Len(cs) \in Nat \ {0} /\ ds # << >>
  BY <1>1, EmptySeq
<1>3. ds[1].target = cs[1].target
  BY <1>2 DEF Alike
<1>4. \A i \in 1..Len(cs) : Pending(ds[i]) = Pending(cs[i])
  BY DEF Alike, Pending, Branches
<1>5. \A i \in 1..Len(cs) : /\ ds[i].kind = cs[i].kind
                            /\ ds[i].target = cs[i].target
                            /\ ds[i].next = cs[i].next
  BY DEF Alike
<1> QED BY <1>1, <1>2, <1>3, <1>4, <1>5 DEF InWork

\* A construct begins: the blocks it has to place are new.
LEMMA WorkPush ==
    ASSUME NEW cs, NEW bs \in Seq(Blocks), Shape(cs, Len(bs)),
           NEW ins, InWork(cs, bs, ins),
           NEW c \in Constructs, c.kind = "then" => c.target # c.next,
           NEW ns, Len(ns) \in Nat, Len(ns) >= Len(bs),
           \A b \in 1..Len(bs) : b \notin Pending(c) /\ ns[b].placed = bs[b].placed,
           \A b \in 1..Len(ns) : b > Len(bs) => (ns[b].placed <=> b \notin Pending(c)),
           NEW to, ns[to].placed
    PROVE  InWork(Append(cs, c), ns, to)
<1> DEFINE k  == Len(cs)
           n  == Len(bs)
           ds == Append(cs, c)
<1>1. /\ k \in Nat \ {0} /\ n \in Nat /\ cs \in Seq(Constructs)
  BY ShapeLast, LenProperties DEF InWork, Shape
<1>2. /\ ds # << >> /\ Len(ds) = k + 1 /\ ds[k + 1] = c
      /\ \A i \in 1..k : ds[i] = cs[i]
  BY <1>1
<1>3. \A i \in 1..k : Pending(cs[i]) \subseteq 1..n
  BY <1>1, PendingExists
<1>4. \A i \in 1..(k + 1) : i = k + 1 \/ i \in 1..k
  BY <1>1
<1>5. k + 1 \in 1..(k + 1) /\ \A i \in 1..k : i \in 1..(k + 1)
  BY <1>1
<1>6. ds[1].target \in 1..Len(ns)
  <2>1. 1 \in 1..k /\ cs[1].target \in 1..n
    BY <1>1 DEF InWork
  <2> QED BY <1>1, <1>2, <2>1
<1> HIDE DEF ds, k, n
<1>7. \A b \in 1..Len(ns) :
          ns[b].placed <=> \A i \in 1..(k + 1) : b \notin Pending(ds[i])
  <2> TAKE b \in 1..Len(ns)
  <2>1. (\A i \in 1..(k + 1) : b \notin Pending(ds[i]))
            <=> b \notin Pending(c) /\ \A i \in 1..k : b \notin Pending(cs[i])
    BY <1>2, <1>4, <1>5
  <2>2. CASE b \in 1..n
    <3>1. ns[b].placed <=> \A i \in 1..k : b \notin Pending(cs[i])
      BY <2>2 DEF InWork, n, k
    <3> QED BY <2>1, <2>2, <3>1 DEF n
  <2>3. CASE b \notin 1..n
    <3>1. b > n
      BY <1>1, <2>3
    <3>2. \A i \in 1..k : b \notin Pending(cs[i])
      BY <1>3, <2>3
    <3> QED BY <2>1, <3>1, <3>2 DEF n
  <2> QED BY <2>2, <2>3
<1>8. \A i, j \in 1..(k + 1) :
          i # j => Pending(ds[i]) \cap Pending(ds[j]) = {}
  <2>1. \A b \in 1..n : b \notin Pending(c)
    BY DEF n
  <2>2. \A i, j \in 1..k : i # j => Pending(cs[i]) \cap Pending(cs[j]) = {}
    BY DEF InWork, k
  <2>3. \A i \in 1..k : Pending(cs[i]) \cap Pending(c) = {}
    BY <1>3, <2>1
  <2> QED BY <1>2, <1>4, <2>2, <2>3
<1>9. \A i \in 1..(k + 1) : ds[i].kind = "then" => ds[i].target # ds[i].next
  BY <1>2, <1>4 DEF InWork, k
<1> QED BY <1>2, <1>6, <1>7, <1>8, <1>9 DEF InWork, ds

\* A construct ends, and has placed all its blocks.
LEMMA WorkPop ==
    ASSUME NEW cs, NEW bs \in Seq(Blocks), Shape(cs, Len(bs)),
           NEW ins, InWork(cs, bs, ins), cs[Len(cs)].kind # "func",
           NEW ns, Len(ns) = Len(bs),
           \A b \in 1..Len(bs) :
               ns[b].placed <=> bs[b].placed \/ b \in Pending(cs[Len(cs)]),
           NEW to, ns[to].placed
    PROVE  InWork(Closed(cs), ns, to)
<1> DEFINE k  == Len(cs)
           n  == Len(bs)
           ds == Closed(cs)
<1>1. k \in Nat \ {0} /\ cs \in Seq(Constructs) /\ cs # << >>
  BY ShapeLast DEF InWork, Shape
<1>2. k # 1
  BY <1>1 DEF Shape
<1>3. k - 1 \in Nat \ {0}
  BY <1>1, <1>2
<1>4. Len(ds) = k - 1 /\ \A i \in 1..(k - 1) : ds[i] = cs[i]
  BY <1>1, <1>3, FrontOf DEF Closed
<1>5. ds # << >>
  BY <1>1, ShapeClosed
<1>6. \A i \in 1..k : i = k \/ i \in 1..(k - 1)
  BY <1>1
<1> HIDE DEF ds, k, n
<1>7. k \in 1..k /\ 1 \in 1..(k - 1) /\ \A i \in 1..(k - 1) : i \in 1..k /\ i # k
  BY <1>1, <1>3
<1>8. \A b \in 1..n :
          ns[b].placed <=> \A i \in 1..(k - 1) : b \notin Pending(ds[i])
  <2> TAKE b \in 1..n
  <2>1. bs[b].placed <=> \A i \in 1..k : b \notin Pending(cs[i])
    BY DEF InWork, n, k
  <2>2. ns[b].placed <=> bs[b].placed \/ b \in Pending(cs[k])
    BY DEF n, k
  <2>3. b \in Pending(cs[k]) => \A i \in 1..(k - 1) : b \notin Pending(cs[i])
    BY <1>7 DEF InWork, k
  <2> QED BY <1>4, <1>6, <1>7, <2>1, <2>2, <2>3
<1>9. /\ \A i, j \in 1..(k - 1) :
             i # j => Pending(ds[i]) \cap Pending(ds[j]) = {}
      /\ \A i \in 1..(k - 1) : ds[i].kind = "then" => ds[i].target # ds[i].next
  <2>1. /\ \A i, j \in 1..k : i # j => Pending(cs[i]) \cap Pending(cs[j]) = {}
        /\ \A i \in 1..k : cs[i].kind = "then" => cs[i].target # cs[i].next
    BY DEF InWork, k
  <2>2. \A i \in 1..(k - 1) : i \in 1..k /\ ds[i] = cs[i]
    BY <1>4, <1>7
  <2> QED BY <2>1, <2>2
<1>10. ds[1].target \in 1..Len(ns)
  BY <1>4, <1>7 DEF InWork, n
<1> QED BY <1>4, <1>5, <1>8, <1>9, <1>10 DEF InWork, ds, n

\* The first arm of an if ends.
LEMMA WorkTurn ==
    ASSUME NEW cs, NEW bs \in Seq(Blocks), Shape(cs, Len(bs)),
           NEW ins, InWork(cs, bs, ins), cs[Len(cs)].kind = "then",
           NEW ds \in Seq(Constructs), Len(ds) = Len(cs),
           \A i \in 1..Len(cs) : i # Len(cs) => ds[i] = cs[i],
           ds[Len(cs)].kind = "else", ds[Len(cs)].next = cs[Len(cs)].next,
           NEW ns, Len(ns) = Len(bs),
           \A b \in 1..Len(bs) :
               ns[b].placed <=> bs[b].placed \/ b = cs[Len(cs)].target,
           NEW to, ns[to].placed
    PROVE  InWork(ds, ns, to)
<1> DEFINE k  == Len(cs)
           n  == Len(bs)
<1>1. k \in Nat \ {0} /\ k \in 1..k /\ cs \in Seq(Constructs) /\ cs # << >>
  BY ShapeLast DEF InWork, Shape
<1>2. k # 1 /\ 1 \in 1..k
  BY <1>1 DEF Shape
<1>3. ds # << >>
  BY <1>1, EmptySeq
<1>4. /\ Pending(cs[k]) = {cs[k].target, cs[k].next}
      /\ Pending(ds[k]) = {cs[k].next}
      /\ cs[k].target # cs[k].next
  BY <1>1, PendingIs DEF InWork
<1> HIDE DEF k, n
<1>5. \A i \in 1..k : i # k => ds[i] = cs[i]
  BY DEF k
<1>6. \A i \in 1..k : Pending(ds[i]) \subseteq Pending(cs[i])
  BY <1>4, <1>5
<1>7. \A b \in 1..n :
          ns[b].placed <=> \A i \in 1..k : b \notin Pending(ds[i])
  <2> TAKE b \in 1..n
  <2>1. bs[b].placed <=> \A i \in 1..k : b \notin Pending(cs[i])
    BY DEF InWork, n, k
  <2>2. ns[b].placed <=> bs[b].placed \/ b = cs[k].target
    BY DEF n, k
  <2>3. b = cs[k].target => \A i \in 1..k : i # k => b \notin Pending(cs[i])
    BY <1>1, <1>4 DEF InWork, k
  <2>4. CASE b = cs[k].target
    BY <1>4, <1>5, <2>2, <2>3, <2>4
  <2>5. CASE b # cs[k].target
    <3>1. \A i \in 1..k : b \in Pending(ds[i]) <=> b \in Pending(cs[i])
      BY <1>4, <1>5, <2>5
    <3> QED BY <2>1, <2>2, <2>5, <3>1
  <2> QED BY <2>4, <2>5
<1>8. \A i, j \in 1..k : i # j => Pending(ds[i]) \cap Pending(ds[j]) = {}
  BY <1>6 DEF InWork, k
<1>9. \A i \in 1..k : ds[i].kind = "then" => ds[i].target # ds[i].next
  BY <1>5 DEF InWork, k
<1>10. ds[1].target \in 1..Len(ns)
  BY <1>2, <1>5 DEF InWork, n
<1> QED BY <1>3, <1>7, <1>8, <1>9, <1>10 DEF InWork, n, k

-----------------------------------------------------------------------------
(* What keeps the promises of the ifs and whiles.                          *)

LEMMA PromiseKept ==
    ASSUME NEW c, NEW s, NEW reach, NEW more, Promise(c, s, reach),
           reach \subseteq more, Pending(c) \cap (more \ reach) = {}
    PROVE  Promise(c, s, more)
<1>1. Branches(c) => c.next \in Pending(c)
  BY DEF Pending, Branches
<1>2. Branches(c) => (c.next \in more <=> c.next \in reach)
  BY <1>1
<1>3. c.kind \in {"then", "else", "while"} <=> Branches(c)
  BY DEF Branches
<1> QED BY <1>2, <1>3 DEF Promise

LEMMA KeptReach ==
    ASSUME NEW cs, NEW sv, NEW reach, NEW more, Kept(cs, sv, reach),
           reach \subseteq more,
           \A i \in 1..Len(cs) : Pending(cs[i]) \cap (more \ reach) = {}
    PROVE  Kept(cs, sv, more)
<1>1. PICK owner \in [1..Len(sv) -> 1..Len(cs)] :
          /\ Records(owner, cs, sv)
          /\ \A i \in 1..Len(sv) : Promise(cs[owner[i]], sv[i], reach)
  BY DEF Kept
<1>2. \A i \in 1..Len(sv) : Promise(cs[owner[i]], sv[i], more)
  BY <1>1, PromiseKept
<1> QED BY <1>1, <1>2 DEF Kept

LEMMA KeptAlike ==
    ASSUME NEW cs, NEW ds, Alike(ds, cs), NEW sv, NEW reach, Kept(cs, sv, reach)
    PROVE  Kept(ds, sv, reach)
<1>1. PICK owner \in [1..Len(sv) -> 1..Len(cs)] :
          /\ Records(owner, cs, sv)
          /\ \A i \in 1..Len(sv) : Promise(cs[owner[i]], sv[i], reach)
  BY DEF Kept
<1>2. \A i \in 1..Len(cs) : Branches(ds[i]) <=> Branches(cs[i])
  BY DEF Alike, Branches
<1>3. Len(ds) = Len(cs)
  BY DEF Alike
<1>4. Records(owner, ds, sv)
  BY <1>1, <1>2, <1>3 DEF Records
<1>5. \A i \in 1..Len(sv) : Promise(ds[owner[i]], sv[i], reach)
  BY <1>1 DEF Alike, Promise
<1> QED BY <1>1, <1>3, <1>4, <1>5 DEF Kept

LEMMA KeptPush ==
    ASSUME NEW cs \in Seq(Constructs), NEW c \in Constructs, ~Branches(c),
           NEW sv, NEW reach, Kept(cs, sv, reach)
    PROVE  Kept(Append(cs, c), sv, reach)
<1> DEFINE k  == Len(cs)
           ds == Append(cs, c)
<1>1. PICK owner \in [1..Len(sv) -> 1..k] :
          /\ Records(owner, cs, sv)
          /\ \A i \in 1..Len(sv) : Promise(cs[owner[i]], sv[i], reach)
  BY DEF Kept
<1>2. /\ k \in Nat /\ Len(ds) = k + 1 /\ ds[k + 1] = c
      /\ \A i \in 1..k : ds[i] = cs[i]
  BY LenProperties
<1> HIDE DEF ds, k
<1>3. \A i \in 1..(k + 1) : i = k + 1 \/ i \in 1..k
  BY <1>2
<1>4. owner \in [1..Len(sv) -> 1..(k + 1)]
  BY <1>1, <1>2
<1>5. \A i \in 1..Len(sv) : ds[owner[i]] = cs[owner[i]]
  BY <1>1, <1>2
<1>6. Records(owner, ds, sv)
  BY <1>1, <1>2, <1>3, <1>4, <1>5 DEF Records, k
<1> QED BY <1>1, <1>2, <1>4, <1>5, <1>6 DEF Kept, ds

LEMMA KeptPushBranch ==
    ASSUME NEW cs \in Seq(Constructs), NEW c \in Constructs, Branches(c),
           NEW sv \in Seq(BOOLEAN), NEW s \in BOOLEAN, NEW reach,
           Kept(cs, sv, reach), Promise(c, s, reach)
    PROVE  Kept(Append(cs, c), Append(sv, s), reach)
<1> DEFINE k  == Len(cs)
           n  == Len(sv)
           ds == Append(cs, c)
           tv == Append(sv, s)
<1>1. PICK owner \in [1..n -> 1..k] :
          /\ Records(owner, cs, sv)
          /\ \A i \in 1..n : Promise(cs[owner[i]], sv[i], reach)
  BY DEF Kept
<1>2. /\ k \in Nat /\ Len(ds) = k + 1 /\ ds[k + 1] = c
      /\ \A i \in 1..k : ds[i] = cs[i]
      /\ n \in Nat /\ Len(tv) = n + 1 /\ tv[n + 1] = s
      /\ \A i \in 1..n : tv[i] = sv[i]
  BY LenProperties
<1> DEFINE own == [i \in 1..(n + 1) |-> IF i = n + 1 THEN k + 1 ELSE owner[i]]
<1>3. own \in [1..(n + 1) -> 1..(k + 1)]
  BY <1>1, <1>2
<1>4. own[n + 1] = k + 1 /\ \A i \in 1..n : own[i] = owner[i] /\ own[i] \in 1..k
  BY <1>1, <1>2
<1> HIDE DEF own, n, k, ds, tv
<1>5. \A i \in 1..(n + 1) : i = n + 1 \/ i \in 1..n
  BY <1>2
<1>6. \A i \in 1..(k + 1) : i = k + 1 \/ i \in 1..k
  BY <1>2
<1>7. \A i \in 1..n : ds[own[i]] = cs[owner[i]]
  BY <1>2, <1>4
<1>8. \A i, j \in 1..(n + 1) : i < j => own[i] < own[j]
  <2> SUFFICES ASSUME NEW i \in 1..(n + 1), NEW j \in 1..(n + 1), i < j
               PROVE  own[i] < own[j]
    OBVIOUS
  <2>1. i \in 1..n /\ own[i] = owner[i] /\ own[i] \in 1..k
    BY <1>2, <1>4
  <2>2. CASE j = n + 1
    BY <1>2, <1>4, <2>1, <2>2
  <2>3. CASE j \in 1..n
    <3>1. owner[i] < owner[j]
      BY <1>1, <2>1, <2>3 DEF Records, n
    <3> QED BY <1>4, <2>1, <2>3, <3>1
  <2> QED BY <1>5, <2>2, <2>3
<1>9. ASSUME NEW l \in 1..(k + 1), Branches(ds[l])
      PROVE  \E i \in 1..(n + 1) : own[i] = l
  <2>1. CASE l = k + 1
    <3>1. n + 1 \in 1..(n + 1)
      BY <1>2
    <3> QED BY <1>4, <2>1, <3>1
  <2>2. CASE l \in 1..k
    <3>1. PICK i \in 1..n : owner[i] = l
      BY <1>1, <1>2, <1>9, <2>2 DEF Records, n, k
    <3>2. i \in 1..(n + 1) /\ own[i] = l
      BY <1>2, <1>4, <3>1
    <3> QED BY <3>2
  <2> QED BY <1>6, <2>1, <2>2
<1>10. \A i \in 1..n : Branches(cs[owner[i]])
  BY <1>1 DEF Records, n
<1>11. Records(own, ds, tv)
  <2>1. \A i \in 1..(n + 1) : Branches(ds[own[i]])
    BY <1>2, <1>4, <1>5, <1>7, <1>10
  <2> QED BY <1>2, <1>3, <1>8, <1>9, <2>1 DEF Records
<1>12. \A i \in 1..(n + 1) : Promise(ds[own[i]], tv[i], reach)
  BY <1>1, <1>2, <1>4, <1>5, <1>7
<1> QED BY <1>2, <1>3, <1>11, <1>12 DEF Kept, ds, tv

LEMMA KeptPop ==
    ASSUME NEW cs \in Seq(Constructs), cs # << >>, ~Branches(cs[Len(cs)]),
           NEW sv, NEW reach, Kept(cs, sv, reach)
    PROVE  Kept(Closed(cs), sv, reach)
<1> DEFINE k  == Len(cs)
           ds == Closed(cs)
<1>1. PICK owner \in [1..Len(sv) -> 1..k] :
          /\ Records(owner, cs, sv)
          /\ \A i \in 1..Len(sv) : Promise(cs[owner[i]], sv[i], reach)
  BY DEF Kept
<1>2. k \in Nat \ {0}
  BY LenProperties, EmptySeq
<1>3. Len(ds) = k - 1 /\ \A i \in 1..(k - 1) : ds[i] = cs[i]
  <2>1. k - 1 \in Nat
    BY <1>2
  <2> QED BY <2>1, FrontOf DEF Closed
<1> HIDE DEF ds, k
<1>4. \A i \in 1..Len(sv) : owner[i] \in 1..(k - 1)
  <2> TAKE i \in 1..Len(sv)
  <2>1. owner[i] # k /\ owner[i] \in 1..k
    BY <1>1 DEF Records, k
  <2> QED BY <1>2, <2>1
<1>5. \A i \in 1..(k - 1) : i \in 1..k
  BY <1>2
<1>6. \A i \in 1..Len(sv) : ds[owner[i]] = cs[owner[i]]
  BY <1>3, <1>4
<1>7. owner \in [1..Len(sv) -> 1..(k - 1)]
  BY <1>1, <1>4
<1>8. Records(owner, ds, sv)
  BY <1>1, <1>3, <1>5, <1>6, <1>7 DEF Records, k
<1> QED BY <1>1, <1>3, <1>6, <1>7, <1>8 DEF Kept, ds

\* What is saved last belongs to the innermost construct, when that is an if or
\* a while.
LEMMA KeptLast ==
    ASSUME NEW cs \in Seq(Constructs), cs # << >>, Branches(cs[Len(cs)]),
           NEW sv \in Seq(BOOLEAN), NEW owner, Records(owner, cs, sv)
    PROVE  /\ Len(sv) \in Nat \ {0} /\ Len(cs) \in Nat \ {0}
           /\ owner[Len(sv)] = Len(cs)
           /\ \A i \in 1..(Len(sv) - 1) : owner[i] \in 1..(Len(cs) - 1)
<1> DEFINE k == Len(cs)
           n == Len(sv)
<1>1. k \in Nat \ {0} /\ k \in 1..k /\ n \in Nat
  BY LenProperties, EmptySeq
<1>2. PICK last \in 1..n : owner[last] = k
  BY <1>1 DEF Records
<1>3. owner \in [1..n -> 1..k] /\ \A i, j \in 1..n : i < j => owner[i] < owner[j]
  BY DEF Records
<1> HIDE DEF k, n
<1>4. last = n
  <2> SUFFICES ASSUME last < n PROVE FALSE
    BY <1>1, <1>2
  <2>1. n \in 1..n
    BY <1>1, <1>2
  <2>2. owner[last] < owner[n] /\ owner[n] \in 1..k
    BY <1>2, <1>3, <2>1
  <2> QED BY <1>1, <1>2, <2>2
<1>5. \A i \in 1..(n - 1) : owner[i] \in 1..(k - 1)
  <2> TAKE i \in 1..(n - 1)
  <2>1. i \in 1..n /\ n \in 1..n /\ i < n
    BY <1>1
  <2>2. owner[i] < owner[n] /\ owner[i] \in 1..k
    BY <1>3, <2>1
  <2> QED BY <1>1, <1>2, <1>4, <2>2
<1> QED BY <1>1, <1>2, <1>4, <1>5 DEF k, n

LEMMA KeptPopBranch ==
    ASSUME NEW cs \in Seq(Constructs), cs # << >>, Branches(cs[Len(cs)]),
           NEW sv \in Seq(BOOLEAN), NEW reach, Kept(cs, sv, reach)
    PROVE  /\ Len(sv) \in Nat \ {0}
           /\ Promise(cs[Len(cs)], sv[Len(sv)], reach)
           /\ Kept(Closed(cs), SubSeq(sv, 1, Len(sv) - 1), reach)
<1> DEFINE k  == Len(cs)
           n  == Len(sv)
           ds == Closed(cs)
           tv == SubSeq(sv, 1, n - 1)
<1>1. PICK owner \in [1..n -> 1..k] :
          /\ Records(owner, cs, sv)
          /\ \A i \in 1..n : Promise(cs[owner[i]], sv[i], reach)
  BY DEF Kept
<1>2. /\ n \in Nat \ {0} /\ k \in Nat \ {0}
      /\ owner[n] = k
      /\ \A i \in 1..(n - 1) : owner[i] \in 1..(k - 1)
  BY <1>1, KeptLast
<1>3. n - 1 \in Nat /\ k - 1 \in Nat
  BY <1>2
<1>4. /\ Len(ds) = k - 1 /\ \A i \in 1..(k - 1) : ds[i] = cs[i]
      /\ Len(tv) = n - 1 /\ \A i \in 1..(n - 1) : tv[i] = sv[i]
  BY <1>3, FrontOf DEF Closed
<1> DEFINE own == [i \in 1..(n - 1) |-> owner[i]]
<1>5. /\ own \in [1..(n - 1) -> 1..(k - 1)]
      /\ \A i \in 1..(n - 1) : own[i] = owner[i]
  BY <1>2
<1> HIDE DEF own, n, k, ds, tv
<1>6. \A i \in 1..(n - 1) : i \in 1..n /\ i # n
  BY <1>2
<1>7. \A i \in 1..(k - 1) : i \in 1..k /\ i # k
  BY <1>2
<1>8. \A i \in 1..n : i = n \/ i \in 1..(n - 1)
  BY <1>2
<1>9. \A i \in 1..(n - 1) : ds[own[i]] = cs[owner[i]]
  BY <1>4, <1>5
<1>10. /\ \A i \in 1..n : Branches(cs[owner[i]])
       /\ \A i, j \in 1..n : i < j => owner[i] < owner[j]
       /\ \A l \in 1..k : Branches(cs[l]) => \E i \in 1..n : owner[i] = l
  BY <1>1 DEF Records, n, k
<1>11. ASSUME NEW l \in 1..(k - 1), Branches(ds[l])
       PROVE  \E i \in 1..(n - 1) : own[i] = l
  <2>1. PICK i \in 1..n : owner[i] = l
    BY <1>4, <1>7, <1>10, <1>11
  <2>2. i \in 1..(n - 1)
    BY <1>2, <1>7, <1>8, <2>1
  <2> QED BY <1>5, <2>1, <2>2
<1>12. Records(own, ds, tv)
  <2>1. \A i, j \in 1..(n - 1) : i < j => own[i] < own[j]
    BY <1>5, <1>6, <1>10
  <2>2. \A i \in 1..(n - 1) : Branches(ds[own[i]])
    BY <1>6, <1>9, <1>10
  <2> QED BY <1>4, <1>5, <1>11, <2>1, <2>2 DEF Records
<1>13. \A i \in 1..(n - 1) : Promise(ds[own[i]], tv[i], reach)
  BY <1>1, <1>4, <1>6, <1>9
<1>14. n \in 1..n
  BY <1>2
<1>15. Promise(cs[k], sv[n], reach)
  BY <1>1, <1>2, <1>14
<1>16. Kept(ds, tv, reach)
  BY <1>4, <1>5, <1>12, <1>13 DEF Kept
<1> QED BY <1>2, <1>15, <1>16 DEF n, k, ds, tv

\* The first arm of an if ends: what is saved is replaced.
LEMMA KeptTurn ==
    ASSUME NEW cs \in Seq(Constructs), cs # << >>, Branches(cs[Len(cs)]),
           NEW sv \in Seq(BOOLEAN), NEW reach, Kept(cs, sv, reach),
           NEW ds \in Seq(Constructs), Len(ds) = Len(cs),
           \A i \in 1..Len(cs) : i # Len(cs) => ds[i] = cs[i],
           Branches(ds[Len(cs)]),
           NEW s \in BOOLEAN, NEW more, reach \subseteq more,
           \A i \in 1..(Len(cs) - 1) : Pending(cs[i]) \cap (more \ reach) = {},
           Promise(ds[Len(cs)], s, more)
    PROVE  Kept(ds, [sv EXCEPT ![Len(sv)] = s], more)
<1> DEFINE k  == Len(cs)
           n  == Len(sv)
           front == Closed(cs)
           rest  == SubSeq(sv, 1, n - 1)
           tv    == [sv EXCEPT ![n] = s]
<1>1. /\ k \in Nat \ {0} /\ n \in Nat \ {0}
      /\ Kept(front, rest, reach)
  BY KeptPopBranch, LenProperties, EmptySeq
<1>2. k - 1 \in Nat /\ n - 1 \in Nat
  BY <1>1
<1>3. /\ Len(front) = k - 1 /\ \A i \in 1..(k - 1) : front[i] = cs[i]
      /\ Len(rest) = n - 1 /\ \A i \in 1..(n - 1) : rest[i] = sv[i]
  BY <1>2, FrontOf DEF Closed
<1>4. front \in Seq(Constructs) /\ rest \in Seq(BOOLEAN)
  <2>1. /\ \A i \in 1..(k - 1) : i \in 1..k /\ cs[i] \in Constructs
        /\ \A i \in 1..(n - 1) : i \in 1..n /\ sv[i] \in BOOLEAN
    BY <1>1, ElementOfSeq
  <2> QED BY <1>1, <1>2, <2>1, SubSeqProperties DEF Closed
<1>5. /\ tv \in Seq(BOOLEAN) /\ Len(tv) = n
      /\ \A i \in 1..n : tv[i] = IF i = n THEN s ELSE sv[i]
  <2>1. n \in 1..n
    BY <1>1
  <2> QED BY <2>1, ExceptSeq
<1>6. ds[k] \in Constructs
  <2>1. k \in 1..Len(ds)
    BY <1>1
  <2> QED BY <2>1, ElementOfSeq
<1>7. Kept(front, rest, more)
  BY <1>1, <1>3, KeptReach
<1>8. Kept(Append(front, ds[k]), Append(rest, s), more)
  BY <1>4, <1>6, <1>7, KeptPushBranch
<1>9. Append(front, ds[k]) = ds
  <2> DEFINE fs == Append(front, ds[k])
  <2>1. /\ fs \in Seq(Constructs) /\ Len(fs) = Len(front) + 1
        /\ \A i \in 1..Len(front) : fs[i] = front[i]
        /\ fs[Len(front) + 1] = ds[k]
    BY <1>4, <1>6, AppendProperties
  <2> HIDE DEF fs, k, front
  <2>2. Len(fs) = Len(ds) /\ (k - 1) + 1 = k
    BY <1>1, <1>3, <2>1 DEF k
  <2>3. \A i \in 1..Len(fs) : fs[i] = ds[i]
    <3> TAKE i \in 1..Len(fs)
    <3>1. i = k \/ (i \in 1..(k - 1) /\ i \in 1..k /\ i # k)
      BY <1>1, <2>2 DEF k
    <3> QED BY <1>3, <2>1, <2>2, <3>1 DEF k
  <2>4. fs = ds
    BY <2>1, <2>2, <2>3, SeqEqual
  <2> QED BY <2>4 DEF fs
<1>10. Append(rest, s) = tv
  <2> DEFINE fs == Append(rest, s)
  <2>1. /\ fs \in Seq(BOOLEAN) /\ Len(fs) = Len(rest) + 1
        /\ \A i \in 1..Len(rest) : fs[i] = rest[i]
        /\ fs[Len(rest) + 1] = s
    BY <1>4, AppendProperties
  <2> HIDE DEF fs, n, rest, tv
  <2>2. Len(fs) = n /\ (n - 1) + 1 = n
    BY <1>1, <1>3, <2>1
  <2>3. \A i \in 1..n : fs[i] = tv[i]
    <3> TAKE i \in 1..n
    <3>1. i = n \/ (i \in 1..(n - 1) /\ i # n)
      BY <1>1
    <3> QED BY <1>3, <1>5, <2>1, <2>2, <3>1
  <2>4. fs = tv
    BY <1>5, <2>1, <2>2, <2>3, SeqEqual
  <2> QED BY <2>4 DEF fs
<1> QED BY <1>8, <1>9, <1>10

-----------------------------------------------------------------------------
(* The steps of the builder.                                               *)

LEMMA InFlow ==
    ASSUME Sound, Flowing, constructs # << >>
    PROVE  /\ cur \in Fns /\ cur # NoFn
           /\ blocks \in [Fns -> Seq(Blocks)]
           /\ blocks[cur] \in Seq(Blocks)
           /\ Len(blocks[cur]) \in Nat
           /\ insert \in 1..Len(blocks[cur])
           /\ constructs \in Seq(Constructs)
           /\ Shape(constructs, Len(blocks[cur]))
           /\ Len(constructs) \in Nat \ {0}
           /\ constructs[1].target \in 1..Len(blocks[cur])
           /\ Tidy(blocks[cur])
           /\ InWork(constructs, blocks[cur], insert)
           /\ blame = {} => /\ Orderly(blocks[cur], insert, live)
                            /\ Follows(constructs, blocks[cur], insert, live, saved)
<1>1. /\ cur \in Fns
      /\ blocks[cur] \in Seq(Blocks)
      /\ Len(blocks[cur]) \in Nat
      /\ insert \in 1..Len(blocks[cur])
      /\ Shape(constructs, Len(blocks[cur]))
  BY InBody DEF Sound
<1>2. cur # NoFn
  BY <1>1, NoFnIsNone
<1>3. constructs \in Seq(Constructs) /\ Len(constructs) \in Nat \ {0}
  BY <1>1, ShapeLast DEF Shape
<1>4. /\ Tidy(blocks[cur])
      /\ InWork(constructs, blocks[cur], insert)
  BY <1>1, <1>2 DEF Flowing, Layout
<1>5. constructs[1].target \in 1..Len(blocks[cur])
  BY <1>4 DEF InWork
<1>6. blame = {} => /\ Orderly(blocks[cur], insert, live)
                    /\ Follows(constructs, blocks[cur], insert, live, saved)
  BY <1>2 DEF Flowing, NoStrayCode, FlowFollows
<1>7. blocks \in [Fns -> Seq(Blocks)]
  BY DEF Sound, BodyOK
<1> QED BY <1>1, <1>2, <1>3, <1>4, <1>5, <1>6, <1>7

\* A step inside a function.
LEMMA Moves ==
    ASSUME Sound, Flowing, constructs # << >>, cur' = cur,
           NEW ns, blocks' = [blocks EXCEPT ![cur] = ns],
           Tidy(ns), InWork(constructs', ns, insert'),
           blame' = {} => /\ Orderly(ns, insert', live')
                          /\ Follows(constructs', ns, insert', live', saved')
    PROVE  Flowing'
<1>1. cur \in Fns /\ cur # NoFn /\ blocks \in [Fns -> Seq(Blocks)]
  BY InFlow
<1>2. blocks'[cur] = ns /\ \A f \in Fns \ {cur} : blocks'[f] = blocks[f]
  BY <1>1
<1>3. Layout'
  BY <1>1, <1>2 DEF Flowing, Layout
<1>4. NoStrayCode' /\ FlowFollows'
  BY <1>1, <1>2 DEF NoStrayCode, FlowFollows
<1> QED BY <1>3, <1>4 DEF Flowing

\* A step that generates nothing.
LEMMA Marks ==
    ASSUME Sound, Flowing, constructs # << >>, UNCHANGED <<blocks, cur, insert>>,
           UNCHANGED <<live, saved>>, blame \subseteq blame',
           InWork(constructs', blocks[cur], insert),
           constructs'[1] = constructs[1] \/ constructs'[1].target = constructs[1].target,
           \A reach : Kept(constructs, saved, reach) => Kept(constructs', saved, reach)
    PROVE  Flowing'
<1>1. /\ Tidy(blocks[cur])
      /\ blame = {} => /\ Orderly(blocks[cur], insert, live)
                       /\ Follows(constructs, blocks[cur], insert, live, saved)
  BY InFlow
<1>2. blame' = {} => Follows(constructs', blocks[cur], insert, live, saved)
  BY <1>1 DEF Follows
<1>3. blocks' = [blocks EXCEPT ![cur] = blocks[cur]]
  BY InFlow
<1>4. /\ blame' = {} => /\ Orderly(blocks[cur], insert', live')
                        /\ Follows(constructs', blocks[cur], insert', live', saved')
      /\ InWork(constructs', blocks[cur], insert')
      /\ cur' = cur
  BY <1>1, <1>2
<1> QED BY <1>1, <1>3, <1>4, Moves

LEMMA DoneAlike ==
    ASSUME NEW cs \in Seq(Constructs), cs # << >>
    PROVE  /\ StmtDone(cs) \in Seq(Constructs)
           /\ Alike(StmtDone(cs), cs)
           /\ StmtDone(cs)[1].target = cs[1].target
<1> DEFINE n  == Len(cs)
           c  == [cs[n] EXCEPT !.done = TRUE]
           ds == StmtDone(cs)
<1>1. n \in Nat \ {0} /\ n \in 1..n /\ 1 \in 1..n /\ cs[n] \in Constructs
  BY EmptySeq, LenProperties, ElementOfSeq
<1>2. /\ c \in Constructs /\ c.kind = cs[n].kind
      /\ c.target = cs[n].target /\ c.next = cs[n].next
  BY <1>1 DEF Constructs
<1>3. [cs EXCEPT ![n].done = TRUE] = [cs EXCEPT ![n] = c]
  OBVIOUS
<1> HIDE DEF c
<1>4. /\ [cs EXCEPT ![n] = c] \in Seq(Constructs)
      /\ Len([cs EXCEPT ![n] = c]) = n
      /\ \A i \in 1..n : [cs EXCEPT ![n] = c][i] = IF i = n THEN c ELSE cs[i]
  BY <1>1, <1>2, ExceptSeq
<1>5. ds = cs \/ ds = [cs EXCEPT ![n] = c]
  BY <1>3 DEF StmtDone
<1>6. ds \in Seq(Constructs) /\ Alike(ds, cs)
  BY <1>2, <1>4, <1>5 DEF Alike
<1> QED BY <1>1, <1>6 DEF Alike

\* A statement that is done, for which nothing was generated.
LEMMA DoneStep ==
    ASSUME Sound, Flowing, constructs # << >>, UNCHANGED <<blocks, cur, insert>>,
           UNCHANGED <<live, saved>>, blame \subseteq blame',
           constructs' \in {constructs, StmtDone(constructs)}
    PROVE  Flowing'
<1>1. /\ constructs \in Seq(Constructs)
      /\ InWork(constructs, blocks[cur], insert)
  BY InFlow
<1>2. /\ constructs' \in Seq(Constructs)
      /\ Alike(constructs', constructs)
      /\ constructs'[1].target = constructs[1].target
  BY <1>1, DoneAlike DEF Alike
<1>3. InWork(constructs', blocks[cur], insert)
  BY <1>1, <1>2, WorkAlike
<1>4. \A reach : Kept(constructs, saved, reach) => Kept(constructs', saved, reach)
  BY <1>2, KeptAlike
<1> QED BY <1>2, <1>3, <1>4, Marks

\* A block begins or ends.
LEMMA CompSteps ==
    ASSUME Sound, Flowing, UNCHANGED flowVars,
           \/ \E decls \in SUBSET Names, protos \in SUBSET Fns :
                  BeginCompStmt(decls, protos)
           \/ EndCompStmt
    PROVE  Flowing'
<1>0. UNCHANGED <<live, saved>> /\ blame \subseteq blame'
  BY DEF flowVars
<1>1. ASSUME NEW decls \in SUBSET Names, NEW protos \in SUBSET Fns,
             BeginCompStmt(decls, protos)
      PROVE  Flowing'
  <2> DEFINE c == Construct("comp", decls, 0, 0)
  <2>1. /\ constructs # << >> /\ constructs' = Append(constructs, c)
        /\ UNCHANGED <<blocks, cur, insert>>
    BY <1>1 DEF BeginCompStmt, AtStmt, InnerIs, bodyVars
  <2>2. c \in Constructs /\ ~Branches(c) /\ c.kind # "then"
    BY DEF Construct, Constructs, ConstructKinds, Branches
  <2>3. Pending(c) = {}
    BY <2>2, PendingIs
  <2> HIDE DEF c
  <2>4. /\ constructs \in Seq(Constructs)
        /\ Len(constructs) \in Nat \ {0}
        /\ blocks[cur] \in Seq(Blocks) /\ Len(blocks[cur]) \in Nat
        /\ Shape(constructs, Len(blocks[cur]))
        /\ InWork(constructs, blocks[cur], insert)
    BY <2>1, InFlow
  <2>5. blocks[cur][insert].placed
    BY <2>4 DEF InWork
  <2>6. /\ \A b \in 1..Len(blocks[cur]) :
               /\ b \notin Pending(c)
               /\ blocks[cur][b].placed = blocks[cur][b].placed
        /\ \A b \in 1..Len(blocks[cur]) : b > Len(blocks[cur]) =>
               (blocks[cur][b].placed <=> b \notin Pending(c))
        /\ c.kind = "then" => c.target # c.next
        /\ Len(blocks[cur]) >= Len(blocks[cur])
    BY <2>2, <2>3, <2>4
  <2>7. InWork(Append(constructs, c), blocks[cur], insert)
    BY <2>2, <2>4, <2>5, <2>6, WorkPush
  <2>8. constructs'[1] = constructs[1]
    BY <2>1, <2>2, <2>4
  <2>9. \A reach : Kept(constructs, saved, reach) => Kept(constructs', saved, reach)
    BY <2>1, <2>2, <2>4, KeptPush
  <2> QED BY <1>0, <2>1, <2>7, <2>8, <2>9, Marks
<1>2. CASE EndCompStmt
  <2> DEFINE front == Closed(constructs)
             k == Len(constructs)
  <2>1. /\ constructs # << >> /\ constructs[k].kind = "comp"
        /\ constructs' = StmtDone(front)
        /\ UNCHANGED <<blocks, cur, insert>>
    BY <1>2 DEF EndCompStmt, InnerIs, Inner, bodyVars
  <2>2. /\ constructs \in Seq(Constructs)
        /\ k \in Nat \ {0}
        /\ blocks[cur] \in Seq(Blocks)
        /\ Shape(constructs, Len(blocks[cur]))
        /\ InWork(constructs, blocks[cur], insert)
    BY <2>1, InFlow
  <2>3. constructs[k].kind # "func" /\ ~Branches(constructs[k])
    BY <2>1 DEF Branches
  <2>4. Pending(constructs[k]) = {}
    BY <2>3, PendingIs
  <2>5. front \in Seq(Constructs) /\ front # << >>
    BY <2>1, <2>2, <2>3, ShapeClosed DEF Shape
  <2>6. front[1] = constructs[1]
    <3>1. k # 1
      BY <2>2, <2>3 DEF Shape
    <3> HIDE DEF k
    <3>2. k - 1 \in Nat /\ 1 \in 1..(k - 1)
      BY <2>2, <3>1
    <3> QED BY <2>2, <3>2, FrontOf DEF Closed, k
  <2>7. blocks[cur][insert].placed
    BY <2>2 DEF InWork
  <2>8. \A b \in 1..Len(blocks[cur]) :
            blocks[cur][b].placed <=>
                blocks[cur][b].placed \/ b \in Pending(constructs[k])
    BY <2>4
  <2>9. InWork(front, blocks[cur], insert)
    BY <2>2, <2>3, <2>7, <2>8, WorkPop
  <2> HIDE DEF front, k
  <2>10. /\ StmtDone(front) \in Seq(Constructs)
         /\ Alike(StmtDone(front), front)
         /\ StmtDone(front)[1].target = front[1].target
    BY <2>5, DoneAlike
  <2>11. InWork(constructs', blocks[cur], insert)
    BY <2>1, <2>5, <2>9, <2>10, WorkAlike
  <2>12. \A reach : Kept(constructs, saved, reach) => Kept(constructs', saved, reach)
    BY <2>1, <2>2, <2>3, <2>10, KeptPop, KeptAlike DEF front, k
  <2> QED BY <1>0, <2>1, <2>6, <2>10, <2>11, <2>12, Marks
<1> QED BY <1>1, <1>2

LEMMA ReachSame ==
    ASSUME NEW bs \in Seq(Blocks), Tidy(bs), NEW ns \in Seq(Blocks), Tidy(ns),
           Len(ns) = Len(bs), \A i \in 1..Len(bs) : ns[i].succ = bs[i].succ,
           NEW b \in 1..Len(bs)
    PROVE  ReachableFrom(ns, b) = ReachableFrom(bs, b)
<1>1. PICK T \in SUBSET (1..Len(ns)) : T = {}
  OBVIOUS
<1>2. Len(bs) \in Nat /\ Len(ns) >= Len(bs)
  BY LenProperties
<1>3. /\ \A i \in 1..Len(ns) : i > Len(bs) => ns[i].succ = {}
      /\ \A i \in 1..Len(bs) : i # b => ns[i].succ = bs[i].succ
      /\ ns[b].succ = bs[b].succ \cup T
      /\ \A t \in T : t \notin ReachableFrom(bs, b) => ns[t].succ = {}
  BY <1>1, <1>2
<1>4. ReachableFrom(ns, b) =
          ReachableFrom(bs, b) \cup (IF b \in ReachableFrom(bs, b) THEN T ELSE {})
  BY <1>2, <1>3, BranchesAdded DEF Extended
<1> QED BY <1>1, <1>4

\* What DoneStep says of the constructs, for a statement that generates code.
LEMMA DoneKeeps ==
    ASSUME Sound, Flowing, constructs # << >>,
           constructs' \in {constructs, StmtDone(constructs)}
    PROVE  /\ constructs'[1].target = constructs[1].target
           /\ \A ns : InWork(constructs, ns, insert) => InWork(constructs', ns, insert)
           /\ \A sv, reach : Kept(constructs, sv, reach) => Kept(constructs', sv, reach)
<1>1. constructs \in Seq(Constructs)
  BY InFlow
<1>2. /\ constructs' \in Seq(Constructs)
      /\ Alike(constructs', constructs)
      /\ constructs'[1].target = constructs[1].target
  BY <1>1, DoneAlike DEF Alike
<1>3. \A ns : InWork(constructs, ns, insert) => InWork(constructs', ns, insert)
  BY <1>1, <1>2, WorkAlike
<1>4. \A sv, reach : Kept(constructs, sv, reach) => Kept(constructs', sv, reach)
  BY <1>2, KeptAlike
<1> QED BY <1>2, <1>3, <1>4

\* A statement that adds an instruction which is no terminator.
LEMMA InstStep ==
    ASSUME Sound, Flowing, constructs # << >>,
           blocks' = [blocks EXCEPT ![cur] = WithInst(@, insert)],
           UNCHANGED <<cur, insert, live, saved>>, Reached,
           constructs' \in {constructs, StmtDone(constructs)}
    PROVE  Flowing'
<1> DEFINE bs == blocks[cur]
           b  == constructs[1].target
<1>1. PICK ns : ns = WithInst(bs, insert)
  OBVIOUS
<1>2. /\ bs \in Seq(Blocks) /\ insert \in 1..Len(bs) /\ b \in 1..Len(bs)
      /\ Tidy(bs) /\ InWork(constructs, bs, insert)
      /\ blame = {} => /\ Orderly(bs, insert, live)
                       /\ Follows(constructs, bs, insert, live, saved)
  BY InFlow
<1>3. blame' = {} => blame = {} /\ live
  BY DEF Reached, Blame
<1>4. /\ Rewritten(ns, bs, insert)
      /\ ns[insert].succ = bs[insert].succ
      /\ ~bs[insert].closed => ns[insert] = bs[insert]
  BY <1>1, <1>2, InstEffect
<1>5. bs[insert].succ \subseteq 1..Len(bs)
  BY <1>2 DEF Tidy
<1>6. Tidy(ns) /\ InWork(constructs, ns, insert)
  BY <1>2, <1>4, <1>5, WorkRewritten
<1>7. InWork(constructs', ns, insert) /\ constructs'[1].target = b
  BY <1>6, DoneKeeps
<1>8. /\ ns \in Seq(Blocks) /\ Len(ns) = Len(bs)
      /\ \A i \in 1..Len(bs) : ns[i].succ = bs[i].succ
  BY <1>4 DEF Rewritten
<1>9. ReachableFrom(ns, b) = ReachableFrom(bs, b)
  BY <1>2, <1>6, <1>8, ReachSame
<1>10. ASSUME blame' = {}
       PROVE  /\ Orderly(ns, insert, live)
              /\ Follows(constructs', ns, insert, live, saved)
  <2>1. /\ Orderly(bs, insert, live) /\ live
        /\ Follows(constructs, bs, insert, live, saved)
    BY <1>2, <1>3, <1>10
  <2>2. ~bs[insert].closed
    BY <2>1 DEF Orderly
  <2>3. ns[insert] = bs[insert] /\ \A j \in 1..Len(bs) : ns[j] = bs[j]
    BY <1>4, <2>2 DEF Rewritten
  <2>4. Orderly(ns, insert, live)
    BY <1>8, <2>1, <2>3 DEF Orderly
  <2>5. Kept(constructs', saved, ReachableFrom(bs, b))
    BY <2>1, DoneKeeps DEF Follows
  <2>6. Follows(constructs', ns, insert, live, saved)
    BY <1>7, <1>9, <2>1, <2>3, <2>5 DEF Follows
  <2> QED BY <2>4, <2>6
<1>11. /\ blocks' = [blocks EXCEPT ![cur] = ns] /\ cur' = cur
       /\ InWork(constructs', ns, insert')
       /\ blame' = {} => /\ Orderly(ns, insert', live')
                         /\ Follows(constructs', ns, insert', live', saved')
  BY <1>1, <1>7, <1>10
<1> QED BY <1>6, <1>11, Moves

LEMMA StraightStep ==
    ASSUME Sound, Flowing, Straight, Reached, UNCHANGED <<live, saved>>
    PROVE  Flowing'
<1>0. blame \subseteq blame'
  BY DEF Reached, Blame
<1>1. CASE ExprStmt
  BY <1>1, InstStep DEF ExprStmt, AtStmt
<1>2. ASSUME NEW n \in Names, InitDecltr(n) PROVE Flowing'
  <2>1. CASE FindNamedValue(n) = 0
    BY <1>0, <1>2, <2>1, DoneStep DEF InitDecltr, AtStmt, Abort, bodyVars, nameVars
  <2>2. CASE FindNamedValue(n) # 0
    BY <1>2, <2>2, InstStep DEF InitDecltr, AtStmt, nameVars
  <2> QED BY <2>1, <2>2
<1>3. ASSUME NEW f \in Fns, NEW matches \in BOOLEAN, CallStmt(f, matches)
      PROVE  Flowing'
  <2>1. CASE theModule[f] = "absent"
    BY <1>0, <1>3, <2>1, DoneStep DEF CallStmt, AtStmt, Abort, bodyVars, nameVars
  <2>2. CASE theModule[f] # "absent" /\ matches
    BY <1>3, <2>2, InstStep DEF CallStmt, AtStmt
  <2>3. CASE theModule[f] # "absent" /\ ~matches
    BY <1>0, <1>3, <2>3, DoneStep DEF CallStmt, AtStmt
  <2> QED BY <2>1, <2>2, <2>3
<1> QED BY <1>1, <1>2, <1>3 DEF Straight

LEMMA ReturnStep ==
    ASSUME Sound, Flowing, NEW fits \in BOOLEAN, Return(fits)
    PROVE  Flowing'
<1> DEFINE bs == blocks[cur]
           b  == constructs[1].target
<1>0. /\ constructs # << >>
      /\ blocks' = [blocks EXCEPT ![cur] = WithReturn(@, insert, fits)]
      /\ UNCHANGED <<cur, insert, saved>> /\ live' = FALSE
      /\ constructs' = StmtDone(constructs)
      /\ blame' = {} => blame = {} /\ live /\ fits
  BY DEF Return, ReturnStmt, AtStmt
<1>1. PICK ns : ns = WithReturn(bs, insert, fits)
  OBVIOUS
<1>2. /\ bs \in Seq(Blocks) /\ insert \in 1..Len(bs) /\ b \in 1..Len(bs)
      /\ Tidy(bs) /\ InWork(constructs, bs, insert)
      /\ blame = {} => /\ Orderly(bs, insert, live)
                       /\ Follows(constructs, bs, insert, live, saved)
  BY <1>0, InFlow
<1>4. /\ Rewritten(ns, bs, insert)
      /\ ns[insert].succ = bs[insert].succ
      /\ ns[insert].terms = bs[insert].terms + 1
      /\ ns[insert].closed
      /\ fits => ns[insert].mistyped = bs[insert].mistyped
  BY <1>1, <1>2, ReturnEffect
<1>5. bs[insert].succ \subseteq 1..Len(bs)
  BY <1>2 DEF Tidy
<1>6. Tidy(ns) /\ InWork(constructs, ns, insert)
  BY <1>2, <1>4, <1>5, WorkRewritten
<1>7. InWork(constructs', ns, insert) /\ constructs'[1].target = b
  BY <1>0, <1>6, DoneKeeps
<1>8. /\ ns \in Seq(Blocks) /\ Len(ns) = Len(bs)
      /\ \A i \in 1..Len(bs) : ns[i].succ = bs[i].succ
  BY <1>4 DEF Rewritten
<1>9. ReachableFrom(ns, b) = ReachableFrom(bs, b)
  BY <1>2, <1>6, <1>8, ReachSame
<1>10. ASSUME blame' = {}
       PROVE  /\ Orderly(ns, insert, FALSE)
              /\ Follows(constructs', ns, insert, FALSE, saved)
  <2>1. /\ Orderly(bs, insert, live) /\ live /\ fits
        /\ Follows(constructs, bs, insert, live, saved)
    BY <1>0, <1>2, <1>10
  <2>2. Fresh(bs[insert])
    BY <2>1 DEF Orderly
  <2>3. Sealed(ns[insert])
    BY <1>4, <2>1, <2>2 DEF Fresh, Sealed
  <2>4. \A j \in 1..Len(bs) : j # insert => ns[j] = bs[j]
    BY <1>4 DEF Rewritten
  <2>5. Orderly(ns, insert, FALSE)
    BY <1>4, <1>8, <2>1, <2>3, <2>4 DEF Orderly
  <2>6. Kept(constructs', saved, ReachableFrom(bs, b))
    BY <1>0, <2>1, DoneKeeps DEF Follows
  <2>7. saved \in Seq(BOOLEAN)
    BY <2>1 DEF Follows
  <2>8. Follows(constructs', ns, insert, FALSE, saved)
    BY <1>4, <1>7, <1>9, <2>6, <2>7 DEF Follows
  <2> QED BY <2>5, <2>8
<1>11. /\ blocks' = [blocks EXCEPT ![cur] = ns] /\ cur' = cur
       /\ InWork(constructs', ns, insert')
       /\ blame' = {} => /\ Orderly(ns, insert', live')
                         /\ Follows(constructs', ns, insert', live', saved')
  BY <1>0, <1>1, <1>7, <1>10
<1> QED BY <1>0, <1>6, <1>11, Moves

\* A function begins.
LEMMA BeginStep ==
    ASSUME Sound, Flowing, NEW f \in Fns, NEW ps \in SUBSET Names, Begin(f, ps)
    PROVE  Flowing'
<1>0. BeginFuncDef(f, ps) /\ live' = TRUE /\ saved' = << >> /\ blame' = {}
  BY DEF Begin
<1>1. CASE theModule[f] = "absent"
  <2>1. UNCHANGED <<blocks, cur, insert, constructs>> /\ cur = NoFn
    BY <1>0, <1>1 DEF BeginFuncDef, Abort, bodyVars, nameVars
  <2> QED BY <2>1 DEF Flowing, Layout, NoStrayCode, FlowFollows
<1>2. CASE theModule[f] # "absent"
  <2> DEFINE bs == blocks[f]
             n  == Len(bs)
             c  == Construct("func", ps, n + 1, 0)
             x  == NewBlock(TRUE)
             ns == Append(bs, x)
  <2>1. /\ cur = NoFn /\ cur' = f
        /\ blocks' = [blocks EXCEPT ![f] = ns]
        /\ insert' = n + 1
        /\ constructs' = <<c>>
    BY <1>0, <1>2 DEF BeginFuncDef
  <2>2. /\ bs \in Seq(Blocks) /\ n \in Nat /\ Tidy(bs)
        /\ \A b \in 1..n : bs[b].placed /\ Sealed(bs[b])
    BY <2>1, NoFnIsNone, LenProperties
       DEF Sound, BodyOK, Flowing, Layout
  <2>3. x \in Blocks /\ Fresh(x) /\ x.placed /\ x.succ = {} /\ ~x.closed
    BY NewBlockType, NewBlockEffect DEF Fresh
  <2> HIDE DEF x
  <2>4. /\ ns \in Seq(Blocks) /\ Len(ns) = n + 1 /\ ns[n + 1] = x
        /\ \A j \in 1..n : ns[j] = bs[j]
    BY <2>2, <2>3, AppendProperties
  <2>5. c.kind = "func" /\ c.target = n + 1
    BY DEF Construct
  <2>6. Pending(c) = {}
    BY <2>5 DEF Pending, Branches
  <2>7. /\ <<c>> # << >> /\ Len(<<c>>) = 1 /\ <<c>>[1] = c
    OBVIOUS
  <2> HIDE DEF c, ns, bs, n
  <2>8. \A j \in 1..(n + 1) : j = n + 1 \/ j \in 1..n
    BY <2>2
  <2>9. n + 1 \in 1..(n + 1) /\ 1..n \subseteq 1..(n + 1)
    BY <2>2
  <2>10. \A j \in 1..(n + 1) : ns[j].placed
    BY <2>2, <2>3, <2>4, <2>8
  <2>11. Tidy(ns)
    <3>1. \A j \in 1..n : ns[j].succ \subseteq 1..n
      BY <2>2, <2>4 DEF Tidy, n
    <3> QED BY <2>3, <2>4, <2>8, <2>9, <2>10, <3>1 DEF Tidy
  <2>12. InWork(<<c>>, ns, n + 1)
    <3>1. \A i \in 1..1 : i = 1
      OBVIOUS
    <3> QED BY <2>4, <2>5, <2>6, <2>7, <2>9, <2>10, <3>1 DEF InWork
  <2>13. /\ blocks'[f] = ns /\ \A h \in Fns \ {f} : blocks'[h] = blocks[h]
         /\ f # NoFn
    BY <2>1, NoFnIsNone DEF Sound, BodyOK
  <2>14. Layout'
    <3>1. \A h \in Fns \ {f} : h \in Fns \ {cur}
      BY <2>1, NoFnIsNone
    <3>2. /\ \A h \in Fns : Tidy(blocks[h])
          /\ \A h \in Fns \ {f} : \A b \in 1..Len(blocks[h]) :
                 blocks[h][b].placed /\ Sealed(blocks[h][b])
      BY <3>1 DEF Flowing, Layout
    <3>3. \A h \in Fns : Tidy(blocks'[h])
      BY <2>11, <2>13, <3>2
    <3>4. \A h \in Fns \ {f} : \A b \in 1..Len(blocks'[h]) :
              blocks'[h][b].placed /\ Sealed(blocks'[h][b])
      BY <2>13, <3>2
    <3>5. InWork(constructs', blocks'[f], insert')
      BY <2>1, <2>12, <2>13
    <3> QED BY <2>1, <3>3, <3>4, <3>5 DEF Layout
  <2>15. Orderly(ns, n + 1, TRUE)
    BY <2>2, <2>3, <2>4, <2>8 DEF Orderly
  <2>16. ReachableFrom(ns, n + 1) = {n + 1}
    <3>1. IsReach(ReachableFrom(ns, n + 1), ns, n + 1)
      BY <2>4, <2>9, <2>11, ReachIs
    <3>2. IsReach({n + 1}, ns, n + 1)
      BY <2>3, <2>4, <2>9 DEF IsReach, ClosedUnder
    <3> QED BY <3>1, <3>2, ReachUnique
  <2>17. Follows(<<c>>, ns, n + 1, TRUE, << >>)
    <3>1. PICK sv \in Seq(BOOLEAN) : sv = << >> /\ Len(sv) = 0
      BY EmptySeq
    <3>2. PICK cs : cs = <<c>>
      OBVIOUS
    <3> DEFINE owner == [i \in 1..0 |-> 1]
    <3>3. owner \in [1..0 -> 1..1]
      OBVIOUS
    <3> HIDE DEF owner
    <3>4. Len(cs) = 1 /\ cs[1] = c /\ \A i \in 1..1 : ~Branches(cs[i])
      BY <2>5, <2>7, <3>2 DEF Branches
    <3>5. Records(owner, cs, sv)
      BY <3>1, <3>3, <3>4 DEF Records
    <3>6. Kept(cs, sv, {n + 1})
      <4>1. owner \in [1..Len(sv) -> 1..Len(cs)]
        BY <3>1, <3>3, <3>4
      <4>2. \A i \in 1..Len(sv) : Promise(cs[owner[i]], sv[i], {n + 1})
        BY <3>1
      <4> QED BY <3>5, <4>1, <4>2 DEF Kept
    <3>7. cs[1].target = n + 1 /\ ~ns[n + 1].closed
      BY <2>3, <2>4, <2>5, <3>4
    <3>8. Follows(cs, ns, n + 1, TRUE, sv)
      BY <2>16, <3>6, <3>7 DEF Follows
    <3> QED BY <3>1, <3>2, <3>8
  <2>18. NoStrayCode' /\ FlowFollows'
    BY <1>0, <2>1, <2>13, <2>15, <2>17 DEF NoStrayCode, FlowFollows, n
  <2> QED BY <2>14, <2>18 DEF Flowing
<1> QED BY <1>1, <1>2

\* A function ends.
LEMMA EndStep ==
    ASSUME Sound, Flowing, EndFuncDef
    PROVE  Flowing'
<1> DEFINE bs == blocks[cur]
<1>1. /\ constructs # << >> /\ constructs[Len(constructs)].kind = "func"
      /\ cur' = NoFn
      /\ IF WellFormed(ReturnAdded) THEN Keep ELSE Erase
  BY DEF EndFuncDef, InnerIs, Inner
<1>2. /\ cur \in Fns /\ blocks \in [Fns -> Seq(Blocks)]
      /\ bs \in Seq(Blocks) /\ insert \in 1..Len(bs)
      /\ Shape(constructs, Len(bs))
      /\ Len(constructs) \in Nat \ {0}
      /\ Tidy(bs) /\ InWork(constructs, bs, insert)
  BY <1>1, InFlow
<1>3. Len(constructs) = 1
  <2>1. Len(constructs) \in 1..Len(constructs)
    BY <1>2
  <2> QED BY <1>1, <1>2, <2>1 DEF Shape
<1>4. \A b \in 1..Len(bs) : bs[b].placed
  <2>1. \A i \in 1..Len(constructs) : i = Len(constructs)
    BY <1>3
  <2>2. Pending(constructs[Len(constructs)]) = {}
    BY <1>1 DEF Pending, Branches
  <2> QED BY <1>2, <2>1, <2>2 DEF InWork
<1>5. PICK rs : rs = ReturnAdded
  OBVIOUS
<1>6. /\ rs \in Seq(Blocks) /\ Len(rs) = Len(bs) /\ Tidy(rs)
      /\ \A b \in 1..Len(rs) : rs[b].placed
  <2>1. CASE HasTerminator(bs, insert)
    BY <1>2, <1>4, <1>5, <2>1 DEF ReturnAdded
  <2>2. CASE ~HasTerminator(bs, insert)
    <3>1. PICK T \in SUBSET Nat : T = {}
      OBVIOUS
    <3>2. rs = WithTerm(bs, insert, T)
      BY <1>5, <2>2, <3>1 DEF ReturnAdded
    <3>3. Rewritten(rs, bs, insert) /\ rs[insert].succ = bs[insert].succ \cup T
      BY <1>2, <3>2, TermEffect
    <3>4. rs[insert].succ \subseteq 1..Len(bs)
      BY <1>2, <3>1, <3>3 DEF Tidy
    <3>5. Tidy(rs)
      BY <1>2, <3>3, <3>4, WorkRewritten
    <3> QED BY <1>4, <3>3, <3>5 DEF Rewritten
  <2> QED BY <2>1, <2>2
<1>7. CASE WellFormed(rs)
  <2>1. blocks' = [blocks EXCEPT ![cur] = rs]
    BY <1>1, <1>5, <1>7 DEF Keep
  <2>2. \A b \in 1..Len(rs) : Sealed(rs[b])
    BY <1>6, <1>7 DEF WellFormed, Sealed
  <2>3. /\ blocks'[cur] = rs /\ \A f \in Fns \ {cur} : blocks'[f] = blocks[f]
    BY <1>2, <2>1
  <2> QED BY <1>1, <1>6, <2>2, <2>3
          DEF Flowing, Layout, NoStrayCode, FlowFollows
<1>8. CASE ~WellFormed(rs)
  <2>1. blocks' = [blocks EXCEPT ![cur] = << >>]
    BY <1>1, <1>5, <1>8 DEF Erase
  <2>2. /\ blocks'[cur] = << >> /\ \A f \in Fns \ {cur} : blocks'[f] = blocks[f]
    BY <1>2, <2>1
  <2>3. Tidy(<< >>) /\ \A b \in 1..Len(<< >>) : <<>>[b].placed /\ Sealed(<<>>[b])
    BY EmptySeq DEF Tidy
  <2> QED BY <1>1, <2>2, <2>3 DEF Flowing, Layout, NoStrayCode, FlowFollows
<1> QED BY <1>7, <1>8

\* An if or a while that begins in code the source can reach: what is at the
\* data level the same for both.
LEMMA BranchPushed ==
    ASSUME Sound, Flowing, constructs # << >>,
           NEW ns \in Seq(Blocks), Tidy(ns), Len(ns) = Len(blocks[cur]) + 3,
           NEW c \in Constructs, c.kind \in {"then", "while"},
           c.kind = "then" => c.target # c.next,
           \A j \in 1..Len(blocks[cur]) :
               /\ ns[j].placed = blocks[cur][j].placed
               /\ j # insert => ns[j] = blocks[cur][j],
           \A j \in 1..3 : ns[Len(blocks[cur]) + j].placed
                               <=> Len(blocks[cur]) + j \notin Pending(c),
           Pending(c) \subseteq {Len(blocks[cur]) + j : j \in 1..3},
           NEW to \in (Len(blocks[cur]) + 1)..Len(ns), ns[to].placed,
           blocks' = [blocks EXCEPT ![cur] = ns], cur' = cur, insert' = to,
           constructs' = Append(constructs, c),
           Reached, PushFlow, live' = live,
           Fresh(blocks[cur][insert]) =>
               /\ Sealed(ns[insert])
               /\ Fresh(ns[to])
               /\ \A j \in (Len(blocks[cur]) + 1)..Len(ns) :
                      j # to /\ ns[j].placed => Sealed(ns[j]),
           NEW T, T \subseteq (Len(blocks[cur]) + 1)..Len(ns), to \in T,
           insert \in ReachableFrom(blocks[cur], constructs[1].target) =>
               ReachableFrom(ns, constructs[1].target) =
                   ReachableFrom(blocks[cur], constructs[1].target) \cup T,
           c.target \in T, c.kind = "while" <=> c.next \in T
    PROVE  Flowing'
<1> DEFINE bs == blocks[cur]
           b  == constructs[1].target
           R  == ReachableFrom(bs, b)
           Q  == ReachableFrom(ns, b)
           n  == Len(bs)
           k  == Len(constructs)
<1>1. /\ bs \in Seq(Blocks) /\ insert \in 1..n /\ b \in 1..n /\ n \in Nat
      /\ Tidy(bs) /\ InWork(constructs, bs, insert)
      /\ constructs \in Seq(Constructs) /\ k \in Nat \ {0}
      /\ Shape(constructs, n)
      /\ blame = {} => /\ Orderly(bs, insert, live)
                       /\ Follows(constructs, bs, insert, live, saved)
  BY InFlow
<1>2. blame' = {} => blame = {} /\ live
  BY DEF Reached, Blame
<1> HIDE DEF n
<1>3. /\ \A j \in 1..n : j \notin Pending(c)
      /\ \A j \in 1..(n + 3) : j > n => \E i \in 1..3 : j = n + i
  <2>1. \A j \in 1..n, i \in 1..3 : j # n + i
    BY <1>1
  <2>2. \A j \in 1..(n + 3) : j > n => j - n \in 1..3 /\ j = n + (j - n)
    BY <1>1
  <2> QED BY <2>1, <2>2 DEF n
<1>4. InWork(Append(constructs, c), ns, to)
  <2>1. Len(ns) = n + 3 /\ Len(ns) \in Nat /\ Len(ns) >= n
    BY <1>1 DEF n
  <2>2. \A j \in 1..Len(ns) : j > n => (ns[j].placed <=> j \notin Pending(c))
    BY <1>3, <2>1 DEF n
  <2>3. \A j \in 1..n : j \notin Pending(c) /\ ns[j].placed = bs[j].placed
    BY <1>3 DEF n
  <2> QED BY <1>1, <2>1, <2>2, <2>3, WorkPush DEF n
<1>5. constructs'[1].target = b
  <2>1. 1 \in 1..k
    BY <1>1
  <2> QED BY <1>1, <2>1
<1>6. IsReach(R, bs, b)
  BY <1>1, ReachIs DEF n
<1> HIDE DEF R, Q
<1>7. R \subseteq 1..n
  BY <1>6 DEF IsReach, n
<1>8. ASSUME blame' = {}
      PROVE  /\ Orderly(ns, to, live)
             /\ Follows(constructs', ns, to, live, saved')
  <2>1. /\ Orderly(bs, insert, live) /\ live
        /\ Follows(constructs, bs, insert, live, saved)
    BY <1>1, <1>2, <1>8
  <2>2. Fresh(bs[insert])
    BY <2>1 DEF Orderly
  <2>3. /\ Sealed(ns[insert]) /\ Fresh(ns[to])
        /\ \A j \in (n + 1)..Len(ns) : j # to /\ ns[j].placed => Sealed(ns[j])
    BY <2>2 DEF n
  <2>4. Orderly(ns, to, live)
    <3>0. Len(ns) = n + 3
      BY DEF n
    <3>1. \A j \in 1..Len(ns) : j \in 1..n \/ j \in (n + 1)..Len(ns)
      BY <1>1, <3>0
    <3>2. \A j \in 1..n : j # insert /\ bs[j].placed => Sealed(bs[j])
      BY <2>1 DEF Orderly, n
    <3>3. \A j \in 1..n : ns[j].placed => Sealed(ns[j])
      BY <2>3, <3>2 DEF n
    <3> QED BY <2>3, <3>1, <3>3 DEF Orderly, Fresh
  <2>5. /\ insert \in R /\ live = TRUE /\ live \in BOOLEAN
        /\ saved \in Seq(BOOLEAN) /\ Kept(constructs, saved, R)
    BY <2>1 DEF Follows, R
  <2>6. Q = R \cup T
    BY <2>5 DEF R, Q
  <2>7. \A i \in 1..k : Pending(constructs[i]) \cap (Q \ R) = {}
    <3>1. \A i \in 1..k : Pending(constructs[i]) \subseteq 1..n
      BY <1>1, PendingExists DEF n
    <3>2. \A t \in T : t \notin 1..n
      <4>1. T \subseteq (n + 1)..Len(ns) /\ Len(ns) = n + 3
        BY DEF n
      <4> QED BY <1>1, <4>1
    <3> QED BY <2>6, <3>1, <3>2
  <2>8. Kept(constructs, saved, Q)
    BY <2>5, <2>6, <2>7, KeptReach
  <2>9. Promise(c, live, Q)
    <3>1. c.kind # "while" => c.next \notin Q
      <4>1. c.kind # "while" => c.next \in Pending(c)
        BY DEF Pending
      <4>2. c.next \in Pending(c) => c.next \notin 1..n
        BY <1>3 DEF n
      <4> QED BY <1>7, <2>6, <4>1, <4>2
    <3> QED BY <2>5, <2>6, <3>1 DEF Promise
  <2>10. saved' = Append(saved, live) /\ Branches(c)
    BY DEF PushFlow, Branches
  <2>11. Kept(constructs', saved', Q)
    BY <1>1, <2>5, <2>8, <2>9, <2>10, KeptPushBranch
  <2>12. saved' \in Seq(BOOLEAN)
    BY <2>5, <2>10
  <2>13. to \in Q /\ ~ns[to].closed
    BY <2>3, <2>6 DEF Fresh
  <2>14. Follows(constructs', ns, to, live, saved')
    BY <1>5, <2>5, <2>11, <2>12, <2>13 DEF Follows, Q
  <2> QED BY <2>4, <2>14
<1>9. /\ InWork(constructs', ns, insert')
      /\ blame' = {} => /\ Orderly(ns, insert', live')
                        /\ Follows(constructs', ns, insert', live', saved')
  BY <1>4, <1>8
<1> QED BY <1>9, Moves

\* Block ins of bs ends with a branch and three blocks are added, code goes
\* on in block to, and if ins is reached so are the blocks of T.
Branched(ns, bs, b, ins, to, T) ==
    /\ ns \in Seq(Blocks) /\ Tidy(ns) /\ Len(ns) = Len(bs) + 3
    /\ \A j \in 1..Len(bs) : /\ ns[j].placed = bs[j].placed
                             /\ j # ins => ns[j] = bs[j]
    /\ Fresh(bs[ins]) =>
           /\ Sealed(ns[ins]) /\ Fresh(ns[to])
           /\ \A j \in (Len(bs) + 1)..Len(ns) :
                  j # to /\ ns[j].placed => Sealed(ns[j])
    /\ ins \in ReachableFrom(bs, b) =>
           ReachableFrom(ns, b) = ReachableFrom(bs, b) \cup T

\* The blocks of an if, as BeginIf makes them.
IfLaid(bs, ins, T, ts, p1, p2, ns) ==
    /\ p1 /\ ~p2
    /\ T = {Len(bs) + 1, Len(bs) + 2}
    /\ ts = WithTerm(bs, ins, T)
    /\ ns = ts \o <<NewBlock(p1), NewBlock(p2), NewBlock(p2)>>

LEMMA IfBlocks ==
    ASSUME NEW bs \in Seq(Blocks), Tidy(bs),
           NEW ins \in 1..Len(bs), bs[ins].placed, NEW b \in 1..Len(bs),
           NEW T, NEW ts, NEW ns,
           NEW p1 \in BOOLEAN, NEW p2 \in BOOLEAN,
           IfLaid(bs, ins, T, ts, p1, p2, ns)
    PROVE  /\ Branched(ns, bs, b, ins, Len(bs) + 1, T)
           /\ ns[Len(bs) + 1].placed /\ ~ns[Len(bs) + 2].placed
           /\ ~ns[Len(bs) + 3].placed
<1> DEFINE n == Len(bs)
<1>p. p1 /\ ~p2
  BY DEF IfLaid
<1>0. T = {n + 1, n + 2}
  BY DEF IfLaid
<1>t. ts = WithTerm(bs, ins, T)
  BY DEF IfLaid
<1>n. ns = ts \o <<NewBlock(p1), NewBlock(p2), NewBlock(p2)>>
  BY DEF IfLaid
<1>1. n \in Nat
  BY LenProperties
<1>2. T \in SUBSET Nat
  BY <1>0, <1>1
<1>3. /\ Rewritten(ts, bs, ins)
      /\ ts[ins].succ = bs[ins].succ \cup T
      /\ ts[ins].terms = bs[ins].terms + 1
      /\ ts[ins].closed
      /\ ts[ins].mistyped = bs[ins].mistyped
  BY <1>t, <1>2, TermEffect
<1>4. ts \in Seq(Blocks) /\ Len(ts) = n
  BY <1>3 DEF Rewritten
<1>s. ts \in Seq(Blocks)
  BY <1>4
<1>b. /\ ns \in Seq(Blocks)
      /\ Len(ns) = Len(ts) + 3
      /\ \A j \in 1..Len(ts) : ns[j] = ts[j]
      /\ ns[Len(ts) + 1] = NewBlock(p1)
      /\ ns[Len(ts) + 2] = NewBlock(p2)
      /\ ns[Len(ts) + 3] = NewBlock(p2)
  <2>1. PICK c1 \in Blocks, c2 \in Blocks :
            c1 = NewBlock(p1) /\ c2 = NewBlock(p2)
    BY NewBlockType
  <2>2. ns = ts \o <<c1, c2, c2>>
    BY <1>n, <2>1
  <2>3. Longer(ns, ts, c1, c2, c2)
    BY <1>s, <2>2, BlocksEffect
  <2> QED BY <2>1, <2>3 DEF Longer
<1>5. /\ ns \in Seq(Blocks) /\ Len(ns) = n + 3
      /\ \A j \in 1..n : ns[j] = ts[j]
      /\ ns[n + 1] = NewBlock(p1) /\ ns[n + 2] = NewBlock(p2)
      /\ ns[n + 3] = NewBlock(p2)
  BY <1>4, <1>b
<1>6. /\ \A j \in 1..n : ns[j].placed = bs[j].placed
      /\ \A j \in 1..n : j # ins => ns[j] = bs[j]
      /\ ns[ins] = ts[ins]
  BY <1>3, <1>5 DEF Rewritten
<1>7. /\ Fresh(ns[n + 1]) /\ ns[n + 1].placed
      /\ Fresh(ns[n + 2]) /\ ~ns[n + 2].placed
      /\ Fresh(ns[n + 3]) /\ ~ns[n + 3].placed
  BY <1>p, <1>5, NewBlockEffect
<1>8. \A j \in 1..(n + 3) : j \in 1..n \/ j = n + 1 \/ j = n + 2 \/ j = n + 3
  BY <1>1
<1>9. 1..n \subseteq 1..(n + 3) /\ T \subseteq 1..(n + 3)
  BY <1>0, <1>1
<1>10. Tidy(ns)
  <2>1. \A j \in 1..n : /\ bs[j].succ \subseteq 1..n
                        /\ ~bs[j].placed => Fresh(bs[j])
    BY DEF Tidy
  <2>2. ns[ins].succ \subseteq 1..(n + 3) /\ ns[ins].placed
    BY <1>3, <1>6, <1>9, <2>1
  <2>3. \A j \in 1..n : /\ ns[j].succ \subseteq 1..(n + 3)
                        /\ ~ns[j].placed => Fresh(ns[j])
    BY <1>6, <1>9, <2>1, <2>2
  <2>4. \A j \in {n + 1, n + 2, n + 3} : ns[j].succ = {} /\ Fresh(ns[j])
    BY <1>7 DEF Fresh
  <2> QED BY <1>5, <1>8, <2>3, <2>4 DEF Tidy
<1>11. ReachableFrom(ns, b) =
           ReachableFrom(bs, b)
               \cup (IF ins \in ReachableFrom(bs, b) THEN T ELSE {})
  <2>1. /\ Len(ns) >= Len(bs) /\ T \in SUBSET (1..Len(ns))
    BY <1>1, <1>5, <1>9
  <2>2. \A i \in 1..Len(bs) : i # ins => ns[i].succ = bs[i].succ
    BY <1>6
  <2>3. ns[ins].succ = bs[ins].succ \cup T
    BY <1>3, <1>6
  <2>4. \A i \in 1..Len(ns) : i > Len(bs) => ns[i].succ = {}
    <3>1. \A i \in 1..n : ~(i > n)
      BY <1>1
    <3> QED BY <1>5, <1>7, <1>8, <3>1 DEF Fresh
  <2>5. \A t \in T : t \notin ReachableFrom(bs, b) => ns[t].succ = {}
    BY <1>0, <1>7 DEF Fresh
  <2>6. Extended(ns, bs, b, ins, T)
    BY <1>5, <1>10, <2>1, <2>2, <2>3, <2>4, <2>5 DEF Extended
  <2> QED BY <2>6, BranchesAdded
<1>12. Fresh(bs[ins]) => Sealed(ns[ins])
  BY <1>3, <1>6 DEF Fresh, Sealed
<1>13. \A j \in (n + 1)..Len(ns) : j = n + 1 \/ j = n + 2 \/ j = n + 3
  BY <1>1, <1>5
<1>14. Fresh(bs[ins]) =>
           /\ Sealed(ns[ins]) /\ Fresh(ns[n + 1])
           /\ \A j \in (n + 1)..Len(ns) :
                  j # n + 1 /\ ns[j].placed => Sealed(ns[j])
  BY <1>7, <1>12, <1>13
<1> QED BY <1>5, <1>6, <1>7, <1>10, <1>11, <1>14 DEF Branched

\* The blocks of a while, as BeginWhile makes them.
WhileLaid(bs, ins, T, U, ts, us, p1, p3, ns) ==
    /\ p1 /\ ~p3
    /\ T = {Len(bs) + 1} /\ U = {Len(bs) + 2, Len(bs) + 3}
    /\ ts = WithTerm(bs, ins, T)
    /\ us = ts \o <<NewBlock(p1), NewBlock(p1), NewBlock(p3)>>
    /\ ns = WithTerm(us, Len(bs) + 1, U)

LEMMA WhileBlocks ==
    ASSUME NEW bs \in Seq(Blocks), Tidy(bs),
           NEW ins \in 1..Len(bs), bs[ins].placed, NEW b \in 1..Len(bs),
           NEW T, NEW U, NEW ts, NEW us, NEW ns,
           NEW p1 \in BOOLEAN, NEW p3 \in BOOLEAN,
           WhileLaid(bs, ins, T, U, ts, us, p1, p3, ns)
    PROVE  /\ Branched(ns, bs, b, ins, Len(bs) + 2, T \cup U)
           /\ ns[Len(bs) + 1].placed /\ ns[Len(bs) + 2].placed
           /\ ~ns[Len(bs) + 3].placed
<1> DEFINE n == Len(bs)
<1>p. p1 /\ ~p3
  BY DEF WhileLaid
<1>0. T = {n + 1} /\ U = {n + 2, n + 3}
  BY DEF WhileLaid
<1>t. ts = WithTerm(bs, ins, T)
  BY DEF WhileLaid
<1>u. us = ts \o <<NewBlock(p1), NewBlock(p1), NewBlock(p3)>>
  BY DEF WhileLaid
<1>n. ns = WithTerm(us, n + 1, U)
  BY DEF WhileLaid
<1>1. n \in Nat
  BY LenProperties
<1>2. T \in SUBSET Nat /\ U \in SUBSET Nat
  BY <1>0, <1>1
<1>3. /\ Rewritten(ts, bs, ins)
      /\ ts[ins].succ = bs[ins].succ \cup T
      /\ ts[ins].terms = bs[ins].terms + 1
      /\ ts[ins].closed
      /\ ts[ins].mistyped = bs[ins].mistyped
  BY <1>t, <1>2, TermEffect
<1>4. ts \in Seq(Blocks) /\ Len(ts) = n
  BY <1>3 DEF Rewritten
<1>s. ts \in Seq(Blocks)
  BY <1>4
<1>b. /\ us \in Seq(Blocks)
      /\ Len(us) = Len(ts) + 3
      /\ \A j \in 1..Len(ts) : us[j] = ts[j]
      /\ us[Len(ts) + 1] = NewBlock(p1)
      /\ us[Len(ts) + 2] = NewBlock(p1)
      /\ us[Len(ts) + 3] = NewBlock(p3)
  <2>1. PICK c1 \in Blocks, c3 \in Blocks :
            c1 = NewBlock(p1) /\ c3 = NewBlock(p3)
    BY NewBlockType
  <2>2. us = ts \o <<c1, c1, c3>>
    BY <1>u, <2>1
  <2>3. Longer(us, ts, c1, c1, c3)
    BY <1>s, <2>2, BlocksEffect
  <2> QED BY <2>1, <2>3 DEF Longer
<1>5. /\ us \in Seq(Blocks) /\ Len(us) = n + 3
      /\ \A j \in 1..n : us[j] = ts[j]
      /\ us[n + 1] = NewBlock(p1) /\ us[n + 2] = NewBlock(p1)
      /\ us[n + 3] = NewBlock(p3)
  BY <1>4, <1>b
<1>6. /\ \A j \in 1..n : us[j].placed = bs[j].placed
      /\ \A j \in 1..n : j # ins => us[j] = bs[j]
      /\ us[ins] = ts[ins]
  BY <1>3, <1>5 DEF Rewritten
<1>7. /\ Fresh(us[n + 1]) /\ us[n + 1].placed
      /\ Fresh(us[n + 2]) /\ us[n + 2].placed
      /\ Fresh(us[n + 3]) /\ ~us[n + 3].placed
  BY <1>p, <1>5, NewBlockEffect
<1>8. \A j \in 1..(n + 3) : j \in 1..n \/ j = n + 1 \/ j = n + 2 \/ j = n + 3
  BY <1>1
<1>9. /\ 1..n \subseteq 1..(n + 3) /\ T \subseteq 1..(n + 3)
      /\ U \subseteq 1..(n + 3) /\ n + 1 \in 1..(n + 3)
  BY <1>0, <1>1
<1>10. /\ Rewritten(ns, us, n + 1)
       /\ ns[n + 1].succ = us[n + 1].succ \cup U
       /\ ns[n + 1].terms = us[n + 1].terms + 1
       /\ ns[n + 1].closed
       /\ ns[n + 1].mistyped = us[n + 1].mistyped
  <2>1. n + 1 \in 1..Len(us)
    BY <1>5, <1>9
  <2>2. PICK k : k = n + 1
    OBVIOUS
  <2>3. k \in 1..Len(us) /\ ns = WithTerm(us, k, U)
    BY <1>n, <2>1, <2>2
  <2>4. /\ Rewritten(ns, us, k)
        /\ ns[k].succ = us[k].succ \cup U
        /\ ns[k].terms = us[k].terms + 1
        /\ ns[k].closed
        /\ ns[k].mistyped = us[k].mistyped
    BY <1>2, <1>5, <2>3, TermEffect
  <2> QED BY <2>2, <2>4
<1>11. /\ ns \in Seq(Blocks) /\ Len(ns) = n + 3
       /\ \A j \in 1..(n + 3) : /\ j # n + 1 => ns[j] = us[j]
                                /\ ns[j].placed = us[j].placed
  BY <1>5, <1>10 DEF Rewritten
<1>12. /\ n + 2 \in 1..(n + 3) /\ n + 3 \in 1..(n + 3)
       /\ n + 2 # n + 1 /\ n + 3 # n + 1
       /\ \A j \in 1..n : j \in 1..(n + 3) /\ j # n + 1
  BY <1>1
<1>13. /\ \A j \in 1..n : ns[j] = us[j]
       /\ ns[n + 2] = us[n + 2] /\ ns[n + 3] = us[n + 3]
       /\ ns[n + 1].placed
  BY <1>7, <1>9, <1>11, <1>12
<1>14. Tidy(us)
  <2>1. \A j \in 1..n : /\ bs[j].succ \subseteq 1..n
                        /\ ~bs[j].placed => Fresh(bs[j])
    BY DEF Tidy
  <2>2. us[ins].succ \subseteq 1..(n + 3) /\ us[ins].placed
    BY <1>3, <1>6, <1>9, <2>1
  <2>3. \A j \in 1..n : /\ us[j].succ \subseteq 1..(n + 3)
                        /\ ~us[j].placed => Fresh(us[j])
    BY <1>6, <1>9, <2>1, <2>2
  <2>4. \A j \in {n + 1, n + 2, n + 3} : us[j].succ = {} /\ Fresh(us[j])
    BY <1>7 DEF Fresh
  <2> QED BY <1>5, <1>8, <2>3, <2>4 DEF Tidy
<1>15. Tidy(ns)
  <2>1. ns[n + 1].succ \subseteq 1..(n + 3)
    BY <1>7, <1>9, <1>10 DEF Fresh
  <2> QED BY <1>5, <1>11, <1>13, <1>14, <2>1 DEF Tidy
<1>16. ReachableFrom(us, b) =
           ReachableFrom(bs, b)
               \cup (IF ins \in ReachableFrom(bs, b) THEN T ELSE {})
  <2>1. /\ Len(us) >= Len(bs) /\ T \in SUBSET (1..Len(us))
    BY <1>1, <1>5, <1>9
  <2>2. \A i \in 1..Len(bs) : i # ins => us[i].succ = bs[i].succ
    BY <1>6
  <2>3. us[ins].succ = bs[ins].succ \cup T
    BY <1>3, <1>6
  <2>4. \A i \in 1..Len(us) : i > Len(bs) => us[i].succ = {}
    <3>1. \A i \in 1..n : ~(i > n)
      BY <1>1
    <3> QED BY <1>5, <1>7, <1>8, <3>1 DEF Fresh
  <2>5. \A t \in T : t \notin ReachableFrom(bs, b) => us[t].succ = {}
    BY <1>0, <1>7 DEF Fresh
  <2>6. Extended(us, bs, b, ins, T)
    BY <1>5, <1>14, <2>1, <2>2, <2>3, <2>4, <2>5 DEF Extended
  <2> QED BY <2>6, BranchesAdded
<1>17. ReachableFrom(ns, b) =
           ReachableFrom(us, b)
               \cup (IF n + 1 \in ReachableFrom(us, b) THEN U ELSE {})
  <2>1. /\ Len(ns) >= Len(us) /\ U \in SUBSET (1..Len(ns)) /\ b \in 1..Len(us)
        /\ n + 1 \in 1..Len(us)
    BY <1>1, <1>5, <1>9, <1>11
  <2>2. \A i \in 1..Len(us) : i # n + 1 => ns[i].succ = us[i].succ
    BY <1>5, <1>11
  <2>4. \A i \in 1..Len(ns) : i > Len(us) => ns[i].succ = {}
    BY <1>1, <1>5, <1>11
  <2>5. \A t \in U : t \notin ReachableFrom(us, b) => ns[t].succ = {}
    BY <1>0, <1>7, <1>13 DEF Fresh
  <2>6. Extended(ns, us, b, n + 1, U)
    BY <1>5, <1>10, <1>11, <1>14, <1>15, <2>1, <2>2, <2>4, <2>5 DEF Extended
  <2> QED BY <2>6, BranchesAdded
<1>18. Fresh(bs[ins]) => Sealed(ns[ins])
  <2>1. ns[ins] = ts[ins]
    BY <1>6, <1>13
  <2> QED BY <1>3, <2>1 DEF Fresh, Sealed
<1>19. Sealed(ns[n + 1])
  BY <1>7, <1>10 DEF Fresh, Sealed
<1>20. \A j \in (n + 1)..Len(ns) : j = n + 1 \/ j = n + 2 \/ j = n + 3
  <2>1. Len(ns) = n + 3
    BY <1>11
  <2> QED BY <1>1, <2>1
<1>21. ins \in ReachableFrom(bs, b) =>
           ReachableFrom(ns, b) = ReachableFrom(bs, b) \cup (T \cup U)
  BY <1>0, <1>16, <1>17
<1>22. /\ \A j \in 1..n : /\ ns[j].placed = bs[j].placed
                          /\ j # ins => ns[j] = bs[j]
       /\ ns[n + 1].placed /\ ns[n + 2].placed /\ ~ns[n + 3].placed
  BY <1>6, <1>7, <1>13
<1>23. Fresh(ns[n + 2])
  BY <1>7, <1>13
<1>24. Fresh(bs[ins]) =>
           /\ Sealed(ns[ins]) /\ Fresh(ns[n + 2])
           /\ \A j \in (n + 1)..Len(ns) :
                  j # n + 2 /\ ns[j].placed => Sealed(ns[j])
  BY <1>18, <1>19, <1>20, <1>22, <1>23
<1> QED BY <1>11, <1>15, <1>21, <1>22, <1>24 DEF Branched

LEMMA IfStep ==
    ASSUME Sound, Flowing, BeginIf, Reached, PushFlow, live' = live
    PROVE  Flowing'
<1> DEFINE bs == blocks[cur]
           b  == constructs[1].target
           n  == Len(bs)
           c == Construct("then", {}, n + 2, n + 3)
<1>1. PICK T : T = {n + 1, n + 2}
  OBVIOUS
<1>2. PICK ts : ts = WithTerm(bs, insert, T)
  OBVIOUS
<1>3. PICK p1 \in BOOLEAN, p2 \in BOOLEAN : p1 = TRUE /\ p2 = FALSE
  OBVIOUS
<1>4. PICK ns : ns = ts \o <<NewBlock(p1), NewBlock(p2), NewBlock(p2)>>
  OBVIOUS
<1>5. /\ constructs # << >>
      /\ blocks' = [blocks EXCEPT ![cur] = ns] /\ cur' = cur
      /\ insert' = n + 1
      /\ constructs' = Append(constructs, c)
  BY <1>1, <1>2, <1>3, <1>4 DEF BeginIf, NewBlockId, AtStmt
<1>6. /\ bs \in Seq(Blocks) /\ insert \in 1..n /\ b \in 1..n /\ n \in Nat
      /\ Tidy(bs) /\ bs[insert].placed
  BY <1>5, InFlow DEF InWork
<1>b. /\ Branched(ns, bs, b, insert, n + 1, T)
      /\ ns[n + 1].placed /\ ~ns[n + 2].placed /\ ~ns[n + 3].placed
  <2>1. IfLaid(bs, insert, T, ts, p1, p2, ns)
    BY <1>1, <1>2, <1>3, <1>4 DEF IfLaid
  <2> QED BY <1>6, <2>1, IfBlocks
<1>7. /\ ns \in Seq(Blocks) /\ Tidy(ns) /\ Len(ns) = n + 3
      /\ \A j \in 1..n : /\ ns[j].placed = bs[j].placed
                         /\ j # insert => ns[j] = bs[j]
      /\ ns[n + 1].placed /\ ~ns[n + 2].placed /\ ~ns[n + 3].placed
      /\ Fresh(bs[insert]) =>
             /\ Sealed(ns[insert]) /\ Fresh(ns[n + 1])
             /\ \A j \in (n + 1)..Len(ns) :
                    j # n + 1 /\ ns[j].placed => Sealed(ns[j])
  BY <1>b DEF Branched
<1>8. /\ c \in Constructs /\ c.kind = "then"
      /\ c.target = n + 2 /\ c.next = n + 3
  <2>1. n + 2 \in Nat /\ n + 3 \in Nat
    BY <1>6
  <2> QED BY <2>1 DEF Construct, Constructs, ConstructKinds
<1> HIDE DEF c
<1>9. Pending(c) = {n + 2, n + 3}
  BY <1>8, PendingIs
<1>10. \A j \in 1..3 : ns[n + j].placed <=> n + j \notin Pending(c)
  <2>1. \A j \in 1..3 : j = 1 \/ j = 2 \/ j = 3
    OBVIOUS
  <2>2. n + 1 # n + 2 /\ n + 1 # n + 3
    BY <1>6
  <2> QED BY <1>7, <1>9, <2>1, <2>2
<1>11. /\ Pending(c) \subseteq {n + j : j \in 1..3}
       /\ n + 1 \in (n + 1)..Len(ns)
       /\ T \subseteq (n + 1)..Len(ns) /\ n + 1 \in T
       /\ c.target \in T /\ c.next \notin T
       /\ c.target # c.next
  BY <1>1, <1>6, <1>7, <1>8, <1>9
<1>12. insert \in ReachableFrom(bs, b) =>
           ReachableFrom(ns, b) = ReachableFrom(bs, b) \cup T
  BY <1>b DEF Branched
<1>13. c.kind \in {"then", "while"} /\ (c.kind = "while" <=> c.next \in T)
  BY <1>8, <1>11
<1> QED
  BY <1>5, <1>7, <1>8, <1>10, <1>11, <1>12, <1>13, BranchPushed

LEMMA WhileStep ==
    ASSUME Sound, Flowing, BeginWhile, Reached, PushFlow, live' = live
    PROVE  Flowing'
<1> DEFINE bs == blocks[cur]
           b  == constructs[1].target
           n  == Len(bs)
           c == Construct("while", {}, n + 1, n + 3)
<1>1. PICK T, U : T = {n + 1} /\ U = {n + 2, n + 3}
  OBVIOUS
<1>2. PICK ts : ts = WithTerm(bs, insert, T)
  OBVIOUS
<1>3. PICK p1 \in BOOLEAN, p3 \in BOOLEAN : p1 = TRUE /\ p3 = FALSE
  OBVIOUS
<1>4. PICK us : us = ts \o <<NewBlock(p1), NewBlock(p1), NewBlock(p3)>>
  OBVIOUS
<1>s. PICK ns : ns = WithTerm(us, n + 1, U)
  OBVIOUS
<1>5. /\ constructs # << >>
      /\ blocks' = [blocks EXCEPT ![cur] = ns] /\ cur' = cur
      /\ insert' = n + 2
      /\ constructs' = Append(constructs, c)
  BY <1>1, <1>2, <1>3, <1>4, <1>s DEF BeginWhile, NewBlockId, AtStmt
<1>6. /\ bs \in Seq(Blocks) /\ insert \in 1..n /\ b \in 1..n /\ n \in Nat
      /\ Tidy(bs) /\ bs[insert].placed
  BY <1>5, InFlow DEF InWork
<1>b. /\ Branched(ns, bs, b, insert, n + 2, T \cup U)
      /\ ns[n + 1].placed /\ ns[n + 2].placed /\ ~ns[n + 3].placed
  <2>1. WhileLaid(bs, insert, T, U, ts, us, p1, p3, ns)
    BY <1>1, <1>2, <1>3, <1>4, <1>s DEF WhileLaid
  <2> QED BY <1>6, <2>1, WhileBlocks
<1>7. /\ ns \in Seq(Blocks) /\ Tidy(ns) /\ Len(ns) = n + 3
      /\ \A j \in 1..n : /\ ns[j].placed = bs[j].placed
                         /\ j # insert => ns[j] = bs[j]
      /\ ns[n + 1].placed /\ ns[n + 2].placed /\ ~ns[n + 3].placed
      /\ Fresh(bs[insert]) =>
             /\ Sealed(ns[insert]) /\ Fresh(ns[n + 2])
             /\ \A j \in (n + 1)..Len(ns) :
                    j # n + 2 /\ ns[j].placed => Sealed(ns[j])
  BY <1>b DEF Branched
<1>8. /\ c \in Constructs /\ c.kind = "while"
      /\ c.target = n + 1 /\ c.next = n + 3
  <2>1. n + 1 \in Nat /\ n + 3 \in Nat
    BY <1>6
  <2> QED BY <2>1 DEF Construct, Constructs, ConstructKinds
<1> HIDE DEF c
<1>9. Pending(c) = {n + 3}
  BY <1>8, PendingIs
<1>10. \A j \in 1..3 : ns[n + j].placed <=> n + j \notin Pending(c)
  <2>1. \A j \in 1..3 : j = 1 \/ j = 2 \/ j = 3
    OBVIOUS
  <2>2. n + 1 # n + 3 /\ n + 2 # n + 3
    BY <1>6
  <2> QED BY <1>7, <1>9, <2>1, <2>2
<1>11. PICK V : V = T \cup U
  OBVIOUS
<1>12. /\ Pending(c) \subseteq {n + j : j \in 1..3}
       /\ n + 2 \in (n + 1)..Len(ns)
       /\ V \subseteq (n + 1)..Len(ns) /\ n + 2 \in V
       /\ c.target \in V /\ c.next \in V
  BY <1>1, <1>6, <1>7, <1>8, <1>9, <1>11
<1>13. insert \in ReachableFrom(bs, b) =>
           ReachableFrom(ns, b) = ReachableFrom(bs, b) \cup V
  BY <1>b, <1>11 DEF Branched
<1>14. /\ c.kind \in {"then", "while"} /\ (c.kind = "while" <=> c.next \in V)
       /\ c.kind = "then" => c.target # c.next
  BY <1>8, <1>12
<1> QED
  BY <1>5, <1>7, <1>8, <1>10, <1>12, <1>13, <1>14, BranchPushed

-----------------------------------------------------------------------------
(* The end of an arm of an if, and of a while.                             *)

\* The block ins of bs ends, with a branch to t or with the terminator it
\* has, and block p is placed to go on in it.
Joining(ps, bs, ins, t, p, adds) ==
    /\ bs \in Seq(Blocks) /\ Tidy(bs) /\ ins \in 1..Len(bs) /\ bs[ins].placed
    /\ t \in 1..Len(bs) /\ p \in 1..Len(bs) /\ ~bs[p].placed
    /\ adds \in BOOLEAN
    /\ ps = Placed(IF adds THEN WithTerm(bs, ins, {t}) ELSE bs, p)

Joined(ps, bs, b, ins, t, p, adds) ==
    /\ ps \in Seq(Blocks) /\ Len(ps) = Len(bs) /\ Tidy(ps)
    /\ \A j \in 1..Len(bs) : ps[j].placed <=> bs[j].placed \/ j = p
    /\ Fresh(ps[p])
    /\ (adds <=> ~bs[ins].closed) => \A alive : Orderly(bs, ins, alive) =>
                                         \A any : Orderly(ps, p, any)
    /\ ~bs[t].placed \/ t \in ReachableFrom(bs, b) =>
           ReachableFrom(ps, b) = ReachableFrom(bs, b)
               \cup (IF adds /\ ins \in ReachableFrom(bs, b) THEN {t} ELSE {})

LEMMA JoinEffect ==
    ASSUME NEW bs, NEW ins, NEW t, NEW p, NEW adds, NEW ps,
           Joining(ps, bs, ins, t, p, adds), NEW b \in 1..Len(bs)
    PROVE  Joined(ps, bs, b, ins, t, p, adds)
<1> DEFINE n == Len(bs)
<1>1. /\ bs \in Seq(Blocks) /\ Tidy(bs) /\ ins \in 1..n /\ bs[ins].placed
      /\ t \in 1..n /\ p \in 1..n /\ ~bs[p].placed /\ adds \in BOOLEAN
  BY DEF Joining
<1>2. PICK js : js = IF adds THEN WithTerm(bs, ins, {t}) ELSE bs
  OBVIOUS
<1>3. PICK T \in SUBSET Nat : T = {t}
  <2>1. t \in Nat
    BY <1>1
  <2> QED BY <2>1
<1>4. adds => /\ Rewritten(js, bs, ins)
              /\ js[ins].succ = bs[ins].succ \cup T
              /\ js[ins].terms = bs[ins].terms + 1
              /\ js[ins].closed
              /\ js[ins].mistyped = bs[ins].mistyped
  <2> SUFFICES ASSUME adds PROVE /\ Rewritten(js, bs, ins)
                                 /\ js[ins].succ = bs[ins].succ \cup T
                                 /\ js[ins].terms = bs[ins].terms + 1
                                 /\ js[ins].closed
                                 /\ js[ins].mistyped = bs[ins].mistyped
    OBVIOUS
  <2>1. js = WithTerm(bs, ins, T)
    BY <1>2, <1>3
  <2> QED BY <1>1, <2>1, TermEffect
<1>5. ~adds => js = bs
  BY <1>2
<1>6. /\ js \in Seq(Blocks) /\ Len(js) = n
      /\ \A j \in 1..n : /\ j # ins => js[j] = bs[j]
                         /\ js[j].placed = bs[j].placed
  BY <1>1, <1>4, <1>5 DEF Rewritten
<1>7. \A j \in 1..n : /\ bs[j].succ \subseteq 1..n
                      /\ ~bs[j].placed => Fresh(bs[j])
  BY <1>1 DEF Tidy
<1>8. js[ins].succ = bs[ins].succ \cup (IF adds THEN T ELSE {})
  BY <1>4, <1>5
<1>9. \A j \in 1..n : /\ js[j].succ \subseteq 1..n
                      /\ ~js[j].placed => Fresh(js[j])
  <2>1. js[ins].succ \subseteq 1..n /\ js[ins].placed
    BY <1>1, <1>3, <1>6, <1>7, <1>8
  <2> QED BY <1>6, <1>7, <2>1
<1>10. ps = Placed(js, p)
  BY <1>2 DEF Joining
<1>11. /\ ps \in Seq(Blocks) /\ Len(ps) = Len(js)
       /\ \A j \in 1..Len(js) : j # p => ps[j] = js[j]
       /\ ps[p].placed /\ ps[p].succ = js[p].succ
       /\ Fresh(js[p]) => Fresh(ps[p])
  <2>1. p \in 1..Len(js)
    BY <1>1, <1>6
  <2> QED BY <1>6, <1>10, <2>1, PlacedEffect
<1>12. Len(ps) = n /\ \A j \in 1..n : j # p => ps[j] = js[j]
  BY <1>6, <1>11
<1>13. Fresh(ps[p])
  BY <1>1, <1>6, <1>9, <1>11
<1>14. \A j \in 1..n : ps[j].placed <=> bs[j].placed \/ j = p
  BY <1>6, <1>11, <1>12
<1>15. \A j \in 1..n : ps[j].succ = js[j].succ
  BY <1>11, <1>12
<1>16. Tidy(js)
  BY <1>6, <1>9 DEF Tidy
<1>17. Tidy(ps)
  <2>1. \A j \in 1..n : ~ps[j].placed => Fresh(ps[j])
    BY <1>9, <1>11, <1>12
  <2> QED BY <1>9, <1>12, <1>15, <2>1 DEF Tidy
<1>18. ASSUME adds <=> ~bs[ins].closed, NEW alive, Orderly(bs, ins, alive), NEW any
       PROVE  Orderly(ps, p, any)
  <2>1. /\ \A j \in 1..n : j # ins /\ bs[j].placed => Sealed(bs[j])
        /\ IF bs[ins].closed THEN Sealed(bs[ins]) ELSE Fresh(bs[ins])
    BY <1>18 DEF Orderly
  <2>2. Sealed(js[ins])
    <3>1. CASE adds
      BY <1>4, <1>18, <2>1, <3>1 DEF Fresh, Sealed
    <3>2. CASE ~adds
      BY <1>5, <1>18, <2>1, <3>2
    <3> QED BY <3>1, <3>2
  <2>3. \A j \in 1..n : j # p /\ ps[j].placed => Sealed(ps[j])
    BY <1>6, <1>12, <2>1, <2>2
  <2> QED BY <1>12, <1>13, <2>3 DEF Orderly, Fresh
<1>19. ASSUME ~bs[t].placed \/ t \in ReachableFrom(bs, b)
       PROVE  ReachableFrom(ps, b) = ReachableFrom(bs, b)
                 \cup (IF adds /\ ins \in ReachableFrom(bs, b) THEN {t} ELSE {})
  <2>1. PICK U : U = IF adds THEN {t} ELSE {}
    OBVIOUS
  <2>2. Extended(js, bs, b, ins, U)
    <3>1. U \in SUBSET (1..Len(js))
      BY <1>1, <1>6, <2>1
    <3>2. js[ins].succ = bs[ins].succ \cup U
      BY <1>3, <1>8, <2>1
    <3>3. \A i \in 1..n : i # ins => js[i].succ = bs[i].succ
      BY <1>6
    <3>4. \A i \in 1..Len(js) : i > Len(bs) => js[i].succ = {}
      <4>1. \A i \in 1..n : ~(i > n)
        BY <1>1, LenProperties
      <4> QED BY <1>6, <4>1
    <3>5. \A u \in U : u \notin ReachableFrom(bs, b) => js[u].succ = {}
      <4>1. ~bs[t].placed => t # ins /\ bs[t].succ = {}
        BY <1>1, <1>7 DEF Fresh
      <4> QED BY <1>1, <1>6, <1>19, <2>1, <4>1
    <3>6. Len(js) >= Len(bs)
      BY <1>1, <1>6, LenProperties
    <3> QED BY <1>1, <1>6, <1>16, <3>1, <3>2, <3>3, <3>4, <3>5, <3>6
            DEF Extended
  <2>3. ReachableFrom(js, b) = ReachableFrom(bs, b)
            \cup (IF ins \in ReachableFrom(bs, b) THEN U ELSE {})
    BY <2>2, BranchesAdded
  <2>4. ReachableFrom(ps, b) = ReachableFrom(js, b)
    <3>1. b \in 1..Len(js) /\ Len(ps) = Len(js)
      BY <1>6, <1>11
    <3>2. \A i \in 1..Len(js) : ps[i].succ = js[i].succ
      BY <1>6, <1>15
    <3> QED BY <1>6, <1>11, <1>16, <1>17, <3>1, <3>2, ReachSame
  <2> QED BY <2>1, <2>3, <2>4
<1> QED BY <1>11, <1>12, <1>13, <1>14, <1>17, <1>18, <1>19 DEF Joined

\* What the end of an arm or a body starts from.
LEMMA InArm ==
    ASSUME Sound, Flowing, constructs # << >>, Branches(Inner),
           NEW b, b = constructs[1].target,
           NEW R, R = ReachableFrom(blocks[cur], b)
    PROVE  /\ blocks[cur] \in Seq(Blocks) /\ Tidy(blocks[cur])
           /\ insert \in 1..Len(blocks[cur]) /\ blocks[cur][insert].placed
           /\ b \in 1..Len(blocks[cur])
           /\ InWork(constructs, blocks[cur], insert)
           /\ Shape(constructs, Len(blocks[cur]))
           /\ constructs \in Seq(Constructs) /\ Len(constructs) \in Nat \ {0}
           /\ Inner.target \in 1..Len(blocks[cur])
           /\ Inner.next \in 1..Len(blocks[cur])
           /\ ~blocks[cur][Inner.next].placed
           /\ Inner.kind = "then" =>
                  /\ ~blocks[cur][Inner.target].placed
                  /\ Inner.target # Inner.next
           /\ \A i \in 1..(Len(constructs) - 1) :
                  Inner.next \notin Pending(constructs[i])
           /\ blame = {} =>
                  /\ Orderly(blocks[cur], insert, live)
                  /\ live \in BOOLEAN
                  /\ live <=> insert \in R /\ ~blocks[cur][insert].closed
                  /\ saved \in Seq(BOOLEAN)
                  /\ Kept(constructs, saved, R)
                  /\ Last \in BOOLEAN
                  /\ Promise(Inner, Last, R)
<1> DEFINE bs == blocks[cur]
           k  == Len(constructs)
<1>1. /\ bs \in Seq(Blocks) /\ Tidy(bs) /\ insert \in 1..Len(bs)
      /\ b \in 1..Len(bs) /\ Len(bs) \in Nat
      /\ InWork(constructs, bs, insert) /\ Shape(constructs, Len(bs))
      /\ constructs \in Seq(Constructs) /\ k \in Nat \ {0}
      /\ blame = {} => /\ Orderly(bs, insert, live)
                       /\ Follows(constructs, bs, insert, live, saved)
  BY InFlow
<1>2. k \in 1..k /\ Inner = constructs[k]
  BY <1>1 DEF Inner
<1>3. Inner.target \in 1..Len(bs) /\ Inner.next \in 1..Len(bs)
  BY <1>1, <1>2 DEF Shape, Branches
<1>4. /\ Inner.next \in Pending(constructs[k])
      /\ Inner.kind = "then" => Inner.target \in Pending(constructs[k])
  BY <1>2 DEF Pending
<1>5. \A j \in Pending(constructs[k]) : j \in 1..Len(bs) => ~bs[j].placed
  BY <1>1, <1>2 DEF InWork
<1>6. bs[insert].placed /\ (Inner.kind = "then" => Inner.target # Inner.next)
  BY <1>1, <1>2 DEF InWork
<1>7. \A i \in 1..(k - 1) : Inner.next \notin Pending(constructs[i])
  <2>1. \A i \in 1..(k - 1) : i \in 1..k /\ i # k
    BY <1>1
  <2> QED BY <1>1, <1>2, <1>4, <2>1 DEF InWork
<1>8. ASSUME blame = {}
      PROVE  /\ Orderly(bs, insert, live)
             /\ live \in BOOLEAN
             /\ live <=> insert \in R /\ ~bs[insert].closed
             /\ saved \in Seq(BOOLEAN)
             /\ Kept(constructs, saved, R)
             /\ Last \in BOOLEAN
             /\ Promise(Inner, Last, R)
  <2>1. /\ Orderly(bs, insert, live)
        /\ Follows(constructs, bs, insert, live, saved)
    BY <1>1, <1>8
  <2>2. /\ live \in BOOLEAN
        /\ live <=> insert \in R /\ ~bs[insert].closed
        /\ saved \in Seq(BOOLEAN)
        /\ Kept(constructs, saved, R)
    BY <2>1 DEF Follows
  <2>3. /\ Len(saved) \in Nat \ {0}
        /\ Promise(constructs[k], saved[Len(saved)], R)
    BY <1>1, <1>2, <2>2, KeptPopBranch
  <2>4. Last \in BOOLEAN
    <3>1. Len(saved) \in 1..Len(saved)
      BY <2>3
    <3> QED BY <2>2, <3>1, ElementOfSeq DEF Last
  <2> QED BY <1>2, <2>1, <2>2, <2>3, <2>4 DEF Last
<1> QED BY <1>1, <1>3, <1>4, <1>5, <1>6, <1>7, <1>8

\* A construct ends and its code goes on in another block.  R is what control
\* comes to before, Q what it comes to after.
ArmEnds(ps, t, adds, b, R, Q) ==
    /\ constructs # << >> /\ Inner.kind \in {"else", "while"}
    /\ Joining(ps, blocks[cur], insert, t, Inner.next, adds)
    /\ blocks' = [blocks EXCEPT ![cur] = ps] /\ cur' = cur
    /\ insert' = Inner.next
    /\ constructs' = StmtDone(Closed(constructs))
    /\ PopFlow
    /\ b = constructs[1].target
    /\ R = ReachableFrom(blocks[cur], b)
    /\ Q = R \cup (IF adds /\ insert \in R THEN {t} ELSE {})
    /\ ~blocks[cur][t].placed \/ (blame' = {} => t \in R)
    /\ blame' = {} => /\ blame = {} /\ (adds <=> ~blocks[cur][insert].closed)
                      /\ Q \subseteq R \cup {Inner.next}
                      /\ live' \in BOOLEAN /\ (live' <=> Inner.next \in Q)

LEMMA ArmClosed ==
    ASSUME Sound, Flowing, NEW ps, NEW t, NEW adds, NEW b, NEW R, NEW Q,
           ArmEnds(ps, t, adds, b, R, Q)
    PROVE  Flowing'
<1> DEFINE bs == blocks[cur]
           k  == Len(constructs)
           m  == Inner.next
           ds == Closed(constructs)
<1>0. /\ constructs # << >> /\ Branches(Inner)
      /\ Joining(ps, bs, insert, t, m, adds)
      /\ blocks' = [blocks EXCEPT ![cur] = ps] /\ cur' = cur
      /\ insert' = m
      /\ constructs' = StmtDone(ds)
      /\ PopFlow
  BY DEF ArmEnds, Branches
<1>a. b = constructs[1].target /\ R = ReachableFrom(bs, b)
  BY DEF ArmEnds
<1>b. ~bs[t].placed \/ (blame' = {} => t \in R)
  BY DEF ArmEnds
<1>c. blame' = {} => /\ blame = {} /\ (adds <=> ~bs[insert].closed)
                     /\ Q \subseteq R \cup {m}
                     /\ live' \in BOOLEAN /\ (live' <=> m \in Q)
  BY DEF ArmEnds
<1>d. Q = R \cup (IF adds /\ insert \in R THEN {t} ELSE {})
  BY DEF ArmEnds
<1>e. Inner.kind \in {"else", "while"}
  BY DEF ArmEnds
<1>1. /\ bs \in Seq(Blocks) /\ Tidy(bs)
      /\ b \in 1..Len(bs)
      /\ InWork(constructs, bs, insert)
      /\ Shape(constructs, Len(bs))
      /\ constructs \in Seq(Constructs) /\ k \in Nat \ {0}
      /\ \A i \in 1..(k - 1) : m \notin Pending(constructs[i])
      /\ blame = {} =>
             /\ Orderly(bs, insert, live)
             /\ saved \in Seq(BOOLEAN)
             /\ Kept(constructs, saved, R)
  BY <1>0, <1>a, InArm
<1>2. Joined(ps, bs, b, insert, t, m, adds)
  BY <1>0, <1>1, JoinEffect
<1>3. /\ ps \in Seq(Blocks) /\ Len(ps) = Len(bs) /\ Tidy(ps)
      /\ \A j \in 1..Len(bs) : ps[j].placed <=> bs[j].placed \/ j = m
      /\ Fresh(ps[m])
      /\ (adds <=> ~bs[insert].closed) =>
             \A alive : Orderly(bs, insert, alive) =>
                 \A any : Orderly(ps, m, any)
      /\ ~bs[t].placed \/ t \in R => ReachableFrom(ps, b) = Q
  BY <1>2, <1>a, <1>d DEF Joined
<1>4. k \in 1..k /\ Inner = constructs[k]
  BY <1>1 DEF Inner
<1>5. Pending(constructs[k]) = {m} /\ constructs[k].kind # "func"
  BY <1>4, <1>e, PendingIs
<1>6. m \in 1..Len(bs) /\ ps[m].placed
  BY <1>0, <1>3 DEF Joining
<1>7. InWork(ds, ps, m)
  <2>1. \A j \in 1..Len(bs) :
            ps[j].placed <=> bs[j].placed \/ j \in Pending(constructs[k])
    BY <1>3, <1>5
  <2> QED BY <1>1, <1>3, <1>5, <1>6, <2>1, WorkPop
<1>8. k - 1 \in Nat \ {0}
  <2>1. k # 1
    BY <1>1, <1>4, <1>5 DEF Shape
  <2> QED BY <1>1, <2>1
<1>9. /\ ds \in Seq(Constructs) /\ ds # << >> /\ Len(ds) = k - 1
      /\ \A i \in 1..(k - 1) : ds[i] = constructs[i]
  <2>1. \A i \in 1..(k - 1) : i \in 1..k /\ constructs[i] \in Constructs
    BY <1>1, ElementOfSeq
  <2>2. ds \in Seq(Constructs)
    BY <1>1, <1>8, <2>1, SubSeqProperties DEF Closed
  <2>3. Len(ds) = k - 1 /\ \A i \in 1..(k - 1) : ds[i] = constructs[i]
    BY <1>1, <1>8, FrontOf DEF Closed
  <2> QED BY <1>8, <2>2, <2>3, EmptySeq
<1>10. /\ constructs' \in Seq(Constructs)
       /\ Alike(constructs', ds)
       /\ constructs'[1].target = ds[1].target
  BY <1>0, <1>9, DoneAlike
<1>11. InWork(constructs', ps, m)
  BY <1>7, <1>9, <1>10, WorkAlike
<1>12. constructs'[1].target = b
  <2>1. PICK l : l = k - 1
    OBVIOUS
  <2>2. l \in Nat \ {0}
    BY <1>8, <2>1
  <2>3. 1 \in 1..l
    BY <2>2
  <2> QED BY <1>9, <1>10, <1>a, <2>1, <2>3
<1>13. ASSUME blame' = {}
       PROVE  /\ Orderly(ps, m, live')
              /\ Follows(constructs', ps, m, live', saved')
  <2>1. /\ Orderly(bs, insert, live) /\ saved \in Seq(BOOLEAN)
        /\ Kept(constructs, saved, R)
        /\ adds <=> ~bs[insert].closed
    BY <1>1, <1>13, <1>c
  <2>2. Orderly(ps, m, live')
    BY <1>3, <2>1
  <2>3. ReachableFrom(ps, b) = Q
    BY <1>3, <1>13, <1>b
  <2>4. /\ Len(saved) \in Nat \ {0}
        /\ Kept(ds, SubSeq(saved, 1, Len(saved) - 1), R)
    BY <1>0, <1>1, <1>4, <2>1, KeptPopBranch
  <2>5. saved' = SubSeq(saved, 1, Len(saved) - 1)
    BY <1>0 DEF PopFlow
  <2>6. \A i \in 1..Len(ds) : Pending(ds[i]) \cap (Q \ R) = {}
    <3>1. \A i \in 1..(k - 1) : Pending(constructs[i]) \cap (Q \ R) = {}
      BY <1>1, <1>13, <1>c
    <3> QED BY <1>9, <3>1
  <2>7. Kept(ds, saved', Q)
    <3>1. PICK tv : tv = SubSeq(saved, 1, Len(saved) - 1)
      OBVIOUS
    <3>2. Kept(ds, tv, R) /\ R \subseteq Q
      BY <1>d, <2>4, <3>1
    <3>3. Kept(ds, tv, Q)
      BY <2>6, <3>2, KeptReach
    <3> QED BY <2>5, <3>1, <3>3
  <2>8. Kept(constructs', saved', Q)
    BY <1>10, <2>7, KeptAlike
  <2>9. saved' \in Seq(BOOLEAN)
    <3>1. \A i \in 1..(Len(saved) - 1) : saved[i] \in BOOLEAN
      <4>1. \A i \in 1..(Len(saved) - 1) : i \in 1..Len(saved)
        BY <2>4
      <4> QED BY <2>1, <4>1, ElementOfSeq
    <3>2. Len(saved) - 1 \in Nat
      BY <2>4
    <3> QED BY <2>1, <2>5, <3>1, <3>2, SubSeqProperties
  <2>10. live' \in BOOLEAN /\ (live' <=> m \in Q /\ ~ps[m].closed)
    BY <1>3, <1>13, <1>c DEF Fresh
  <2>11. Follows(constructs', ps, m, live', saved')
    BY <1>12, <2>3, <2>8, <2>9, <2>10 DEF Follows
  <2> QED BY <2>2, <2>11
<1>14. /\ Tidy(ps) /\ InWork(constructs', ps, insert')
       /\ blame' = {} => /\ Orderly(ps, insert', live')
                         /\ Follows(constructs', ps, insert', live', saved')
  BY <1>0, <1>3, <1>11, <1>13
<1> QED BY <1>0, <1>14, Moves

\* The code goes on after an if where one of its arms ends.
LEMMA JoinStep ==
    ASSUME Sound, Flowing, Join
    PROVE  Flowing'
<1>1. /\ constructs # << >> /\ Inner.kind = "else"
      /\ blocks' = [blocks EXCEPT ![cur] = Placed(JoinAdded, Inner.next)]
      /\ insert' = Inner.next /\ cur' = cur
      /\ constructs' = StmtDone(Closed(constructs))
      /\ live' = (live \/ Last)
      /\ PopFlow /\ blame' = blame
  BY DEF Join, EndElse, InnerIs
<1>2. PICK b : b = constructs[1].target
  OBVIOUS
<1>3. PICK R : R = ReachableFrom(blocks[cur], b)
  OBVIOUS
<1>4. PICK m : m = Inner.next
  OBVIOUS
<1>5. PICK adds \in BOOLEAN : adds <=> ~blocks[cur][insert].closed
  <2>1. CASE blocks[cur][insert].closed
    BY <2>1
  <2>2. CASE ~blocks[cur][insert].closed
    BY <2>2
  <2> QED BY <2>1, <2>2
<1>6. PICK ps : ps = Placed(JoinAdded, m)
  OBVIOUS
<1>7. PICK Q : Q = R \cup (IF adds /\ insert \in R THEN {m} ELSE {})
  OBVIOUS
<1>8. /\ blocks[cur] \in Seq(Blocks) /\ Tidy(blocks[cur])
      /\ insert \in 1..Len(blocks[cur]) /\ blocks[cur][insert].placed
      /\ Inner.next \in 1..Len(blocks[cur])
      /\ ~blocks[cur][Inner.next].placed
      /\ blame = {} =>
             /\ live \in BOOLEAN
             /\ live <=> insert \in R /\ ~blocks[cur][insert].closed
             /\ Last \in BOOLEAN
             /\ Promise(Inner, Last, R)
  <2>1. Branches(Inner)
    BY <1>1 DEF Branches
  <2> QED BY <1>1, <1>2, <1>3, <2>1, InArm
<1>9. Joining(ps, blocks[cur], insert, m, Inner.next, adds)
  <2>1. JoinAdded = IF adds THEN WithTerm(blocks[cur], insert, {m})
                            ELSE blocks[cur]
    BY <1>4, <1>5 DEF JoinAdded, HasTerminator
  <2> QED BY <1>4, <1>6, <1>8, <2>1 DEF Joining
<1>10. Q \subseteq R \cup {Inner.next}
  BY <1>4, <1>7
<1>11. blame' = {} => live' \in BOOLEAN /\ (live' <=> Inner.next \in Q)
  <2> SUFFICES ASSUME blame' = {}
               PROVE  live' \in BOOLEAN /\ (live' <=> m \in Q)
    BY <1>4
  <2>1. /\ live \in BOOLEAN /\ Last \in BOOLEAN
        /\ live <=> insert \in R /\ ~blocks[cur][insert].closed
        /\ Last <=> m \in R
    BY <1>1, <1>4, <1>8 DEF Promise
  <2>2. m \in Q <=> m \in R \/ (adds /\ insert \in R)
    BY <1>7
  <2> QED BY <1>1, <1>5, <2>1, <2>2
<1>12. ~blocks[cur][m].placed
  BY <1>4, <1>8
<1>13. blocks' = [blocks EXCEPT ![cur] = ps]
  BY <1>1, <1>4, <1>6
<1>14. blame' = {} => blame = {} /\ (adds <=> ~blocks[cur][insert].closed)
  BY <1>1, <1>5
<1>15. Inner.kind \in {"else", "while"} /\ insert' = Inner.next
  BY <1>1
<1>16. ArmEnds(ps, m, adds, b, R, Q)
  BY <1>1, <1>2, <1>3, <1>7, <1>9, <1>10, <1>11, <1>12, <1>13, <1>14, <1>15
     DEF ArmEnds
<1> QED BY <1>16, ArmClosed

\* A while is left from its test, and its body goes back to it.
LEMMA LeaveStep ==
    ASSUME Sound, Flowing, Leave
    PROVE  Flowing'
<1>1. /\ constructs # << >> /\ Inner.kind = "while"
      /\ blocks' = [blocks EXCEPT
             ![cur] = Placed(WithTerm(@, insert, {Inner.target}), Inner.next)]
      /\ insert' = Inner.next /\ cur' = cur
      /\ constructs' = StmtDone(Closed(constructs))
      /\ live' = Last
      /\ PopFlow
      /\ blame' = {} => blame = {} /\ live
  BY DEF Leave, EndWhile, InnerIs, Blame
<1>2. PICK b : b = constructs[1].target
  OBVIOUS
<1>3. PICK R : R = ReachableFrom(blocks[cur], b)
  OBVIOUS
<1>4. PICK t : t = Inner.target
  OBVIOUS
<1>5. PICK adds \in BOOLEAN : adds
  OBVIOUS
<1>6. PICK ps : ps = Placed(WithTerm(blocks[cur], insert, {t}), Inner.next)
  OBVIOUS
<1>7. PICK Q : Q = R \cup (IF adds /\ insert \in R THEN {t} ELSE {})
  OBVIOUS
<1>8. /\ blocks[cur] \in Seq(Blocks) /\ Tidy(blocks[cur])
      /\ insert \in 1..Len(blocks[cur]) /\ blocks[cur][insert].placed
      /\ Inner.target \in 1..Len(blocks[cur])
      /\ Inner.next \in 1..Len(blocks[cur])
      /\ ~blocks[cur][Inner.next].placed
      /\ blame = {} =>
             /\ live <=> insert \in R /\ ~blocks[cur][insert].closed
             /\ Last \in BOOLEAN
             /\ Promise(Inner, Last, R)
  <2>1. Branches(Inner)
    BY <1>1 DEF Branches
  <2> QED BY <1>1, <1>2, <1>3, <2>1, InArm
<1>9. Joining(ps, blocks[cur], insert, t, Inner.next, adds)
  <2>1. ps = Placed(IF adds THEN WithTerm(blocks[cur], insert, {t})
                            ELSE blocks[cur], Inner.next)
    BY <1>5, <1>6
  <2> QED BY <1>4, <1>8, <2>1 DEF Joining
<1>10. blame' = {} => /\ t \in R /\ Inner.next \in R /\ Last \in BOOLEAN /\ Last
                      /\ blame = {} /\ ~blocks[cur][insert].closed
  BY <1>1, <1>4, <1>8 DEF Promise
<1>11. blame' = {} => Q = R
  BY <1>7, <1>10
<1>12. blame' = {} => Q \subseteq R \cup {Inner.next}
  BY <1>11
<1>13. blame' = {} => live' \in BOOLEAN /\ (live' <=> Inner.next \in Q)
  BY <1>1, <1>10, <1>11
<1>14. blocks' = [blocks EXCEPT ![cur] = ps]
  BY <1>1, <1>4, <1>6
<1>15. blame' = {} => blame = {} /\ (adds <=> ~blocks[cur][insert].closed)
  BY <1>5, <1>10
<1>16. ~blocks[cur][t].placed \/ (blame' = {} => t \in R)
  BY <1>10
<1>17. Inner.kind \in {"else", "while"} /\ insert' = Inner.next
  BY <1>1
<1>18. ArmEnds(ps, t, adds, b, R, Q)
  BY <1>1, <1>2, <1>3, <1>7, <1>9, <1>12, <1>13, <1>14, <1>15, <1>16, <1>17
     DEF ArmEnds
<1> QED BY <1>18, ArmClosed

\* The first arm of an if ends, and the second begins in a block of its own.
LEMMA SwapStep ==
    ASSUME Sound, Flowing, NEW hasElse \in BOOLEAN, Swap(hasElse)
    PROVE  Flowing'
<1> DEFINE bs == blocks[cur]
           k  == Len(constructs)
           n  == Len(saved)
<1>1. /\ constructs # << >> /\ Inner.kind = "then"
      /\ blocks' = [blocks EXCEPT ![cur] = Placed(JoinAdded, Inner.target)]
      /\ insert' = Inner.target /\ cur' = cur
      /\ constructs' = [constructs EXCEPT ![k].kind = "else",
                                          ![k].done = ~hasElse]
      /\ live' = Last
      /\ saved' = [saved EXCEPT ![n] = live] /\ blame' = blame
  BY DEF Swap, EndThen, InnerIs
<1>2. PICK b : b = constructs[1].target
  OBVIOUS
<1>3. PICK R : R = ReachableFrom(bs, b)
  OBVIOUS
<1>4. PICK m : m = Inner.next
  OBVIOUS
<1>5. PICK e : e = Inner.target
  OBVIOUS
<1>6. PICK adds \in BOOLEAN : adds <=> ~bs[insert].closed
  <2>1. CASE bs[insert].closed
    BY <2>1
  <2>2. CASE ~bs[insert].closed
    BY <2>2
  <2> QED BY <2>1, <2>2
<1>7. PICK ps : ps = Placed(JoinAdded, e)
  OBVIOUS
<1>8. PICK Q : Q = R \cup (IF adds /\ insert \in R THEN {m} ELSE {})
  OBVIOUS
<1>9. /\ bs \in Seq(Blocks) /\ Tidy(bs)
      /\ insert \in 1..Len(bs) /\ bs[insert].placed
      /\ b \in 1..Len(bs)
      /\ InWork(constructs, bs, insert)
      /\ Shape(constructs, Len(bs))
      /\ constructs \in Seq(Constructs) /\ k \in Nat \ {0}
      /\ e \in 1..Len(bs) /\ m \in 1..Len(bs)
      /\ ~bs[m].placed /\ ~bs[e].placed
      /\ \A i \in 1..(k - 1) : m \notin Pending(constructs[i])
      /\ blame = {} =>
             /\ Orderly(bs, insert, live)
             /\ live \in BOOLEAN
             /\ live <=> insert \in R /\ ~bs[insert].closed
             /\ saved \in Seq(BOOLEAN)
             /\ Kept(constructs, saved, R)
             /\ Last \in BOOLEAN
             /\ Promise(Inner, Last, R)
  <2>1. Branches(Inner)
    BY <1>1 DEF Branches
  <2> QED BY <1>1, <1>2, <1>3, <1>4, <1>5, <2>1, InArm
<1>10. k \in 1..k /\ Inner = constructs[k] /\ Inner \in Constructs
  BY <1>9, ElementOfSeq DEF Inner
<1>11. Joining(ps, bs, insert, m, e, adds)
  <2>1. JoinAdded = IF adds THEN WithTerm(bs, insert, {m}) ELSE bs
    BY <1>4, <1>6 DEF JoinAdded, HasTerminator
  <2> QED BY <1>7, <1>9, <2>1 DEF Joining
<1>12. Joined(ps, bs, b, insert, m, e, adds)
  BY <1>9, <1>11, JoinEffect
<1>13. /\ ps \in Seq(Blocks) /\ Len(ps) = Len(bs) /\ Tidy(ps)
       /\ \A j \in 1..Len(bs) : ps[j].placed <=> bs[j].placed \/ j = e
       /\ Fresh(ps[e])
       /\ \A alive : Orderly(bs, insert, alive) => \A any : Orderly(ps, e, any)
       /\ ReachableFrom(ps, b) = Q
  BY <1>3, <1>6, <1>8, <1>9, <1>12 DEF Joined
<1>a. PICK d \in BOOLEAN : d <=> ~hasElse
  <2>1. CASE hasElse
    BY <2>1
  <2>2. CASE ~hasElse
    BY <2>2
  <2> QED BY <2>1, <2>2
<1>b. d = ~hasElse
  BY <1>a
<1> DEFINE x == [[Inner EXCEPT !.kind = "else"] EXCEPT !.done = d]
<1>c. /\ x \in Constructs /\ x.kind = "else"
      /\ x.target = e /\ x.next = m
  BY <1>4, <1>5, <1>10 DEF Constructs, ConstructKinds
<1> HIDE DEF x
<1>14. PICK c \in Constructs : /\ c = [[Inner EXCEPT !.kind = "else"]
                                           EXCEPT !.done = ~hasElse]
                               /\ c.kind = "else"
                               /\ c.target = e /\ c.next = m
  BY <1>b, <1>c DEF x
<1>15. constructs' = [constructs EXCEPT ![k] = c]
  BY <1>1, <1>10, <1>14
<1>16. PICK ds : ds = [constructs EXCEPT ![k] = c]
  OBVIOUS
<1>17. /\ ds \in Seq(Constructs) /\ Len(ds) = k
       /\ \A i \in 1..k : ds[i] = IF i = k THEN c ELSE constructs[i]
  BY <1>9, <1>10, <1>16, ExceptSeq
<1>18. /\ ds[k] = c
       /\ \A i \in 1..k : i # k => ds[i] = constructs[i]
  BY <1>10, <1>17
<1>19. InWork(ds, ps, e)
  <2>1. ps[e].placed
    BY <1>9, <1>13
  <2>2. \A j \in 1..Len(bs) :
            ps[j].placed <=> bs[j].placed \/ j = constructs[k].target
    BY <1>5, <1>10, <1>13
  <2>3. constructs[k].kind = "then"
    BY <1>1, <1>10
  <2>4. ds[k].kind = "else" /\ ds[k].next = constructs[k].next
    BY <1>4, <1>10, <1>14, <1>18
  <2> QED BY <1>9, <1>13, <1>17, <1>18, <2>1, <2>2, <2>3, <2>4, WorkTurn
<1>20. ds[1].target = b
  <2>1. k # 1 /\ 1 \in 1..k
    BY <1>1, <1>9, <1>10 DEF Shape
  <2> QED BY <1>2, <1>18, <2>1
<1>21. ASSUME blame = {}
       PROVE  /\ Orderly(ps, e, live')
              /\ Follows(ds, ps, e, live', saved')
  <2>1. /\ live \in BOOLEAN
        /\ live <=> insert \in R /\ ~bs[insert].closed
        /\ saved \in Seq(BOOLEAN)
        /\ Kept(constructs, saved, R)
        /\ Last \in BOOLEAN
        /\ Last /\ e \in R /\ m \notin R
    BY <1>1, <1>4, <1>5, <1>9, <1>21 DEF Promise
  <2>2. Orderly(ps, e, live')
    BY <1>9, <1>13, <1>21
  <2>3. PICK s \in BOOLEAN : s = live
    BY <2>1
  <2>4. s <=> m \in Q
    BY <1>6, <1>8, <2>1, <2>3
  <2>5. Kept(ds, [saved EXCEPT ![n] = s], Q)
    <3>1. Branches(constructs[k]) /\ Branches(ds[k])
      BY <1>1, <1>10, <1>14, <1>18 DEF Branches
    <3>2. R \subseteq Q /\ Q \ R \subseteq {m}
      BY <1>8
    <3>3. \A i \in 1..(k - 1) : Pending(constructs[i]) \cap (Q \ R) = {}
      BY <1>9, <3>2
    <3>4. Promise(ds[k], s, Q)
      BY <1>14, <1>18, <2>4 DEF Promise
    <3> QED BY <1>1, <1>9, <1>17, <1>18, <2>1, <3>1, <3>2, <3>3, <3>4, KeptTurn
  <2>6. Kept(ds, saved', Q)
    BY <1>1, <2>3, <2>5
  <2>7. saved' \in Seq(BOOLEAN)
    <3>1. n \in Nat \ {0}
      <4>1. Branches(constructs[k])
        BY <1>1, <1>10 DEF Branches
      <4> QED BY <1>1, <1>9, <2>1, <4>1, KeptPopBranch
    <3>2. n \in 1..n
      BY <3>1
    <3>3. [saved EXCEPT ![n] = s] \in Seq(BOOLEAN)
      BY <2>1, <3>2, ExceptSeq
    <3> QED BY <1>1, <2>3, <3>3
  <2>8. live' = TRUE /\ e \in Q /\ ~ps[e].closed
    BY <1>1, <1>8, <1>13, <2>1 DEF Fresh
  <2>9. Follows(ds, ps, e, live', saved')
    BY <1>13, <1>20, <2>6, <2>7, <2>8 DEF Follows
  <2> QED BY <2>2, <2>9
<1>22. /\ blocks' = [blocks EXCEPT ![cur] = ps]
       /\ InWork(constructs', ps, insert')
       /\ blame' = {} => /\ Orderly(ps, insert', live')
                         /\ Follows(constructs', ps, insert', live', saved')
  BY <1>1, <1>5, <1>7, <1>15, <1>16, <1>19, <1>21
<1> QED BY <1>1, <1>13, <1>22, Moves

-----------------------------------------------------------------------------
(* The invariant, and what follows from it.                                *)

LEMMA FlowInit == ReachInit => Flowing
<1> SUFFICES ASSUME ReachInit PROVE Flowing
  OBVIOUS
<1>1. cur = NoFn /\ \A f \in Fns : blocks[f] = << >>
  BY DEF ReachInit, Init
<1>2. Tidy(<< >>) /\ \A b \in 1..Len(<< >>) : <<>>[b].placed /\ Sealed(<<>>[b])
  BY EmptySeq DEF Tidy
<1>3. Layout
  BY <1>1, <1>2 DEF Layout
<1> QED BY <1>1, <1>3 DEF Flowing, NoStrayCode, FlowFollows

\* Whatever leaves the function in work alone.
LEMMA FlowUnchanged ==
    ASSUME Flowing, UNCHANGED <<blocks, cur, insert, constructs, live, saved, blame>>
    PROVE  Flowing'
BY DEF Flowing, Layout, NoStrayCode, FlowFollows

LEMMA FlowStep == Sound /\ Flowing /\ [ReachNext]_reachVars => Flowing'
<1> SUFFICES ASSUME Sound, Flowing, [ReachNext]_reachVars PROVE Flowing'
  OBVIOUS
<1>1. CASE UNCHANGED reachVars
  BY <1>1, FlowUnchanged
     DEF reachVars, vars, flowVars, bodyVars, nameVars
<1>2. ASSUME UNCHANGED flowVars,
             \/ \E syms \in [Fns -> {"none", "declared", "defined"}] :
                    BeginModule(syms)
             \/ EndModule
             \/ WriteModule
             \/ InitGlobal
             \/ Finished
      PROVE  Flowing'
  <2>1. UNCHANGED <<blocks, cur, insert, constructs>>
    BY <1>2 DEF BeginModule, EndModule, WriteModule, InitGlobal, Abort, Finished,
                vars, bodyVars, nameVars
  <2> QED BY <1>2, <2>1, FlowUnchanged DEF flowVars
<1>3. ASSUME UNCHANGED flowVars, NoCode PROVE Flowing'
  <2>1. constructs # << >> /\ constructs' = StmtDone(constructs)
    BY <1>3 DEF NoCode, AtStmt, InnerIs
  <2>2. UNCHANGED <<blocks, cur, insert, live, saved>> /\ blame \subseteq blame'
    BY <1>3 DEF NoCode, bodyVars, flowVars
  <2> QED BY <2>1, <2>2, DoneStep
<1>4. ASSUME NEW f \in Fns, NEW ps \in SUBSET Names, Begin(f, ps)
      PROVE  Flowing'
  BY <1>4, BeginStep
<1>5. ASSUME Straight, Reached, UNCHANGED <<live, saved>> PROVE Flowing'
  BY <1>5, StraightStep
<1>6. ASSUME BeginIf \/ BeginWhile, Reached, PushFlow, UNCHANGED live
      PROVE  Flowing'
  BY <1>6, IfStep, WhileStep
<1>7. ASSUME NEW fits \in BOOLEAN, Return(fits) PROVE Flowing'
  BY <1>7, ReturnStep
<1>8. ASSUME NEW hasElse \in BOOLEAN, Swap(hasElse) PROVE Flowing'
  BY <1>8, SwapStep
<1>9. CASE Join
  BY <1>9, JoinStep
<1>10. CASE Leave
  BY <1>10, LeaveStep
<1>11. ASSUME UNCHANGED flowVars, EndFuncDef PROVE Flowing'
  BY <1>11, EndStep
<1>12. ASSUME UNCHANGED flowVars,
              \/ \E decls \in SUBSET Names, protos \in SUBSET Fns :
                     BeginCompStmt(decls, protos)
              \/ EndCompStmt
       PROVE  Flowing'
  BY <1>12, CompSteps
<1> QED BY <1>1, <1>2, <1>3, <1>4, <1>5, <1>6, <1>7, <1>8, <1>9, <1>10, <1>11,
           <1>12 DEF ReachNext

LEMMA SoundReach == ReachSpec => []Sound
BY HistoryOnlyAdds, SoundInvariant, PTL

LEMMA FlowInvariant == ReachSpec => []Flowing
<1>1. ReachInit => Flowing
  BY FlowInit
<1>2. Sound /\ Flowing /\ [ReachNext]_reachVars => Flowing'
  BY FlowStep
<1> QED BY <1>1, <1>2, SoundReach, PTL DEF ReachSpec

\* Code is generated where control comes to exactly when the source statement
\* it is generated for can be reached.  FlowFollows says so of every block an
\* open if or while will go on with, too.
THEOREM CodeFollowsSource == ReachSpec => []InsertPointFollowsSource
<1>1. Flowing => InsertPointFollowsSource
  BY DEF Flowing, FlowFollows, Follows, InsertPointFollowsSource, HasTerminator
<1> QED BY <1>1, FlowInvariant, PTL

\* In a function whose source gives no reason, every block has one terminator
\* when its definition ends.
LEMMA NoReasonWellFormed ==
    ASSUME Sound, Flowing, EndFuncDef, blame = {}
    PROVE  WellFormed(ReturnAdded)
<1> DEFINE bs == blocks[cur]
<1>1. constructs # << >> /\ constructs[Len(constructs)].kind = "func"
  BY DEF EndFuncDef, InnerIs, Inner
<1>2. /\ bs \in Seq(Blocks) /\ insert \in 1..Len(bs)
      /\ Shape(constructs, Len(bs))
      /\ Len(constructs) \in Nat \ {0}
      /\ Tidy(bs) /\ InWork(constructs, bs, insert)
      /\ Orderly(bs, insert, live)
  BY <1>1, InFlow
<1>3. Len(constructs) = 1
  <2>1. Len(constructs) \in 1..Len(constructs)
    BY <1>2
  <2> QED BY <1>1, <1>2, <2>1 DEF Shape
<1>4. \A b \in 1..Len(bs) : bs[b].placed
  <2>1. \A i \in 1..Len(constructs) : i = Len(constructs)
    BY <1>3
  <2>2. Pending(constructs[Len(constructs)]) = {}
    BY <1>1 DEF Pending, Branches
  <2> QED BY <1>2, <2>1, <2>2 DEF InWork
<1>5. PICK rs : rs = ReturnAdded
  OBVIOUS
<1>6. /\ Len(rs) = Len(bs)
      /\ \A b \in 1..Len(bs) : /\ rs[b].placed
                               /\ rs[b].succ \subseteq 1..Len(bs)
                               /\ Sealed(rs[b])
  <2>1. CASE HasTerminator(bs, insert)
    <3>1. rs = bs
      BY <1>5, <2>1 DEF ReturnAdded
    <3>2. \A b \in 1..Len(bs) : Sealed(bs[b])
      BY <1>2, <1>4, <2>1 DEF Orderly, HasTerminator
    <3> QED BY <1>2, <1>4, <3>1, <3>2 DEF Tidy
  <2>2. CASE ~HasTerminator(bs, insert)
    <3>1. PICK T \in SUBSET Nat : T = {}
      OBVIOUS
    <3>2. rs = WithTerm(bs, insert, T)
      BY <1>5, <2>2, <3>1 DEF ReturnAdded
    <3>3. /\ Rewritten(rs, bs, insert) /\ rs[insert].succ = bs[insert].succ \cup T
          /\ rs[insert].terms = bs[insert].terms + 1 /\ rs[insert].closed
          /\ rs[insert].mistyped = bs[insert].mistyped
      BY <1>2, <3>2, TermEffect
    <3>4. /\ Fresh(bs[insert])
          /\ \A b \in 1..Len(bs) : b # insert => Sealed(bs[b])
      BY <1>2, <1>4, <2>2 DEF Orderly, HasTerminator
    <3>5. Sealed(rs[insert]) /\ rs[insert].succ \subseteq 1..Len(bs)
      BY <1>2, <3>1, <3>3, <3>4 DEF Fresh, Sealed, Tidy
    <3> QED BY <1>2, <1>4, <3>3, <3>4, <3>5 DEF Rewritten, Tidy
  <2> QED BY <2>1, <2>2
<1>7. WellFormed(rs)
  BY <1>6 DEF WellFormed, Sealed
<1> QED BY <1>5, <1>7

\* A function whose source gives LLVM no reason to reject it is kept.
THEOREM RejectedForAReason == ReachSpec => RejectionHasReason
<1>1. Sound /\ Flowing /\ [ReachNext]_reachVars =>
          [EndFuncDef => (theModule'[cur] = "absent" => blame # {})]_reachVars
  <2> SUFFICES ASSUME Sound, Flowing, EndFuncDef, blame = {}
               PROVE  theModule'[cur] # "absent"
    OBVIOUS
  <2>1. WellFormed(ReturnAdded)
    BY NoReasonWellFormed
  <2>2. theModule' = [theModule EXCEPT ![cur] = "body"]
    BY <2>1 DEF EndFuncDef, Keep
  <2>3. cur \in Fns /\ theModule \in [Fns -> {"absent", "declared", "body"}]
    <3>1. constructs # << >>
      BY DEF EndFuncDef, InnerIs
    <3> QED BY <3>1, InBody DEF Sound, RestOK
  <2> QED BY <2>2, <2>3
<1> QED BY <1>1, SoundReach, FlowInvariant, PTL DEF ReachSpec, RejectionHasReason
=============================================================================
