-------------------------- MODULE CommandLineProofs --------------------------
(***************************************************************************)
(* The program does what its command line asks for, of any length and made *)
(* of any arguments.  parseArgs reads the arguments one by one; the        *)
(* invariant says what it knows of those before i, in the terms of what    *)
(* the command line asks for as a whole.                                   *)
(***************************************************************************)
EXTENDS CommandLine, SequenceTheorems, WellFoundedInduction, TLAPS

Strings == STRING \cup {"", "mips", "default"}
Split   == [dash : Strings, name : Strings, eq : BOOLEAN, opt : Strings]

-----------------------------------------------------------------------------
(* Which arguments are the value of the one before them.                   *)

ValuesIn(args) ==
    LET value[k \in 1..Len(args)] ==
            k > 1 /\ TakesNext(args[k - 1]) /\ ~value[k - 1]
    IN  value

AreValues(v, args, n) ==
    /\ v \in [1..n -> BOOLEAN]
    /\ \A k \in 1..n : v[k] <=> k > 1 /\ TakesNext(args[k - 1]) /\ ~v[k - 1]

LEMMA LeastNatural ==
    ASSUME NEW T \in SUBSET Nat, T # {}
    PROVE  \E m \in T : \A k \in T : m <= k
<1> DEFINE R == OpToRel(<, Nat)
<1>1. IsWellFoundedOn(R, Nat)
  BY NatLessThanWellFounded
<1>2. \A j, k \in Nat : <<j, k>> \in R <=> j < k
  BY DEF OpToRel
<1> HIDE DEF R
<1>3. PICK m \in T : \A k \in T : ~(<<k, m>> \in R)
  BY <1>1, WFMin
<1>4. \A k \in T : k \in Nat
  OBVIOUS
<1>5. \A k \in T : ~(k < m)
  BY <1>2, <1>3, <1>4
<1> QED BY <1>4, <1>5

\* The recursion has a solution, one argument at a time.
LEMMA ValuesExist ==
    ASSUME NEW args, NEW n \in Nat
    PROVE  \E v : AreValues(v, args, n)
<1> DEFINE Bad == {m \in Nat : ~ \E v : AreValues(v, args, m)}
<1> SUFFICES ASSUME Bad # {} PROVE FALSE
  OBVIOUS
<1>1. PICK m \in Bad : \A k \in Bad : m <= k
  BY LeastNatural
<1>2. m # 0
  <2>1. AreValues([k \in 1..0 |-> FALSE], args, 0)
    BY DEF AreValues
  <2> QED BY <2>1
<1>3. m - 1 \in Nat /\ m \in Nat
  BY <1>2
<1>4. PICK w : AreValues(w, args, m - 1)
  <2>1. m - 1 \notin Bad
    BY <1>1, <1>3
  <2> QED BY <1>3, <2>1
<1>5. PICK last \in BOOLEAN :
          last <=> m > 1 /\ TakesNext(args[m - 1]) /\ ~w[m - 1]
  <2>1. CASE m > 1 /\ TakesNext(args[m - 1]) /\ ~w[m - 1]
    BY <2>1
  <2>2. CASE ~(m > 1 /\ TakesNext(args[m - 1]) /\ ~w[m - 1])
    BY <2>2
  <2> QED BY <2>1, <2>2
<1> DEFINE v == [k \in 1..m |-> IF k = m THEN last ELSE w[k]]
<1>6. \A k \in 1..m : k = m \/ (k \in 1..(m - 1) /\ k # m)
  BY <1>3
<1>7. m \in 1..m /\ \A k \in 1..(m - 1) : k \in 1..m /\ k # m
  BY <1>2, <1>3
<1>8. v \in [1..m -> BOOLEAN]
  BY <1>4, <1>6 DEF AreValues
<1>9. v[m] = last /\ \A k \in 1..(m - 1) : v[k] = w[k]
  BY <1>7
<1> HIDE DEF v
<1>10. \A k \in 1..m : k > 1 => k - 1 \in 1..(m - 1)
  BY <1>3
<1>11. \A k \in 1..m : v[k] <=> k > 1 /\ TakesNext(args[k - 1]) /\ ~v[k - 1]
  <2> TAKE k \in 1..m
  <2>1. k > 1 => v[k - 1] = w[k - 1]
    BY <1>9, <1>10
  <2>2. CASE k = m
    BY <1>5, <1>9, <2>1, <2>2
  <2>3. CASE k \in 1..(m - 1)
    <3>1. w[k] <=> k > 1 /\ TakesNext(args[k - 1]) /\ ~w[k - 1]
      BY <1>4, <2>3 DEF AreValues
    <3> QED BY <1>9, <2>1, <2>3, <3>1
  <2> QED BY <1>6, <2>2, <2>3
<1>12. AreValues(v, args, m)
  BY <1>8, <1>11 DEF AreValues
<1> QED BY <1>12

LEMMA ValuesInAre ==
    ASSUME NEW S, NEW args \in Seq(S)
    PROVE  AreValues(ValuesIn(args), args, Len(args))
<1> DEFINE n == Len(args)
           F(g) == [k \in 1..n |-> k > 1 /\ TakesNext(args[k - 1]) /\ ~g[k - 1]]
           value == CHOOSE g : g = F(g)
<1>1. n \in Nat
  BY LenProperties
<1>2. PICK v : AreValues(v, args, n)
  BY <1>1, ValuesExist
<1>3. v = F(v)
  <2>1. \A k \in 1..n : v[k] = (k > 1 /\ TakesNext(args[k - 1]) /\ ~v[k - 1])
    BY <1>2 DEF AreValues
  <2> QED BY <1>2, <2>1 DEF AreValues
<1>4. value = F(value)
  <2> HIDE DEF F
  <2> QED BY <1>3
<1>5. ValuesIn(args) = value
  BY DEF ValuesIn
<1> HIDE DEF value
<1>6. \A k \in 1..n : value[k] = (k > 1 /\ TakesNext(args[k - 1]) /\ ~value[k - 1])
  BY <1>4
<1>7. value \in [1..n -> BOOLEAN]
  BY <1>4
<1>8. AreValues(value, args, n)
  BY <1>6, <1>7 DEF AreValues
<1> QED BY <1>5, <1>8

-----------------------------------------------------------------------------
(* What the command line asks for does not change while it is read.        *)

LEMMA ValuesHere == IsValue = ValuesIn(argv) /\ IsValue' = ValuesIn(argv')
BY DEF IsValue, ValuesIn

LEMMA OwnStays ==
    ASSUME argv' = argv
    PROVE  IsValue' = IsValue /\ Own' = Own
<1>1. IsValue' = IsValue
  BY ValuesHere
<1> QED BY <1>1 DEF Own

-----------------------------------------------------------------------------
(* What has been read, in the terms of what is asked for.                  *)

\* What the argument a asks for by itself.
Flag(a)    == a.dash # "" /\ a.name = "genasm" /\ ~a.eq
Target(a)  == a.dash # "" /\ a.name = "target"
Refused(a) == /\ a.dash # "" /\ ~IsHelp(a)
              /\ \/ a.name \notin {"genasm", "target"}
                 \/ a.name = "genasm" /\ a.eq

\* The value of the option argument k is.
Given == [k \in DOMAIN argv |->
              IF argv[k].eq THEN Word(argv[k].opt) ELSE argv[k + 1]]

\* seq has begun with what the first of the arguments in set is, of those
\* before n.
Begun(seq, set, of, n) ==
    /\ seq # << >> <=> \E k \in set : k < n
    /\ seq # << >> => \E k \in set : /\ k < n /\ seq[1] = of[k]
                                     /\ \A j \in set : k <= j

\* What parseArgs knows of the arguments before n.
Known(n, help, map, direct, wrong) ==
    /\ help <=> \E k \in Own : k < n /\ IsHelp(argv[k])
    /\ map["genasm"] # << >> <=> \E k \in Own : k < n /\ Flag(argv[k])
    /\ Begun(map["target"], Targets, Given, n)
    /\ Begun(direct, Files, argv, n)
    /\ wrong <=> \E k \in Own : k < n /\ Refused(argv[k])
    /\ \A k \in Own : k < n => ~(k = Len(argv) /\ TakesNext(argv[k]))

Typed ==
    /\ argv \in Seq(Split)
    /\ i \in Nat \ {0}
    /\ parsedHelp \in BOOLEAN /\ errors \in BOOLEAN
    /\ asm \in BOOLEAN /\ mips \in BOOLEAN /\ root \in BOOLEAN
    /\ argMap \in [{"genasm", "target"} -> Seq(Split)]
    /\ dirArg \in Seq(Split)

\* The loop of parseArgs: the next argument is no value of another.
InLoop ==
    phase = "parse" =>
        /\ i <= Len(argv) + 1
        /\ i \in DOMAIN argv => i \in Own
        /\ Known(i, parsedHelp, argMap, dirArg, errors)
        /\ written = << >>

TheFile == argv[First(Files)]

\* After it the program knows what it was asked for.
Understood ==
    phase \in {"main", "compile", "write"} =>
        /\ parsedHelp <=> AsksHelp
        /\ asm <=> AsksAsm
        /\ mips <=> AsksMips
        /\ errors <=> Misread
        /\ dirArg = << >> <=> Files = {}
        /\ Files # {} => dirArg[1] = TheFile
        /\ ~LacksValue
        /\ phase # "main" => ~AsksHelp /\ Files # {}
        /\ phase # "write" => written = << >>
        /\ phase = "write" => root /\ written = <<<<TheFile, "ll", "module">>>>

Heard == Typed /\ InLoop /\ Understood /\ CommandHonoured

-----------------------------------------------------------------------------
(* Arguments.                                                              *)

LEMMA Options ==
    /\ DOMAIN regArgMap = {"genasm", "target"}
    /\ regArgMap["genasm"] = 0 /\ regArgMap["target"] = 1
    /\ NoOption = 0 /\ WithOption = 1
BY DEF regArgMap, NoOption, WithOption

LEMMA WordIs ==
    ASSUME NEW w \in Strings
    PROVE  Word(w) \in Split /\ Word(w).name = w
BY DEF Word, Split, Strings

LEMMA FirstOf ==
    ASSUME NEW set \in SUBSET Nat, NEW k \in set, \A j \in set : k <= j
    PROVE  First(set) = k
<1>1. First(set) \in set /\ \A j \in set : First(set) <= j
  BY DEF First
<1>2. k \in Nat /\ First(set) \in Nat
  BY <1>1
<1>3. k <= First(set) /\ First(set) <= k
  BY <1>1
<1> QED BY <1>2, <1>3

LEMMA Here ==
    ASSUME Typed
    PROVE  /\ Len(argv) \in Nat /\ DOMAIN argv = 1..Len(argv)
           /\ \A k \in 1..Len(argv) : argv[k] \in Split
           /\ IsValue \in [1..Len(argv) -> BOOLEAN]
           /\ \A k \in 1..Len(argv) : IsValue[k] <=>
                  k > 1 /\ TakesNext(argv[k - 1]) /\ ~IsValue[k - 1]
           /\ Own = {k \in 1..Len(argv) : ~IsValue[k]}
           /\ Files \in SUBSET Nat /\ Targets \in SUBSET Nat
<1>1. Len(argv) \in Nat /\ DOMAIN argv = 1..Len(argv)
  BY LenProperties DEF Typed
<1>2. \A k \in 1..Len(argv) : argv[k] \in Split
  BY ElementOfSeq DEF Typed
<1>3. AreValues(IsValue, argv, Len(argv))
  BY ValuesHere, ValuesInAre DEF Typed
<1>4. Own = {k \in 1..Len(argv) : ~IsValue[k]}
  BY <1>1 DEF Own
<1>5. Files \in SUBSET Nat /\ Targets \in SUBSET Nat
  <2>1. Own \subseteq Nat
    BY <1>1, <1>4
  <2> QED BY <2>1 DEF Files, Targets
<1> QED BY <1>1, <1>2, <1>3, <1>4, <1>5 DEF AreValues

\* An argument is a direct one, the option for a target, or none of the two.
LEMMA Kinds ==
    ASSUME NEW a
    PROVE  /\ TakesNext(a) <=> Target(a) /\ ~a.eq
           /\ Target(a) => a.dash # "" /\ ~IsHelp(a) /\ ~Flag(a) /\ ~Refused(a)
           /\ Flag(a) => a.dash # "" /\ ~IsHelp(a) /\ ~Target(a) /\ ~Refused(a)
           /\ IsHelp(a) => a.dash # "" /\ ~Target(a) /\ ~Flag(a) /\ ~Refused(a)
           /\ Refused(a) => a.dash # "" /\ ~IsHelp(a) /\ ~Target(a) /\ ~Flag(a)
BY DEF TakesNext, Target, Flag, IsHelp, Refused

-----------------------------------------------------------------------------
(* One turn of the loop.                                                   *)

\* Argument i is read, and the value behind it if it takes one.
Turns(n, help, map, direct, wrong) ==
    /\ \/ n = i + 1 /\ ~TakesNext(arg)
       \/ n = i + 2 /\ TakesNext(arg) /\ i < Len(argv)
    /\ help <=> parsedHelp \/ IsHelp(arg)
    /\ map["genasm"] # << >> <=> argMap["genasm"] # << >> \/ Flag(arg)
    /\ map["target"] = IF Target(arg) THEN Append(argMap["target"], Given[i])
                                      ELSE argMap["target"]
    /\ direct = IF arg.dash = "" THEN Append(dirArg, arg) ELSE dirArg
    /\ wrong <=> errors \/ Refused(arg)

LEMMA BegunGrows ==
    ASSUME NEW S, NEW seq \in Seq(S), NEW e \in S, NEW of,
           NEW set \in SUBSET Nat, NEW k \in set, of[k] = e,
           NEW n \in Nat, Begun(seq, set, of, k),
           \A j \in set : j < n <=> j < k \/ j = k
    PROVE  Begun(Append(seq, e), set, of, n)
<1>1. Append(seq, e) # << >>
  BY AppendProperties, EmptySeq
<1>2. k < n /\ k \in Nat /\ \A j \in set : j \in Nat
  OBVIOUS
<1>3. CASE seq = << >>
  <2>1. Append(seq, e)[1] = e
    BY <1>3
  <2>2. \A j \in set : k <= j
    BY <1>2, <1>3 DEF Begun
  <2> QED BY <1>1, <1>2, <2>1, <2>2 DEF Begun
<1>4. CASE seq # << >>
  <2>1. Append(seq, e)[1] = seq[1]
    BY <1>4, AppendProperties, LenProperties, EmptySeq
  <2>2. PICK j \in set : j < k /\ seq[1] = of[j] /\ \A l \in set : j <= l
    BY <1>4 DEF Begun
  <2> QED BY <1>1, <1>2, <2>1, <2>2 DEF Begun
<1> QED BY <1>3, <1>4

LEMMA BegunStays ==
    ASSUME NEW seq, NEW of, NEW set, NEW k, NEW n, Begun(seq, set, of, k),
           \A j \in set : j < n <=> j < k
    PROVE  Begun(seq, set, of, n)
BY DEF Begun

LEMMA Turn ==
    ASSUME Typed, Scanning, InLoop,
           NEW n, NEW help, NEW map, NEW direct, NEW wrong,
           Turns(n, help, map, direct, wrong)
    PROVE  /\ n <= Len(argv) + 1
           /\ n \in DOMAIN argv => n \in Own
           /\ Known(n, help, map, direct, wrong)
<1>1. /\ i \in 1..Len(argv) /\ Len(argv) \in Nat /\ DOMAIN argv = 1..Len(argv)
      /\ i \in Own
      /\ Known(i, parsedHelp, argMap, dirArg, errors)
  BY Here DEF Scanning, InLoop, Typed
<1>2. /\ Own = {k \in 1..Len(argv) : ~IsValue[k]}
      /\ IsValue \in [1..Len(argv) -> BOOLEAN]
      /\ \A k \in 1..Len(argv) : IsValue[k] <=>
             k > 1 /\ TakesNext(argv[k - 1]) /\ ~IsValue[k - 1]
  BY Here
<1>3. /\ n \in Nat /\ n > i /\ n <= Len(argv) + 1
      /\ \/ n = i + 1 /\ ~TakesNext(argv[i])
         \/ n = i + 2 /\ TakesNext(argv[i]) /\ i < Len(argv)
  <2>1. \/ n = i + 1 /\ ~TakesNext(argv[i])
        \/ n = i + 2 /\ TakesNext(argv[i]) /\ i < Len(argv)
    BY DEF Turns, arg
  <2>2. i + 1 \in Nat /\ i + 2 \in Nat /\ i + 1 > i /\ i + 2 > i
    BY <1>1
  <2>3. i + 1 <= Len(argv) + 1 /\ (i < Len(argv) => i + 2 <= Len(argv) + 1)
    BY <1>1
  <2>4. n = i + 1 \/ (n = i + 2 /\ i < Len(argv))
    BY <2>1
  <2>5. n \in Nat /\ n > i /\ n <= Len(argv) + 1
    BY <2>2, <2>3, <2>4
  <2> QED BY <2>1, <2>5
<1>4. ~IsValue[i]
  BY <1>1, <1>2
<1>5. i + 1 \in 1..Len(argv) => (IsValue[i + 1] <=> TakesNext(argv[i]))
  <2>1. (i + 1) - 1 = i /\ i + 1 > 1
    BY <1>1
  <2> QED BY <1>2, <1>4, <2>1
<1>6. n \in DOMAIN argv => n \in Own
  <2>1. CASE n = i + 1 /\ ~TakesNext(argv[i])
    BY <1>1, <1>2, <1>5, <2>1
  <2>2. CASE n = i + 2 /\ TakesNext(argv[i]) /\ i < Len(argv)
    <3>1. i + 1 \in 1..Len(argv) /\ n - 1 = i + 1
      BY <1>1, <2>2
    <3> QED BY <1>1, <1>2, <1>5, <2>2, <3>1
  <2> QED BY <1>3, <2>1, <2>2
<1>7. \A k \in Own : k < n <=> k < i \/ k = i
  <2> TAKE k \in Own
  <2>1. k \in 1..Len(argv) /\ ~IsValue[k]
    BY <1>2
  <2>2. CASE n = i + 1
    BY <1>1, <2>1, <2>2
  <2>3. CASE n = i + 2 /\ TakesNext(argv[i])
    <3>1. k # i + 1
      BY <1>5, <2>1, <2>3
    <3> QED BY <1>1, <2>1, <2>3, <3>1
  <2> QED BY <1>3, <2>2, <2>3
<1>8. /\ help <=> \E k \in Own : k < n /\ IsHelp(argv[k])
      /\ map["genasm"] # << >> <=> \E k \in Own : k < n /\ Flag(argv[k])
      /\ wrong <=> \E k \in Own : k < n /\ Refused(argv[k])
  <2>1. /\ help <=> parsedHelp \/ IsHelp(argv[i])
        /\ map["genasm"] # << >> <=> argMap["genasm"] # << >> \/ Flag(argv[i])
        /\ wrong <=> errors \/ Refused(argv[i])
    BY DEF Turns, arg
  <2>2. help <=> \E k \in Own : k < n /\ IsHelp(argv[k])
    BY <1>1, <1>7, <2>1 DEF Known
  <2>3. map["genasm"] # << >> <=> \E k \in Own : k < n /\ Flag(argv[k])
    BY <1>1, <1>7, <2>1 DEF Known
  <2>4. wrong <=> \E k \in Own : k < n /\ Refused(argv[k])
    BY <1>1, <1>7, <2>1 DEF Known
  <2> QED BY <2>2, <2>3, <2>4
<1>9. \A k \in Own : k < n => ~(k = Len(argv) /\ TakesNext(argv[k]))
  BY <1>1, <1>3, <1>7 DEF Known
<1>10. /\ Files \in SUBSET Nat /\ Targets \in SUBSET Nat
       /\ Files = {k \in Own : argv[k].dash = ""}
       /\ Targets = {k \in Own : Target(argv[k])}
  BY Here DEF Files, Targets, Target
<1>11. Begun(map["target"], Targets, Given, n)
  <2>1. CASE Target(arg)
    <3>1. /\ i \in Targets /\ map["target"] = Append(argMap["target"], Given[i])
      BY <1>1, <1>10, <2>1 DEF Turns, arg
    <3>2. Given[i] \in Split
      <4>1. CASE argv[i].eq
        <5>1. Given[i] = Word(argv[i].opt) /\ argv[i].opt \in Strings
          BY <1>1, <4>1, Here DEF Given, Split
        <5> QED BY <5>1, WordIs
      <4>2. CASE ~argv[i].eq
        <5>1. TakesNext(argv[i])
          BY <2>1, <4>2, Kinds DEF arg
        <5>2. i + 1 \in 1..Len(argv)
          BY <1>1, <1>3, <5>1
        <5>3. Given[i] = argv[i + 1]
          BY <1>1, <4>2 DEF Given
        <5> QED BY <5>2, <5>3, Here
      <4> QED BY <4>1, <4>2
    <3>3. argMap["target"] \in Seq(Split)
      BY DEF Typed
    <3>4. Begun(argMap["target"], Targets, Given, i)
      BY <1>1 DEF Known
    <3>5. \A j \in Targets : j < n <=> j < i \/ j = i
      BY <1>7, <1>10
    <3> QED BY <1>3, <1>10, <3>1, <3>2, <3>3, <3>4, <3>5, BegunGrows
  <2>2. CASE ~Target(arg)
    <3>1. map["target"] = argMap["target"]
      BY <2>2 DEF Turns
    <3>2. Begun(argMap["target"], Targets, Given, i)
      BY <1>1 DEF Known
    <3>3. \A j \in Targets : j < n <=> j < i
      BY <1>7, <1>10, <2>2 DEF arg
    <3> QED BY <3>1, <3>2, <3>3, BegunStays
  <2> QED BY <2>1, <2>2
<1>12. Begun(direct, Files, argv, n)
  <2>1. CASE arg.dash = ""
    <3>1. i \in Files /\ direct = Append(dirArg, argv[i])
      BY <1>1, <1>10, <2>1 DEF Turns, arg
    <3>2. argv[i] \in Split /\ dirArg \in Seq(Split)
      BY <1>1, Here DEF Typed
    <3>3. Begun(dirArg, Files, argv, i)
      BY <1>1 DEF Known
    <3>4. \A j \in Files : j < n <=> j < i \/ j = i
      BY <1>7, <1>10
    <3> QED BY <1>3, <1>10, <3>1, <3>2, <3>3, <3>4, BegunGrows
  <2>2. CASE arg.dash # ""
    <3>1. direct = dirArg
      BY <2>2 DEF Turns
    <3>2. Begun(dirArg, Files, argv, i)
      BY <1>1 DEF Known
    <3>3. \A j \in Files : j < n <=> j < i
      BY <1>7, <1>10, <2>2 DEF arg
    <3> QED BY <3>1, <3>2, <3>3, BegunStays
  <2> QED BY <2>1, <2>2
<1>13. Known(n, help, map, direct, wrong)
  BY <1>8, <1>9, <1>11, <1>12 DEF Known
<1> QED BY <1>3, <1>6, <1>13

\* What the arguments say as a whole is the same before and after any step.
LEMMA KnownStays ==
    ASSUME argv' = argv, Known(i', parsedHelp', argMap', dirArg', errors')
    PROVE  Known(i, parsedHelp, argMap, dirArg, errors)'
<1>1. Own' = Own
  BY OwnStays
<1>2. Files' = Files /\ Targets' = Targets /\ Given' = Given
  BY <1>1 DEF Files, Targets, Given
<1> QED BY <1>1, <1>2 DEF Known

LEMMA AskedStays ==
    ASSUME argv' = argv
    PROVE  /\ Files' = Files /\ TheFile' = TheFile
           /\ AsksHelp' <=> AsksHelp
           /\ AsksAsm' <=> AsksAsm
           /\ AsksMips' <=> AsksMips
           /\ Misread' <=> Misread
           /\ LacksValue' <=> LacksValue
<1>1. Own' = Own
  BY OwnStays
<1>2. Files' = Files /\ Targets' = Targets
  BY <1>1 DEF Files, Targets
<1>3. First(Files)' = First(Files) /\ First(Targets)' = First(Targets)
  BY <1>2 DEF First
<1>4. AskedTarget' = AskedTarget
  BY <1>3 DEF AskedTarget, Word
<1>5. TheFile' = TheFile
  BY <1>3 DEF TheFile
<1>6. (AsksHelp' <=> AsksHelp) /\ (AsksAsm' <=> AsksAsm)
  BY <1>1 DEF AsksHelp, AsksAsm, IsHelp
<1>7. AsksMips' <=> AsksMips
  BY <1>2, <1>4 DEF AsksMips
<1>8. Misread' <=> Misread
  BY <1>1, <1>2, <1>4 DEF Misread, IsHelp
<1>9. LacksValue' <=> LacksValue
  BY <1>1 DEF LacksValue, TakesNext
<1> QED BY <1>2, <1>5, <1>6, <1>7, <1>8, <1>9

-----------------------------------------------------------------------------
(* The steps.                                                              *)

\* An option that is pushed is put behind what it was given before.
LEMMA Pushed ==
    ASSUME Typed, NEW n \in {"genasm", "target"}, NEW value \in Split,
           PushOption(n, value)
    PROVE  /\ argMap' \in [{"genasm", "target"} -> Seq(Split)]
           /\ argMap'[n] = Append(argMap[n], value)
           /\ argMap'[n] # << >>
           /\ \A m \in {"genasm", "target"} : m # n => argMap'[m] = argMap[m]
<1>1. argMap \in [{"genasm", "target"} -> Seq(Split)]
  BY DEF Typed
<1>2. argMap' = [argMap EXCEPT ![n] = Append(argMap[n], value)]
  BY DEF PushOption
<1>3. Append(argMap[n], value) \in Seq(Split) /\ Append(argMap[n], value) # << >>
  BY <1>1, AppendProperties, EmptySeq
<1> QED BY <1>1, <1>2, <1>3

\* What the argument is when it is registered.
LEMMA Registered ==
    ASSUME IsRegistered(arg)
    PROVE  /\ arg.dash # "" /\ ~IsHelp(arg)
           /\ \/ arg.name = "genasm" /\ regArgMap[arg.name] = NoOption
              \/ arg.name = "target" /\ regArgMap[arg.name] = WithOption
           /\ NoOption # WithOption
<1>1. arg.dash # "" /\ ~IsHelp(arg) /\ arg.name \in {"genasm", "target"}
  BY Options DEF IsRegistered
<1>2. NoOption # WithOption
  BY Options
<1>3. CASE arg.name = "genasm"
  <2>1. regArgMap[arg.name] = NoOption
    BY <1>3, Options
  <2> QED BY <1>1, <1>2, <1>3, <2>1
<1>4. CASE arg.name = "target"
  <2>1. regArgMap[arg.name] = WithOption
    BY <1>4, Options
  <2> QED BY <1>1, <1>2, <1>4, <2>1
<1> QED BY <1>1, <1>3, <1>4

LEMMA ArgIs ==
    ASSUME Typed, Scanning
    PROVE  /\ i \in 1..Len(argv) /\ Len(argv) \in Nat
           /\ arg = argv[i] /\ arg \in Split /\ arg.opt \in Strings
           /\ i + 1 \in Nat \ {0} /\ i + 2 \in Nat \ {0}
           /\ i # Len(argv) => i + 1 \in 1..Len(argv) /\ i < Len(argv)
<1>1. i \in 1..Len(argv) /\ Len(argv) \in Nat
  BY Here DEF Scanning, Typed
<1>2. argv[i] \in Split
  BY <1>1, Here
<1> QED BY <1>1, <1>2 DEF arg, Split

LEMMA GivenIs ==
    ASSUME Typed, Scanning
    PROVE  Given[i] = IF arg.eq THEN Word(arg.opt) ELSE argv[i + 1]
<1>1. i \in DOMAIN argv
  BY ArgIs, Here
<1> QED BY <1>1 DEF Given, arg

LEMMA LoopStep ==
    ASSUME Heard, Scanning, Typed', OnlyArguments, UNCHANGED phase,
           Turns(i', parsedHelp', argMap', dirArg', errors')
    PROVE  Heard'
<1>1. argv' = argv /\ written' = written /\ phase' = "parse"
  BY DEF OnlyArguments, Scanning
<1>2. /\ i' <= Len(argv) + 1
      /\ i' \in DOMAIN argv => i' \in Own
      /\ Known(i', parsedHelp', argMap', dirArg', errors')
  BY Turn DEF Heard
<1>3. Known(i, parsedHelp, argMap, dirArg, errors)' /\ Own' = Own
  BY <1>1, <1>2, KnownStays, OwnStays
<1>4. InLoop'
  BY <1>1, <1>2, <1>3 DEF Heard, InLoop, Scanning
<1>5. Understood' /\ CommandHonoured'
  BY <1>1 DEF Understood, CommandHonoured
<1> QED BY <1>4, <1>5 DEF Heard

LEMMA HelpStep ==
    ASSUME Heard, TakeHelp
    PROVE  Heard'
<1>1. /\ Scanning /\ OnlyArguments /\ UNCHANGED phase
      /\ i' = i + 1 /\ parsedHelp' = TRUE
      /\ argMap' = argMap /\ dirArg' = dirArg /\ errors' = errors
      /\ IsHelp(arg)
  BY DEF TakeHelp, options
<1>2. Typed'
  BY <1>1, ArgIs DEF Heard, Typed, OnlyArguments, chosen
<1>3. Turns(i', parsedHelp', argMap', dirArg', errors')
  BY <1>1, Kinds DEF Turns
<1> QED BY <1>1, <1>2, <1>3, LoopStep

LEMMA DirectStep ==
    ASSUME Heard, TakeDirect
    PROVE  Heard'
<1>1. /\ Scanning /\ OnlyArguments /\ UNCHANGED phase
      /\ i' = i + 1 /\ parsedHelp' = parsedHelp
      /\ argMap' = argMap /\ dirArg' = Append(dirArg, arg) /\ errors' = errors
      /\ arg.dash = ""
  BY DEF TakeDirect
<1>2. dirArg' \in Seq(Split)
  BY <1>1, ArgIs, AppendProperties DEF Heard, Typed
<1>3. Typed'
  BY <1>1, <1>2, ArgIs DEF Heard, Typed, OnlyArguments, chosen
<1>4. Turns(i', parsedHelp', argMap', dirArg', errors')
  BY <1>1, Kinds DEF Turns
<1> QED BY <1>1, <1>3, <1>4, LoopStep

LEMMA RejectStep ==
    ASSUME Heard, Reject
    PROVE  Heard'
<1>1. /\ Scanning /\ OnlyArguments /\ UNCHANGED phase
      /\ i' = i + 1 /\ parsedHelp' = parsedHelp
      /\ argMap' = argMap /\ dirArg' = dirArg /\ errors' = TRUE
      /\ arg.dash # "" /\ ~IsHelp(arg)
      /\ IsRegistered(arg) => arg.eq /\ regArgMap[arg.name] = NoOption
  BY DEF Reject, options
<1>2. Typed'
  BY <1>1, ArgIs DEF Heard, Typed, OnlyArguments, chosen
<1>3. Refused(arg)
  <2>1. CASE IsRegistered(arg)
    BY <1>1, <2>1, Registered DEF Refused
  <2>2. CASE ~IsRegistered(arg)
    BY <1>1, <2>2, Options DEF Refused, IsRegistered
  <2> QED BY <2>1, <2>2
<1>4. Turns(i', parsedHelp', argMap', dirArg', errors')
  BY <1>1, <1>3, Kinds DEF Turns
<1> QED BY <1>1, <1>2, <1>4, LoopStep

LEMMA FlagStep ==
    ASSUME Heard, TakeFlag
    PROVE  Heard'
<1>1. /\ Scanning /\ OnlyArguments /\ UNCHANGED phase
      /\ i' = i + 1 /\ parsedHelp' = parsedHelp
      /\ dirArg' = dirArg /\ errors' = errors
      /\ IsRegistered(arg) /\ ~arg.eq /\ regArgMap[arg.name] = NoOption
      /\ PushOption(arg.name, Word(""))
  BY DEF TakeFlag
<1>2. arg.name = "genasm" /\ Flag(arg)
  BY <1>1, Registered DEF Flag
<1>3. Word("") \in Split
  BY WordIs DEF Strings
<1>4. /\ argMap' \in [{"genasm", "target"} -> Seq(Split)]
      /\ argMap'["genasm"] # << >>
      /\ argMap'["target"] = argMap["target"]
  BY <1>1, <1>2, <1>3, Pushed DEF Heard
<1>5. Typed'
  BY <1>1, <1>4, ArgIs DEF Heard, Typed, OnlyArguments, chosen
<1>6. Turns(i', parsedHelp', argMap', dirArg', errors')
  BY <1>1, <1>2, <1>4, Kinds DEF Turns
<1> QED BY <1>1, <1>5, <1>6, LoopStep

LEMMA AssignedStep ==
    ASSUME Heard, TakeAssigned
    PROVE  Heard'
<1>1. /\ Scanning /\ OnlyArguments /\ UNCHANGED phase
      /\ i' = i + 1 /\ parsedHelp' = parsedHelp
      /\ dirArg' = dirArg /\ errors' = errors
      /\ IsRegistered(arg) /\ arg.eq /\ regArgMap[arg.name] = WithOption
      /\ PushOption(arg.name, Word(arg.opt))
  BY DEF TakeAssigned
<1>2. arg.name = "target" /\ Target(arg)
  BY <1>1, Registered DEF Target
<1>3. Word(arg.opt) \in Split /\ Given[i] = Word(arg.opt)
  BY <1>1, ArgIs, GivenIs, WordIs DEF Heard
<1>4. /\ argMap' \in [{"genasm", "target"} -> Seq(Split)]
      /\ argMap'["target"] = Append(argMap["target"], Given[i])
      /\ argMap'["genasm"] = argMap["genasm"]
  BY <1>1, <1>2, <1>3, Pushed DEF Heard
<1>5. Typed'
  BY <1>1, <1>4, ArgIs DEF Heard, Typed, OnlyArguments, chosen
<1>6. Turns(i', parsedHelp', argMap', dirArg', errors')
  BY <1>1, <1>2, <1>4, Kinds DEF Turns
<1> QED BY <1>1, <1>5, <1>6, LoopStep

\* The last argument may lack its value: then the program is dead.
LEMMA NextStep ==
    ASSUME Heard, TakeNext
    PROVE  Heard'
<1>1. /\ Scanning /\ OnlyArguments
      /\ i' = i + 2 /\ parsedHelp' = parsedHelp
      /\ dirArg' = dirArg /\ errors' = errors
      /\ IsRegistered(arg) /\ ~arg.eq /\ regArgMap[arg.name] = WithOption
      /\ IF i = Len(argv)
         THEN phase' = "crashed" /\ argMap' = argMap
         ELSE PushOption(arg.name, argv[i + 1]) /\ UNCHANGED phase
  BY DEF TakeNext, Consumed
<1>2. arg.name = "target" /\ Target(arg) /\ TakesNext(arg)
  BY <1>1, Registered, Kinds DEF Target
<1>3. CASE i = Len(argv)
  <2>1. Typed'
    BY <1>1, <1>3, ArgIs DEF Heard, Typed, OnlyArguments, chosen
  <2>2. i \in Own
    BY <1>1, ArgIs, Here DEF Heard, InLoop, Scanning
  <2>3. LacksValue
    BY <1>2, <1>3, <2>2 DEF LacksValue, arg
  <2>4. LacksValue' /\ phase' = "crashed"
    BY <1>1, <1>3, <2>3, AskedStays DEF OnlyArguments
  <2> QED BY <2>1, <2>4 DEF Heard, InLoop, Understood, CommandHonoured
<1>4. CASE i # Len(argv)
  <2>1. i + 1 \in 1..Len(argv) /\ i < Len(argv)
    BY <1>1, <1>4, ArgIs DEF Heard
  <2>2. argv[i + 1] \in Split /\ Given[i] = argv[i + 1]
    BY <1>1, <2>1, Here, GivenIs DEF Heard
  <2>3. /\ argMap' \in [{"genasm", "target"} -> Seq(Split)]
        /\ argMap'["target"] = Append(argMap["target"], Given[i])
        /\ argMap'["genasm"] = argMap["genasm"]
    BY <1>1, <1>2, <1>4, <2>2, Pushed DEF Heard
  <2>4. Typed'
    BY <1>1, <2>3, ArgIs DEF Heard, Typed, OnlyArguments, chosen
  <2>5. Turns(i', parsedHelp', argMap', dirArg', errors')
    BY <1>1, <1>2, <2>1, <2>3, Kinds DEF Turns
  <2> QED BY <1>1, <1>4, <2>4, <2>5, LoopStep
<1> QED BY <1>3, <1>4

-----------------------------------------------------------------------------
(* When all is read.                                                       *)

\* The first target is what it is compared with: the value of the option.
LEMMA TargetAsked ==
    ASSUME Typed, ~LacksValue, Targets # {}, NEW x \in {"mips", "default"},
           NEW k \in Targets, \A j \in Targets : k <= j
    PROVE  Given[k] = Word(x) <=> AskedTarget = x
<1>1. First(Targets) = k
  BY Here, FirstOf
<1>2. AskedTarget = IF argv[k].eq THEN argv[k].opt
                    ELSE IF argv[k + 1] = Word(argv[k + 1].name)
                         THEN argv[k + 1].name ELSE "?"
  BY <1>1 DEF AskedTarget
<1>3. k \in Own /\ k \in 1..Len(argv) /\ Target(argv[k]) /\ k \in DOMAIN argv
  BY Here DEF Targets, Target
<1>4. Given[k] = IF argv[k].eq THEN Word(argv[k].opt) ELSE argv[k + 1]
  BY <1>3 DEF Given
<1>5. CASE argv[k].eq
  <2>1. argv[k].opt \in Strings /\ x \in Strings
    BY <1>3, Here DEF Split, Strings
  <2>2. Word(argv[k].opt).name = argv[k].opt /\ Word(x).name = x
    BY <2>1, WordIs
  <2> QED BY <1>2, <1>4, <1>5, <2>2
<1>6. CASE ~argv[k].eq
  <2>1. x \in Strings /\ x # "?"
    <3>1. CASE x = "mips"
      BY <3>1 DEF Strings
    <3>2. CASE x = "default"
      BY <3>2 DEF Strings
    <3> QED BY <3>1, <3>2
  <2>2. Word(x).name = x
    BY <2>1, WordIs
  <2>3. Given[k] = argv[k + 1]
    BY <1>4, <1>6
  <2>4. Given[k] = Word(x) => AskedTarget = x
    BY <1>2, <1>6, <2>2, <2>3
  <2>5. AskedTarget = x => Given[k] = Word(x)
    BY <1>2, <1>6, <2>1, <2>3
  <2> QED BY <2>4, <2>5
<1> QED BY <1>5, <1>6

LEMMA AllRead ==
    ASSUME Heard, phase = "parse", i > Len(argv)
    PROVE  /\ parsedHelp <=> AsksHelp
           /\ argMap["genasm"] # << >> <=> AsksAsm
           /\ dirArg = << >> <=> Files = {}
           /\ Files # {} => dirArg[1] = TheFile
           /\ ~LacksValue
           /\ argMap["target"] # << >> /\ argMap["target"][1] = Word("mips")
                  <=> AsksMips
           /\ Misread <=>
                  \/ errors
                  \/ /\ argMap["target"] # << >>
                     /\ argMap["target"][1] \notin {Word("mips"), Word("default")}
<1>1. Typed /\ Known(i, parsedHelp, argMap, dirArg, errors)
  BY DEF Heard, InLoop
<1>2. \A k \in Own : k < i
  <2>1. \A k \in Own : k \in 1..Len(argv) /\ i \in Nat
    BY <1>1, Here DEF Typed
  <2> QED BY <1>1, <2>1, Here
<1>3. parsedHelp <=> AsksHelp
  BY <1>1, <1>2 DEF Known, AsksHelp
<1>4. argMap["genasm"] # << >> <=> AsksAsm
  BY <1>1, <1>2 DEF Known, AsksAsm, Flag
<1>5. ~LacksValue
  BY <1>1, <1>2 DEF Known, LacksValue
<1>6. /\ Files \subseteq Own /\ Targets \subseteq Own
      /\ Files \in SUBSET Nat /\ Targets \in SUBSET Nat
  BY <1>1, Here DEF Files, Targets
<1>7. dirArg = << >> <=> Files = {}
  BY <1>1, <1>2, <1>6 DEF Known, Begun
<1>8. Files # {} => dirArg[1] = TheFile
  <2> SUFFICES ASSUME Files # {} PROVE dirArg[1] = TheFile
    OBVIOUS
  <2>1. PICK k \in Files : dirArg[1] = argv[k] /\ \A j \in Files : k <= j
    BY <1>1, <1>7 DEF Known, Begun
  <2>2. First(Files) = k
    BY <1>6, <2>1, FirstOf
  <2> QED BY <2>1, <2>2 DEF TheFile
<1>9. argMap["target"] # << >> <=> Targets # {}
  BY <1>1, <1>2, <1>6 DEF Known, Begun
<1>10. Targets # {} =>
           /\ argMap["target"][1] = Word("mips") <=> AskedTarget = "mips"
           /\ argMap["target"][1] = Word("default") <=> AskedTarget = "default"
  <2> SUFFICES ASSUME Targets # {}
               PROVE  \A x \in {"mips", "default"} :
                          argMap["target"][1] = Word(x) <=> AskedTarget = x
    OBVIOUS
  <2>1. PICK k \in Targets : /\ argMap["target"][1] = Given[k]
                              /\ \A j \in Targets : k <= j
    BY <1>1, <1>9 DEF Known, Begun
  <2> QED BY <1>1, <1>5, <2>1, TargetAsked
<1>11. argMap["target"] # << >> /\ argMap["target"][1] = Word("mips") <=> AsksMips
  BY <1>9, <1>10 DEF AsksMips
<1>12. errors <=> \E k \in Own : Refused(argv[k])
  BY <1>1, <1>2 DEF Known
<1>13. Misread <=> \/ \E k \in Own : Refused(argv[k])
                   \/ Targets # {} /\ AskedTarget \notin {"mips", "default"}
  BY DEF Misread, Refused
<1>14. Misread <=>
           \/ errors
           \/ /\ argMap["target"] # << >>
              /\ argMap["target"][1] \notin {Word("mips"), Word("default")}
  BY <1>9, <1>10, <1>12, <1>13
<1> QED BY <1>3, <1>4, <1>5, <1>7, <1>8, <1>11, <1>14

LEMMA OptionsStep ==
    ASSUME Heard, ReadOptions
    PROVE  Heard'
<1> DEFINE targets == argMap["target"]
<1>1. /\ phase = "parse" /\ i > Len(argv) /\ phase' = "main"
      /\ asm' = (argMap["genasm"] # << >>)
      /\ mips' = (targets # << >> /\ targets[1] = Word("mips"))
      /\ errors' = (errors \/ (targets # << >> /\
                        targets[1] \notin {Word("mips"), Word("default")}))
      /\ UNCHANGED <<argv, i, parsedHelp, argMap, dirArg, root, written>>
  BY DEF ReadOptions, options
<1>2. asm' \in BOOLEAN /\ mips' \in BOOLEAN /\ errors' \in BOOLEAN
  BY <1>1
<1>3. Typed'
  BY <1>1, <1>2 DEF Heard, Typed
<1>4. /\ parsedHelp' <=> AsksHelp
      /\ asm' <=> AsksAsm
      /\ mips' <=> AsksMips
      /\ errors' <=> Misread
      /\ dirArg' = << >> <=> Files = {}
      /\ Files # {} => dirArg'[1] = TheFile
      /\ ~LacksValue
  BY <1>1, AllRead
<1>5. written' = << >>
  BY <1>1 DEF Heard, InLoop
<1>6. Understood'
  BY <1>1, <1>4, <1>5, AskedStays DEF Understood
<1> QED BY <1>1, <1>3, <1>6 DEF Heard, InLoop, CommandHonoured

\* Before the first file is compiled.
LEMMA EarlyStep ==
    ASSUME Heard, ExitEarly \/ Parse
    PROVE  Heard'
<1>1. /\ phase = "main" /\ phase' \in {"success", "failure", "compile"}
      /\ phase' = "success" => parsedHelp
      /\ phase' = "failure" => ~parsedHelp /\ dirArg = << >>
      /\ phase' = "compile" => ~parsedHelp /\ dirArg # << >>
      /\ root' \in BOOLEAN
      /\ UNCHANGED <<argv, i, parsedHelp, argMap, dirArg, errors, asm, mips, written>>
  BY DEF ExitEarly, Parse, options, chosen, Heard, Typed
<1>2. Typed'
  BY <1>1 DEF Heard, Typed
<1>3. /\ parsedHelp <=> AsksHelp
      /\ asm <=> AsksAsm
      /\ mips <=> AsksMips
      /\ errors <=> Misread
      /\ dirArg = << >> <=> Files = {}
      /\ Files # {} => dirArg[1] = TheFile
      /\ ~LacksValue /\ written = << >>
  BY <1>1 DEF Heard, Understood
<1>4. Understood'
  BY <1>1, <1>3, AskedStays DEF Understood
<1>5. errors = Misread
  BY <1>3 DEF Heard, Typed, Misread
<1>6. errors' = Misread'
  BY <1>1, <1>3, <1>5, AskedStays DEF Typed, Misread
<1>7. CommandHonoured'
  BY <1>1, <1>3, <1>6, AskedStays DEF CommandHonoured
<1> QED BY <1>1, <1>2, <1>4, <1>7 DEF Heard, InLoop

\* GenerateModule and WriteModule: what is left of main.
LEMMA WriteSteps ==
    ASSUME Heard, GenerateModule \/ WriteModule
    PROVE  Heard'
<1>1. /\ phase \in {"compile", "write"}
      /\ UNCHANGED <<argv, i, parsedHelp, argMap, dirArg, errors, asm, mips, root>>
  BY DEF GenerateModule, WriteModule, options, chosen
<1>2. Typed'
  BY <1>1 DEF Heard, Typed
<1>3. /\ asm <=> AsksAsm
      /\ mips <=> AsksMips
      /\ errors <=> Misread
      /\ dirArg[1] = TheFile
      /\ parsedHelp <=> AsksHelp
      /\ dirArg = << >> <=> Files = {}
      /\ ~LacksValue /\ ~AsksHelp /\ Files # {}
      /\ phase = "write" => root /\ written = <<<<TheFile, "ll", "module">>>>
  BY <1>1 DEF Heard, Understood
<1>4. CASE GenerateModule
  <2>1. /\ written' = <<<<TheFile, "ll", IF root THEN "module" ELSE "empty">>>>
        /\ phase' = IF root THEN "write" ELSE "crashed"
        /\ phase = "compile"
    BY <1>3, <1>4 DEF GenerateModule
  <2>2. CommandHonoured'
    BY <1>1, <1>3, <2>1, AskedStays DEF CommandHonoured
  <2>3. Understood'
    BY <1>1, <1>3, <2>1, AskedStays DEF Understood
  <2> QED BY <1>2, <2>1, <2>2, <2>3 DEF Heard, InLoop
<1>5. CASE WriteModule
  <2> DEFINE file == <<TheFile, IF asm THEN "asm" ELSE "o",
                                IF mips THEN "mips" ELSE "host">>
             ll   == <<TheFile, "ll", "module">>
  <2>1. /\ phase' = "success" /\ phase = "write"
        /\ written' \in {<<ll, file>>, <<ll>>}
    <3>1. /\ phase' = "success" /\ phase = "write"
          /\ written' \in {Append(<<ll>>, file), <<ll>>}
      BY <1>3, <1>5 DEF WriteModule
    <3> QED BY <3>1
  <2>2. Head(written') = ll /\ ToSet(Tail(written')) \subseteq {file}
    <3>1. PICK a, b : a = ll /\ b = file
      OBVIOUS
    <3>2. /\ Head(<<a, b>>) = a /\ Tail(<<a, b>>) = <<b>>
          /\ Head(<<a>>) = a /\ Tail(<<a>>) = << >>
      OBVIOUS
    <3>3. ToSet(<<b>>) = {b} /\ ToSet(<< >>) = {}
      BY DEF ToSet
    <3> QED BY <2>1, <3>1, <3>2, <3>3
  <2>3. file = <<TheFile, IF AsksAsm THEN "asm" ELSE "o",
                          IF AsksMips THEN "mips" ELSE "host">>
    BY <1>3
  <2> HIDE DEF file, ll
  <2>4. errors = Misread
    BY <1>3 DEF Heard, Typed, Misread
  <2>5. errors' = Misread'
    BY <1>1, <2>4, AskedStays DEF Typed, Misread
  <2>6. CommandHonoured'
    BY <1>1, <1>3, <2>1, <2>2, <2>3, <2>5, AskedStays
       DEF CommandHonoured, ll, TheFile
  <2> QED BY <1>2, <2>1, <2>6 DEF Heard, InLoop, Understood
<1> QED BY <1>4, <1>5

-----------------------------------------------------------------------------
(* The invariant.                                                          *)

LEMMA HeardInit == Init => Heard
<1> SUFFICES ASSUME Init PROVE Heard
  OBVIOUS
<1>1. argv \in Seq(Split)
  <2>1. argv \in Seq(Arguments)
    BY MaxArgsIsNat DEF Init, BoundedSeq, SeqOf
  <2>2. Arguments \subseteq Split
    BY ArgumentsAreSplit DEF Split, Strings
  <2> QED BY <2>1, <2>2
<1>2. argMap = [n \in {"genasm", "target"} |-> << >>]
  BY Options DEF Init
<1>3. Typed
  <2>1. PICK none \in Seq(Split) : none = << >>
    BY EmptySeq
  <2>2. argMap \in [{"genasm", "target"} -> Seq(Split)]
    BY <1>2, <2>1
  <2>3. dirArg \in Seq(Split)
    BY <2>1 DEF Init
  <2>4. /\ parsedHelp = FALSE /\ errors = FALSE
        /\ asm = FALSE /\ mips = FALSE /\ root = FALSE
    BY DEF Init
  <2>5. i \in Nat \ {0}
    BY DEF Init
  <2> QED BY <1>1, <2>2, <2>3, <2>4, <2>5 DEF Typed
<1>4. \A k \in Own : ~(k < 1)
  BY <1>3, Here
<1>5. Files \subseteq Own /\ Targets \subseteq Own
  BY DEF Files, Targets
<1>6. 1 \in DOMAIN argv => 1 \in Own
  BY <1>3, Here
<1>7. Known(i, parsedHelp, argMap, dirArg, errors)
  BY <1>2, <1>4, <1>5 DEF Init, Known, Begun
<1>8. i <= Len(argv) + 1
  BY <1>3, Here DEF Init
<1>9. InLoop
  BY <1>6, <1>7, <1>8 DEF Init, InLoop
<1> QED BY <1>3, <1>9 DEF Heard, Init, Understood, CommandHonoured

LEMMA HeardStep == Heard /\ [Next]_vars => Heard'
<1> SUFFICES ASSUME Heard, [Next]_vars PROVE Heard'
  OBVIOUS
<1>1. CASE UNCHANGED vars
  <2>1. UNCHANGED <<argv, i, parsedHelp, argMap, dirArg, errors, asm, mips, root,
                    written, phase>>
    BY <1>1 DEF vars, options, chosen
  <2>2. Typed'
    BY <2>1 DEF Heard, Typed
  <2>3. InLoop'
    <3>1. Known(i, parsedHelp, argMap, dirArg, errors)
              => Known(i, parsedHelp, argMap, dirArg, errors)'
      BY <2>1, KnownStays
    <3>2. Own' = Own
      BY <2>1, OwnStays
    <3> QED BY <2>1, <3>1, <3>2 DEF Heard, InLoop
  <2>4. Understood'
    BY <2>1, AskedStays DEF Heard, Understood
  <2>5. errors = Misread => errors' = Misread'
    BY <2>1, AskedStays DEF Misread
  <2>6. CommandHonoured'
    BY <2>1, <2>5, AskedStays DEF Heard, CommandHonoured, TheFile
  <2> QED BY <2>2, <2>3, <2>4, <2>6 DEF Heard
<1>2. CASE Next
  BY <1>2, HelpStep, DirectStep, RejectStep, FlagStep, AssignedStep, NextStep,
     OptionsStep, EarlyStep, WriteSteps DEF Next
<1> QED BY <1>1, <1>2

\* The program does what the command line asks for, whatever its arguments are
\* and in whatever order they come: help alone, failure without a file, or the
\* first file compiled for the first target (parseArgs, main).
THEOREM CommandIsHonoured == Spec => []CommandHonoured
<1>1. Init => Heard
  BY HeardInit
<1>2. Heard /\ [Next]_vars => Heard'
  BY HeardStep
<1>3. Heard => CommandHonoured
  BY DEF Heard
<1> QED BY <1>1, <1>2, <1>3, PTL DEF Spec
=============================================================================
