------------------------ MODULE ParserScopesProofs -------------------------
(***************************************************************************)
(* Theorems about ParserScopes, for every number of scopes, parameters and *)
(* declarations and every set of names and function types.                 *)
(*                                                                         *)
(* All of them rest on Skeleton: besides the types, the stack of scopes is *)
(* never shorter than the stack of constructs (the parser may forget a pop *)
(* but never pops too much), and every construct but the first, the        *)
(* translation unit, has another one around it.  Without it the scopes     *)
(* FromTop(0) and FromTop(1), which registrations go to, need not exist.   *)
(*                                                                         *)
(* The first two parts are about ScopeStack alone: what registering a      *)
(* symbol does to the two containers of a scope, and what pushes, pops and *)
(* registrations preserve, whoever makes them.  The last parts need the    *)
(* order of the constructs: the scopes form one tree, a function           *)
(* definition is found again where it was announced, and, in programs      *)
(* without for loops and broken blocks, the parser implements              *)
(* LexicalScoping.                                                         *)
(***************************************************************************)
EXTENDS ParserScopes, SequenceTheorems, TLAPS

-----------------------------------------------------------------------------
(* The symbol table of one scope.                                          *)

\* An entry made of a kind, a type and a flag is one.
LEMMA EntryType ==
    ASSUME NEW kind \in Kinds, NEW ty \in Types, NEW def \in BOOLEAN
    PROVE  /\ Entry(kind, ty, def) \in Entries
           /\ Entry(kind, ty, def) # NoEntry
           /\ Entry(kind, ty, def).symEntTy = kind
           /\ Entry(kind, ty, def).type = ty
           /\ Entry(kind, ty, def).defined = def
BY NoEntryIsNone DEF Entry, Entries

\* The map of a scope stays one when a name gets an entry.
LEMMA MapWithType ==
    ASSUME NEW map \in SymbolMaps, NEW n \in IDs, NEW ent \in Entries
    PROVE  MapWith(map, n, ent) \in SymbolMaps
BY DEF MapWith, SymbolMaps

\* std::erase_if keeps the other items, in their order.
LEMMA ErasedType ==
    ASSUME NEW list \in Seq(ListItems), NEW n \in IDs
    PROVE  Erased(list, n) \in Seq(ListItems)
<1>1. CASE ~Occurs(list, n)
  BY <1>1 DEF Erased
<1>2. CASE Occurs(list, n)
  <2>1. Len(list) \in Nat \ {0}
    BY <1>2 DEF Occurs
  <2>2. \A at \in 1..Len(list) :
            [j \in 1..(Len(list) - 1) |-> IF j < at THEN list[j] ELSE list[j + 1]]
                \in Seq(ListItems)
    BY <2>1
  <2>3. PICK at \in 1..Len(list) :
            Erased(list, n) =
              [j \in 1..(Len(list) - 1) |-> IF j < at THEN list[j] ELSE list[j + 1]]
    BY <1>2 DEF Erased, Occurs
  <2> QED BY <2>2, <2>3
<1> QED BY <1>1, <1>2

\* When the list holds every name once, an erased name is gone from it, and
\* every other item has moved to one place of the result.
LEMMA ErasedItems ==
    ASSUME NEW list \in Seq(ListItems), NEW n \in IDs, Occurs(list, n),
           \A i, j \in 1..Len(list) : list[i].name = list[j].name => i = j
    PROVE  \E at \in 1..Len(list) :
               /\ list[at].name = n
               /\ Len(Erased(list, n)) = Len(list) - 1
               /\ \A j \in 1..(Len(list) - 1) :
                      Erased(list, n)[j] = IF j < at THEN list[j] ELSE list[j + 1]
<1> DEFINE at == CHOOSE i \in 1..Len(list) : list[i].name = n
<1>1. at \in 1..Len(list) /\ list[at].name = n
  BY DEF Occurs
<1>2. Erased(list, n) =
        [j \in 1..(Len(list) - 1) |-> IF j < at THEN list[j] ELSE list[j + 1]]
  BY DEF Erased
<1>3. Len(list) \in Nat \ {0}
  BY <1>1
<1> HIDE DEF at
<1>4. Len(Erased(list, n)) = Len(list) - 1
  BY <1>2, <1>3, ErasedType
<1> QED BY <1>1, <1>2, <1>4

\* registerSymbol updates the map and the list one after the other and leaves
\* them in agreement.
LEMMA RegisterKeepsAgreement ==
    ASSUME NEW map \in SymbolMaps, NEW list \in Seq(ListItems), Agree(map, list),
           NEW n \in IDs, NEW ent \in Entries
    PROVE  Agree(MapWith(map, n, ent), ListWith(list, n, ent))
<1> DEFINE er  == Erased(list, n)
           new == ListWith(list, n, ent)
           m2  == MapWith(map, n, ent)
<1>1. er \in Seq(ListItems)
  BY ErasedType
<1>2. /\ new = Append(er, [name |-> n, ent |-> ent])
      /\ Len(new) = Len(er) + 1
      /\ \A i \in 1..Len(er) : new[i] = er[i]
      /\ new[Len(er) + 1] = [name |-> n, ent |-> ent]
  BY <1>1 DEF ListWith
<1>3. /\ m2[n] = ent
      /\ \A k \in IDs : k # n => m2[k] = map[k]
  BY DEF MapWith, SymbolMaps
<1>4. \A i \in 1..Len(list) : list[i].name \in IDs
  <2>1. \A i \in 1..Len(list) : list[i] \in ListItems
    OBVIOUS
  <2>2. \A it \in ListItems : it.name \in IDs
    BY DEF ListItems
  <2> QED BY <2>1, <2>2
<1>5. /\ \A i \in 1..Len(er) : /\ er[i].name \in IDs \ {n}
                               /\ map[er[i].name] = er[i].ent
      /\ \A i, j \in 1..Len(er) : er[i].name = er[j].name => i = j
      /\ \A k \in IDs \ {n} : Occurs(list, k) => Occurs(er, k)
  <2>1. CASE ~Occurs(list, n)
    BY <2>1, <1>4 DEF Erased, Agree, Occurs
  <2>2. CASE Occurs(list, n)
    <3>1. PICK at \in 1..Len(list) :
               /\ list[at].name = n
               /\ Len(er) = Len(list) - 1
               /\ \A j \in 1..(Len(list) - 1) :
                      er[j] = IF j < at THEN list[j] ELSE list[j + 1]
      BY <2>2, ErasedItems DEF Agree
    <3>2. Len(list) \in Nat
      OBVIOUS
    <3> HIDE DEF er
    <3>3. \A i \in 1..Len(er) :
              \E k \in 1..Len(list) : /\ k # at
                                      /\ er[i] = list[k]
                                      /\ k = IF i < at THEN i ELSE i + 1
      BY <3>1, <3>2
    <3>4. \A k \in 1..Len(list) : k # at => \E i \in 1..Len(er) : er[i] = list[k]
      <4> TAKE k \in 1..Len(list)
      <4> HAVE k # at
      <4>1. CASE k < at
        BY <4>1, <3>1, <3>2
      <4>2. CASE k > at
        <5>1. k - 1 \in 1..Len(er) /\ er[k - 1] = list[k]
          BY <4>2, <3>1, <3>2
        <5> QED BY <5>1
      <4> QED BY <4>1, <4>2, <3>2
    <3>5. \A i \in 1..Len(er) : er[i].name \in IDs \ {n} /\ map[er[i].name] = er[i].ent
      BY <3>1, <3>3, <1>4 DEF Agree
    <3>6. \A i, j \in 1..Len(er) : er[i].name = er[j].name => i = j
      BY <3>1, <3>2, <3>3 DEF Agree
    <3>7. \A k \in IDs \ {n} : Occurs(list, k) => Occurs(er, k)
      BY <3>1, <3>4 DEF Occurs
    <3> QED BY <3>5, <3>6, <3>7
  <2> QED BY <2>1, <2>2
<1>6. Len(er) \in Nat
  BY <1>1
<1> HIDE DEF er, new, m2
<1>7. \A k \in IDs : m2[k] # NoEntry => Occurs(new, k)
  <2> TAKE k \in IDs
  <2> HAVE m2[k] # NoEntry
  <2>1. CASE k = n
    BY <2>1, <1>2, <1>6 DEF Occurs
  <2>2. CASE k # n
    <3>1. Occurs(er, k)
      BY <2>2, <1>3, <1>5 DEF Agree
    <3> QED BY <3>1, <1>2, <1>6 DEF Occurs
  <2> QED BY <2>1, <2>2
<1>8. \A i \in 1..Len(new) : m2[new[i].name] = new[i].ent
  BY <1>2, <1>3, <1>5, <1>6
<1>9. \A i, j \in 1..Len(new) : new[i].name = new[j].name => i = j
  BY <1>2, <1>5, <1>6
<1> QED BY <1>7, <1>8, <1>9 DEF Agree, new, m2

-----------------------------------------------------------------------------
(* The stack of scopes.                                                    *)

\* What is left of a sequence without its last element.
LEMMA FrontOf ==
    ASSUME NEW S, NEW s \in Seq(S), s # << >>
    PROVE  /\ Len(s) \in Nat \ {0}
           /\ SubSeq(s, 1, Len(s) - 1) \in Seq(S)
           /\ Len(SubSeq(s, 1, Len(s) - 1)) = Len(s) - 1
           /\ \A i \in 1..(Len(s) - 1) : SubSeq(s, 1, Len(s) - 1)[i] = s[i]
           /\ s[Len(s)] \in S
<1>1. Len(s) \in Nat \ {0}
  BY EmptySeq
<1>2. \A i \in 1..Len(s) : s[i] \in S
  BY ElementOfSeq
<1> DEFINE m == Len(s) - 1
<1>3. m \in Nat /\ \A i \in 1..m : s[i] \in S
  BY <1>1, <1>2
<1> HIDE DEF m
<1>4. /\ SubSeq(s, 1, m) \in Seq(S)
      /\ Len(SubSeq(s, 1, m)) = IF 1 <= m THEN m - 1 + 1 ELSE 0
      /\ \A i \in 1..(m - 1 + 1) : SubSeq(s, 1, m)[i] = s[1 + i - 1]
  BY <1>3, SubSeqProperties
<1>5. /\ Len(SubSeq(s, 1, m)) = m
      /\ \A i \in 1..m : SubSeq(s, 1, m)[i] = s[i]
  BY <1>3, <1>4
<1> QED BY <1>1, <1>2, <1>4, <1>5 DEF m

\* A push keeps the types, and leaves the tables alone.
LEMMA PushNewType ==
    ASSUME ScopeTypeOK, PushNew, UNCHANGED tableVars
    PROVE  /\ ScopeTypeOK'
           /\ nCtx + 1 \in CtxIds
           /\ Len(contextStack') = Len(contextStack) + 1
<1> USE MaxCtxIsNat
<1>1. nCtx + 1 \in CtxIds
  BY DEF ScopeTypeOK, PushNew, CtxIds
<1>2. /\ contextStack' \in Seq(CtxIds)
      /\ Len(contextStack') = Len(contextStack) + 1
  BY <1>1 DEF ScopeTypeOK, PushNew
<1>3. /\ nCtx' \in 0..MaxCtx
      /\ depth' \in [CtxIds -> Nat]
      /\ parentContexts' \in [CtxIds -> Seq(CtxIds)]
  BY <1>1 DEF ScopeTypeOK, PushNew
<1>4. directChildren' \in [CtxIds -> Seq(CtxIds)]
  <2>1. CASE contextStack = << >>
    BY <2>1 DEF ScopeTypeOK, PushNew
  <2>2. CASE contextStack # << >>
    <3>1. Top \in CtxIds
      BY <2>2, FrontOf DEF ScopeTypeOK, Top, FromTop
    <3> DEFINE t == Top
    <3>2. directChildren' = [directChildren EXCEPT ![t] = Append(@, nCtx + 1)]
      BY <2>2 DEF PushNew
    <3>3. Append(directChildren[t], nCtx + 1) \in Seq(CtxIds)
      BY <1>1, <3>1 DEF ScopeTypeOK
    <3> HIDE DEF t
    <3> QED BY <3>2, <3>3 DEF ScopeTypeOK
  <2> QED BY <2>1, <2>2
<1>5. /\ symbolMap' \in [CtxIds -> SymbolMaps]
      /\ symbolList' \in [CtxIds -> Seq(ListItems)]
      /\ diagnosed' \subseteq CtxIds \X IDs
  BY DEF ScopeTypeOK, tableVars
<1> QED BY <1>1, <1>2, <1>3, <1>4, <1>5 DEF ScopeTypeOK

\* A pop keeps the types of everything but the tables, which it leaves to the
\* rest of the step.
LEMMA PopType ==
    ASSUME ScopeTypeOK, Pop
    PROVE  /\ nCtx' \in 0..MaxCtx
           /\ contextStack' \in Seq(CtxIds)
           /\ Len(contextStack) \in Nat \ {0}
           /\ Len(contextStack') = Len(contextStack) - 1
           /\ \A i \in 1..Len(contextStack') : contextStack'[i] = contextStack[i]
           /\ depth' \in [CtxIds -> Nat]
           /\ parentContexts' \in [CtxIds -> Seq(CtxIds)]
           /\ directChildren' \in [CtxIds -> Seq(CtxIds)]
<1>1. contextStack \in Seq(CtxIds) /\ contextStack # << >>
  BY DEF ScopeTypeOK, Pop
<1>2. contextStack' = SubSeq(contextStack, 1, Len(contextStack) - 1)
  BY DEF Pop, Popped
<1>3. /\ contextStack' \in Seq(CtxIds)
      /\ Len(contextStack) \in Nat \ {0}
      /\ Len(contextStack') = Len(contextStack) - 1
      /\ \A i \in 1..Len(contextStack') : contextStack'[i] = contextStack[i]
  BY <1>1, <1>2, FrontOf
<1> QED BY <1>3 DEF ScopeTypeOK, Pop

\* Whether it succeeds or is reported, a registration keeps the tables' types.
LEMMA TryRegisterType ==
    ASSUME ScopeTypeOK,
           NEW c \in CtxIds, NEW kind \in Kinds, NEW n \in IDs, NEW ty \in Types,
           NEW def \in BOOLEAN, TryRegister(c, kind, n, ty, def)
    PROVE  /\ symbolMap' \in [CtxIds -> SymbolMaps]
           /\ symbolList' \in [CtxIds -> Seq(ListItems)]
           /\ diagnosed' \subseteq CtxIds \X IDs
<1> DEFINE ent == Entry(kind, ty, def)
           m2  == MapWith(symbolMap[c], n, ent)
           l2  == ListWith(symbolList[c], n, ent)
<1>1. ent \in Entries
  BY EntryType
<1>2. m2 \in SymbolMaps
  BY <1>1, MapWithType DEF ScopeTypeOK
<1>3. l2 \in Seq(ListItems)
  <2>1. Erased(symbolList[c], n) \in Seq(ListItems)
    BY ErasedType DEF ScopeTypeOK
  <2>2. [name |-> n, ent |-> ent] \in ListItems
    BY <1>1 DEF ListItems
  <2> HIDE DEF ent
  <2> QED BY <2>1, <2>2 DEF ListWith
<1>4. CASE CanRegister(symbolMap[c], kind, n)
  <2>1. /\ symbolMap' = [symbolMap EXCEPT ![c] = m2]
        /\ symbolList' = [symbolList EXCEPT ![c] = l2]
        /\ diagnosed' = diagnosed
    BY <1>4 DEF TryRegister
  <2> HIDE DEF m2, l2
  <2> QED BY <2>1, <1>2, <1>3 DEF ScopeTypeOK
<1>5. CASE ~CanRegister(symbolMap[c], kind, n)
  BY <1>5 DEF TryRegister, ScopeTypeOK
<1> QED BY <1>4, <1>5

\* A registration keeps the two containers of every scope in agreement.
LEMMA TryRegisterAgrees ==
    ASSUME ScopeTypeOK, MapListAgree,
           NEW c \in CtxIds, NEW kind \in Kinds, NEW n \in IDs, NEW ty \in Types,
           NEW def \in BOOLEAN, TryRegister(c, kind, n, ty, def)
    PROVE  MapListAgree'
<1> DEFINE ent == Entry(kind, ty, def)
           m2  == MapWith(symbolMap[c], n, ent)
           l2  == ListWith(symbolList[c], n, ent)
<1>1. CASE CanRegister(symbolMap[c], kind, n)
  <2>1. /\ symbolMap' = [symbolMap EXCEPT ![c] = m2]
        /\ symbolList' = [symbolList EXCEPT ![c] = l2]
    BY <1>1 DEF TryRegister
  <2>2. Agree(m2, l2)
    <3>1. symbolMap[c] \in SymbolMaps /\ symbolList[c] \in Seq(ListItems)
      BY DEF ScopeTypeOK
    <3>2. Agree(symbolMap[c], symbolList[c])
      BY DEF MapListAgree
    <3> QED BY <3>1, <3>2, EntryType, RegisterKeepsAgreement
  <2> HIDE DEF m2, l2
  <2>3. \A d \in CtxIds : /\ symbolMap'[d] = IF d = c THEN m2 ELSE symbolMap[d]
                          /\ symbolList'[d] = IF d = c THEN l2 ELSE symbolList[d]
    BY <2>1 DEF ScopeTypeOK
  <2> QED BY <2>2, <2>3 DEF MapListAgree
<1>2. CASE ~CanRegister(symbolMap[c], kind, n)
  BY <1>2 DEF TryRegister, MapListAgree
<1> QED BY <1>1, <1>2

\* After a registration a name that had an entry still has one, of the same
\* kind, and the very same one if it was defined.
LEMMA TryRegisterRefines ==
    ASSUME ScopeTypeOK,
           NEW c \in CtxIds, NEW kind \in Kinds, NEW n \in IDs, NEW ty \in Types,
           NEW def \in BOOLEAN, TryRegister(c, kind, n, ty, def),
           NEW d \in CtxIds, NEW k \in IDs, symbolMap[d][k] # NoEntry
    PROVE  /\ symbolMap'[d][k] # NoEntry
           /\ symbolMap'[d][k].symEntTy = symbolMap[d][k].symEntTy
           /\ symbolMap[d][k].defined => symbolMap'[d][k] = symbolMap[d][k]
<1> DEFINE ent == Entry(kind, ty, def)
<1>1. CASE CanRegister(symbolMap[c], kind, n)
  <2>1. symbolMap' = [symbolMap EXCEPT ![c] = MapWith(symbolMap[c], n, ent)]
    BY <1>1 DEF TryRegister
  <2>2. ent # NoEntry /\ ent.symEntTy = kind
    BY EntryType
  <2> HIDE DEF ent
  <2>3. symbolMap'[d][k] = IF d = c /\ k = n THEN ent ELSE symbolMap[d][k]
    BY <2>1 DEF ScopeTypeOK, SymbolMaps, MapWith
  <2> QED BY <2>2, <2>3, <1>1 DEF CanRegister
<1>2. CASE ~CanRegister(symbolMap[c], kind, n)
  BY <1>2 DEF TryRegister
<1> QED BY <1>1, <1>2

\* A push puts a scope on the stack that knows what is below it.
LEMMA PushNewNests ==
    ASSUME ScopeTypeOK, ScopesNest, PushNew
    PROVE  ScopesNest'
<1> DEFINE s == contextStack
           m == Len(contextStack)
           c == nCtx + 1
<1>1. /\ s \in Seq(CtxIds) /\ m \in Nat /\ nCtx \in Nat /\ c \in CtxIds
      /\ c = nCtx + 1
  BY MaxCtxIsNat DEF ScopeTypeOK, PushNew, CtxIds
<1>2. /\ Len(contextStack') = m + 1
      /\ \A i \in 1..m : contextStack'[i] = s[i]
      /\ contextStack'[m + 1] = c
      /\ \A i \in 1..(m + 1) :
             SubSeq(contextStack', 1, i - 1) = SubSeq(s, 1, i - 1)
      /\ SubSeq(s, 1, m) = s
  BY <1>1 DEF PushNew
<1>3. /\ depth'[c] = m
      /\ parentContexts'[c] = s
      /\ \A d \in CtxIds \ {c} : /\ depth'[d] = depth[d]
                                 /\ parentContexts'[d] = parentContexts[d]
      /\ nCtx' = c
  BY <1>1 DEF ScopeTypeOK, PushNew
<1>4. \A i \in 1..m : s[i] \in CtxIds /\ s[i] <= nCtx /\ s[i] \in Nat
  <2>1. \A i \in 1..m : s[i] \in CtxIds
    BY <1>1
  <2>2. \A i \in 1..m : s[i] <= nCtx
    BY DEF ScopesNest
  <2> QED BY <2>1, <2>2 DEF CtxIds
<1>5. \A i \in 1..m : s[i] # c
  BY <1>1, <1>4
<1> HIDE DEF s, m, c
<1> SUFFICES ASSUME NEW i \in 1..(m + 1)
             PROVE  /\ contextStack'[i] <= nCtx'
                    /\ depth'[contextStack'[i]] = i - 1
                    /\ parentContexts'[contextStack'[i]] =
                           SubSeq(contextStack', 1, i - 1)
                    /\ \A j \in 1..(i - 1) : contextStack'[j] # contextStack'[i]
  BY <1>2 DEF ScopesNest
<1>6. CASE i = m + 1
  BY <1>6, <1>1, <1>2, <1>3, <1>4, <1>5 DEF CtxIds
<1>7. CASE i \in 1..m
  <2>1. /\ s[i] <= nCtx
        /\ depth[s[i]] = i - 1
        /\ parentContexts[s[i]] = SubSeq(s, 1, i - 1)
        /\ \A j \in 1..(i - 1) : s[j] # s[i]
    BY <1>7 DEF ScopesNest, s, m
  <2>2. contextStack'[i] = s[i] /\ s[i] \in CtxIds \ {c}
    BY <1>7, <1>2, <1>4, <1>5
  <2>3. \A j \in 1..(i - 1) : contextStack'[j] = s[j]
    BY <1>7, <1>1, <1>2
  <2> QED BY <2>1, <2>2, <2>3, <1>1, <1>2, <1>3, <1>4
<1> QED BY <1>1, <1>6, <1>7

\* A pop changes nothing for the scopes that stay open.
LEMMA PopNests ==
    ASSUME ScopeTypeOK, ScopesNest, Pop
    PROVE  ScopesNest'
<1> DEFINE s == contextStack
           m == Len(contextStack)
<1>1. s \in Seq(CtxIds) /\ m \in Nat \ {0}
  BY PopType DEF ScopeTypeOK
<1>2. /\ Len(contextStack') = m - 1
      /\ \A i \in 1..(m - 1) : contextStack'[i] = s[i]
  BY PopType
<1>3. \A i \in 1..(m - 1) : SubSeq(contextStack', 1, i - 1) = SubSeq(s, 1, i - 1)
  BY <1>1 DEF Pop, Popped
<1>4. nCtx' = nCtx /\ depth' = depth /\ parentContexts' = parentContexts
  BY DEF Pop
<1>5. ASSUME NEW i \in 1..(m - 1)
      PROVE  /\ s[i] <= nCtx
             /\ depth[s[i]] = i - 1
             /\ parentContexts[s[i]] = SubSeq(s, 1, i - 1)
             /\ \A j \in 1..(i - 1) : s[j] # s[i] /\ j \in 1..(m - 1)
  BY <1>1 DEF ScopesNest
<1> HIDE DEF s, m
<1> QED BY <1>2, <1>3, <1>4, <1>5 DEF ScopesNest

-----------------------------------------------------------------------------
(* The skeleton.                                                           *)

Skeleton ==
    /\ TypeOK
    /\ Len(constructs) <= Len(contextStack)
    /\ constructs # << >> => constructs[1].kind = "unit"
    /\ inProto => InnerIn({"decltr"})

-----------------------------------------------------------------------------
(* The stack of constructs.                                                *)

\* Opening a construct.
LEMMA OpenedShape ==
    ASSUME NEW cs \in Seq(Constructs), nCtx + 1 \in CtxIds,
           NEW kind \in ConstructKinds, NEW n \in IDs, NEW ty \in Types
    PROVE  LET new == Append(cs, OpenedAs(kind, n, ty))
           IN  /\ new \in Seq(Constructs)
               /\ Len(cs) \in Nat
               /\ Len(new) = Len(cs) + 1
               /\ \A i \in 1..Len(cs) : new[i] = cs[i]
               /\ new[Len(cs) + 1] = OpenedAs(kind, n, ty)
               /\ OpenedAs(kind, n, ty) \in Constructs
<1>1. OpenedAs(kind, n, ty) \in Constructs
  BY DEF OpenedAs, Constructs
<1> HIDE DEF OpenedAs, Constructs
<1> QED BY <1>1

\* The construct that stands for something that is not a function declarator.
LEMMA OpenedIs ==
    ASSUME NEW kind \in ConstructKinds
    PROVE  /\ Opened(kind) = OpenedAs(kind, NoName, ObjectType)
           /\ NoName \in IDs
           /\ ObjectType \in Types
BY DEF Opened, IDs, Types

\* The innermost construct, and what closing it leaves.
LEMMA ClosedShape ==
    ASSUME NEW cs \in Seq(Constructs), cs # << >>
    PROVE  /\ Len(cs) \in Nat \ {0}
           /\ cs[Len(cs)] \in Constructs
           /\ Closed(cs) \in Seq(Constructs)
           /\ Len(Closed(cs)) = Len(cs) - 1
           /\ \A i \in 1..(Len(cs) - 1) : Closed(cs)[i] = cs[i]
BY FrontOf DEF Closed

\* A statement that ends changes no construct but for its done mark.
LEMMA StmtParsedShape ==
    ASSUME NEW cs \in Seq(Constructs)
    PROVE  /\ StmtParsed(cs) \in Seq(Constructs)
           /\ Len(StmtParsed(cs)) = Len(cs)
           /\ Len(cs) \in Nat
           /\ \A i \in 1..Len(cs) : /\ StmtParsed(cs)[i].kind = cs[i].kind
                                    /\ StmtParsed(cs)[i].ctx = cs[i].ctx
                                    /\ StmtParsed(cs)[i].name = cs[i].name
                                    /\ StmtParsed(cs)[i].type = cs[i].type
<1>1. CASE ~(cs # << >> /\ cs[Len(cs)].kind \in {"for", "func"})
  BY <1>1 DEF StmtParsed
<1>2. CASE cs # << >> /\ cs[Len(cs)].kind \in {"for", "func"}
  <2>1. Len(cs) \in Nat \ {0} /\ cs[Len(cs)] \in Constructs
    BY <1>2, ClosedShape
  <2> DEFINE last == [cs[Len(cs)] EXCEPT !.done = TRUE]
  <2>2. /\ last \in Constructs
        /\ last.kind = cs[Len(cs)].kind
        /\ last.ctx = cs[Len(cs)].ctx
        /\ last.name = cs[Len(cs)].name
        /\ last.type = cs[Len(cs)].type
    BY <2>1 DEF Constructs
  <2>3. StmtParsed(cs) = [cs EXCEPT ![Len(cs)] = last]
    BY <1>2 DEF StmtParsed
  <2> HIDE DEF last
  <2> QED BY <2>1, <2>2, <2>3, ExceptSeq
<1> QED BY <1>1, <1>2

\* The declarator of a function turns into its definition.
LEMMA ToFuncShape ==
    ASSUME NEW cs \in Seq(Constructs), cs # << >>
    PROVE  LET new == [cs EXCEPT ![Len(cs)].kind = "func"]
           IN  /\ new \in Seq(Constructs)
               /\ Len(new) = Len(cs)
               /\ \A i \in 1..Len(cs) :
                      /\ new[i].ctx = cs[i].ctx
                      /\ i # Len(cs) => new[i] = cs[i]
               /\ new[Len(cs)].kind = "func"
               /\ new[Len(cs)].name = cs[Len(cs)].name
               /\ new[Len(cs)].type = cs[Len(cs)].type
<1>1. Len(cs) \in Nat \ {0} /\ cs[Len(cs)] \in Constructs
  BY ClosedShape
<1> DEFINE last == [cs[Len(cs)] EXCEPT !.kind = "func"]
<1>2. /\ last \in Constructs /\ last.kind = "func" /\ last.ctx = cs[Len(cs)].ctx
      /\ last.name = cs[Len(cs)].name /\ last.type = cs[Len(cs)].type
  BY <1>1 DEF Constructs, ConstructKinds
<1>3. [cs EXCEPT ![Len(cs)].kind = "func"] = [cs EXCEPT ![Len(cs)] = last]
  OBVIOUS
<1> HIDE DEF last
<1> QED BY <1>1, <1>2, <1>3, ExceptSeq

\* The scopes that are on the stack.
OpenScopes == {contextStack[i] : i \in 1..Len(contextStack)}

\* The scopes registrations go to exist: the top of the stack always, the one
\* below it when the innermost construct has another one around it.
LEMMA ScopesExist ==
    ASSUME Skeleton, constructs # << >>
    PROVE  /\ Len(constructs) \in Nat \ {0}
           /\ Len(contextStack) \in Nat \ {0}
           /\ Inner \in Constructs
           /\ Top \in CtxIds \cap OpenScopes
           /\ Inner.kind # "unit" => /\ Len(constructs) > 1
                                     /\ FromTop(1) \in CtxIds \cap OpenScopes
<1>1. /\ Len(constructs) \in Nat \ {0}
      /\ Inner \in Constructs
      /\ contextStack \in Seq(CtxIds)
  BY ClosedShape DEF Skeleton, TypeOK, ScopeTypeOK, Inner
<1>2. Len(contextStack) \in Nat /\ Len(contextStack) >= Len(constructs)
  BY <1>1 DEF Skeleton
<1>3. Top \in CtxIds \cap OpenScopes
  <2>1. Len(contextStack) \in 1..Len(contextStack)
    BY <1>1, <1>2
  <2>2. contextStack[Len(contextStack)] \in CtxIds
    BY <1>1, <2>1, ElementOfSeq
  <2> QED BY <2>1, <2>2, <1>2 DEF Top, FromTop, OpenScopes
<1>4. ASSUME Inner.kind # "unit"
      PROVE  Len(constructs) > 1 /\ FromTop(1) \in CtxIds \cap OpenScopes
  <2>1. Len(constructs) > 1
    BY <1>1, <1>4 DEF Skeleton, Inner
  <2>2. Len(contextStack) - 1 \in 1..Len(contextStack)
    BY <1>1, <1>2, <2>1
  <2> QED BY <1>1, <2>1, <2>2, ElementOfSeq DEF FromTop, OpenScopes
<1> QED BY <1>1, <1>2, <1>3, <1>4

-----------------------------------------------------------------------------
(* Skeleton is inductive.                                                  *)

\* What FuncProto's pop, registration and pushing again amount to: the
\* function is registered around the scope of the parameters, and the stack
\* and the tree of scopes are as before.
ProtoRegistered ==
    /\ inProto /\ inProto' = FALSE
    /\ params = << >>
    /\ TryRegister(FromTop(1), "Function", Inner.name, Inner.type, FALSE)
    /\ constructs' = [constructs EXCEPT ![Len(constructs)].kind = "func"]
    /\ UNCHANGED <<treeVars, params, outcomeVars, nDecls>>

LEMMA RegisterProtoDoes ==
    ASSUME Skeleton, RegisterProto
    PROVE  ProtoRegistered
<1> DEFINE below == Popped(contextStack)
           n     == Len(contextStack)
<1>1. constructs # << >> /\ Inner.kind = "decltr" /\ contextStack \in Seq(CtxIds)
  BY DEF RegisterProto, Skeleton, TypeOK, ScopeTypeOK, InnerIn
<1>2. n \in Nat /\ 1 < n
  BY <1>1, ScopesExist DEF Skeleton
<1>3. /\ below \in Seq(CtxIds)
      /\ Len(below) = n - 1
      /\ \A i \in 1..(n - 1) : below[i] = contextStack[i]
  BY <1>1, <1>2, FrontOf DEF Popped
<1>4. below[Len(below)] = FromTop(1)
  BY <1>2, <1>3 DEF FromTop
<1>5. Append(below, Top) = contextStack
  <2>1. Top \in CtxIds /\ Top = contextStack[n]
    BY <1>1, <1>2, ElementOfSeq DEF Top, FromTop
  <2>2. /\ Append(below, Top) \in Seq(CtxIds)
        /\ Len(Append(below, Top)) = n
        /\ \A i \in 1..(n - 1) : Append(below, Top)[i] = below[i]
        /\ Append(below, Top)[n] = Top
    BY <1>2, <1>3, <2>1, AppendProperties
  <2>3. \A i \in 1..n : Append(below, Top)[i] = contextStack[i]
    BY <1>2, <1>3, <2>1, <2>2
  <2> HIDE DEF below
  <2> QED BY <1>1, <2>2, <2>3, SeqEqual
<1>6. PushAgain(below, Top) /\ TryRegister(below[Len(below)], "Function", Inner.name, Inner.type, FALSE)
  BY DEF RegisterProto
<1>7. UNCHANGED treeVars
  BY <1>5, <1>6 DEF PushAgain, treeVars
<1> HIDE DEF below
<1> QED BY <1>4, <1>6, <1>7 DEF RegisterProto, ProtoRegistered

\* What every action that opens a construct and pushes its scope does.
LEMMA OpenStep ==
    ASSUME Skeleton, PushNew, UNCHANGED tableVars,
           NEW kind \in ConstructKinds, NEW n \in IDs, NEW ty \in Types,
           constructs' = Append(constructs, OpenedAs(kind, n, ty)),
           constructs = << >> => kind = "unit"
    PROVE  /\ ScopeTypeOK'
           /\ constructs' \in Seq(Constructs)
           /\ Len(constructs') <= Len(contextStack')
           /\ constructs' # << >> => constructs'[1].kind = "unit"
<1>1. /\ ScopeTypeOK'
      /\ nCtx + 1 \in CtxIds
      /\ Len(contextStack') = Len(contextStack) + 1
  BY PushNewType DEF Skeleton, TypeOK
<1>2. constructs \in Seq(Constructs)
  BY DEF Skeleton, TypeOK
<1>3. /\ constructs' \in Seq(Constructs)
      /\ Len(constructs) \in Nat
      /\ Len(constructs') = Len(constructs) + 1
      /\ \A i \in 1..Len(constructs) : constructs'[i] = constructs[i]
      /\ constructs'[Len(constructs) + 1] = OpenedAs(kind, n, ty)
  BY <1>1, <1>2, OpenedShape
<1>4. Len(contextStack) \in Nat
  BY DEF Skeleton, TypeOK, ScopeTypeOK
<1>5. constructs'[1].kind = "unit"
  <2>1. CASE constructs = << >>
    BY <2>1, <1>3 DEF OpenedAs
  <2>2. CASE constructs # << >>
    <3>1. 1 \in 1..Len(constructs)
      BY <2>2, <1>2, EmptySeq
    <3> QED BY <2>2, <3>1, <1>3 DEF Skeleton
  <2> QED BY <2>1, <2>2
<1> QED BY <1>1, <1>3, <1>4, <1>5 DEF Skeleton

\* What every action does that closes a construct, whether it pops or not.
LEMMA CloseStep ==
    ASSUME Skeleton, constructs # << >>,
           \/ constructs' = Closed(constructs)
           \/ constructs' = StmtParsed(Closed(constructs)),
           Pop \/ UNCHANGED treeVars
    PROVE  /\ nCtx' \in 0..MaxCtx
           /\ contextStack' \in Seq(CtxIds)
           /\ depth' \in [CtxIds -> Nat]
           /\ parentContexts' \in [CtxIds -> Seq(CtxIds)]
           /\ directChildren' \in [CtxIds -> Seq(CtxIds)]
           /\ constructs' \in Seq(Constructs)
           /\ Len(constructs') <= Len(contextStack')
           /\ constructs' # << >> => constructs'[1].kind = "unit"
<1>1. /\ constructs \in Seq(Constructs)
      /\ ScopeTypeOK
      /\ Len(constructs) <= Len(contextStack)
      /\ constructs[1].kind = "unit"
  BY DEF Skeleton, TypeOK
<1>2. /\ Len(constructs) \in Nat \ {0}
      /\ Closed(constructs) \in Seq(Constructs)
      /\ Len(Closed(constructs)) = Len(constructs) - 1
      /\ \A i \in 1..(Len(constructs) - 1) : Closed(constructs)[i] = constructs[i]
  BY <1>1, ClosedShape
<1>3. /\ constructs' \in Seq(Constructs)
      /\ Len(constructs') = Len(constructs) - 1
      /\ \A i \in 1..(Len(constructs) - 1) :
             constructs'[i].kind = constructs[i].kind
  BY <1>2, StmtParsedShape
<1>4. constructs' # << >> => constructs'[1].kind = "unit"
  <2> HAVE constructs' # << >>
  <2>1. 1 \in 1..(Len(constructs) - 1)
    BY <1>2, <1>3, EmptySeq
  <2> QED BY <1>1, <1>3, <2>1
<1>5. CASE Pop
  <2>1. /\ nCtx' \in 0..MaxCtx
        /\ contextStack' \in Seq(CtxIds)
        /\ Len(contextStack) \in Nat \ {0}
        /\ Len(contextStack') = Len(contextStack) - 1
        /\ depth' \in [CtxIds -> Nat]
        /\ parentContexts' \in [CtxIds -> Seq(CtxIds)]
        /\ directChildren' \in [CtxIds -> Seq(CtxIds)]
    BY <1>1, <1>5, PopType
  <2> QED BY <2>1, <1>1, <1>2, <1>3, <1>4
<1>6. CASE UNCHANGED treeVars
  <2>1. Len(contextStack) \in Nat
    BY <1>1 DEF ScopeTypeOK
  <2> QED BY <2>1, <1>1, <1>2, <1>3, <1>4, <1>6 DEF treeVars, ScopeTypeOK
<1> QED BY <1>5, <1>6

\* The initial state has the skeleton.
LEMMA SkeletonInit == Init => Skeleton
<1> SUFFICES ASSUME Init PROVE Skeleton
  OBVIOUS
<1> USE DEF Init, ScopeInit
<1>1. ScopeTypeOK
  BY MaxCtxIsNat DEF ScopeTypeOK, SymbolMaps, EmptyMap
<1>2. Len(constructs) <= Len(contextStack)
  OBVIOUS
<1>3. constructs \in Seq(Constructs) /\ params \in Seq(Names)
  OBVIOUS
<1>4. unitScope \in 0..MaxCtx /\ nDecls \in 0..MaxDecls
  BY BoundsAreNat, MaxCtxIsNat
<1>5. inProto \in BOOLEAN /\ ~inProto
  OBVIOUS
<1>6. /\ namedStructTypes \subseteq Names
      /\ status \in {"parsing", "accepted", "terminated", "aborted"}
      /\ constructs = << >>
  OBVIOUS
<1> QED BY <1>1, <1>2, <1>3, <1>4, <1>5, <1>6 DEF Skeleton, TypeOK

\* Every step keeps it.
LEMMA SkeletonStep == Skeleton /\ [Next]_vars => Skeleton'
<1> SUFFICES ASSUME Skeleton, [Next]_vars PROVE Skeleton'
  OBVIOUS
<1> USE BoundsAreNat
<1>t. /\ TypeOK /\ ScopeTypeOK
      /\ constructs \in Seq(Constructs)
      /\ Len(constructs) <= Len(contextStack)
      /\ constructs # << >> => constructs[1].kind = "unit"
      /\ inProto => InnerIn({"decltr"})
  BY DEF Skeleton, TypeOK
<1> DEFINE OtherTypes ==
               /\ params' \in Seq(Names)
               /\ inProto' \in BOOLEAN
               /\ namedStructTypes' \subseteq Names
               /\ unitScope' \in 0..MaxCtx
               /\ nDecls' \in 0..MaxDecls
               /\ status' \in {"parsing", "accepted", "terminated", "aborted"}
<1>s. ASSUME ScopeTypeOK', constructs' \in Seq(Constructs), OtherTypes,
             Len(constructs') <= Len(contextStack'),
             constructs' # << >> => constructs'[1].kind = "unit",
             ~inProto'
      PROVE  Skeleton'
  BY <1>s DEF Skeleton, TypeOK
<1>p. Parsing => ~inProto
  BY DEF Parsing
<1>1. CASE BeginParseRoot
  <2>1. constructs' = Append(constructs, Opened("unit"))
    BY <1>1 DEF BeginParseRoot
  <2>2. /\ ScopeTypeOK'
        /\ constructs' \in Seq(Constructs)
        /\ Len(constructs') <= Len(contextStack')
        /\ constructs' # << >> => constructs'[1].kind = "unit"
    BY <1>1, <2>1, OpenStep, OpenedIs DEF BeginParseRoot, ConstructKinds
  <2>3. OtherTypes /\ ~inProto'
    BY <1>t, <1>1, <1>p DEF BeginParseRoot, protoVars, outcomeVars, TypeOK
  <2> QED BY <1>s, <2>2, <2>3
<1>2. CASE EndParseRoot
  <2>1. constructs # << >>
    BY <1>2 DEF EndParseRoot, InnerIn
  <2>2. Top \in CtxIds
    BY <2>1, ScopesExist
  <2>3. ScopeTypeOK' /\ Len(contextStack') \in Nat
    <3>1. Pop /\ UNCHANGED tableVars
      BY <1>2 DEF EndParseRoot
    <3>2. /\ nCtx' \in 0..MaxCtx
          /\ contextStack' \in Seq(CtxIds)
          /\ depth' \in [CtxIds -> Nat]
          /\ parentContexts' \in [CtxIds -> Seq(CtxIds)]
          /\ directChildren' \in [CtxIds -> Seq(CtxIds)]
      BY <1>t, <3>1, PopType
    <3>3. Len(contextStack') \in Nat
      BY <3>2, LenProperties
    <3>4. UNCHANGED symbolMap /\ UNCHANGED symbolList /\ UNCHANGED diagnosed
      BY <3>1 DEF tableVars
    <3> QED BY <1>t, <3>2, <3>3, <3>4 DEF ScopeTypeOK
  <2>4. OtherTypes /\ ~inProto'
    BY <1>t, <1>2, <1>p, <2>2, MaxCtxIsNat
       DEF EndParseRoot, protoVars, TypeOK, CtxIds
  <2>5. constructs' = << >>
    BY <1>2 DEF EndParseRoot
  <2> QED BY <1>s, <2>3, <2>4, <2>5
<1>3. CASE BeginStruct
  <2>1. /\ ScopeTypeOK'
        /\ constructs' \in Seq(Constructs)
        /\ Len(constructs') <= Len(contextStack')
        /\ constructs' # << >> => constructs'[1].kind = "unit"
    BY <1>t, <1>3, OpenStep, OpenedIs
       DEF BeginStruct, ConstructKinds, AtDeclaration, AtStatement, InnerIn
  <2>2. OtherTypes /\ ~inProto'
    BY <1>t, <1>3, <1>p DEF BeginStruct, protoVars, outcomeVars, CountDecl, TypeOK
  <2> QED BY <1>s, <2>1, <2>2
<1>4. ASSUME NEW n \in Names, DeclareMember(n) PROVE Skeleton'
  <2>1. constructs # << >> /\ Top \in CtxIds
    BY <1>4, ScopesExist DEF DeclareMember, InnerIn
  <2>2. ScopeTypeOK'
    BY <1>t, <1>4, <2>1, TryRegisterType
       DEF DeclareMember, ScopeTypeOK, treeVars, Kinds, Types, IDs
  <2>3. OtherTypes /\ ~inProto'
    BY <1>t, <1>4, <1>p DEF DeclareMember, protoVars, outcomeVars, CountDecl, TypeOK
  <2> QED BY <1>t, <1>s, <1>4, <2>2, <2>3 DEF DeclareMember, treeVars
<1>5. ASSUME NEW kind \in {"StructDecl", "UnionDecl"}, NEW tag \in IDs,
             EndStruct(kind, tag)
      PROVE  Skeleton'
  <2>1. constructs # << >> /\ FromTop(1) \in CtxIds
    BY <1>5, ScopesExist DEF EndStruct, InnerIn
  <2>2. /\ symbolMap' \in [CtxIds -> SymbolMaps]
        /\ symbolList' \in [CtxIds -> Seq(ListItems)]
        /\ diagnosed' \subseteq CtxIds \X IDs
        /\ status' \in {"parsing", "aborted"}
        /\ namedStructTypes' \subseteq Names
    <3>1. CASE tag \in namedStructTypes
      BY <1>t, <1>5, <3>1 DEF EndStruct, tableVars, ScopeTypeOK, TypeOK
    <3>2. CASE tag \notin namedStructTypes
      <4>1. /\ TryRegister(FromTop(1), kind, tag, ObjectType, TRUE)
            /\ status' = "parsing"
            /\ namedStructTypes' = namedStructTypes \cup ({tag} \ {NoName})
        BY <1>5, <3>2 DEF EndStruct, Parsing
      <4>2. namedStructTypes' \subseteq Names
        BY <1>t, <4>1 DEF TypeOK, IDs
      <4>3. kind \in Kinds /\ ObjectType \in Types
        BY DEF Kinds, Types
      <4> QED BY <1>t, <2>1, <4>1, <4>2, <4>3, TryRegisterType
    <3> QED BY <3>1, <3>2
  <2>3. /\ ScopeTypeOK'
        /\ constructs' \in Seq(Constructs)
        /\ Len(constructs') <= Len(contextStack')
        /\ constructs' # << >> => constructs'[1].kind = "unit"
    BY <1>5, <2>1, <2>2, CloseStep DEF EndStruct, ScopeTypeOK
  <2>4. OtherTypes /\ ~inProto'
    BY <1>t, <1>5, <1>p, <2>2 DEF EndStruct, protoVars, TypeOK
  <2> QED BY <1>s, <2>3, <2>4
<1>6. ASSUME NEW n \in Names, DeclareVariable(n) PROVE Skeleton'
  <2>1. constructs # << >> /\ Top \in CtxIds
    BY <1>6, ScopesExist DEF DeclareVariable, AtDeclaration, InnerIn
  <2>2. ScopeTypeOK'
    BY <1>t, <1>6, <2>1, TryRegisterType
       DEF DeclareVariable, ScopeTypeOK, treeVars, Kinds, Types, IDs
  <2>3. OtherTypes /\ ~inProto'
    BY <1>t, <1>6, <1>p
       DEF DeclareVariable, protoVars, outcomeVars, CountDecl, TypeOK
  <2> QED BY <1>t, <1>s, <1>6, <2>2, <2>3 DEF DeclareVariable, treeVars
<1>7. ASSUME NEW n \in Names, NEW ty \in FunctionTypes, BeginFuncDecltr(n, ty)
      PROVE  Skeleton'
  <2>1. n \in IDs /\ ty \in Types /\ "decltr" \in ConstructKinds
    BY DEF IDs, Types, ConstructKinds
  <2>2. constructs # << >>
    BY <1>7 DEF BeginFuncDecltr, AtDeclaration, InnerIn
  <2>3. /\ ScopeTypeOK'
        /\ constructs' \in Seq(Constructs)
        /\ Len(constructs') <= Len(contextStack')
        /\ constructs' # << >> => constructs'[1].kind = "unit"
    BY <1>7, <2>1, <2>2, OpenStep DEF BeginFuncDecltr
  <2>4. OtherTypes /\ ~inProto'
    BY <1>t, <1>7, <1>p DEF BeginFuncDecltr, outcomeVars, CountDecl, TypeOK
  <2> QED BY <1>s, <2>3, <2>4
<1>8. ASSUME NEW n \in Names, ReadParam(n) PROVE Skeleton'
  <2>1. OtherTypes /\ ~inProto'
    BY <1>t, <1>8, <1>p DEF ReadParam, outcomeVars, CountDecl, TypeOK
  <2>2. ScopeTypeOK' /\ UNCHANGED <<constructs, contextStack>>
    BY <1>t, <1>8
       DEF ReadParam, ScopeTypeOK, scopeVars, treeVars, tableVars
  <2> QED BY <1>t, <1>s, <2>1, <2>2
<1>9. CASE DeclareFunction
  <2>1. constructs # << >> /\ Inner \in Constructs /\ FromTop(1) \in CtxIds
    BY <1>9, ScopesExist DEF DeclareFunction, InnerIn
  <2>2. /\ symbolMap' \in [CtxIds -> SymbolMaps]
        /\ symbolList' \in [CtxIds -> Seq(ListItems)]
        /\ diagnosed' \subseteq CtxIds \X IDs
    BY <1>t, <1>9, <2>1, TryRegisterType DEF DeclareFunction, Kinds, Constructs
  <2>3. /\ ScopeTypeOK'
        /\ constructs' \in Seq(Constructs)
        /\ Len(constructs') <= Len(contextStack')
        /\ constructs' # << >> => constructs'[1].kind = "unit"
    BY <1>9, <2>1, <2>2, CloseStep DEF DeclareFunction, ScopeTypeOK
  <2>4. OtherTypes /\ ~inProto'
    BY <1>t, <1>9, <1>p DEF DeclareFunction, outcomeVars, TypeOK
  <2> QED BY <1>s, <2>3, <2>4
<1>10. CASE BeginFuncProto
  <2>1. /\ constructs # << >> /\ Inner.kind = "decltr"
        /\ ~inProto /\ Len(constructs) > 1 /\ Len(constructs) \in Nat
    BY <1>10, <1>p, ScopesExist DEF BeginFuncProto, InnerIn
  <2>2. ScopeTypeOK' /\ contextStack' = contextStack
    BY <1>t, <1>10 DEF BeginFuncProto, scopeVars, treeVars, tableVars, ScopeTypeOK
  <2>3. CASE IsSymDefined(symbolMap[Top], "Function", Inner.name)
    <3>1. constructs' = [constructs EXCEPT ![Len(constructs)].kind = "func"]
      BY <1>10, <2>3 DEF BeginFuncProto
    <3>2. /\ constructs' \in Seq(Constructs)
          /\ Len(constructs') = Len(constructs)
          /\ constructs'[1] = constructs[1]
      BY <1>t, <2>1, <3>1, ToFuncShape
    <3>3. OtherTypes /\ ~inProto'
      BY <1>t, <1>10, <2>1, <2>3 DEF BeginFuncProto, outcomeVars, TypeOK
    <3> QED BY <1>t, <1>s, <2>1, <2>2, <3>2, <3>3
  <2>4. CASE ~IsSymDefined(symbolMap[Top], "Function", Inner.name)
    <3>1. constructs' = constructs /\ inProto' = TRUE
      BY <1>10, <2>4 DEF BeginFuncProto
    <3>2. InnerIn({"decltr"})'
      BY <2>1, <3>1 DEF InnerIn, Inner
    <3>3. OtherTypes
      BY <1>t, <1>10, <3>1 DEF BeginFuncProto, outcomeVars, TypeOK
    <3> QED BY <1>t, <2>2, <3>1, <3>2, <3>3 DEF Skeleton, TypeOK
  <2> QED BY <2>3, <2>4
<1>11. CASE RegisterParam
  <2>1. constructs # << >> /\ Top \in CtxIds
    BY <1>t, <1>11, ScopesExist DEF RegisterParam, InnerIn
  <2>2. Head(params) \in Names /\ Tail(params) \in Seq(Names)
    BY <1>t, <1>11, HeadTailProperties DEF RegisterParam, TypeOK
  <2>3. ScopeTypeOK'
    BY <1>t, <1>11, <2>1, <2>2, TryRegisterType
       DEF RegisterParam, ScopeTypeOK, treeVars, Kinds, Types, IDs
  <2>4. OtherTypes
    BY <1>t, <1>11, <2>2 DEF RegisterParam, outcomeVars, TypeOK
  <2>5. UNCHANGED <<constructs, contextStack, inProto>>
    BY <1>11 DEF RegisterParam, treeVars
  <2>6. inProto' => InnerIn({"decltr"})'
    BY <1>t, <2>5 DEF InnerIn, Inner
  <2> QED BY <1>t, <2>3, <2>4, <2>5, <2>6 DEF Skeleton, TypeOK
<1>12. CASE RegisterProto
  <2>0. ProtoRegistered
    BY <1>12, RegisterProtoDoes
  <2>1. /\ constructs # << >> /\ Inner \in Constructs /\ Inner.kind = "decltr"
        /\ Len(constructs) > 1 /\ Len(constructs) \in Nat
        /\ FromTop(1) \in CtxIds
    BY <1>t, <1>12, ScopesExist DEF RegisterProto, InnerIn
  <2>2. ScopeTypeOK' /\ contextStack' = contextStack
    BY <1>t, <2>0, <2>1, TryRegisterType
       DEF ProtoRegistered, ScopeTypeOK, treeVars, Kinds, Constructs
  <2>3. /\ constructs' \in Seq(Constructs)
        /\ Len(constructs') = Len(constructs)
        /\ constructs'[1] = constructs[1]
    BY <1>t, <2>0, <2>1, ToFuncShape DEF ProtoRegistered
  <2>4. OtherTypes /\ ~inProto'
    BY <1>t, <2>0 DEF ProtoRegistered, outcomeVars, TypeOK
  <2> QED BY <1>t, <1>s, <2>1, <2>2, <2>3, <2>4
<1>13. CASE EndFuncDef
  <2>1. constructs # << >> /\ Inner \in Constructs /\ FromTop(1) \in CtxIds
    BY <1>13, ScopesExist DEF EndFuncDef, InnerIn
  <2> DEFINE scope == FromTop(1)
             n     == Inner.name
             ty    == Inner.type
  <2>2. n \in IDs /\ ty \in Types /\ scope \in CtxIds
    BY <2>1 DEF Constructs
  <2>3. /\ \/ status' = "terminated" /\ UNCHANGED tableVars
           \/ TryRegister(scope, "Function", n, ty, TRUE) /\ UNCHANGED status
           \/ /\ diagnosed' = diagnosed \cup {<<scope, n>>}
              /\ UNCHANGED <<symbolMap, symbolList, status>>
        /\ UNCHANGED <<protoVars, namedStructTypes, unitScope, nDecls>>
    BY <1>13 DEF EndFuncDef
  <2> HIDE DEF scope, n, ty
  <2>4. /\ symbolMap' \in [CtxIds -> SymbolMaps]
        /\ symbolList' \in [CtxIds -> Seq(ListItems)]
        /\ diagnosed' \subseteq CtxIds \X IDs
        /\ status' \in {"parsing", "accepted", "terminated", "aborted"}
    <3>1. CASE status' = "terminated" /\ UNCHANGED tableVars
      BY <1>t, <3>1 DEF tableVars, ScopeTypeOK
    <3>2. CASE TryRegister(scope, "Function", n, ty, TRUE) /\ UNCHANGED status
      BY <1>t, <2>2, <3>2, TryRegisterType DEF Kinds, TypeOK
    <3>3. CASE /\ diagnosed' = diagnosed \cup {<<scope, n>>}
               /\ UNCHANGED <<symbolMap, symbolList, status>>
      BY <1>t, <2>2, <3>3 DEF ScopeTypeOK, TypeOK
    <3> QED BY <2>3, <3>1, <3>2, <3>3
  <2>5. /\ ScopeTypeOK'
        /\ constructs' \in Seq(Constructs)
        /\ Len(constructs') <= Len(contextStack')
        /\ constructs' # << >> => constructs'[1].kind = "unit"
    BY <1>13, <2>1, <2>4, CloseStep DEF EndFuncDef, ScopeTypeOK
  <2>6. OtherTypes /\ ~inProto'
    BY <1>t, <1>p, <1>13, <2>3, <2>4 DEF EndFuncDef, protoVars, TypeOK
  <2> QED BY <1>s, <2>5, <2>6
<1>14. CASE BeginCompStmt
  <2>1. /\ ScopeTypeOK'
        /\ constructs' \in Seq(Constructs)
        /\ Len(constructs') <= Len(contextStack')
        /\ constructs' # << >> => constructs'[1].kind = "unit"
    BY <1>14, OpenStep, OpenedIs DEF BeginCompStmt, ConstructKinds, AtDeclaration, AtStatement, InnerIn
  <2>2. OtherTypes /\ ~inProto'
    BY <1>t, <1>14, <1>p DEF BeginCompStmt, protoVars, outcomeVars, CountDecl, TypeOK
  <2> QED BY <1>s, <2>1, <2>2
<1>15. CASE EndCompStmt
  <2>1. constructs # << >>
    BY <1>15 DEF EndCompStmt, InnerIn
  <2>2. /\ ScopeTypeOK'
        /\ constructs' \in Seq(Constructs)
        /\ Len(constructs') <= Len(contextStack')
        /\ constructs' # << >> => constructs'[1].kind = "unit"
    BY <1>t, <1>15, <2>1, CloseStep
       DEF EndCompStmt, ScopeTypeOK, tableVars
  <2>3. OtherTypes /\ ~inProto'
    BY <1>t, <1>15, <1>p DEF EndCompStmt, protoVars, outcomeVars, TypeOK
  <2> QED BY <1>s, <2>2, <2>3
<1>16. CASE RecoverCompStmt
  <2>1. constructs # << >>
    BY <1>16 DEF RecoverCompStmt, InnerIn
  <2>2. /\ ScopeTypeOK'
        /\ constructs' \in Seq(Constructs)
        /\ Len(constructs') <= Len(contextStack')
        /\ constructs' # << >> => constructs'[1].kind = "unit"
    BY <1>t, <1>16, <2>1, CloseStep
       DEF RecoverCompStmt, ScopeTypeOK, tableVars, scopeVars
  <2>3. OtherTypes /\ ~inProto'
    BY <1>t, <1>16, <1>p DEF RecoverCompStmt, protoVars, outcomeVars, TypeOK
  <2> QED BY <1>s, <2>2, <2>3
<1>17. CASE BeginFor
  <2>1. /\ ScopeTypeOK'
        /\ constructs' \in Seq(Constructs)
        /\ Len(constructs') <= Len(contextStack')
        /\ constructs' # << >> => constructs'[1].kind = "unit"
    BY <1>17, OpenStep, OpenedIs DEF BeginFor, ConstructKinds, AtDeclaration, AtStatement, InnerIn
  <2>2. OtherTypes /\ ~inProto'
    BY <1>t, <1>17, <1>p DEF BeginFor, protoVars, outcomeVars, CountDecl, TypeOK
  <2> QED BY <1>s, <2>1, <2>2
<1>18. CASE SimpleForBody
  <2>1. constructs # << >> /\ constructs' = StmtParsed(constructs)
    BY <1>18 DEF SimpleForBody, InnerIn
  <2>2. 1 \in 1..Len(constructs)
    BY <1>t, <2>1, EmptySeq
  <2>3. /\ constructs' \in Seq(Constructs)
        /\ Len(constructs') = Len(constructs)
        /\ constructs'[1].kind = "unit"
    BY <1>t, <2>1, <2>2, StmtParsedShape
  <2>4. ScopeTypeOK' /\ contextStack' = contextStack
    BY <1>t, <1>18
       DEF SimpleForBody, scopeVars, treeVars, tableVars, ScopeTypeOK
  <2>5. OtherTypes /\ ~inProto'
    BY <1>t, <1>p, <1>18 DEF SimpleForBody, protoVars, outcomeVars, TypeOK
  <2> QED BY <1>t, <1>s, <2>3, <2>4, <2>5
<1>19. CASE EndFor
  <2>1. constructs # << >>
    BY <1>19 DEF EndFor, InnerIn
  <2>2. /\ ScopeTypeOK'
        /\ constructs' \in Seq(Constructs)
        /\ Len(constructs') <= Len(contextStack')
        /\ constructs' # << >> => constructs'[1].kind = "unit"
    BY <1>t, <1>19, <2>1, CloseStep
       DEF EndFor, ScopeTypeOK, tableVars, scopeVars
  <2>3. OtherTypes /\ ~inProto'
    BY <1>t, <1>19, <1>p DEF EndFor, protoVars, outcomeVars, TypeOK
  <2> QED BY <1>s, <2>2, <2>3
<1>20. CASE UNCHANGED vars
  BY <1>t, <1>20
     DEF vars, parserVars, protoVars, outcomeVars, scopeVars, treeVars, tableVars,
         Skeleton, TypeOK, ScopeTypeOK, InnerIn, Inner
<1> QED
  BY <1>1, <1>2, <1>3, <1>4, <1>5, <1>6, <1>7, <1>8, <1>9, <1>10, <1>11, <1>12,
     <1>13, <1>14, <1>15, <1>16, <1>17, <1>18, <1>19, <1>20
     DEF Next, Step, Finished

\* The skeleton holds in every reachable state.
THEOREM SkeletonInvariant == Spec => []Skeleton
BY SkeletonInit, SkeletonStep, PTL DEF Spec

\* Types: in particular every scope a registration or a lookup goes to exists,
\* although popContext() and operator[] check nothing.
THEOREM TypeCorrect == Spec => []TypeOK
<1>1. Skeleton => TypeOK
  BY DEF Skeleton
<1> QED BY <1>1, SkeletonInvariant, PTL

-----------------------------------------------------------------------------
(* The scopes and their tables.                                            *)

\* A step pushes a new scope, pops one or leaves the stack alone, as FuncProto
\* does on the whole, which pops a scope and pushes it again.
LEMMA TreeSteps ==
    ASSUME Skeleton, [Next]_vars
    PROVE  PushNew \/ Pop \/ UNCHANGED treeVars
<1> USE DEF vars, scopeVars
<1>1. CASE BeginParseRoot \/ BeginStruct \/ BeginCompStmt \/ BeginFor
  BY <1>1 DEF BeginParseRoot, BeginStruct, BeginCompStmt, BeginFor
<1>2. CASE \E n \in Names, ty \in FunctionTypes : BeginFuncDecltr(n, ty)
  BY <1>2 DEF BeginFuncDecltr
<1>3. CASE EndParseRoot \/ DeclareFunction \/ EndFuncDef \/ EndCompStmt
  BY <1>3 DEF EndParseRoot, DeclareFunction, EndFuncDef, EndCompStmt
<1>4. CASE \E kind \in {"StructDecl", "UnionDecl"}, tag \in IDs :
               EndStruct(kind, tag)
  BY <1>4 DEF EndStruct
<1>5. CASE \E n \in Names : DeclareMember(n) \/ DeclareVariable(n) \/ ReadParam(n)
  BY <1>5 DEF DeclareMember, DeclareVariable, ReadParam
<1>6. CASE BeginFuncProto \/ RegisterParam \/ RegisterProto
  BY <1>6, RegisterProtoDoes DEF BeginFuncProto, RegisterParam, ProtoRegistered
<1>7. CASE RecoverCompStmt \/ SimpleForBody \/ EndFor \/ UNCHANGED vars
  BY <1>7 DEF RecoverCompStmt, SimpleForBody, EndFor
<1> QED
  BY <1>1, <1>2, <1>3, <1>4, <1>5, <1>6, <1>7 DEF Next, Step, Finished

\* A step registers one symbol, in an open scope that exists, or leaves the
\* tables; no report of an error is taken back.
LEMMA TableSteps ==
    ASSUME Skeleton, [Next]_vars
    PROVE  \/ UNCHANGED <<symbolMap, symbolList>> /\ diagnosed \subseteq diagnosed'
           \/ \E c \in CtxIds \cap OpenScopes, kind \in Kinds, n \in IDs, ty \in Types,
                 def \in BOOLEAN : TryRegister(c, kind, n, ty, def)
<1> DEFINE Registers ==
               \E c \in CtxIds \cap OpenScopes, kind \in Kinds, n \in IDs, ty \in Types,
                  def \in BOOLEAN : TryRegister(c, kind, n, ty, def)
           Same == UNCHANGED <<symbolMap, symbolList>> /\ diagnosed \subseteq diagnosed'
<1>k. /\ {"Variable", "Function", "Paramater", "StructDecl", "UnionDecl"} = Kinds
      /\ ObjectType \in Types /\ Names \subseteq IDs
  BY DEF Kinds, Types, IDs
<1>1. CASE BeginParseRoot \/ BeginStruct \/ BeginCompStmt \/ BeginFor
  BY <1>1 DEF BeginParseRoot, BeginStruct, BeginCompStmt, BeginFor, tableVars
<1>2. CASE \E n \in Names, ty \in FunctionTypes : BeginFuncDecltr(n, ty)
  BY <1>2 DEF BeginFuncDecltr, tableVars
<1>3. CASE EndParseRoot \/ EndCompStmt
  BY <1>3 DEF EndParseRoot, EndCompStmt, tableVars
<1>4. CASE BeginFuncProto \/ (\E n \in Names : ReadParam(n))
  BY <1>4 DEF BeginFuncProto, ReadParam, scopeVars, tableVars
<1>5. CASE RecoverCompStmt \/ SimpleForBody \/ EndFor \/ UNCHANGED vars
  BY <1>5 DEF RecoverCompStmt, SimpleForBody, EndFor, vars, scopeVars, tableVars
<1>6. ASSUME NEW n \in Names, DeclareMember(n) \/ DeclareVariable(n)
      PROVE  Registers
  <2>1. Top \in CtxIds \cap OpenScopes
    BY <1>6, ScopesExist
       DEF DeclareMember, DeclareVariable, AtDeclaration, InnerIn
  <2>2. TryRegister(Top, "Variable", n, ObjectType, TRUE)
    BY <1>6 DEF DeclareMember, DeclareVariable
  <2> QED BY <1>k, <2>1, <2>2
<1>7. ASSUME NEW kind \in {"StructDecl", "UnionDecl"}, NEW tag \in IDs,
             EndStruct(kind, tag)
      PROVE  Same \/ Registers
  <2>1. FromTop(1) \in CtxIds \cap OpenScopes
    BY <1>7, ScopesExist DEF EndStruct, InnerIn
  <2>2. Same \/ TryRegister(FromTop(1), kind, tag, ObjectType, TRUE)
    BY <1>7 DEF EndStruct, tableVars
  <2> QED BY <1>k, <2>1, <2>2
<1>8. CASE RegisterParam
  <2>1. Top \in CtxIds \cap OpenScopes /\ Head(params) \in Names
    BY <1>8, ScopesExist, HeadTailProperties
       DEF RegisterParam, InnerIn, Skeleton, TypeOK
  <2>2. TryRegister(Top, "Paramater", Head(params), ObjectType, FALSE)
    BY <1>8 DEF RegisterParam
  <2> QED BY <1>k, <2>1, <2>2
<1>9. CASE DeclareFunction \/ RegisterProto \/ EndFuncDef
  <2>1. FromTop(1) \in CtxIds \cap OpenScopes /\ Inner.name \in IDs /\ Inner.type \in Types
    BY <1>9, ScopesExist
       DEF DeclareFunction, RegisterProto, EndFuncDef, InnerIn, Skeleton, Constructs
  <2>2. \/ Same
        \/ \E def \in BOOLEAN :
               TryRegister(FromTop(1), "Function", Inner.name, Inner.type, def)
    BY <1>9, RegisterProtoDoes DEF DeclareFunction, ProtoRegistered, EndFuncDef, tableVars
  <2> QED BY <1>k, <2>1, <2>2
<1> QED
  BY <1>1, <1>2, <1>3, <1>4, <1>5, <1>6, <1>7, <1>8, <1>9
     DEF Next, Step, Finished

\* The open scopes are pairwise different and each of them knows exactly the
\* scopes below it, through every push, pop and re-push the parser makes, for
\* programs with and without for loops and syntax errors.
THEOREM ScopesAlwaysNest == Spec => []ScopesNest
<1>1. Init => ScopesNest
  BY DEF Init, ScopeInit, ScopesNest
<1>2. Skeleton /\ ScopesNest /\ [Next]_vars => ScopesNest'
  <2> SUFFICES ASSUME Skeleton, ScopesNest, [Next]_vars PROVE ScopesNest'
    OBVIOUS
  <2>1. ScopeTypeOK
    BY DEF Skeleton, TypeOK
  <2>2. CASE PushNew
    BY <2>1, <2>2, PushNewNests
  <2>3. CASE Pop
    BY <2>1, <2>3, PopNests
  <2>4. CASE UNCHANGED treeVars
    BY <2>4 DEF treeVars, ScopesNest
  <2> QED BY <2>2, <2>3, <2>4, TreeSteps
<1> QED BY <1>1, <1>2, SkeletonInvariant, PTL DEF Spec

\* The map lookups use and the list code generation walks never disagree.
THEOREM MapAndListAgree == Spec => []MapListAgree
<1>1. Init => MapListAgree
  BY DEF Init, ScopeInit, MapListAgree, Agree, EmptyMap
<1>2. Skeleton /\ MapListAgree /\ [Next]_vars => MapListAgree'
  <2> SUFFICES ASSUME Skeleton, MapListAgree, [Next]_vars PROVE MapListAgree'
    OBVIOUS
  <2>1. ScopeTypeOK
    BY DEF Skeleton, TypeOK
  <2>2. CASE UNCHANGED <<symbolMap, symbolList>>
    BY <2>2 DEF MapListAgree
  <2>3. ASSUME NEW c \in CtxIds, NEW kind \in Kinds, NEW n \in IDs,
               NEW ty \in Types, NEW def \in BOOLEAN,
               TryRegister(c, kind, n, ty, def)
        PROVE  MapListAgree'
    BY <2>1, <2>3, TryRegisterAgrees
  <2> QED BY <2>2, <2>3, TableSteps
<1> QED BY <1>1, <1>2, SkeletonInvariant, PTL DEF Spec

\* No step takes a symbol away, changes its kind, or changes it once it is
\* defined.
THEOREM DefinitionsStay == Spec => EntriesOnlyGetDefined
<1> DEFINE Refined ==
               \A c \in CtxIds, n \in IDs :
                   LET old == symbolMap[c][n]
                       new == symbolMap'[c][n]
                   IN  old # NoEntry => /\ new # NoEntry
                                        /\ new.symEntTy = old.symEntTy
                                        /\ old.defined => new = old
<1>1. Skeleton /\ [Next]_vars => [Refined]_vars
  <2> SUFFICES ASSUME Skeleton, [Next]_vars PROVE Refined
    OBVIOUS
  <2>1. ScopeTypeOK
    BY DEF Skeleton, TypeOK
  <2>2. CASE UNCHANGED <<symbolMap, symbolList>>
    BY <2>2
  <2>3. ASSUME NEW c \in CtxIds, NEW kind \in Kinds, NEW n \in IDs,
               NEW ty \in Types, NEW def \in BOOLEAN,
               TryRegister(c, kind, n, ty, def)
        PROVE  Refined
    BY <2>1, <2>3, TryRegisterRefines
  <2> QED BY <2>2, <2>3, TableSteps
<1> QED BY <1>1, SkeletonInvariant, PTL DEF Spec, EntriesOnlyGetDefined

-----------------------------------------------------------------------------
(* Programs without for loops and without broken blocks: scopes and        *)
(* constructs come in pairs.                                               *)

\* No for is being parsed, and the translation unit is the first construct.
KindsPlaced ==
    \A i \in 1..Len(constructs) : /\ constructs[i].kind # "for"
                                  /\ i # 1 => constructs[i].kind # "unit"

\* What makes ScopesMatchConstructs and UnitScopeIsRoot inductive: which
\* construct the first scope belongs to.
Paired ==
    /\ ScopesMatchConstructs
    /\ UnitScopeIsRoot
    /\ KindsPlaced
    /\ constructs # << >> => constructs[1].ctx = 1
    /\ constructs = << >> /\ status = "parsing" => nCtx = 0

\* Opening any construct but a for.
LEMMA PairedOpen ==
    ASSUME Skeleton, Paired, status = "parsing", status' = status, PushNew,
           NEW kind \in ConstructKinds \ {"for"}, NEW n \in IDs, NEW ty \in Types,
           constructs' = Append(constructs, OpenedAs(kind, n, ty)),
           constructs # << >> => kind # "unit"
    PROVE  Paired'
<1> DEFINE m == Len(constructs)
<1>1. /\ constructs \in Seq(Constructs) /\ contextStack \in Seq(CtxIds)
      /\ nCtx \in Nat /\ nCtx + 1 \in CtxIds
  BY MaxCtxIsNat DEF Skeleton, TypeOK, ScopeTypeOK, PushNew, CtxIds
<1>2. /\ m \in Nat
      /\ Len(constructs') = m + 1
      /\ \A i \in 1..m : constructs'[i] = constructs[i]
      /\ constructs'[m + 1] = OpenedAs(kind, n, ty)
  BY <1>1, OpenedShape
<1>3. OpenedAs(kind, n, ty).kind = kind /\ OpenedAs(kind, n, ty).ctx = nCtx + 1
  BY DEF OpenedAs
<1>4. /\ Len(contextStack) = m
      /\ \A i \in 1..m : contextStack[i] = constructs[i].ctx
      /\ \A i \in 1..m : /\ constructs[i].kind # "for"
                         /\ i # 1 => constructs[i].kind # "unit"
  BY DEF Paired, ScopesMatchConstructs, KindsPlaced
<1>5. /\ Len(contextStack') = m + 1
      /\ \A i \in 1..m : contextStack'[i] = contextStack[i]
      /\ contextStack'[m + 1] = nCtx + 1
  BY <1>1, <1>2, <1>4 DEF PushNew
<1>6. m = 0 <=> constructs = << >>
  BY <1>1, EmptySeq
<1>7. m = 0 => nCtx = 0
  BY <1>6 DEF Paired
<1>8. m # 0 => constructs[1].ctx = 1 /\ kind # "unit"
  BY <1>6 DEF Paired
<1>9. constructs' # << >>
  BY <1>2
<1> HIDE DEF m
<1>10. ScopesMatchConstructs'
  BY <1>2, <1>3, <1>4, <1>5 DEF ScopesMatchConstructs
<1>11. KindsPlaced'
  BY <1>2, <1>3, <1>4, <1>8 DEF KindsPlaced
<1>12. constructs'[1].ctx = 1
  BY <1>2, <1>3, <1>7, <1>8
<1>13. UnitScopeIsRoot'
  BY DEF UnitScopeIsRoot
<1> QED BY <1>9, <1>10, <1>11, <1>12, <1>13 DEF Paired

\* Closing any construct but the translation unit, with its pop.
LEMMA PairedClose ==
    ASSUME Skeleton, Paired, Pop, constructs # << >>, Inner.kind # "unit",
           \/ constructs' = Closed(constructs)
           \/ constructs' = StmtParsed(Closed(constructs)),
           status' # "accepted"
    PROVE  Paired'
<1> DEFINE m == Len(constructs)
<1>1. /\ constructs \in Seq(Constructs) /\ contextStack \in Seq(CtxIds)
      /\ m \in Nat /\ m > 1
  BY ScopesExist DEF Skeleton, TypeOK, ScopeTypeOK
<1>2. /\ Len(contextStack') = Len(contextStack) - 1
      /\ \A i \in 1..Len(contextStack') : contextStack'[i] = contextStack[i]
  BY PopType DEF Skeleton, TypeOK
<1>3. /\ Len(constructs') = m - 1
      /\ \A i \in 1..(m - 1) : /\ constructs'[i].kind = constructs[i].kind
                               /\ constructs'[i].ctx = constructs[i].ctx
  <2>1. /\ Closed(constructs) \in Seq(Constructs)
        /\ Len(Closed(constructs)) = m - 1
        /\ \A i \in 1..(m - 1) : Closed(constructs)[i] = constructs[i]
    BY <1>1, ClosedShape
  <2>2. CASE constructs' = Closed(constructs)
    BY <2>1, <2>2
  <2>3. CASE constructs' = StmtParsed(Closed(constructs))
    BY <2>1, <2>3, StmtParsedShape
  <2> QED BY <2>2, <2>3
<1>4. constructs' # << >>
  BY <1>1, <1>3
<1>5. /\ Len(contextStack) = m
      /\ \A i \in 1..m : contextStack[i] = constructs[i].ctx
      /\ \A i \in 1..m : /\ constructs[i].kind # "for"
                         /\ i # 1 => constructs[i].kind # "unit"
      /\ constructs[1].ctx = 1
  BY DEF Paired, ScopesMatchConstructs, KindsPlaced
<1> HIDE DEF m
<1>6. ScopesMatchConstructs'
  BY <1>1, <1>2, <1>3, <1>5 DEF ScopesMatchConstructs
<1>7. KindsPlaced'
  BY <1>1, <1>3, <1>5 DEF KindsPlaced
<1>8. constructs'[1].ctx = 1
  BY <1>1, <1>3, <1>5
<1>9. UnitScopeIsRoot'
  BY DEF UnitScopeIsRoot
<1> QED BY <1>4, <1>6, <1>7, <1>8, <1>9 DEF Paired

\* Steps that leave the scopes, and the kinds of the constructs but for a
\* declarator that becomes a definition, as they are.
LEMMA PairedStay ==
    ASSUME Skeleton, Paired, UNCHANGED <<contextStack, unitScope, status, nCtx>>,
           \/ constructs' = constructs
           \/ /\ constructs # << >> /\ Inner.kind = "decltr"
              /\ constructs' = [constructs EXCEPT ![Len(constructs)].kind = "func"]
    PROVE  Paired'
<1>1. CASE constructs' = constructs
  BY <1>1 DEF Paired, ScopesMatchConstructs, UnitScopeIsRoot, KindsPlaced
<1>2. CASE /\ constructs # << >> /\ Inner.kind = "decltr"
           /\ constructs' = [constructs EXCEPT ![Len(constructs)].kind = "func"]
  <2> DEFINE m == Len(constructs)
  <2>1. constructs \in Seq(Constructs) /\ m \in Nat /\ m > 1
    BY <1>2, ScopesExist DEF Skeleton, TypeOK
  <2>2. /\ Len(constructs') = m
        /\ \A i \in 1..m : /\ constructs'[i].ctx = constructs[i].ctx
                           /\ i # m => constructs'[i] = constructs[i]
        /\ constructs'[m].kind = "func"
    BY <1>2, <2>1, ToFuncShape
  <2>3. constructs' # << >>
    BY <2>1, <2>2
  <2> HIDE DEF m
  <2> QED
    BY <1>2, <2>1, <2>2, <2>3
       DEF Paired, ScopesMatchConstructs, UnitScopeIsRoot, KindsPlaced, m
<1> QED BY <1>1, <1>2

\* Every step keeps the pairs.
LEMMA PairedStep ==
    ASSUME ~ForLoops, ~SyntaxErrors, Skeleton, Paired, [Next]_vars
    PROVE  Paired'
<1> USE DEF InnerIn, Parsing
<1>n. \A i \in 1..Len(constructs) : constructs[i].kind # "for"
  BY DEF Paired, KindsPlaced
<1>k. /\ NoName \in IDs /\ ObjectType \in Types
      /\ {"unit", "struct", "decltr", "comp"} \subseteq ConstructKinds \ {"for"}
  BY DEF IDs, Types, ConstructKinds
<1>1. CASE BeginParseRoot
  BY <1>1, <1>k, PairedOpen, OpenedIs DEF BeginParseRoot, outcomeVars, Opened
<1>2. CASE EndParseRoot
  <2>1. constructs # << >> /\ Len(constructs) \in Nat \ {0}
        /\ Len(contextStack) \in Nat \ {0}
    BY <1>2, ScopesExist DEF EndParseRoot
  <2>2. Len(constructs) = 1
    BY <1>2, <2>1 DEF EndParseRoot, Inner, Paired, KindsPlaced
  <2>3. Len(contextStack) = 1 /\ Top = 1
    BY <2>1, <2>2 DEF Paired, ScopesMatchConstructs, Top, FromTop
  <2>4. unitScope' = 1 /\ constructs' = << >> /\ status' = "accepted"
    BY <1>2, <2>3 DEF EndParseRoot
  <2>5. contextStack' \in Seq(CtxIds) /\ Len(contextStack') = 0
    BY <1>2, <2>3, PopType DEF EndParseRoot, Skeleton, TypeOK
  <2>6. contextStack' = << >>
    BY <2>5, EmptySeq
  <2> QED BY <2>4, <2>6 DEF Paired, ScopesMatchConstructs, UnitScopeIsRoot, KindsPlaced
<1>3. CASE BeginStruct
  BY <1>3, <1>k, PairedOpen, OpenedIs
     DEF BeginStruct, outcomeVars, Opened
<1>4. CASE \E n \in Names : DeclareMember(n) \/ DeclareVariable(n)
  BY <1>4, PairedStay DEF DeclareMember, DeclareVariable, treeVars, outcomeVars
<1>5. ASSUME NEW kind \in {"StructDecl", "UnionDecl"}, NEW tag \in IDs,
             EndStruct(kind, tag)
      PROVE  Paired'
  BY <1>5, PairedClose DEF EndStruct
<1>6. ASSUME NEW n \in Names, NEW ty \in FunctionTypes, BeginFuncDecltr(n, ty)
      PROVE  Paired'
  <2>1. n \in IDs /\ ty \in Types
    BY DEF IDs, Types
  <2> QED BY <1>6, <1>k, <2>1, PairedOpen DEF BeginFuncDecltr, outcomeVars
<1>7. CASE \E n \in Names : ReadParam(n)
  BY <1>7, PairedStay DEF ReadParam, scopeVars, treeVars, outcomeVars
<1>8. CASE DeclareFunction
  BY <1>8, PairedClose DEF DeclareFunction, outcomeVars
<1>9. CASE BeginFuncProto
  BY <1>9, PairedStay DEF BeginFuncProto, scopeVars, treeVars, outcomeVars
<1>10. CASE RegisterParam
  BY <1>10, PairedStay DEF RegisterParam, treeVars, outcomeVars
<1>11. CASE RegisterProto
  BY <1>11, PairedStay, RegisterProtoDoes DEF ProtoRegistered, treeVars, outcomeVars, Skeleton
<1>12. CASE EndFuncDef
  BY <1>12, PairedClose DEF EndFuncDef
<1>13. CASE BeginCompStmt
  BY <1>13, <1>k, PairedOpen, OpenedIs DEF BeginCompStmt, outcomeVars, Opened
<1>14. CASE EndCompStmt
  BY <1>14, PairedClose DEF EndCompStmt, outcomeVars
<1>15. CASE RecoverCompStmt \/ BeginFor
  BY <1>15 DEF RecoverCompStmt, BeginFor
<1>16. CASE SimpleForBody \/ EndFor
  <2>1. constructs # << >> /\ Inner.kind = "for"
    BY <1>16 DEF SimpleForBody, EndFor
  <2>2. Len(constructs) \in 1..Len(constructs)
    BY <2>1, ScopesExist
  <2> QED BY <1>n, <2>1, <2>2 DEF Inner
<1>17. CASE UNCHANGED vars
  BY <1>17, PairedStay
     DEF vars, scopeVars, treeVars, parserVars, outcomeVars
<1> QED
  BY <1>1, <1>2, <1>3, <1>4, <1>5, <1>6, <1>7, <1>8, <1>9, <1>10, <1>11, <1>12,
     <1>13, <1>14, <1>15, <1>16, <1>17 DEF Next, Step, Finished

\* Without for loops and syntax errors, Paired is an invariant.
LEMMA PairedInvariant ==
    ASSUME ~ForLoops, ~SyntaxErrors
    PROVE  Spec => []Paired
<1>1. Init => Paired
  BY DEF Init, ScopeInit, Paired, ScopesMatchConstructs, UnitScopeIsRoot,
         KindsPlaced
<1>2. Skeleton /\ Paired /\ [Next]_vars => Paired'
  BY PairedStep
<1> QED BY <1>1, <1>2, SkeletonInvariant, PTL DEF Spec

\* Every construct has its own scope open, and no other scope is open: what
\* the missing pop of the for loop breaks is all that can break it.
THEOREM ScopesMatch ==
    ASSUME ~ForLoops, ~SyntaxErrors
    PROVE  Spec => []ScopesMatchConstructs
<1>1. Paired => ScopesMatchConstructs
  BY DEF Paired
<1> QED BY <1>1, PairedInvariant, PTL

\* The scope attached to the TransUnit node is the first one, and all scopes
\* are closed when the parse is accepted.
THEOREM UnitScope ==
    ASSUME ~ForLoops, ~SyntaxErrors
    PROVE  Spec => []UnitScopeIsRoot
<1>1. Paired => UnitScopeIsRoot
  BY DEF Paired
<1> QED BY <1>1, PairedInvariant, PTL

-----------------------------------------------------------------------------
(* Scopes that have not been created yet.                                  *)

\* They are empty and nobody refers to them.
FreshScopes ==
    \A c \in CtxIds :
        /\ c > nCtx => /\ parentContexts[c] = << >>
                       /\ directChildren[c] = << >>
                       /\ symbolMap[c] = EmptyMap
        /\ \A i \in 1..Len(parentContexts[c]) : parentContexts[c][i] <= nCtx
        /\ \A i \in 1..Len(directChildren[c]) : directChildren[c][i] <= nCtx

\* Only scopes that have been created are open.
LEMMA OpenAreCreated ==
    ASSUME Skeleton, ScopesNest
    PROVE  /\ contextStack \in Seq(CtxIds)
           /\ nCtx \in Nat
           /\ Len(contextStack) \in Nat
           /\ \A i \in 1..Len(contextStack) :
                  contextStack[i] \in CtxIds /\ contextStack[i] \in 1..nCtx
           /\ \A c \in OpenScopes : c \in 1..nCtx
<1>1. /\ contextStack \in Seq(CtxIds)
      /\ nCtx \in Nat
      /\ Len(contextStack) \in Nat
  BY MaxCtxIsNat DEF Skeleton, TypeOK, ScopeTypeOK
<1>2. \A i \in 1..Len(contextStack) : contextStack[i] \in CtxIds
  BY <1>1, ElementOfSeq
<1>3. \A i \in 1..Len(contextStack) : contextStack[i] \in 1..nCtx
  BY <1>1, <1>2, MaxCtxIsNat DEF ScopesNest, CtxIds
<1> QED BY <1>1, <1>2, <1>3 DEF OpenScopes

\* What a push does to the tree, scope by scope.
LEMMA PushNewTree ==
    ASSUME Skeleton, ScopesNest, FreshScopes, PushNew
    PROVE  LET new == nCtx + 1
           IN  /\ new \in CtxIds
               /\ nCtx' = new
               /\ parentContexts'[new] = contextStack
               /\ \A c \in CtxIds \ {new} : parentContexts'[c] = parentContexts[c]
               /\ directChildren'[new] = << >>
               /\ contextStack # << >> =>
                      /\ Top \in 1..nCtx
                      /\ Top = contextStack[Len(contextStack)]
                      /\ directChildren'[Top] = Append(directChildren[Top], new)
               /\ \A c \in CtxIds \ {new} :
                      contextStack = << >> \/ c # Top =>
                          directChildren'[c] = directChildren[c]
<1> DEFINE new == nCtx + 1
<1>1. ScopeTypeOK /\ nCtx \in Nat /\ MaxCtx \in Nat
  BY MaxCtxIsNat DEF Skeleton, TypeOK, ScopeTypeOK
<1>2. new \in CtxIds /\ nCtx' = new
  BY <1>1 DEF PushNew, CtxIds
<1>3. /\ parentContexts'[new] = contextStack
      /\ \A c \in CtxIds \ {new} : parentContexts'[c] = parentContexts[c]
  BY <1>1, <1>2 DEF PushNew, ScopeTypeOK
<1>4. directChildren[new] = << >>
  BY <1>1, <1>2 DEF FreshScopes
<1>5. ASSUME contextStack # << >>
      PROVE  Top \in 1..nCtx /\ Top \in CtxIds /\ Top # new
             /\ Top = contextStack[Len(contextStack)]
  <2>1. Len(contextStack) \in 1..Len(contextStack)
    BY <1>1, <1>5, EmptySeq DEF ScopeTypeOK
  <2> QED BY <1>1, <2>1, OpenAreCreated DEF Top, FromTop
<1>6. CASE contextStack = << >>
  BY <1>1, <1>2, <1>3, <1>4, <1>6 DEF PushNew
<1>7. CASE contextStack # << >>
  <2> DEFINE t == Top
  <2>1. directChildren' = [directChildren EXCEPT ![t] = Append(@, new)]
    BY <1>7 DEF PushNew
  <2>2. t \in CtxIds /\ t # new /\ t \in 1..nCtx
    BY <1>5, <1>7
  <2>3. directChildren \in [CtxIds -> Seq(CtxIds)]
    BY <1>1 DEF ScopeTypeOK
  <2>a. t = Top
    OBVIOUS
  <2> HIDE DEF t, new
  <2>4. /\ directChildren'[t] = Append(directChildren[t], new)
        /\ \A c \in CtxIds : c # t => directChildren'[c] = directChildren[c]
    BY <2>1, <2>2, <2>3
  <2> QED BY <1>2, <1>3, <1>4, <1>5, <1>7, <2>a, <2>2, <2>4 DEF new
<1> QED BY <1>6, <1>7

\* A registration changes no scope but the one it is made in.
LEMMA TryRegisterOnly ==
    ASSUME ScopeTypeOK,
           NEW c \in CtxIds, NEW kind \in Kinds, NEW n \in IDs, NEW ty \in Types,
           NEW def \in BOOLEAN, TryRegister(c, kind, n, ty, def)
    PROVE  /\ \A d \in CtxIds : d # c => symbolMap'[d] = symbolMap[d]
           /\ \A k \in IDs : k # n => symbolMap'[c][k] = symbolMap[c][k]
           /\ IF CanRegister(symbolMap[c], kind, n)
              THEN symbolMap'[c][n] = Entry(kind, ty, def)
                   /\ diagnosed' = diagnosed
              ELSE symbolMap'[c][n] = symbolMap[c][n]
                   /\ diagnosed' = diagnosed \cup {<<c, n>>}
<1> DEFINE m2 == MapWith(symbolMap[c], n, Entry(kind, ty, def))
<1>1. symbolMap \in [CtxIds -> SymbolMaps] /\ symbolMap[c] \in SymbolMaps
  BY DEF ScopeTypeOK
<1>2. /\ m2[n] = Entry(kind, ty, def)
      /\ \A k \in IDs : k # n => m2[k] = symbolMap[c][k]
  BY <1>1 DEF MapWith, SymbolMaps
<1>3. CASE CanRegister(symbolMap[c], kind, n)
  <2>1. symbolMap' = [symbolMap EXCEPT ![c] = m2] /\ diagnosed' = diagnosed
    BY <1>3 DEF TryRegister
  <2> HIDE DEF m2
  <2> QED BY <1>1, <1>2, <1>3, <2>1
<1>4. CASE ~CanRegister(symbolMap[c], kind, n)
  BY <1>4 DEF TryRegister
<1> QED BY <1>3, <1>4

\* Scopes stay empty and unknown until they are created.
LEMMA FreshStep ==
    ASSUME Skeleton, ScopesNest, FreshScopes, [Next]_vars
    PROVE  FreshScopes'
<1>1. ScopeTypeOK /\ nCtx \in Nat
  BY MaxCtxIsNat DEF Skeleton, TypeOK, ScopeTypeOK
<1>2. ASSUME NEW c \in CtxIds, c > nCtx
      PROVE  symbolMap'[c] = EmptyMap
  <2>1. symbolMap[c] = EmptyMap
    BY <1>2 DEF FreshScopes
  <2>2. ASSUME NEW d \in CtxIds \cap OpenScopes, NEW kind \in Kinds, NEW n \in IDs,
               NEW ty \in Types, NEW def \in BOOLEAN,
               TryRegister(d, kind, n, ty, def)
        PROVE  symbolMap'[c] = symbolMap[c]
    <3>1. d # c
      BY <1>1, <1>2, OpenAreCreated
    <3> QED BY <1>1, <2>2, <3>1, TryRegisterOnly
  <2> QED BY <2>1, <2>2, TableSteps
<1>3. CASE PushNew
  <2> DEFINE new == nCtx + 1
  <2> SUFFICES ASSUME NEW c \in CtxIds
               PROVE  /\ c > nCtx' => /\ parentContexts'[c] = << >>
                                      /\ directChildren'[c] = << >>
                                      /\ symbolMap'[c] = EmptyMap
                      /\ \A i \in 1..Len(parentContexts'[c]) :
                             parentContexts'[c][i] <= nCtx'
                      /\ \A i \in 1..Len(directChildren'[c]) :
                             directChildren'[c][i] <= nCtx'
    BY DEF FreshScopes
  <2>1. /\ new \in CtxIds /\ nCtx' = new /\ new = nCtx + 1
        /\ parentContexts'[new] = contextStack
        /\ \A d \in CtxIds \ {new} : parentContexts'[d] = parentContexts[d]
        /\ directChildren'[new] = << >>
        /\ contextStack # << >> =>
               /\ Top \in 1..nCtx
               /\ directChildren'[Top] = Append(directChildren[Top], new)
        /\ \A d \in CtxIds \ {new} :
               contextStack = << >> \/ d # Top =>
                   directChildren'[d] = directChildren[d]
    BY <1>3, PushNewTree
  <2> HIDE DEF new
  <2>2. /\ c > nCtx => parentContexts[c] = << >> /\ directChildren[c] = << >>
        /\ parentContexts[c] \in Seq(CtxIds) /\ directChildren[c] \in Seq(CtxIds)
        /\ \A i \in 1..Len(parentContexts[c]) :
               parentContexts[c][i] \in CtxIds /\ parentContexts[c][i] <= nCtx
        /\ \A i \in 1..Len(directChildren[c]) :
               directChildren[c][i] \in CtxIds /\ directChildren[c][i] <= nCtx
    <3>1. parentContexts[c] \in Seq(CtxIds) /\ directChildren[c] \in Seq(CtxIds)
      BY <1>1 DEF ScopeTypeOK
    <3>2. /\ \A i \in 1..Len(parentContexts[c]) : parentContexts[c][i] \in CtxIds
          /\ \A i \in 1..Len(directChildren[c]) : directChildren[c][i] \in CtxIds
      BY <3>1, ElementOfSeq
    <3> QED BY <3>1, <3>2 DEF FreshScopes
  <2>3. c \in Nat /\ new \in Nat /\ \A d \in CtxIds : d \in Nat
    BY <2>1 DEF CtxIds
  <2>4. \A i \in 1..Len(contextStack) :
            contextStack[i] \in Nat /\ contextStack[i] <= nCtx
    BY <1>1, OpenAreCreated
  <2>5. CASE c = new
    BY <1>1, <2>1, <2>3, <2>4, <2>5
  <2>6. CASE c # new /\ contextStack # << >> /\ c = Top
    <3> DEFINE kids == directChildren[c]
               ups  == parentContexts[c]
    <3>1. directChildren'[c] = Append(kids, new) /\ c <= nCtx
      BY <1>1, <2>1, <2>6
    <3>2. parentContexts'[c] = ups
      BY <2>1, <2>6
    <3>3. /\ kids \in Seq(CtxIds)
          /\ \A i \in 1..Len(kids) : kids[i] \in Nat /\ kids[i] <= nCtx
          /\ \A i \in 1..Len(ups) : ups[i] \in Nat /\ ups[i] <= nCtx
      BY <2>2, <2>3
    <3> HIDE DEF kids, ups
    <3>4. \A i \in 1..Len(Append(kids, new)) : Append(kids, new)[i] <= new
      BY <1>1, <2>1, <3>3
    <3> QED BY <1>1, <2>1, <2>3, <3>1, <3>2, <3>3, <3>4
  <2>7. CASE c # new /\ (contextStack = << >> \/ c # Top)
    <3> DEFINE kids == directChildren[c]
               ups  == parentContexts[c]
    <3>1. directChildren'[c] = kids /\ parentContexts'[c] = ups
      BY <2>1, <2>7
    <3>2. /\ \A i \in 1..Len(kids) : kids[i] \in Nat /\ kids[i] <= nCtx
          /\ \A i \in 1..Len(ups) : ups[i] \in Nat /\ ups[i] <= nCtx
          /\ c > nCtx => ups = << >> /\ kids = << >> /\ symbolMap'[c] = EmptyMap
      BY <1>2, <2>2, <2>3
    <3> HIDE DEF kids, ups
    <3> QED BY <1>1, <2>1, <2>3, <3>1, <3>2
  <2> QED BY <2>5, <2>6, <2>7
<1>4. CASE Pop \/ UNCHANGED treeVars
  <2>1. UNCHANGED <<nCtx, parentContexts, directChildren>>
    BY <1>4 DEF Pop, treeVars
  <2> QED BY <1>2, <2>1 DEF FreshScopes
<1> QED BY <1>3, <1>4, TreeSteps

LEMMA FreshInvariant == Spec => []FreshScopes
<1>1. Init => FreshScopes
  BY DEF Init, ScopeInit, FreshScopes
<1>2. Skeleton /\ ScopesNest /\ FreshScopes /\ [Next]_vars => FreshScopes'
  BY FreshStep
<1> QED BY <1>1, <1>2, SkeletonInvariant, ScopesAlwaysNest, PTL DEF Spec

-----------------------------------------------------------------------------
(* The tree.                                                               *)

\* Where c is listed among the children of p.
Listed(p, c) == {i \in 1..Len(directChildren[p]) : directChildren[p][i] = c}

\* p is the last of the parents of c.
IsParent(p, c) ==
    /\ parentContexts[c] # << >>
    /\ parentContexts[c][Len(parentContexts[c])] = p

\* A push makes the innermost scope, and no other, adopt the new one.
LEMMA PushNewKeepsTree ==
    ASSUME Skeleton, ScopesNest, FreshScopes, ScopeTree, PushNew
    PROVE  ScopeTree'
<1> DEFINE new == nCtx + 1
<1>1. ScopeTypeOK /\ nCtx \in Nat
  BY MaxCtxIsNat DEF Skeleton, TypeOK, ScopeTypeOK
<1>2. /\ new \in CtxIds /\ nCtx' = new /\ new = nCtx + 1
      /\ parentContexts'[new] = contextStack
      /\ \A d \in CtxIds \ {new} : parentContexts'[d] = parentContexts[d]
      /\ directChildren'[new] = << >>
      /\ contextStack # << >> =>
             /\ Top \in 1..nCtx
             /\ Top = contextStack[Len(contextStack)]
             /\ directChildren'[Top] = Append(directChildren[Top], new)
      /\ \A d \in CtxIds \ {new} :
             contextStack = << >> \/ d # Top =>
                 directChildren'[d] = directChildren[d]
  BY PushNewTree
<1> HIDE DEF new
<1>3. \A d \in 1..nCtx : d \in CtxIds \ {new} /\ d \in Nat
  BY <1>1, <1>2, MaxCtxIsNat DEF CtxIds
<1>4. 1..nCtx' = (1..nCtx) \cup {new}
  BY <1>1, <1>2
<1>5. \A d \in 1..nCtx : /\ directChildren[d] \in Seq(CtxIds)
                         /\ Len(directChildren[d]) \in Nat
                         /\ parentContexts[d] \in Seq(CtxIds)
  <2>1. \A d \in 1..nCtx : /\ directChildren[d] \in Seq(CtxIds)
                           /\ parentContexts[d] \in Seq(CtxIds)
    BY <1>1, <1>3 DEF ScopeTypeOK
  <2> QED BY <2>1, LenProperties
<1>6. \A d \in 1..nCtx : Listed(d, new) = {}
  BY <1>1, <1>2, <1>3, <1>5 DEF FreshScopes, Listed
<1>7. ASSUME NEW p \in 1..nCtx, NEW c \in 1..nCtx
      PROVE  IF IsParent(p, c) THEN \E i \in Listed(p, c) : Listed(p, c) = {i}
                               ELSE Listed(p, c) = {}
  BY DEF ScopeTree, IsParent, Listed
<1> SUFFICES ASSUME NEW p \in 1..nCtx', NEW c \in 1..nCtx'
             PROVE  IF IsParent(p, c)'
                    THEN \E i \in Listed(p, c)' : Listed(p, c)' = {i}
                    ELSE Listed(p, c)' = {}
  BY DEF ScopeTree, IsParent, Listed
<1>8. CASE p = new
  <2>1. Listed(p, c)' = {}
    BY <1>2, <1>8 DEF Listed
  <2>2. ASSUME IsParent(p, c)' PROVE FALSE
    <3>1. CASE c = new
      <4>1. contextStack # << >> /\ contextStack[Len(contextStack)] = new
        BY <1>2, <1>8, <2>2, <3>1 DEF IsParent
      <4> QED BY <1>1, <1>2, <4>1
    <3>2. CASE c # new
      <4>1. c \in 1..nCtx /\ parentContexts'[c] = parentContexts[c]
        BY <1>2, <1>3, <1>4, <3>2
      <4>2. /\ parentContexts[c] # << >>
            /\ parentContexts[c][Len(parentContexts[c])] = new
        BY <1>8, <2>2, <4>1 DEF IsParent
      <4>3. Len(parentContexts[c]) \in 1..Len(parentContexts[c])
        BY <1>5, <4>1, <4>2, EmptySeq
      <4>4. parentContexts[c][Len(parentContexts[c])] <= nCtx
        BY <1>3, <4>1, <4>3 DEF FreshScopes
      <4> QED BY <1>1, <1>2, <4>2, <4>4
    <3> QED BY <3>1, <3>2
  <2> QED BY <2>1, <2>2
<1>9. CASE p # new /\ c = new
  <2>1. p \in 1..nCtx
    BY <1>4, <1>9
  <2>2. IsParent(p, c)' <=> contextStack # << >> /\ p = Top
    BY <1>2, <1>9 DEF IsParent
  <2>3. CASE contextStack # << >> /\ p = Top
    <3> DEFINE kids == directChildren[p]
    <3>1. directChildren'[p] = Append(kids, new)
      BY <1>2, <2>3
    <3>2. kids \in Seq(CtxIds) /\ \A i \in 1..Len(kids) : kids[i] # new
      BY <1>5, <1>6, <2>1 DEF Listed
    <3> HIDE DEF kids
    <3>3. {i \in 1..Len(Append(kids, new)) : Append(kids, new)[i] = new} =
              {Len(kids) + 1}
      BY <1>2, <3>2
    <3>4. Listed(p, c)' = {Len(kids) + 1}
      BY <1>9, <3>1, <3>3 DEF Listed
    <3> QED BY <2>2, <2>3, <3>4
  <2>4. CASE ~(contextStack # << >> /\ p = Top)
    <3>1. directChildren'[p] = directChildren[p]
      BY <1>2, <1>3, <2>1, <2>4
    <3>2. Listed(p, c)' = {}
      BY <1>6, <1>9, <2>1, <3>1 DEF Listed
    <3> QED BY <2>2, <2>4, <3>2
  <2> QED BY <2>3, <2>4
<1>10. CASE p # new /\ c # new
  <2>1. p \in 1..nCtx /\ c \in 1..nCtx
    BY <1>4, <1>10
  <2>2. IsParent(p, c)' <=> IsParent(p, c)
    BY <1>2, <1>3, <2>1 DEF IsParent
  <2>3. Listed(p, c)' = Listed(p, c)
    <3>1. CASE contextStack # << >> /\ p = Top
      <4> DEFINE kids == directChildren[p]
      <4>1. directChildren'[p] = Append(kids, new) /\ kids \in Seq(CtxIds)
        BY <1>2, <1>5, <2>1, <3>1
      <4> HIDE DEF kids
      <4>2. {i \in 1..Len(Append(kids, new)) : Append(kids, new)[i] = c} =
                {i \in 1..Len(kids) : kids[i] = c}
        BY <1>2, <1>10, <4>1
      <4> QED BY <4>1, <4>2 DEF Listed, kids
    <3>2. CASE ~(contextStack # << >> /\ p = Top)
      <4>1. directChildren'[p] = directChildren[p]
        BY <1>2, <1>3, <2>1, <3>2
      <4> QED BY <4>1 DEF Listed
    <3> QED BY <3>1, <3>2
  <2> QED BY <1>7, <2>1, <2>2, <2>3
<1> QED BY <1>8, <1>9, <1>10

\* directChildren and parentContexts, the two records of the tree of scopes,
\* never disagree: FuncProto's second push adopts no scope twice.
THEOREM ScopesFormATree == Spec => []ScopeTree
<1>1. Init => ScopeTree
  BY DEF Init, ScopeInit, ScopeTree
<1>2. Skeleton /\ ScopesNest /\ FreshScopes /\ ScopeTree /\ [Next]_vars => ScopeTree'
  <2> SUFFICES ASSUME Skeleton, ScopesNest, FreshScopes, ScopeTree, [Next]_vars
               PROVE  ScopeTree'
    OBVIOUS
  <2>1. CASE PushNew
    BY <2>1, PushNewKeepsTree
  <2>2. CASE Pop \/ UNCHANGED treeVars
    <3>1. UNCHANGED <<nCtx, parentContexts, directChildren>>
      BY <2>2 DEF Pop, treeVars
    <3> QED BY <3>1 DEF ScopeTree
  <2> QED BY <2>1, <2>2, TreeSteps
<1> QED BY <1>1, <1>2, SkeletonInvariant, ScopesAlwaysNest, FreshInvariant, PTL
    DEF Spec

-----------------------------------------------------------------------------
(* Function declarators.                                                   *)

\* Only structures are parsed within a function declarator, so its scope is
\* found by counting from the top of the stack, whatever scopes were left open
\* further down; and no function has been registered in that scope.
DeclaratorsInnermost ==
    \A i \in 1..Len(constructs) :
        constructs[i].kind = "decltr" =>
            /\ \A j \in (i + 1)..Len(constructs) : constructs[j].kind = "struct"
            /\ FromTop(Len(constructs) - i) = constructs[i].ctx
            /\ \A n \in IDs : ~HasSymbol(symbolMap[constructs[i].ctx], "Function", n)

\* No scope gets a function.
NoNewFunction ==
    \A c \in CtxIds, n \in IDs :
        HasSymbol(symbolMap[c], "Function", n)' => HasSymbol(symbolMap[c], "Function", n)

\* Registering anything else is no new function.
LEMMA OtherKindsNoFunction ==
    ASSUME ScopeTypeOK,
           NEW c \in CtxIds, NEW kind \in Kinds \ {"Function"}, NEW n \in IDs,
           NEW ty \in Types, NEW def \in BOOLEAN, TryRegister(c, kind, n, ty, def)
    PROVE  NoNewFunction
<1> SUFFICES ASSUME NEW d \in CtxIds, NEW k \in IDs,
                    HasSymbol(symbolMap[d], "Function", k)'
             PROVE  HasSymbol(symbolMap[d], "Function", k)
  BY DEF NoNewFunction
<1>1. CASE d = c /\ k = n
  <2>1. Entry(kind, ty, def).symEntTy = kind
    BY EntryType
  <2> QED BY <1>1, <2>1, TryRegisterOnly DEF HasSymbol
<1>2. CASE ~(d = c /\ k = n)
  <2>1. symbolMap'[d][k] = symbolMap[d][k]
    BY <1>2, TryRegisterOnly
  <2> QED BY <2>1 DEF HasSymbol
<1> QED BY <1>1, <1>2

\* Where there is no function declarator.
LEMMA NoDeclarators ==
    ASSUME Skeleton, DeclaratorsInnermost, NEW i \in 1..Len(constructs),
           constructs[i].kind = "decltr"
    PROVE  /\ Inner.kind \in {"decltr", "struct"}
           /\ Inner.kind = "decltr" => i = Len(constructs)
<1>1. constructs \in Seq(Constructs)
  BY DEF Skeleton, TypeOK
<1>2. Len(constructs) \in Nat
  BY <1>1, LenProperties
<1>3. i # Len(constructs) => Len(constructs) \in (i + 1)..Len(constructs)
  BY <1>2
<1>4. i # Len(constructs) => constructs[Len(constructs)].kind = "struct"
  BY <1>3 DEF DeclaratorsInnermost
<1> QED BY <1>4 DEF Inner

\* Steps after which the declarators are among those that were there, as far
\* from the top of the stack of scopes as before.
LEMMA DeclaratorsKept ==
    ASSUME Skeleton, DeclaratorsInnermost, NoNewFunction,
           constructs' \in Seq(Constructs), contextStack' \in Seq(CtxIds),
           Len(contextStack') - Len(constructs') = Len(contextStack) - Len(constructs),
           \A i \in 1..Len(contextStack') :
               i <= Len(contextStack) => contextStack'[i] = contextStack[i],
           \A i \in 1..Len(constructs') :
               IF i <= Len(constructs)
               THEN /\ constructs'[i].kind = constructs[i].kind
                    /\ constructs'[i].ctx = constructs[i].ctx
               ELSE constructs'[i].kind = "struct"
    PROVE  DeclaratorsInnermost'
<1> DEFINE m == Len(constructs)
           p == Len(constructs')
           d == Len(contextStack) - m
<1>1. /\ m \in Nat /\ p \in Nat /\ d \in Nat
      /\ Len(contextStack) = m + d /\ Len(contextStack') = p + d
      /\ constructs \in Seq(Constructs)
  BY LenProperties DEF Skeleton, TypeOK, ScopeTypeOK
<1> SUFFICES ASSUME NEW i \in 1..p, constructs'[i].kind = "decltr"
             PROVE  /\ \A j \in (i + 1)..p : constructs'[j].kind = "struct"
                    /\ FromTop(m - i)' = constructs'[i].ctx
                    /\ \A n \in IDs :
                           ~HasSymbol(symbolMap'[constructs'[i].ctx], "Function", n)
  BY DEF DeclaratorsInnermost
<1>2. /\ i \in 1..m /\ constructs[i].kind = "decltr"
      /\ constructs'[i].ctx = constructs[i].ctx
  BY <1>1
<1>3. /\ \A j \in (i + 1)..m : constructs[j].kind = "struct"
      /\ FromTop(m - i) = constructs[i].ctx
      /\ \A n \in IDs : ~HasSymbol(symbolMap[constructs[i].ctx], "Function", n)
  BY <1>2 DEF DeclaratorsInnermost
<1>4. \A j \in (i + 1)..p : constructs'[j].kind = "struct"
  <2> TAKE j \in (i + 1)..p
  <2>1. j \in 1..p /\ (j <= m => j \in (i + 1)..m)
    BY <1>1, <1>2
  <2> QED BY <1>3, <2>1
<1>5. FromTop(m - i)' = constructs'[i].ctx
  <2>1. /\ FromTop(m - i) = contextStack[i + d]
        /\ FromTop(m - i)' = contextStack'[i + d]
    BY <1>1, <1>2 DEF FromTop
  <2>2. i + d \in 1..Len(contextStack') /\ i + d <= Len(contextStack)
    BY <1>1, <1>2
  <2> QED BY <1>2, <1>3, <2>1, <2>2
<1>6. ASSUME NEW n \in IDs
      PROVE  ~HasSymbol(symbolMap'[constructs'[i].ctx], "Function", n)
  <2>1. constructs[i] \in Constructs
    BY <1>1, <1>2, ElementOfSeq
  <2>2. constructs[i].ctx \in CtxIds
    BY <2>1 DEF Constructs
  <2> QED BY <1>2, <1>3, <2>2 DEF NoNewFunction, HasSymbol
<1> QED BY <1>4, <1>5, <1>6

\* Steps that end with no function declarator being parsed.
LEMMA DeclaratorsGone ==
    ASSUME \A i \in 1..Len(constructs') : constructs'[i].kind # "decltr"
    PROVE  DeclaratorsInnermost'
BY DEF DeclaratorsInnermost

\* Every step keeps the declarators innermost and their scopes free of functions.
LEMMA DeclaratorsStep ==
    ASSUME Skeleton, Skeleton', ScopesNest, FreshScopes, DeclaratorsInnermost,
           [Next]_vars
    PROVE  DeclaratorsInnermost'
<1> DEFINE m == Len(constructs)
<1> USE DEF Parsing
<1>t. /\ TypeOK /\ ScopeTypeOK
      /\ constructs \in Seq(Constructs) /\ constructs' \in Seq(Constructs)
      /\ contextStack \in Seq(CtxIds) /\ contextStack' \in Seq(CtxIds)
      /\ m \in Nat /\ Len(contextStack) \in Nat
  BY LenProperties DEF Skeleton, TypeOK, ScopeTypeOK
<1>k. /\ {"Variable", "Paramater", "StructDecl", "UnionDecl"} \subseteq
             Kinds \ {"Function"}
      /\ ObjectType \in Types /\ NoName \in IDs /\ Names \subseteq IDs
      /\ FunctionTypes \subseteq Types
  BY DEF Kinds, Types, IDs
<1>n. UNCHANGED symbolMap => NoNewFunction
  BY DEF NoNewFunction, HasSymbol
<1>o. ASSUME PushNew, NEW kind \in ConstructKinds, NEW n \in IDs, NEW ty \in Types,
             constructs' = Append(constructs, OpenedAs(kind, n, ty))
      PROVE  /\ Len(constructs') = m + 1
             /\ \A i \in 1..m : constructs'[i] = constructs[i]
             /\ constructs'[m + 1].kind = kind
             /\ constructs'[m + 1].ctx = nCtx + 1
             /\ Len(contextStack') = Len(contextStack) + 1
             /\ \A i \in 1..Len(contextStack) : contextStack'[i] = contextStack[i]
             /\ contextStack'[Len(contextStack) + 1] = nCtx + 1
             /\ nCtx + 1 \in CtxIds
  <2>1. nCtx + 1 \in CtxIds
    BY <1>o, MaxCtxIsNat DEF Skeleton, TypeOK, ScopeTypeOK, PushNew, CtxIds
  <2>2. /\ Len(constructs') = m + 1
        /\ \A i \in 1..m : constructs'[i] = constructs[i]
        /\ constructs'[m + 1] = OpenedAs(kind, n, ty)
    BY <1>o, <1>t, <2>1, OpenedShape
  <2>3. /\ Len(contextStack') = Len(contextStack) + 1
        /\ \A i \in 1..Len(contextStack) : contextStack'[i] = contextStack[i]
        /\ contextStack'[Len(contextStack) + 1] = nCtx + 1
    BY <1>o, <1>t, <2>1 DEF PushNew
  <2> QED BY <2>1, <2>2, <2>3 DEF OpenedAs
<1>c. ASSUME constructs # << >>,
             \/ constructs' = Closed(constructs)
             \/ constructs' = StmtParsed(Closed(constructs))
      PROVE  /\ m \in Nat \ {0}
             /\ Len(constructs') = m - 1
             /\ \A i \in 1..(m - 1) : /\ constructs'[i].kind = constructs[i].kind
                                      /\ constructs'[i].ctx = constructs[i].ctx
  <2>1. /\ m \in Nat \ {0}
        /\ Closed(constructs) \in Seq(Constructs)
        /\ Len(Closed(constructs)) = m - 1
        /\ \A i \in 1..(m - 1) : Closed(constructs)[i] = constructs[i]
    BY <1>c, <1>t, ClosedShape
  <2> QED BY <1>c, <2>1, StmtParsedShape
<1>1. CASE BeginParseRoot
  <2>1. "unit" \in ConstructKinds /\ m = 0
    BY <1>1 DEF BeginParseRoot, ConstructKinds
  <2>2. constructs' = Append(constructs, OpenedAs("unit", NoName, ObjectType))
    BY <1>1, <2>1, OpenedIs DEF BeginParseRoot
  <2>3. Len(constructs') = 1 /\ constructs'[1].kind = "unit"
    BY <1>1, <1>k, <1>o, <2>1, <2>2 DEF BeginParseRoot
  <2> QED BY <2>3, DeclaratorsGone
<1>2. CASE EndParseRoot
  BY <1>2, DeclaratorsGone DEF EndParseRoot
<1>3. CASE BeginStruct
  <2>1. "struct" \in ConstructKinds
    BY DEF ConstructKinds
  <2>2. constructs' = Append(constructs, OpenedAs("struct", NoName, ObjectType))
    BY <1>3, <2>1, OpenedIs DEF BeginStruct
  <2>3. NoNewFunction
    BY <1>3, <1>n DEF BeginStruct, tableVars
  <2>4. /\ Len(constructs') = m + 1
        /\ \A i \in 1..m : constructs'[i] = constructs[i]
        /\ constructs'[m + 1].kind = "struct"
        /\ Len(contextStack') = Len(contextStack) + 1
        /\ \A i \in 1..Len(contextStack) : contextStack'[i] = contextStack[i]
    BY <1>3, <1>k, <1>o, <2>1, <2>2 DEF BeginStruct
  <2> QED BY <1>t, <2>3, <2>4, DeclaratorsKept
<1>4. ASSUME NEW n \in Names, DeclareMember(n) \/ DeclareVariable(n)
      PROVE  DeclaratorsInnermost'
  <2>1. Top \in CtxIds
    BY <1>4, ScopesExist
       DEF DeclareMember, DeclareVariable, AtDeclaration, InnerIn
  <2>2. NoNewFunction
    BY <1>4, <1>t, <1>k, <2>1, OtherKindsNoFunction DEF DeclareMember, DeclareVariable
  <2>3. UNCHANGED <<constructs, contextStack>>
    BY <1>4 DEF DeclareMember, DeclareVariable, treeVars
  <2> QED BY <1>t, <2>2, <2>3, DeclaratorsKept
<1>5. ASSUME NEW kind \in {"StructDecl", "UnionDecl"}, NEW tag \in IDs,
             EndStruct(kind, tag)
      PROVE  DeclaratorsInnermost'
  <2>1. constructs # << >> /\ FromTop(1) \in CtxIds
    BY <1>5, ScopesExist DEF EndStruct, InnerIn
  <2>2. NoNewFunction
    BY <1>5, <1>t, <1>k, <1>n, <2>1, OtherKindsNoFunction DEF EndStruct, tableVars
  <2>3. /\ m \in Nat \ {0}
        /\ Len(constructs') = m - 1
        /\ \A i \in 1..(m - 1) : /\ constructs'[i].kind = constructs[i].kind
                                 /\ constructs'[i].ctx = constructs[i].ctx
    BY <1>5, <1>c, <2>1 DEF EndStruct
  <2>4. /\ Len(contextStack') = Len(contextStack) - 1
        /\ \A i \in 1..Len(contextStack') : contextStack'[i] = contextStack[i]
    BY <1>5, <1>t, PopType DEF EndStruct
  <2>5. /\ Len(contextStack') - Len(constructs') = Len(contextStack) - Len(constructs)
        /\ \A i \in 1..Len(constructs') : i <= m /\ i \in 1..(m - 1)
    BY <1>t, <2>3, <2>4
  <2> QED BY <1>t, <2>2, <2>3, <2>4, <2>5, DeclaratorsKept
<1>6. ASSUME NEW n \in Names, NEW ty \in FunctionTypes, BeginFuncDecltr(n, ty)
      PROVE  DeclaratorsInnermost'
  <2>1. \A i \in 1..m : constructs[i].kind # "decltr"
    BY <1>6, NoDeclarators DEF BeginFuncDecltr, AtDeclaration, InnerIn
  <2>2. n \in IDs /\ ty \in Types /\ "decltr" \in ConstructKinds
    BY <1>k DEF ConstructKinds
  <2>3. /\ Len(constructs') = m + 1
        /\ \A i \in 1..m : constructs'[i] = constructs[i]
        /\ constructs'[m + 1].ctx = nCtx + 1
        /\ Len(contextStack') = Len(contextStack) + 1
        /\ contextStack'[Len(contextStack) + 1] = nCtx + 1
        /\ nCtx + 1 \in CtxIds
    BY <1>6, <1>o, <2>2 DEF BeginFuncDecltr
  <2>4. symbolMap'[nCtx + 1] = EmptyMap
    <3>1. symbolMap[nCtx + 1] = EmptyMap
      BY <2>3, MaxCtxIsNat DEF FreshScopes, Skeleton, TypeOK, ScopeTypeOK
    <3> QED BY <1>6, <3>1 DEF BeginFuncDecltr, tableVars
  <2>5. \A k \in IDs : ~HasSymbol(EmptyMap, "Function", k)
    BY DEF HasSymbol, EmptyMap
  <2>6. contextStack'[Len(contextStack') - (Len(constructs') - (m + 1))] = nCtx + 1
    <3>1. Len(contextStack') - (Len(constructs') - (m + 1)) = Len(contextStack) + 1
      BY <1>t, <2>3
    <3> QED BY <2>3, <3>1
  <2>7. SUFFICES ASSUME NEW i \in 1..(m + 1), constructs'[i].kind = "decltr"
                 PROVE  /\ \A j \in (i + 1)..(m + 1) : constructs'[j].kind = "struct"
                        /\ FromTop(Len(constructs) - i)' = constructs'[i].ctx
                        /\ \A k \in IDs : ~HasSymbol(symbolMap[constructs[i].ctx],
                                                     "Function", k)'
    BY <2>3 DEF DeclaratorsInnermost
  <2>8. i = m + 1
    BY <1>t, <2>1, <2>3, <2>7
  <2>9. FromTop(Len(constructs) - i)' = nCtx + 1 /\ constructs'[i].ctx = nCtx + 1
    BY <2>3, <2>6, <2>8 DEF FromTop
  <2>10. \A k \in IDs : ~HasSymbol(symbolMap[constructs[i].ctx], "Function", k)'
    BY <2>4, <2>5, <2>9 DEF HasSymbol
  <2> QED BY <1>t, <2>8, <2>9, <2>10
<1>7. CASE \/ \E n \in Names : ReadParam(n)
           \/ BeginFuncProto /\ UNCHANGED constructs
           \/ UNCHANGED vars
  <2>1. UNCHANGED <<constructs, contextStack, symbolMap>>
    BY <1>7
       DEF ReadParam, BeginFuncProto, vars, scopeVars, treeVars, tableVars, parserVars
  <2> QED BY <1>t, <1>n, <2>1, DeclaratorsKept
<1>8. CASE DeclareFunction
  <2>1. constructs # << >> /\ constructs' = Closed(constructs) /\ Inner.kind = "decltr"
    BY <1>8 DEF DeclareFunction, InnerIn
  <2>2. /\ m \in Nat \ {0}
        /\ Len(constructs') = m - 1
        /\ \A i \in 1..(m - 1) : constructs'[i].kind = constructs[i].kind
    BY <1>c, <2>1
  <2>3. \A i \in 1..(m - 1) : constructs[i].kind # "decltr"
    BY <2>1, <2>2, NoDeclarators
  <2> QED BY <2>2, <2>3, DeclaratorsGone
<1>9. CASE \/ RegisterProto
           \/ /\ BeginFuncProto
              /\ constructs' = [constructs EXCEPT ![Len(constructs)].kind = "func"]
  <2>1. /\ constructs # << >> /\ Inner.kind = "decltr"
        /\ constructs' = [constructs EXCEPT ![Len(constructs)].kind = "func"]
    BY <1>9 DEF RegisterProto, BeginFuncProto, InnerIn, Skeleton
  <2>2. /\ Len(constructs') = m
        /\ \A i \in 1..m : i # m => constructs'[i] = constructs[i]
        /\ constructs'[m].kind = "func"
    BY <1>t, <2>1, ToFuncShape
  <2>3. \A i \in 1..m : i # m => constructs[i].kind # "decltr"
    BY <2>1, NoDeclarators
  <2> QED BY <2>2, <2>3, DeclaratorsGone
<1>10. CASE RegisterParam
  <2>1. Top \in CtxIds /\ Head(params) \in Names
    BY <1>10, <1>t, ScopesExist, HeadTailProperties
       DEF RegisterParam, InnerIn, Skeleton, TypeOK
  <2>2. NoNewFunction
    BY <1>10, <1>t, <1>k, <2>1, OtherKindsNoFunction DEF RegisterParam
  <2>3. UNCHANGED <<constructs, contextStack>>
    BY <1>10 DEF RegisterParam, treeVars
  <2> QED BY <1>t, <2>2, <2>3, DeclaratorsKept
<1>11. CASE BeginCompStmt \/ BeginFor
  <2>1. \A i \in 1..m : constructs[i].kind # "decltr"
    BY <1>11, NoDeclarators DEF BeginCompStmt, BeginFor, AtStatement, InnerIn
  <2>2. PICK kind \in {"comp", "for"} : constructs' = Append(constructs, Opened(kind))
    BY <1>11 DEF BeginCompStmt, BeginFor
  <2>3. kind \in ConstructKinds
    BY DEF ConstructKinds
  <2>4. constructs' = Append(constructs, OpenedAs(kind, NoName, ObjectType))
    BY <2>2, <2>3, OpenedIs
  <2>5. /\ Len(constructs') = m + 1
        /\ \A i \in 1..m : constructs'[i] = constructs[i]
        /\ constructs'[m + 1].kind = kind
    BY <1>11, <1>k, <1>o, <2>3, <2>4 DEF BeginCompStmt, BeginFor
  <2> QED BY <1>t, <2>1, <2>5, DeclaratorsGone
<1>12. CASE EndFuncDef \/ EndCompStmt \/ RecoverCompStmt \/ EndFor
  <2>1. \A i \in 1..m : constructs[i].kind # "decltr"
    BY <1>12, NoDeclarators
       DEF EndFuncDef, EndCompStmt, RecoverCompStmt, EndFor, InnerIn
  <2>2. /\ m \in Nat \ {0}
        /\ Len(constructs') = m - 1
        /\ \A i \in 1..(m - 1) : constructs'[i].kind = constructs[i].kind
    BY <1>12, <1>c DEF EndFuncDef, EndCompStmt, RecoverCompStmt, EndFor, InnerIn
  <2> QED BY <2>1, <2>2, DeclaratorsGone
<1>13. CASE SimpleForBody
  <2>1. \A i \in 1..m : constructs[i].kind # "decltr"
    BY <1>13, NoDeclarators DEF SimpleForBody, InnerIn
  <2>2. Len(constructs') = m /\ \A i \in 1..m : constructs'[i].kind = constructs[i].kind
    BY <1>13, <1>t, StmtParsedShape DEF SimpleForBody
  <2> QED BY <2>1, <2>2, DeclaratorsGone
<1>14. BeginFuncProto => \/ UNCHANGED constructs
                         \/ constructs' = [constructs EXCEPT ![Len(constructs)].kind = "func"]
  BY DEF BeginFuncProto
<1> QED
  BY <1>1, <1>2, <1>3, <1>4, <1>5, <1>6, <1>7, <1>8, <1>9, <1>10, <1>11, <1>12,
     <1>13, <1>14 DEF Next, Step, Finished

LEMMA DeclaratorsInvariant == Spec => []DeclaratorsInnermost
<1>1. Init => DeclaratorsInnermost
  BY DEF Init, DeclaratorsInnermost
<1>2. /\ Skeleton /\ Skeleton' /\ ScopesNest /\ FreshScopes /\ DeclaratorsInnermost
      /\ [Next]_vars
      => DeclaratorsInnermost'
  BY DeclaratorsStep
<1> QED BY <1>1, <1>2, SkeletonInvariant, ScopesAlwaysNest, FreshInvariant, PTL
    DEF Spec

\* FuncProto's test for an earlier definition always fails: it looks in the
\* scope of the parameters, where no function is ever registered.
THEOREM ProtoTestIsVain == Spec => []ProtoTestFindsNothing
<1>1. Skeleton /\ DeclaratorsInnermost => ProtoTestFindsNothing
  <2> SUFFICES ASSUME Skeleton, DeclaratorsInnermost, InnerIn({"decltr"}),
                      NEW n \in IDs
               PROVE  ~HasSymbol(symbolMap[Top], "Function", n)
    BY DEF ProtoTestFindsNothing
  <2>1. Len(constructs) \in 1..Len(constructs) /\ Inner.kind = "decltr"
    BY ScopesExist DEF InnerIn
  <2>2. FromTop(Len(constructs) - Len(constructs)) = Inner.ctx
        /\ ~HasSymbol(symbolMap[Inner.ctx], "Function", n)
    BY <2>1 DEF DeclaratorsInnermost, Inner
  <2>3. Len(constructs) - Len(constructs) = 0
    BY <2>1
  <2> QED BY <2>2, <2>3 DEF Top
<1> QED BY <1>1, SkeletonInvariant, DeclaratorsInvariant, PTL

-----------------------------------------------------------------------------
(* Function definitions.                                                   *)

\* What the file scope says of a function whose body is being parsed: it is
\* there with the type of the definition, or has been defined before, or the
\* name means something else, which has been reported.
AnnouncedAs(n, ty) ==
    LET e == symbolMap[1][n]
    IN  /\ e # NoEntry
        /\ e.symEntTy = "Function" => e.type = ty \/ e.defined
        /\ e.symEntTy # "Function" => <<1, n>> \in diagnosed

\* Functions are defined at file scope only, and announced there.
DefinitionsAnnounced ==
    /\ inProto => Len(constructs) = 2
    /\ \A i \in 1..Len(constructs) :
           /\ constructs[i].kind \in {"decltr", "func"} => constructs[i].name \in Names
           /\ constructs[i].kind = "func" =>
                  i = 2 /\ AnnouncedAs(constructs[i].name, constructs[i].type)

\* The scope around the innermost construct when scopes and constructs are
\* paired; the first scope is the file scope.
LEMMA PairedScopes ==
    ASSUME Skeleton, ScopesNest, Paired, constructs # << >>
    PROVE  /\ Len(constructs) \in Nat \ {0}
           /\ 1 \in CtxIds
           /\ contextStack[1] = 1
           /\ Len(contextStack) = Len(constructs)
           /\ Len(constructs) = 2 => FromTop(1) = 1
           /\ Len(constructs) > 1 => Top # 1
           /\ Len(constructs) > 2 => FromTop(1) # 1
<1>1. /\ Len(constructs) \in Nat \ {0}
      /\ Len(contextStack) = Len(constructs)
      /\ contextStack[1] = constructs[1].ctx /\ constructs[1].ctx = 1
  BY ScopesExist DEF Paired, ScopesMatchConstructs
<1>2. 1 \in CtxIds
  BY <1>1, OpenAreCreated
<1>3. \A i \in 1..Len(contextStack) : i > 1 => contextStack[i] # 1
  BY <1>1 DEF ScopesNest
<1>4. /\ Top = contextStack[Len(constructs)]
      /\ FromTop(1) = contextStack[Len(constructs) - 1]
  BY <1>1 DEF Top, FromTop
<1>5. /\ Len(constructs) = 2 => Len(constructs) - 1 = 1
      /\ Len(constructs) > 1 => Len(constructs) \in 1..Len(contextStack)
      /\ Len(constructs) > 2 => /\ Len(constructs) - 1 \in 1..Len(contextStack)
                                /\ Len(constructs) - 1 > 1
  BY <1>1
<1> QED BY <1>1, <1>2, <1>3, <1>4, <1>5

\* A registration in another scope changes no announcement.
LEMMA OtherScopeAnnounced ==
    ASSUME ScopeTypeOK, 1 \in CtxIds, NEW c \in CtxIds, c # 1,
           NEW kind \in Kinds, NEW n \in IDs, NEW ty \in Types, NEW def \in BOOLEAN,
           TryRegister(c, kind, n, ty, def), NEW k, NEW t, AnnouncedAs(k, t)
    PROVE  AnnouncedAs(k, t)'
<1>1. symbolMap'[1] = symbolMap[1]
  BY TryRegisterOnly
<1>2. diagnosed \subseteq diagnosed'
  BY TryRegisterOnly
<1> QED BY <1>1, <1>2 DEF AnnouncedAs

\* Registering the function announces it, or finds why it cannot.
LEMMA RegisteredIsAnnounced ==
    ASSUME ScopeTypeOK, 1 \in CtxIds, NEW n \in IDs, NEW ty \in Types,
           TryRegister(1, "Function", n, ty, FALSE)
    PROVE  AnnouncedAs(n, ty)'
<1>1. "Function" \in Kinds
  BY DEF Kinds
<1>2. CASE CanRegister(symbolMap[1], "Function", n)
  <2>1. symbolMap'[1][n] = Entry("Function", ty, FALSE)
    BY <1>1, <1>2, TryRegisterOnly
  <2>2. /\ Entry("Function", ty, FALSE) # NoEntry
        /\ Entry("Function", ty, FALSE).symEntTy = "Function"
        /\ Entry("Function", ty, FALSE).type = ty
    BY <1>1, EntryType
  <2>3. /\ symbolMap'[1][n] # NoEntry
        /\ symbolMap'[1][n].symEntTy = "Function"
        /\ symbolMap'[1][n].type = ty
    BY <2>1, <2>2
  <2> QED BY <2>3 DEF AnnouncedAs
<1>3. CASE ~CanRegister(symbolMap[1], "Function", n)
  <2>1. symbolMap'[1][n] = symbolMap[1][n] /\ diagnosed' = diagnosed \cup {<<1, n>>}
    BY <1>1, <1>3, TryRegisterOnly
  <2> QED BY <1>3, <2>1 DEF AnnouncedAs, CanRegister
<1> QED BY <1>2, <1>3

\* Steps that keep every announcement and make no new one.
LEMMA AnnouncementsKept ==
    ASSUME Skeleton, DefinitionsAnnounced, ~inProto',
           \A i \in 1..Len(constructs') :
               IF i <= Len(constructs)
               THEN /\ constructs'[i].kind = constructs[i].kind
                    /\ constructs'[i].name = constructs[i].name
                    /\ constructs'[i].type = constructs[i].type
               ELSE /\ constructs'[i].kind # "func"
                    /\ constructs'[i].kind = "decltr" => constructs'[i].name \in Names,
           \/ UNCHANGED tableVars
           \/ \A i \in 1..Len(constructs') : constructs'[i].kind # "func"
           \/ /\ 1 \in CtxIds
              /\ \E c \in CtxIds \ {1}, kind \in Kinds, n \in IDs, ty \in Types,
                    def \in BOOLEAN : TryRegister(c, kind, n, ty, def)
    PROVE  DefinitionsAnnounced'
<1>1. Len(constructs) \in Nat /\ ScopeTypeOK
  BY LenProperties DEF Skeleton, TypeOK
<1> SUFFICES ASSUME NEW i \in 1..Len(constructs')
             PROVE  /\ constructs'[i].kind \in {"decltr", "func"} =>
                           constructs'[i].name \in Names
                    /\ constructs'[i].kind = "func" =>
                           i = 2 /\ AnnouncedAs(constructs[i].name, constructs[i].type)'
  BY DEF DefinitionsAnnounced
<1>2. i <= Len(constructs) => i \in 1..Len(constructs)
  BY <1>1
<1>3. constructs'[i].kind \in {"decltr", "func"} => constructs'[i].name \in Names
  BY <1>2 DEF DefinitionsAnnounced
<1>4. ASSUME constructs'[i].kind = "func"
      PROVE  i = 2 /\ AnnouncedAs(constructs[i].name, constructs[i].type)'
  <2>1. /\ i \in 1..Len(constructs) /\ constructs[i].kind = "func"
        /\ constructs'[i].name = constructs[i].name
        /\ constructs'[i].type = constructs[i].type
    BY <1>2, <1>4
  <2> DEFINE n == constructs[i].name
             t == constructs[i].type
  <2>2. i = 2 /\ AnnouncedAs(n, t)
    BY <2>1 DEF DefinitionsAnnounced
  <2>3. CASE UNCHANGED tableVars
    BY <2>1, <2>2, <2>3 DEF tableVars, AnnouncedAs
  <2>4. ASSUME 1 \in CtxIds, NEW c \in CtxIds \ {1}, NEW kind \in Kinds, NEW k \in IDs,
               NEW ty \in Types, NEW def \in BOOLEAN, TryRegister(c, kind, k, ty, def)
        PROVE  AnnouncedAs(constructs[i].name, constructs[i].type)'
    <3> HIDE DEF n, t
    <3>1. AnnouncedAs(n, t) => /\ symbolMap'[1] = symbolMap[1]
                               /\ diagnosed \subseteq diagnosed'
      BY <1>1, <2>4, TryRegisterOnly
    <3> QED BY <2>1, <2>2, <3>1 DEF AnnouncedAs, n, t
  <2> QED BY <1>4, <2>2, <2>3, <2>4
<1> QED BY <1>3, <1>4

\* Every step keeps the announcements.
LEMMA AnnouncedStep ==
    ASSUME ~ForLoops, ~SyntaxErrors, Skeleton, Skeleton', ScopesNest, Paired,
           ProtoTestFindsNothing, DefinitionsAnnounced, [Next]_vars
    PROVE  DefinitionsAnnounced'
<1> DEFINE m == Len(constructs)
           Elsewhere ==
               /\ 1 \in CtxIds
               /\ \E c \in CtxIds \ {1}, kind \in Kinds, n \in IDs, ty \in Types,
                     def \in BOOLEAN : TryRegister(c, kind, n, ty, def)
<1> USE DEF Parsing, InnerIn
<1>t. /\ TypeOK /\ ScopeTypeOK
      /\ constructs \in Seq(Constructs)
      /\ m \in Nat
  BY LenProperties DEF Skeleton, TypeOK
<1>k. /\ Kinds = {"Variable", "Function", "Paramater", "StructDecl", "UnionDecl"}
      /\ ObjectType \in Types /\ NoName \in IDs /\ Names \subseteq IDs
      /\ FunctionTypes \subseteq Types
  BY DEF Kinds, Types, IDs
<1>f. ASSUME NEW i \in 1..m, constructs[i].kind = "func"
      PROVE  i = 2 /\ m > 1 /\ constructs[2].kind = "func"
             /\ (Inner.kind # "func" => m > 2)
  <2>1. i = 2
    BY <1>f DEF DefinitionsAnnounced
  <2> QED BY <1>f, <1>t, <2>1 DEF Inner
<1>p. ~inProto /\ (protoVars' = protoVars \/ inProto' = inProto) => ~inProto'
  BY DEF protoVars
<1>o. ASSUME PushNew, NEW kind \in ConstructKinds, NEW n \in IDs, NEW ty \in Types,
             constructs' = Append(constructs, OpenedAs(kind, n, ty)),
             kind # "func", kind = "decltr" => n \in Names,
             UNCHANGED tableVars, ~inProto'
      PROVE  DefinitionsAnnounced'
  <2>1. nCtx + 1 \in CtxIds
    BY <1>o, MaxCtxIsNat DEF Skeleton, TypeOK, ScopeTypeOK, PushNew, CtxIds
  <2>2. /\ Len(constructs') = m + 1
        /\ \A i \in 1..m : constructs'[i] = constructs[i]
        /\ constructs'[m + 1] = OpenedAs(kind, n, ty)
    BY <1>o, <1>t, <2>1, OpenedShape
  <2>3. OpenedAs(kind, n, ty).kind = kind /\ OpenedAs(kind, n, ty).name = n
    BY DEF OpenedAs
  <2>4. \A i \in 1..(m + 1) : i <= m => i \in 1..m
    BY <1>t
  <2>5. \A i \in 1..(m + 1) : ~(i <= m) => i = m + 1
    BY <1>t
  <2> HIDE DEF m
  <2>6. \A i \in 1..Len(constructs') :
            IF i <= m
            THEN /\ constructs'[i].kind = constructs[i].kind
                 /\ constructs'[i].name = constructs[i].name
                 /\ constructs'[i].type = constructs[i].type
            ELSE /\ constructs'[i].kind # "func"
                 /\ constructs'[i].kind = "decltr" => constructs'[i].name \in Names
    BY <1>o, <2>2, <2>3, <2>4, <2>5
  <2> QED BY <1>o, <2>6, AnnouncementsKept DEF m
<1>c. ASSUME constructs # << >>,
             \/ constructs' = Closed(constructs)
             \/ constructs' = StmtParsed(Closed(constructs))
      PROVE  /\ Len(constructs') = m - 1
             /\ m \in Nat \ {0}
             /\ \A i \in 1..(m - 1) : /\ constructs'[i].kind = constructs[i].kind
                                      /\ constructs'[i].name = constructs[i].name
                                      /\ constructs'[i].type = constructs[i].type
  <2>1. /\ m \in Nat \ {0}
        /\ Closed(constructs) \in Seq(Constructs)
        /\ Len(Closed(constructs)) = m - 1
        /\ \A i \in 1..(m - 1) : Closed(constructs)[i] = constructs[i]
    BY <1>c, <1>t, ClosedShape
  <2> QED BY <1>c, <2>1, StmtParsedShape
<1>d. ASSUME constructs # << >>,
             \/ constructs' = Closed(constructs)
             \/ constructs' = StmtParsed(Closed(constructs)),
             ~inProto',
             \/ UNCHANGED tableVars
             \/ \A i \in 1..m : i # m => constructs[i].kind # "func"
             \/ Elsewhere
      PROVE  DefinitionsAnnounced'
  <2>1. /\ Len(constructs') = m - 1
        /\ m \in Nat \ {0}
        /\ \A i \in 1..(m - 1) : /\ constructs'[i].kind = constructs[i].kind
                                 /\ constructs'[i].name = constructs[i].name
                                 /\ constructs'[i].type = constructs[i].type
    BY <1>c, <1>d
  <2>2. \A i \in 1..(m - 1) : i <= m /\ i \in 1..m /\ i # m
    BY <2>1
  <2> HIDE DEF m
  <2> QED BY <1>d, <2>1, <2>2, AnnouncementsKept DEF m
<1>e. ASSUME UNCHANGED constructs, ~inProto', UNCHANGED tableVars \/ Elsewhere
      PROVE  DefinitionsAnnounced'
  BY <1>e, <1>t, AnnouncementsKept
<1>1. CASE BeginParseRoot
  <2>1. "unit" \in ConstructKinds /\ constructs = << >>
    BY <1>1 DEF BeginParseRoot, ConstructKinds
  <2>2. constructs' = Append(constructs, OpenedAs("unit", NoName, ObjectType))
    BY <1>1, <2>1, OpenedIs DEF BeginParseRoot
  <2> QED BY <1>1, <1>k, <1>p, <1>o, <2>1, <2>2 DEF BeginParseRoot
<1>2. CASE EndParseRoot
  <2>1. constructs' = << >> /\ ~inProto'
    BY <1>2, <1>p DEF EndParseRoot
  <2> QED BY <2>1 DEF DefinitionsAnnounced
<1>3. CASE BeginStruct
  <2>1. "struct" \in ConstructKinds
    BY DEF ConstructKinds
  <2>2. constructs' = Append(constructs, OpenedAs("struct", NoName, ObjectType))
    BY <1>3, <2>1, OpenedIs DEF BeginStruct
  <2> QED BY <1>3, <1>k, <1>p, <1>o, <2>1, <2>2 DEF BeginStruct
<1>4. ASSUME NEW n \in Names, DeclareMember(n) \/ DeclareVariable(n)
      PROVE  DefinitionsAnnounced'
  <2>1. /\ constructs # << >> /\ Top \in CtxIds /\ Inner.kind # "func"
        /\ TryRegister(Top, "Variable", n, ObjectType, TRUE)
        /\ UNCHANGED constructs /\ ~inProto'
    BY <1>4, <1>p, ScopesExist
       DEF DeclareMember, DeclareVariable, AtDeclaration
  <2>2. CASE \E i \in 1..m : constructs[i].kind = "func"
    <3>1. 1 \in CtxIds /\ Top # 1
      BY <1>f, <2>1, <2>2, PairedScopes
    <3>2. "Variable" \in Kinds /\ ObjectType \in Types /\ n \in IDs
      BY <1>k
    <3>3. Elsewhere
      BY <2>1, <3>1, <3>2
    <3> QED BY <1>e, <2>1, <3>3
  <2>3. CASE \A i \in 1..m : constructs[i].kind # "func"
    BY <1>t, <2>1, <2>3, AnnouncementsKept
  <2> QED BY <2>2, <2>3
<1>5. ASSUME NEW kind \in {"StructDecl", "UnionDecl"}, NEW tag \in IDs,
             EndStruct(kind, tag)
      PROVE  DefinitionsAnnounced'
  <2>1. /\ constructs # << >> /\ FromTop(1) \in CtxIds /\ Inner.kind = "struct"
        /\ constructs' = Closed(constructs) /\ ~inProto'
    BY <1>5, <1>p, ScopesExist DEF EndStruct
  <2>2. \/ UNCHANGED tableVars
        \/ TryRegister(FromTop(1), kind, tag, ObjectType, TRUE)
    BY <1>5 DEF EndStruct
  <2>3. CASE \E i \in 1..m : constructs[i].kind = "func"
    <3>1. 1 \in CtxIds /\ FromTop(1) # 1
      BY <1>f, <2>1, <2>3, PairedScopes
    <3>2. kind \in Kinds /\ ObjectType \in Types
      BY <1>k
    <3>3. UNCHANGED tableVars \/ Elsewhere
      BY <2>1, <2>2, <3>1, <3>2
    <3> QED BY <1>d, <2>1, <3>3
  <2>4. CASE \A i \in 1..m : constructs[i].kind # "func"
    BY <1>d, <2>1, <2>4
  <2> QED BY <2>3, <2>4
<1>6. ASSUME NEW n \in Names, NEW ty \in FunctionTypes, BeginFuncDecltr(n, ty)
      PROVE  DefinitionsAnnounced'
  <2>1. "decltr" \in ConstructKinds /\ n \in IDs /\ ty \in Types
    BY <1>k DEF ConstructKinds
  <2> QED BY <1>6, <1>p, <1>o, <2>1 DEF BeginFuncDecltr
<1>7. CASE \/ \E n \in Names : ReadParam(n)
           \/ SimpleForBody /\ UNCHANGED constructs
  BY <1>7, <1>p, <1>e DEF ReadParam, SimpleForBody, scopeVars
<1>8. CASE DeclareFunction
  <2>1. /\ constructs # << >> /\ FromTop(1) \in CtxIds /\ Inner.kind = "decltr"
        /\ Inner \in Constructs
        /\ constructs' = Closed(constructs) /\ ~inProto'
        /\ TryRegister(FromTop(1), "Function", Inner.name, Inner.type, FALSE)
    BY <1>8, <1>p, ScopesExist DEF DeclareFunction
  <2>2. CASE \E i \in 1..m : constructs[i].kind = "func"
    <3>1. 1 \in CtxIds /\ FromTop(1) # 1
      BY <1>f, <2>1, <2>2, PairedScopes
    <3>2. "Function" \in Kinds /\ Inner.name \in IDs /\ Inner.type \in Types
      BY <1>k, <2>1 DEF Constructs
    <3>3. Elsewhere
      BY <2>1, <3>1, <3>2
    <3> QED BY <1>d, <2>1, <3>3
  <2>3. CASE \A i \in 1..m : constructs[i].kind # "func"
    BY <1>d, <2>1, <2>3
  <2> QED BY <2>2, <2>3
<1>9. CASE BeginFuncProto
  <2>1. /\ constructs # << >> /\ Inner.kind = "decltr" /\ Inner \in Constructs
        /\ m \in Nat /\ m > 1
        /\ constructs[m - 1].kind = "unit"
    BY <1>9, ScopesExist DEF BeginFuncProto
  <2>2. m = 2
    <3>1. m - 1 \in 1..m
      BY <2>1
    <3>2. m - 1 = 1
      BY <2>1, <3>1 DEF Paired, KindsPlaced
    <3> QED BY <2>1, <3>2
  <2>3. Inner.name \in IDs
    BY <2>1 DEF Constructs
  <2>4. ~IsSymDefined(symbolMap[Top], "Function", Inner.name)
    BY <2>1, <2>3 DEF ProtoTestFindsNothing, HasSymbol, IsSymDefined
  <2>5. UNCHANGED <<constructs, tableVars>>
    BY <1>9, <2>4 DEF BeginFuncProto, scopeVars
  <2> QED BY <2>2, <2>5 DEF DefinitionsAnnounced, AnnouncedAs, tableVars
<1>10. CASE RegisterParam
  <2>1. /\ constructs # << >> /\ m = 2 /\ UNCHANGED <<constructs, inProto>>
        /\ Inner.kind = "decltr" /\ constructs[1].kind = "unit"
    BY <1>10 DEF RegisterParam, Skeleton, DefinitionsAnnounced
  <2>2. \A i \in 1..m : constructs[i].kind # "func"
    BY <2>1 DEF Inner
  <2> QED BY <2>1, <2>2 DEF DefinitionsAnnounced
<1>11. CASE RegisterProto
  <2>0. PICK n, ty : n = Inner.name /\ ty = Inner.type
    OBVIOUS
  <2>1. /\ constructs # << >> /\ m = 2 /\ ~inProto' /\ Inner \in Constructs
        /\ Inner.kind = "decltr" /\ constructs[1].kind = "unit"
        /\ constructs' = [constructs EXCEPT ![Len(constructs)].kind = "func"]
        /\ TryRegister(FromTop(1), "Function", n, ty, FALSE)
    BY <1>11, <2>0, ScopesExist, RegisterProtoDoes DEF ProtoRegistered, Skeleton, DefinitionsAnnounced
  <2>2. n \in IDs /\ ty \in Types
    BY <2>0, <2>1 DEF Constructs
  <2>3. n \in Names
    BY <2>0, <2>1 DEF Inner, DefinitionsAnnounced
  <2>4. 1 \in CtxIds /\ FromTop(1) = 1
    BY <2>1, PairedScopes
  <2>5. AnnouncedAs(n, ty)'
    BY <1>t, <2>1, <2>2, <2>4, RegisteredIsAnnounced
  <2>6. /\ Len(constructs') = 2
        /\ constructs'[1] = constructs[1]
        /\ constructs'[2].kind = "func"
        /\ constructs'[2].name = n /\ constructs'[2].type = ty
    BY <1>t, <2>0, <2>1, ToFuncShape DEF Inner
  <2>7. \A i \in 1..2 : i # 2 => i = 1
    OBVIOUS
  <2> QED BY <2>1, <2>3, <2>5, <2>6, <2>7 DEF DefinitionsAnnounced, AnnouncedAs
<1>12. CASE EndFuncDef
  <2>1. /\ constructs # << >> /\ Inner.kind = "func" /\ ~inProto'
        /\ constructs' = Closed(constructs)
    BY <1>12, <1>p DEF EndFuncDef
  <2>2. m \in 1..m
    BY <2>1, ScopesExist
  <2>3. \A i \in 1..m : i # m => constructs[i].kind # "func"
    BY <1>f, <2>1, <2>2 DEF Inner
  <2> QED BY <1>d, <2>1, <2>3
<1>13. CASE BeginCompStmt
  <2>1. "comp" \in ConstructKinds
    BY DEF ConstructKinds
  <2>2. constructs' = Append(constructs, OpenedAs("comp", NoName, ObjectType))
    BY <1>13, <2>1, OpenedIs DEF BeginCompStmt
  <2> QED BY <1>13, <1>k, <1>p, <1>o, <2>1, <2>2 DEF BeginCompStmt
<1>14. CASE EndCompStmt
  BY <1>14, <1>p, <1>d DEF EndCompStmt
<1>15. CASE RecoverCompStmt \/ BeginFor \/ SimpleForBody \/ EndFor
  <2>1. CASE RecoverCompStmt \/ BeginFor
    BY <2>1 DEF RecoverCompStmt, BeginFor
  <2>2. CASE SimpleForBody \/ EndFor
    <3>1. Len(constructs) \in 1..Len(constructs) /\ Inner.kind = "for"
      BY <2>2, ScopesExist DEF SimpleForBody, EndFor
    <3> QED BY <3>1 DEF Inner, Paired, KindsPlaced
  <2> QED BY <1>15, <2>1, <2>2
<1>16. CASE UNCHANGED vars
  BY <1>16
     DEF DefinitionsAnnounced, AnnouncedAs, vars, scopeVars, tableVars, parserVars,
         protoVars
<1> QED
  BY <1>1, <1>2, <1>3, <1>4, <1>5, <1>6, <1>7, <1>8, <1>9, <1>10, <1>11, <1>12,
     <1>13, <1>14, <1>15, <1>16 DEF Next, Step, Finished

LEMMA AnnouncedInvariant ==
    ASSUME ~ForLoops, ~SyntaxErrors
    PROVE  Spec => []DefinitionsAnnounced
<1>1. Init => DefinitionsAnnounced
  BY DEF Init, DefinitionsAnnounced
<1>2. /\ Skeleton /\ Skeleton' /\ ScopesNest /\ Paired /\ ProtoTestFindsNothing
      /\ DefinitionsAnnounced /\ [Next]_vars
      => DefinitionsAnnounced'
  BY AnnouncedStep
<1> QED
  BY <1>1, <1>2, SkeletonInvariant, ScopesAlwaysNest, PairedInvariant,
     ProtoTestIsVain, PTL DEF Spec

\* What the lookup of FuncDef is made in, and for.
LEMMA FuncDefScope ==
    ASSUME Skeleton, ScopesNest, Paired, DefinitionsAnnounced, EndFuncDef
    PROVE  /\ 1 \in CtxIds
           /\ FromTop(1) = 1
           /\ Inner.name \in Names /\ Inner.name \in IDs
           /\ Inner.type \in Types
           /\ AnnouncedAs(Inner.name, Inner.type)
<1>1. constructs # << >> /\ Inner.kind = "func"
  BY DEF EndFuncDef, InnerIn
<1>2. Inner \in Constructs /\ Len(constructs) \in 1..Len(constructs)
  BY <1>1, ScopesExist
<1>3. /\ Inner.name \in Names /\ Len(constructs) = 2
      /\ AnnouncedAs(Inner.name, Inner.type)
  BY <1>1, <1>2 DEF DefinitionsAnnounced, Inner
<1> QED BY <1>1, <1>2, <1>3, PairedScopes DEF Constructs, IDs

\* A scope's entries keep their kind, and errors that were logged stay logged.
LEMMA ReportsStay ==
    ASSUME Skeleton, [Next]_vars, 1 \in CtxIds, NEW n \in Names,
           <<1, n>> \in diagnosed, symbolMap[1][n] # NoEntry,
           symbolMap[1][n].symEntTy # "Function"
    PROVE  /\ <<1, n>> \in diagnosed'
           /\ symbolMap'[1][n] # NoEntry
           /\ symbolMap'[1][n].symEntTy # "Function"
<1>1. n \in IDs /\ ScopeTypeOK
  BY DEF IDs, Skeleton, TypeOK
<1>2. symbolMap'[1][n] # NoEntry /\ symbolMap'[1][n].symEntTy # "Function"
  <2>1. CASE UNCHANGED <<symbolMap, symbolList>> /\ diagnosed \subseteq diagnosed'
    BY <2>1
  <2>2. CASE \E c \in CtxIds \cap OpenScopes, kind \in Kinds, k \in IDs, ty \in Types,
                def \in BOOLEAN : TryRegister(c, kind, k, ty, def)
    BY <1>1, <2>2, TryRegisterRefines
  <2> QED BY <2>1, <2>2, TableSteps
<1>3. diagnosed \subseteq diagnosed'
  BY <1>1, TableSteps, TryRegisterOnly
<1> QED BY <1>2, <1>3

\* FuncDef's lookup, whose exception nothing catches, only fails for a function
\* whose name was taken by something else at file scope, and after that has
\* been reported.
THEOREM TerminationIsExplained ==
    ASSUME ~ForLoops, ~SyntaxErrors
    PROVE  Spec => []TerminationExplained
<1>1. Init => TerminationExplained
  BY DEF Init, TerminationExplained
<1>2. /\ Skeleton /\ ScopesNest /\ Paired /\ DefinitionsAnnounced
      /\ TerminationExplained /\ [Next]_vars
      => TerminationExplained'
  <2> SUFFICES ASSUME Skeleton, ScopesNest, Paired, DefinitionsAnnounced,
                      TerminationExplained, [Next]_vars, status' = "terminated"
               PROVE  \E n \in Names : /\ <<1, n>> \in diagnosed'
                                       /\ symbolMap'[1][n] # NoEntry
                                       /\ symbolMap'[1][n].symEntTy # "Function"
    BY DEF TerminationExplained
  <2>1. CASE status = "terminated"
    <3>1. PICK n \in Names : /\ <<1, n>> \in diagnosed
                             /\ symbolMap[1][n] # NoEntry
                             /\ symbolMap[1][n].symEntTy # "Function"
      BY <2>1 DEF TerminationExplained
    <3>2. 1 \in CtxIds
      BY <3>1 DEF Skeleton, TypeOK, ScopeTypeOK
    <3> QED BY <3>1, <3>2, ReportsStay
  <2>2. CASE status # "terminated"
    <3>1. EndFuncDef
      BY <2>2
         DEF Next, Step, Finished, vars, parserVars, outcomeVars, BeginParseRoot,
             EndParseRoot, BeginStruct, DeclareMember, EndStruct, DeclareVariable,
             BeginFuncDecltr, ReadParam, DeclareFunction, BeginFuncProto,
             RegisterParam, RegisterProto, BeginCompStmt, EndCompStmt,
             RecoverCompStmt, BeginFor, SimpleForBody, EndFor, Parsing
    <3> DEFINE n == Inner.name
    <3>2. /\ FromTop(1) = 1 /\ n \in Names /\ AnnouncedAs(n, Inner.type)
      BY <3>1, FuncDefScope
    <3>3. /\ ~HasSymbol(symbolMap[1], "Function", n)
          /\ UNCHANGED tableVars
      BY <2>2, <3>1, <3>2 DEF EndFuncDef, Parsing
    <3> HIDE DEF n
    <3>4. /\ <<1, n>> \in diagnosed
          /\ symbolMap[1][n] # NoEntry
          /\ symbolMap[1][n].symEntTy # "Function"
      BY <3>2, <3>3 DEF AnnouncedAs, HasSymbol
    <3>5. PICK k \in Names : k = n
      BY <3>2
    <3> QED BY <3>3, <3>4, <3>5 DEF tableVars
  <2> QED BY <2>1, <2>2
<1> QED
  BY <1>1, <1>2, SkeletonInvariant, ScopesAlwaysNest, PairedInvariant,
     AnnouncedInvariant, PTL DEF Spec

\* A function definition the parser goes on after leaves the function defined
\* at file scope, with its own type unless an error was logged: what else FuncDef
\* could find under the name cannot be a declaration of another type.
THEOREM FuncDefsDefine ==
    ASSUME ~ForLoops, ~SyntaxErrors
    PROVE  Spec => FuncDefDefines
<1> DEFINE Defined ==
               EndFuncDef /\ status' = "parsing" =>
                   LET n == Inner.name
                   IN  /\ IsSymDefined(symbolMap'[1], "Function", n)
                       /\ \/ symbolMap'[1][n].type = Inner.type
                          \/ <<1, n>> \in diagnosed'
<1>1. /\ Skeleton /\ ScopesNest /\ Paired /\ DefinitionsAnnounced /\ [Next]_vars
      => [Defined]_vars
  <2> SUFFICES ASSUME Skeleton, ScopesNest, Paired, DefinitionsAnnounced,
                      EndFuncDef, status' = "parsing"
               PROVE  /\ IsSymDefined(symbolMap'[1], "Function", Inner.name)
                      /\ \/ symbolMap'[1][Inner.name].type = Inner.type
                         \/ <<1, Inner.name>> \in diagnosed'
    OBVIOUS
  <2>1. PICK n, ty : n = Inner.name /\ ty = Inner.type
    OBVIOUS
  <2>2. /\ 1 \in CtxIds /\ FromTop(1) = 1 /\ n \in IDs /\ ty \in Types
        /\ AnnouncedAs(n, ty) /\ ScopeTypeOK
    BY <2>1, FuncDefScope DEF Skeleton, TypeOK
  <2>3. /\ HasSymbol(symbolMap[1], "Function", n)
        /\ IF symbolMap[1][n].type = ty
           THEN TryRegister(1, "Function", n, ty, TRUE)
           ELSE diagnosed' = diagnosed \cup {<<1, n>>} /\ symbolMap' = symbolMap
    BY <2>1, <2>2 DEF EndFuncDef
  <2>4. "Function" \in Kinds
    BY DEF Kinds
  <2>5. CASE symbolMap[1][n].type = ty /\ CanRegister(symbolMap[1], "Function", n)
    <3>1. symbolMap'[1][n] = Entry("Function", ty, TRUE)
      BY <2>2, <2>3, <2>4, <2>5, TryRegisterOnly
    <3>2. /\ Entry("Function", ty, TRUE) # NoEntry
          /\ Entry("Function", ty, TRUE).symEntTy = "Function"
          /\ Entry("Function", ty, TRUE).type = ty
          /\ Entry("Function", ty, TRUE).defined = TRUE
      BY <2>2, <2>4, EntryType
    <3> QED BY <2>1, <3>1, <3>2 DEF IsSymDefined
  <2>6. CASE symbolMap[1][n].type = ty /\ ~CanRegister(symbolMap[1], "Function", n)
    <3>1. symbolMap'[1][n] = symbolMap[1][n]
      BY <2>2, <2>3, <2>4, <2>6, TryRegisterOnly
    <3> QED BY <2>1, <2>3, <2>6, <3>1 DEF IsSymDefined, CanRegister, HasSymbol
  <2>7. CASE symbolMap[1][n].type # ty
    <3>1. symbolMap[1][n].defined
      BY <2>2, <2>3, <2>7 DEF AnnouncedAs, HasSymbol
    <3> QED BY <2>1, <2>3, <2>7, <3>1 DEF IsSymDefined, HasSymbol
  <2> QED BY <2>5, <2>6, <2>7
<1> QED
  BY <1>1, SkeletonInvariant, ScopesAlwaysNest, PairedInvariant, AnnouncedInvariant,
     PTL DEF Spec, FuncDefDefines

-----------------------------------------------------------------------------
(* The parser implements LexicalScoping.                                   *)

\* What Scoping puts for the variables of LexicalScoping.
AbsOpen == [i \in 1..Len(constructs) |-> FrameKind(constructs[i].kind)]
AbsEnv  == [i \in 1..Len(contextStack) |-> symbolMap[contextStack[i]]]

\* Pushing the empty scope of a new construct opens a frame.
LEMMA OpenRefines ==
    ASSUME Skeleton, ScopesNest, FreshScopes, Paired, PushNew, UNCHANGED tableVars,
           NEW kind \in ConstructKinds, NEW n \in IDs, NEW ty \in Types,
           constructs' = Append(constructs, OpenedAs(kind, n, ty))
    PROVE  Scoping!Open
<1> DEFINE m == Len(constructs)
<1>1. /\ constructs \in Seq(Constructs) /\ contextStack \in Seq(CtxIds)
      /\ m \in Nat /\ Len(contextStack) = m
      /\ nCtx \in Nat /\ nCtx + 1 \in CtxIds /\ symbolMap' = symbolMap
  BY MaxCtxIsNat, LenProperties
     DEF Skeleton, TypeOK, ScopeTypeOK, PushNew, CtxIds, Paired,
         ScopesMatchConstructs, tableVars
<1>2. /\ Len(constructs') = m + 1
      /\ \A i \in 1..m : constructs'[i] = constructs[i]
      /\ constructs'[m + 1].kind = kind
  BY <1>1, OpenedShape DEF OpenedAs
<1>3. /\ Len(contextStack') = m + 1
      /\ \A i \in 1..m : contextStack'[i] = contextStack[i]
      /\ contextStack'[m + 1] = nCtx + 1
  BY <1>1 DEF PushNew
<1>4. symbolMap[nCtx + 1] = EmptyMap
  BY <1>1 DEF FreshScopes
<1> HIDE DEF m
<1>5. AbsOpen' = Append(AbsOpen, FrameKind(kind))
  BY <1>1, <1>2 DEF AbsOpen, m
<1>6. AbsEnv' = Append(AbsEnv, EmptyMap)
  BY <1>1, <1>3, <1>4 DEF AbsEnv
<1>7. FrameKind(kind) \in Scoping!FrameKinds
  BY DEF FrameKind, Scoping!FrameKinds, ConstructKinds
<1>8. EmptyMap = Scoping!EmptyMap
  BY DEF EmptyMap, Scoping!EmptyMap, IDs, Scoping!IDs
<1> QED BY <1>5, <1>6, <1>7, <1>8 DEF Scoping!Open, AbsOpen, AbsEnv

\* The constructs are those of a step before without the innermost, but for marks
\* Scoping does not look at.
ConstructsClosed ==
    /\ Len(constructs') = Len(constructs) - 1
    /\ \A i \in 1..Len(constructs') : constructs'[i].kind = constructs[i].kind

\* What the pop of a construct's scope leaves of the frames.
LEMMA PopDrops ==
    ASSUME Skeleton, Paired, Pop, constructs # << >>, ConstructsClosed
    PROVE  LET m == Len(constructs)
           IN  /\ m \in Nat \ {0} /\ Len(contextStack) = m
               /\ AbsOpen # << >>
               /\ AbsOpen' = Scoping!Dropped(AbsOpen)
               /\ Scoping!Dropped(AbsEnv) =
                      [i \in 1..(m - 1) |-> symbolMap[contextStack[i]]]
               /\ AbsEnv' = [i \in 1..(m - 1) |-> symbolMap'[contextStack[i]]]
               /\ Len(AbsOpen) = m /\ Len(AbsEnv) = m
<1> DEFINE m == Len(constructs)
<1>1. /\ m \in Nat \ {0} /\ Len(contextStack) = m
      /\ contextStack \in Seq(CtxIds)
  BY ScopesExist DEF Skeleton, TypeOK, ScopeTypeOK, Paired, ScopesMatchConstructs
<1>2. /\ Len(contextStack') = m - 1
      /\ \A i \in 1..(m - 1) : contextStack'[i] = contextStack[i]
  BY <1>1, PopType DEF Skeleton, TypeOK
<1>3. /\ Len(constructs') = m - 1
      /\ \A i \in 1..(m - 1) : constructs'[i].kind = constructs[i].kind
  BY DEF ConstructsClosed
<1> DEFINE kind(i) == FrameKind(constructs[i].kind)
           map(i)  == symbolMap[contextStack[i]]
<1>4. /\ AbsOpen = [i \in 1..m |-> kind(i)]
      /\ AbsEnv = [i \in 1..m |-> map(i)]
  BY <1>1 DEF AbsOpen, AbsEnv
<1>5. AbsOpen' = [i \in 1..(m - 1) |-> kind(i)]
  BY <1>3 DEF AbsOpen
<1>6. AbsEnv' = [i \in 1..(m - 1) |-> symbolMap'[contextStack[i]]]
  BY <1>2 DEF AbsEnv
<1>7. Len(AbsOpen) = m /\ Len(AbsEnv) = m /\ AbsOpen # << >>
  <2> HIDE DEF m, kind, map
  <2> QED BY <1>1, <1>4
<1>8. /\ Scoping!Dropped(AbsOpen) = [i \in 1..(m - 1) |-> kind(i)]
      /\ Scoping!Dropped(AbsEnv) = [i \in 1..(m - 1) |-> map(i)]
  <2> HIDE DEF m, kind, map
  <2> QED BY <1>1, <1>4, <1>7 DEF Scoping!Dropped
<1> HIDE DEF m, kind
<1> QED BY <1>1, <1>5, <1>6, <1>7, <1>8 DEF m, map

\* Popping the scope of a construct closes its frame.
LEMMA CloseRefines ==
    ASSUME Skeleton, Paired, Pop, constructs # << >>, ConstructsClosed,
           UNCHANGED symbolMap
    PROVE  Scoping!Close
<1>1. /\ AbsOpen # << >>
      /\ AbsOpen' = Scoping!Dropped(AbsOpen)
      /\ AbsEnv' = Scoping!Dropped(AbsEnv)
  BY PopDrops
<1> QED BY <1>1 DEF Scoping!Close, AbsOpen, AbsEnv

\* A registration that succeeds gives a name the meaning LexicalScoping allows.
LEMMA RegisterRefines ==
    ASSUME ScopeTypeOK, NEW c \in CtxIds, NEW kind \in Kinds, NEW n \in IDs,
           NEW ty \in Types, NEW def \in BOOLEAN, TryRegister(c, kind, n, ty, def),
           CanRegister(symbolMap[c], kind, n)
    PROVE  LET ent == Entry(kind, ty, def)
           IN  /\ n \in Scoping!IDs /\ ent \in Scoping!Entries
               /\ Scoping!Refines(symbolMap[c][n], ent)
               /\ symbolMap'[c] = Scoping!MapWith(symbolMap[c], n, ent)
               /\ \A d \in CtxIds : d # c => symbolMap'[d] = symbolMap[d]
<1> DEFINE ent == Entry(kind, ty, def)
<1>1. ent \in Entries /\ ent.symEntTy = kind
  BY EntryType
<1>2. n \in Scoping!IDs /\ ent \in Scoping!Entries
  BY <1>1 DEF IDs, Scoping!IDs, Entries, Scoping!Entries, Kinds, Scoping!Kinds, Types,
              Scoping!Types
<1>3. Scoping!Refines(symbolMap[c][n], ent)
  BY <1>1 DEF CanRegister, Scoping!Refines
<1>4. symbolMap' = [symbolMap EXCEPT ![c] = MapWith(symbolMap[c], n, ent)]
  BY DEF TryRegister
<1>5. MapWith(symbolMap[c], n, ent) = Scoping!MapWith(symbolMap[c], n, ent)
  BY DEF MapWith, Scoping!MapWith
<1> HIDE DEF ent
<1>6. /\ symbolMap'[c] = MapWith(symbolMap[c], n, ent)
      /\ \A d \in CtxIds : d # c => symbolMap'[d] = symbolMap[d]
  BY <1>4 DEF ScopeTypeOK
<1> QED BY <1>2, <1>3, <1>5, <1>6 DEF ent

\* Popping a scope and registering something in the scope below it.
LEMMA CloseAndRegisterRefines ==
    ASSUME Skeleton, ScopesNest, Paired, Pop, Len(constructs) > 1, ConstructsClosed,
           NEW kind \in Kinds, NEW n \in IDs, NEW ty \in Types, NEW def \in BOOLEAN,
           TryRegister(FromTop(1), kind, n, ty, def)
    PROVE  Scoping!Close \/ Scoping!CloseAndDeclare
<1> DEFINE m   == Len(constructs)
           c   == FromTop(1)
           ent == Entry(kind, ty, def)
<1>1. /\ m \in Nat /\ m > 1 /\ constructs # << >> /\ Len(contextStack) = m
      /\ c = contextStack[m - 1] /\ c \in CtxIds /\ ScopeTypeOK
      /\ \A i \in 1..(m - 1) : contextStack[i] \in CtxIds
  <2>1. constructs # << >> /\ m \in Nat
    BY LenProperties DEF Skeleton, TypeOK
  <2>2. Len(contextStack) = m /\ c = contextStack[m - 1]
    BY DEF Paired, ScopesMatchConstructs, FromTop
  <2>3. \A i \in 1..(m - 1) : contextStack[i] \in CtxIds
    BY <2>1, <2>2, OpenAreCreated
  <2>4. m - 1 \in 1..(m - 1)
    BY <2>1
  <2> QED BY <2>1, <2>2, <2>3, <2>4 DEF Skeleton, TypeOK
<1>2. /\ AbsOpen' = Scoping!Dropped(AbsOpen)
      /\ Scoping!Dropped(AbsEnv) = [i \in 1..(m - 1) |-> symbolMap[contextStack[i]]]
      /\ AbsEnv' = [i \in 1..(m - 1) |-> symbolMap'[contextStack[i]]]
      /\ Len(AbsOpen) = m /\ Len(AbsEnv) = m
  BY <1>1, PopDrops
<1>3. CASE CanRegister(symbolMap[c], kind, n)
  <2>1. /\ n \in Scoping!IDs /\ ent \in Scoping!Entries
        /\ Scoping!Refines(symbolMap[c][n], ent)
        /\ symbolMap'[c] = Scoping!MapWith(symbolMap[c], n, ent)
        /\ \A d \in CtxIds : d # c => symbolMap'[d] = symbolMap[d]
    BY <1>1, <1>3, RegisterRefines
  <2>2. \A i \in 1..(m - 1) : i # m - 1 => contextStack[i] # c
    <3>1. \A i \in 1..(m - 1 - 1) : contextStack[i] # contextStack[m - 1]
      BY <1>1 DEF ScopesNest
    <3> QED BY <1>1, <3>1
  <2> DEFINE low == [i \in 1..(m - 1) |-> symbolMap[contextStack[i]]]
  <2>3. low[m - 1] = symbolMap[c]
    BY <1>1
  <2>4. AbsEnv' = [low EXCEPT ![m - 1] = Scoping!MapWith(low[m - 1], n, ent)]
    <3> DEFINE new == Scoping!MapWith(symbolMap[c], n, ent)
    <3>1. \A i \in 1..(m - 1) :
              symbolMap'[contextStack[i]] =
                  IF i = m - 1 THEN new ELSE symbolMap[contextStack[i]]
      BY <1>1, <2>1, <2>2
    <3> HIDE DEF new, c
    <3>2. AbsEnv' = [low EXCEPT ![m - 1] = new]
      BY <1>1, <1>2, <3>1
    <3> QED BY <2>3, <3>2 DEF new
  <2> HIDE DEF low, ent, c, m
  <2>5. Scoping!Declares(low, m - 1, n, ent)
    BY <2>1, <2>3, <2>4 DEF Scoping!Declares, AbsEnv
  <2>6. Scoping!Dropped(AbsEnv) = low
    BY <1>2 DEF low
  <2>7. Scoping!CloseAndDeclare
    BY <1>1, <1>2, <2>1, <2>5, <2>6 DEF Scoping!CloseAndDeclare, AbsOpen, AbsEnv
  <2> QED BY <2>7
<1>4. CASE ~CanRegister(symbolMap[c], kind, n)
  BY <1>1, <1>4, CloseRefines DEF TryRegister
<1> QED BY <1>3, <1>4

\* A registration in one of the two innermost scopes is a declaration.
LEMMA DeclareRefines ==
    ASSUME Skeleton, ScopesNest, Paired, constructs # << >>,
           UNCHANGED <<contextStack, AbsOpen>>,
           NEW k \in {0, 1}, k < Len(constructs),
           NEW kind \in Kinds, NEW n \in IDs, NEW ty \in Types, NEW def \in BOOLEAN,
           TryRegister(FromTop(k), kind, n, ty, def)
    PROVE  Scoping!Declare \/ UNCHANGED <<AbsOpen, AbsEnv>>
<1> DEFINE m   == Len(constructs)
           at  == m - k
           c   == FromTop(k)
           ent == Entry(kind, ty, def)
<1>1. /\ m \in Nat /\ Len(contextStack) = m /\ at \in 1..m
      /\ c = contextStack[at] /\ c \in CtxIds /\ ScopeTypeOK
      /\ \A i \in 1..m : contextStack[i] \in CtxIds
  <2>1. m \in Nat /\ at \in 1..m
    BY LenProperties DEF Skeleton, TypeOK
  <2>2. Len(contextStack) = m /\ c = contextStack[at]
    BY DEF Paired, ScopesMatchConstructs, FromTop
  <2>3. \A i \in 1..m : contextStack[i] \in CtxIds
    BY <2>2, OpenAreCreated
  <2> QED BY <2>1, <2>2, <2>3 DEF Skeleton, TypeOK
<1>2. /\ AbsEnv = [i \in 1..m |-> symbolMap[contextStack[i]]]
      /\ AbsEnv' = [i \in 1..m |-> symbolMap'[contextStack[i]]]
  BY <1>1 DEF AbsEnv
<1>3. CASE CanRegister(symbolMap[c], kind, n)
  <2>1. /\ n \in Scoping!IDs /\ ent \in Scoping!Entries
        /\ Scoping!Refines(symbolMap[c][n], ent)
        /\ symbolMap'[c] = Scoping!MapWith(symbolMap[c], n, ent)
        /\ \A d \in CtxIds : d # c => symbolMap'[d] = symbolMap[d]
    BY <1>1, <1>3, RegisterRefines
  <2>2. \A i \in 1..m : i # at => contextStack[i] # c
    <3>1. /\ \A j \in 1..(at - 1) : contextStack[j] # contextStack[at]
          /\ \A i \in 1..m : i > at => contextStack[at] # contextStack[i]
      BY <1>1 DEF ScopesNest
    <3> QED BY <1>1, <3>1
  <2>3. AbsEnv[at] = symbolMap[c]
    BY <1>1, <1>2
  <2>4. AbsEnv' = [AbsEnv EXCEPT ![at] = Scoping!MapWith(AbsEnv[at], n, ent)]
    <3> DEFINE new == Scoping!MapWith(symbolMap[c], n, ent)
    <3>1. \A i \in 1..m :
              symbolMap'[contextStack[i]] =
                  IF i = at THEN new ELSE symbolMap[contextStack[i]]
      BY <1>1, <2>1, <2>2
    <3> HIDE DEF new, c
    <3>2. AbsEnv' = [AbsEnv EXCEPT ![at] = new]
      BY <1>1, <1>2, <3>1
    <3> QED BY <2>3, <3>2 DEF new
  <2>5. at \in {Len(AbsEnv) - 1, Len(AbsEnv)} \cap DOMAIN AbsEnv
    <3> HIDE DEF c, m
    <3>1. DOMAIN AbsEnv = 1..m /\ Len(AbsEnv) = m
      BY <1>1, <1>2
    <3> QED BY <1>1, <3>1
  <2> HIDE DEF at, ent, c, m
  <2>6. Scoping!Declares(AbsEnv, at, n, ent)
    BY <2>1, <2>3, <2>4 DEF Scoping!Declares, AbsEnv
  <2>7. Scoping!Declare
    BY <2>1, <2>5, <2>6 DEF Scoping!Declare, AbsOpen, AbsEnv
  <2> QED BY <2>7
<1>4. CASE ~CanRegister(symbolMap[c], kind, n)
  BY <1>4 DEF TryRegister, AbsEnv
<1> QED BY <1>3, <1>4

\* Every step of the parser is a step of LexicalScoping, or none.
LEMMA ScopingStep ==
    ASSUME ~ForLoops, ~SyntaxErrors, Skeleton, ScopesNest, FreshScopes, Paired,
           [Next]_vars
    PROVE  [Scoping!ANext]_<<AbsOpen, AbsEnv>>
<1> DEFINE m == Len(constructs)
           Stutter == UNCHANGED <<AbsOpen, AbsEnv>>
<1> USE DEF Parsing, InnerIn
<1>t. /\ TypeOK /\ ScopeTypeOK
      /\ constructs \in Seq(Constructs)
      /\ m \in Nat
  BY LenProperties DEF Skeleton, TypeOK
<1>k. /\ Kinds = {"Variable", "Function", "Paramater", "StructDecl", "UnionDecl"}
      /\ ObjectType \in Types /\ NoName \in IDs /\ Names \subseteq IDs
      /\ FunctionTypes \subseteq Types
      /\ ConstructKinds = {"unit", "struct", "decltr", "func", "comp", "for"}
  BY DEF Kinds, Types, IDs, ConstructKinds
<1>a. Scoping!Open \/ Scoping!Close \/ Scoping!Declare \/ Scoping!CloseAndDeclare
          => Scoping!ANext
  BY DEF Scoping!ANext
<1>o. UNCHANGED constructs => UNCHANGED AbsOpen
  BY DEF AbsOpen
<1>n. UNCHANGED <<constructs, contextStack, symbolMap>> => Stutter
  BY DEF AbsOpen, AbsEnv
<1>f. ASSUME constructs # << >>, Inner.kind = "decltr",
             constructs' = [constructs EXCEPT ![Len(constructs)].kind = "func"]
      PROVE  UNCHANGED AbsOpen
  <2>1. /\ Len(constructs') = m /\ m \in 1..m
        /\ \A i \in 1..m : i # m => constructs'[i] = constructs[i]
        /\ constructs'[m].kind = "func"
    BY <1>t, <1>f, ToFuncShape, EmptySeq
  <2>2. \A i \in 1..m : FrameKind(constructs'[i].kind) = FrameKind(constructs[i].kind)
    BY <1>f, <2>1 DEF Inner, FrameKind
  <2> QED BY <2>1, <2>2 DEF AbsOpen
<1>c. ASSUME constructs # << >>,
             \/ constructs' = Closed(constructs)
             \/ constructs' = StmtParsed(Closed(constructs))
      PROVE  ConstructsClosed
  <2>1. /\ Closed(constructs) \in Seq(Constructs)
        /\ Len(Closed(constructs)) = m - 1
        /\ \A i \in 1..(m - 1) : Closed(constructs)[i] = constructs[i]
    BY <1>c, <1>t, ClosedShape
  <2> QED BY <1>c, <2>1, StmtParsedShape DEF ConstructsClosed
<1>1. CASE BeginParseRoot
  <2>1. constructs = << >> /\ constructs' = <<Opened("unit")>>
    BY <1>1 DEF BeginParseRoot
  <2>2. constructs' = Append(constructs, OpenedAs("unit", NoName, ObjectType))
    BY <1>k, <2>1, OpenedIs
  <2> QED BY <1>1, <1>a, <1>k, <2>2, OpenRefines DEF BeginParseRoot
<1>2. CASE EndParseRoot
  <2>1. constructs # << >> /\ constructs' = << >> /\ Inner.kind = "unit"
        /\ Pop /\ UNCHANGED symbolMap
    BY <1>2 DEF EndParseRoot, tableVars
  <2>2. m \in 1..m
    BY <2>1, ScopesExist
  <2>3. m = 1
    BY <2>1, <2>2 DEF Inner, Paired, KindsPlaced
  <2>4. ConstructsClosed
    BY <2>1, <2>3 DEF ConstructsClosed
  <2> QED BY <1>a, <2>1, <2>4, CloseRefines
<1>3. CASE BeginStruct
  <2>1. constructs' = Append(constructs, OpenedAs("struct", NoName, ObjectType))
    BY <1>3, <1>k, OpenedIs DEF BeginStruct
  <2> QED BY <1>3, <1>a, <1>k, <2>1, OpenRefines DEF BeginStruct
<1>4. ASSUME NEW n \in Names, DeclareMember(n) \/ DeclareVariable(n)
      PROVE  Scoping!Declare \/ Stutter
  <2>1. /\ constructs # << >> /\ UNCHANGED <<constructs, contextStack>>
        /\ TryRegister(FromTop(0), "Variable", n, ObjectType, TRUE)
    BY <1>4 DEF DeclareMember, DeclareVariable, AtDeclaration, treeVars, Top
  <2>2. 0 < m
    BY <1>t, <2>1, EmptySeq
  <2>3. "Variable" \in Kinds /\ n \in IDs /\ ObjectType \in Types
    BY <1>k
  <2> QED BY <1>o, <2>1, <2>2, <2>3, DeclareRefines
<1>5. ASSUME NEW kind \in {"StructDecl", "UnionDecl"}, NEW tag \in IDs,
             EndStruct(kind, tag)
      PROVE  Scoping!Close \/ Scoping!CloseAndDeclare
  <2>1. /\ constructs # << >> /\ Inner.kind # "unit" /\ Pop
        /\ constructs' = Closed(constructs)
        /\ \/ UNCHANGED symbolMap
           \/ TryRegister(FromTop(1), kind, tag, ObjectType, TRUE)
    BY <1>5 DEF EndStruct, tableVars
  <2>2. m > 1 /\ ConstructsClosed
    BY <1>c, <2>1, ScopesExist
  <2>3. kind \in Kinds /\ ObjectType \in Types
    BY <1>k
  <2> QED BY <2>1, <2>2, <2>3, CloseRefines, CloseAndRegisterRefines
<1>6. ASSUME NEW n \in Names, NEW ty \in FunctionTypes, BeginFuncDecltr(n, ty)
      PROVE  Scoping!Open
  BY <1>6, <1>k, OpenRefines DEF BeginFuncDecltr
<1>7. CASE (\E n \in Names : ReadParam(n)) \/ UNCHANGED vars
  BY <1>7, <1>n DEF ReadParam, vars, scopeVars, treeVars, tableVars, parserVars
<1>8. CASE DeclareFunction
  <2>1. /\ constructs # << >> /\ Inner.kind # "unit" /\ Pop
        /\ constructs' = Closed(constructs)
        /\ TryRegister(FromTop(1), "Function", Inner.name, Inner.type, FALSE)
    BY <1>8 DEF DeclareFunction
  <2>2. m > 1 /\ ConstructsClosed /\ Inner \in Constructs
    BY <1>c, <2>1, ScopesExist
  <2>3. "Function" \in Kinds /\ Inner.name \in IDs /\ Inner.type \in Types
    BY <1>k, <2>2 DEF Constructs
  <2> QED BY <1>a, <2>1, <2>2, <2>3, CloseAndRegisterRefines
<1>9. CASE BeginFuncProto
  <2>1. /\ constructs # << >> /\ Inner.kind = "decltr"
        /\ UNCHANGED <<contextStack, symbolMap>>
        /\ \/ UNCHANGED constructs
           \/ constructs' = [constructs EXCEPT ![Len(constructs)].kind = "func"]
    BY <1>9 DEF BeginFuncProto, scopeVars, treeVars, tableVars
  <2> QED BY <1>o, <1>f, <2>1 DEF AbsEnv
<1>10. CASE RegisterParam
  <2>1. /\ constructs # << >> /\ UNCHANGED <<constructs, contextStack>>
        /\ TryRegister(FromTop(0), "Paramater", Head(params), ObjectType, FALSE)
        /\ Head(params) \in Names
    BY <1>10, <1>t, HeadTailProperties
       DEF RegisterParam, Skeleton, TypeOK, treeVars, Top
  <2>2. 0 < m
    BY <1>t, <2>1, EmptySeq
  <2>3. "Paramater" \in Kinds /\ Head(params) \in IDs /\ ObjectType \in Types
    BY <1>k, <2>1
  <2> QED BY <1>a, <1>o, <2>1, <2>2, <2>3, DeclareRefines
<1>11. CASE RegisterProto
  <2>1. /\ constructs # << >> /\ UNCHANGED contextStack
        /\ Inner.kind = "decltr" /\ Inner \in Constructs
        /\ constructs' = [constructs EXCEPT ![Len(constructs)].kind = "func"]
        /\ TryRegister(FromTop(1), "Function", Inner.name, Inner.type, FALSE)
        /\ 1 < m
    BY <1>11, ScopesExist, RegisterProtoDoes DEF ProtoRegistered, Skeleton, treeVars
  <2>2. "Function" \in Kinds /\ Inner.name \in IDs /\ Inner.type \in Types
    BY <1>k, <2>1 DEF Constructs
  <2> QED BY <1>a, <1>f, <2>1, <2>2, DeclareRefines
<1>12. CASE EndFuncDef
  <2>1. /\ constructs # << >> /\ Inner.kind # "unit" /\ Pop
        /\ constructs' = Closed(constructs)
        /\ \/ UNCHANGED symbolMap
           \/ TryRegister(FromTop(1), "Function", Inner.name, Inner.type, TRUE)
    BY <1>12 DEF EndFuncDef, tableVars
  <2>2. m > 1 /\ ConstructsClosed /\ Inner \in Constructs
    BY <1>c, <2>1, ScopesExist
  <2>3. "Function" \in Kinds /\ Inner.name \in IDs /\ Inner.type \in Types
    BY <1>k, <2>2 DEF Constructs
  <2> QED BY <1>a, <2>1, <2>2, <2>3, CloseRefines, CloseAndRegisterRefines
<1>13. CASE BeginCompStmt
  <2>1. constructs' = Append(constructs, OpenedAs("comp", NoName, ObjectType))
    BY <1>13, <1>k, OpenedIs DEF BeginCompStmt
  <2> QED BY <1>13, <1>a, <1>k, <2>1, OpenRefines DEF BeginCompStmt
<1>14. CASE EndCompStmt
  <2>1. /\ constructs # << >> /\ Pop /\ UNCHANGED symbolMap
        /\ constructs' = StmtParsed(Closed(constructs))
    BY <1>14 DEF EndCompStmt, tableVars
  <2> QED BY <1>a, <1>c, <2>1, CloseRefines
<1>15. CASE RecoverCompStmt \/ BeginFor \/ SimpleForBody \/ EndFor
  <2>1. CASE RecoverCompStmt \/ BeginFor
    BY <2>1 DEF RecoverCompStmt, BeginFor
  <2>2. CASE SimpleForBody \/ EndFor
    <3>1. Len(constructs) \in 1..Len(constructs) /\ Inner.kind = "for"
      BY <2>2, ScopesExist DEF SimpleForBody, EndFor
    <3> QED BY <3>1 DEF Inner, Paired, KindsPlaced
  <2> QED BY <1>15, <2>1, <2>2
<1> HIDE DEF Stutter
<1>16. Scoping!ANext \/ Stutter
  BY <1>a, <1>1, <1>2, <1>3, <1>4, <1>5, <1>6, <1>7, <1>8, <1>9, <1>10, <1>11, <1>12,
     <1>13, <1>14, <1>15 DEF Next, Step, Finished, Stutter
<1> QED BY <1>16 DEF Stutter

\* Without for loops and broken blocks the parser implements lexical scoping:
\* whatever sequence of reductions the grammar allows, every construct closes
\* its own scope, declarations go to the scope of the innermost construct or the
\* one around it, and a name that is defined keeps its meaning.
THEOREM ParserImplementsScoping ==
    ASSUME ~ForLoops, ~SyntaxErrors
    PROVE  Spec => ImplementsScoping
<1>1. Init => Scoping!AInit
  BY DEF Init, ScopeInit, Scoping!AInit
<1>2. /\ Skeleton /\ ScopesNest /\ FreshScopes /\ Paired /\ [Next]_vars
      => [Scoping!ANext]_<<AbsOpen, AbsEnv>>
  BY ScopingStep
<1> QED
  BY <1>1, <1>2, SkeletonInvariant, ScopesAlwaysNest, FreshInvariant,
     PairedInvariant, PTL
     DEF Spec, ImplementsScoping, Scoping!ASpec, AbsOpen, AbsEnv
=============================================================================
