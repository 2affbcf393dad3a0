--------------------------- MODULE CodeGenProofs ---------------------------
(***************************************************************************)
(* Invariants of the generation of a module, for programs of any size.     *)
(***************************************************************************)
EXTENDS CodeGen, TLAPS, SequenceTheorems, WellFoundedInduction

-----------------------------------------------------------------------------
(* What the instructions that are added make of the blocks of a function.  *)

\* A sequence of blocks that is as long as another, or longer.
Extends(new, old) == new \in Seq(Blocks) /\ Len(new) >= Len(old)

LEMMA InstAdded ==
    ASSUME NEW bs \in Seq(Blocks), NEW b \in 1..Len(bs)
    PROVE  /\ WithInst(bs, b) \in Seq(Blocks)
           /\ Len(WithInst(bs, b)) = Len(bs)
<1>1. bs[b] \in Blocks
  BY ElementOfSeq
<1>2. [bs[b] EXCEPT !.closed = FALSE] \in Blocks
  BY <1>1 DEF Blocks
<1>3. WithInst(bs, b) = [bs EXCEPT ![b] = [bs[b] EXCEPT !.closed = FALSE]]
  BY DEF WithInst
<1> QED BY <1>2, <1>3, ExceptSeq

LEMMA TermInBlock ==
    ASSUME NEW block \in Blocks, NEW targets \in SUBSET Nat
    PROVE  [block EXCEPT !.terms = @ + 1, !.closed = TRUE,
                         !.succ = @ \cup targets] \in Blocks
<1> DEFINE b1 == [block EXCEPT !.terms = @ + 1]
           b2 == [b1 EXCEPT !.closed = TRUE]
           b3 == [b2 EXCEPT !.succ = @ \cup targets]
<1>1. b1 \in Blocks
  BY DEF Blocks
<1>2. ASSUME NEW x \in Blocks PROVE [x EXCEPT !.closed = TRUE] \in Blocks
  BY DEF Blocks
<1>3. ASSUME NEW x \in Blocks PROVE [x EXCEPT !.succ = @ \cup targets] \in Blocks
  BY DEF Blocks
<1>4. b3 = [block EXCEPT !.terms = @ + 1, !.closed = TRUE,
                         !.succ = @ \cup targets]
  BY DEF Blocks
<1> HIDE DEF b1
<1>5. b2 \in Blocks
  BY <1>1, <1>2
<1> HIDE DEF b2
<1>6. b3 \in Blocks
  BY <1>5, <1>3
<1> QED BY <1>4, <1>6

LEMMA TermAdded ==
    ASSUME NEW bs \in Seq(Blocks), NEW b \in 1..Len(bs), NEW targets \in SUBSET Nat
    PROVE  /\ WithTerm(bs, b, targets) \in Seq(Blocks)
           /\ Len(WithTerm(bs, b, targets)) = Len(bs)
<1> DEFINE e == [bs[b] EXCEPT !.terms = @ + 1, !.closed = TRUE,
                              !.succ = @ \cup targets]
<1>1. bs[b] \in Blocks /\ DOMAIN bs = 1..Len(bs)
  BY ElementOfSeq
<1>2. e \in Blocks
  BY <1>1, TermInBlock
<1>3. WithTerm(bs, b, targets) = [bs EXCEPT ![b] = e]
  BY <1>1 DEF WithTerm
<1> HIDE DEF e
<1> QED BY <1>2, <1>3, ExceptSeq

LEMMA ReturnBuilt ==
    ASSUME NEW bs \in Seq(Blocks), NEW b \in 1..Len(bs), NEW fits \in BOOLEAN
    PROVE  /\ WithReturn(bs, b, fits) \in Seq(Blocks)
           /\ Len(WithReturn(bs, b, fits)) = Len(bs)
<1> DEFINE b1 == WithTerm(bs, b, {})
           e  == [b1[b] EXCEPT !.mistyped = @ \/ ~fits]
<1>1. b1 \in Seq(Blocks) /\ Len(b1) = Len(bs)
  BY TermAdded
<1>2. b1[b] \in Blocks
  BY <1>1, ElementOfSeq
<1>3. ASSUME NEW x \in Blocks
      PROVE  [x EXCEPT !.mistyped = @ \/ ~fits] \in Blocks
  BY DEF Blocks
<1>4. e \in Blocks
  BY <1>2, <1>3
<1>5. WithReturn(bs, b, fits) = [b1 EXCEPT ![b] = e]
  BY DEF WithReturn
<1> HIDE DEF b1, e
<1> QED BY <1>1, <1>4, <1>5, ExceptSeq

LEMMA BlockPlaced ==
    ASSUME NEW bs \in Seq(Blocks), NEW b \in 1..Len(bs)
    PROVE  /\ Placed(bs, b) \in Seq(Blocks)
           /\ Len(Placed(bs, b)) = Len(bs)
<1>1. bs[b] \in Blocks
  BY ElementOfSeq
<1>2. [bs[b] EXCEPT !.placed = TRUE] \in Blocks
  BY <1>1 DEF Blocks
<1>3. Placed(bs, b) = [bs EXCEPT ![b] = [bs[b] EXCEPT !.placed = TRUE]]
  BY DEF Placed
<1> QED BY <1>2, <1>3, ExceptSeq

LEMMA NewBlockType ==
    ASSUME NEW isPlaced \in BOOLEAN
    PROVE  NewBlock(isPlaced) \in Blocks
BY DEF NewBlock, Blocks

\* The three blocks an if or a while makes.
LEMMA BlocksAdded ==
    ASSUME NEW bs \in Seq(Blocks),
           NEW p1 \in BOOLEAN, NEW p2 \in BOOLEAN, NEW p3 \in BOOLEAN
    PROVE  LET more == <<NewBlock(p1), NewBlock(p2), NewBlock(p3)>>
           IN  bs \o more \in Seq(Blocks) /\ Len(bs \o more) = Len(bs) + 3
<1> DEFINE more == <<NewBlock(p1), NewBlock(p2), NewBlock(p3)>>
<1>1. more \in Seq(Blocks) /\ Len(more) = 3
  <2>1. /\ NewBlock(p1) \in Blocks
        /\ NewBlock(p2) \in Blocks
        /\ NewBlock(p3) \in Blocks
    BY NewBlockType
  <2> QED BY <2>1
<1> HIDE DEF more
<1>2. /\ bs \o more \in Seq(Blocks)
      /\ Len(bs \o more) = Len(bs) + Len(more)
  BY <1>1, ConcatProperties
<1>3. Len(bs \o more) = Len(bs) + 3
  BY <1>1, <1>2
<1> QED BY <1>2, <1>3 DEF more

-----------------------------------------------------------------------------
(* The constructs.                                                         *)

\* A function is at the bottom and nowhere else, and the blocks an if or a
\* while remembers are among the k blocks of the function.
Shape(cs, k) ==
    /\ cs \in Seq(Constructs)
    /\ \A i \in 1..Len(cs) :
           /\ cs[i].kind = "func" <=> i = 1
           /\ cs[i].kind \in {"then", "else", "while"} =>
                  cs[i].target \in 1..k /\ cs[i].next \in 1..k

LEMMA ShapeGrows ==
    ASSUME NEW cs, NEW k \in Nat, NEW m \in Nat, Shape(cs, k), m >= k
    PROVE  Shape(cs, m)
BY DEF Shape

LEMMA ShapeLast ==
    ASSUME NEW cs, NEW k, Shape(cs, k), cs # << >>
    PROVE  /\ Len(cs) \in Nat \ {0}
           /\ Len(cs) \in 1..Len(cs)
           /\ cs[Len(cs)] \in Constructs
BY EmptySeq, ElementOfSeq DEF Shape

\* Setting done, or turning a then into an else, keeps the shape.
LEMMA ShapeChanged ==
    ASSUME NEW cs, NEW k, Shape(cs, k), cs # << >>,
           NEW c \in Constructs,
           c.kind = "func" <=> cs[Len(cs)].kind = "func",
           c.kind \in {"then", "else", "while"} =>
               c.target \in 1..k /\ c.next \in 1..k
    PROVE  /\ Shape([cs EXCEPT ![Len(cs)] = c], k)
           /\ [cs EXCEPT ![Len(cs)] = c] # << >>
<1> DEFINE n  == Len(cs)
           ds == [cs EXCEPT ![n] = c]
<1>1. n \in 1..Len(cs) /\ n \in Nat \ {0}
  BY ShapeLast
<1>2. /\ ds \in Seq(Constructs)
      /\ Len(ds) = Len(cs)
      /\ \A j \in 1..Len(cs) : ds[j] = IF j = n THEN c ELSE cs[j]
  BY <1>1, ExceptSeq DEF Shape
<1>3. ds # << >>
  BY <1>1, <1>2, EmptySeq
<1> HIDE DEF ds
<1>4. Shape(ds, k)
  BY <1>1, <1>2 DEF Shape
<1> QED BY <1>3, <1>4 DEF ds

LEMMA ShapeDone ==
    ASSUME NEW cs, NEW k, Shape(cs, k), cs # << >>
    PROVE  Shape(StmtDone(cs), k) /\ StmtDone(cs) # << >>
<1> DEFINE n == Len(cs)
           c == [cs[n] EXCEPT !.done = TRUE]
<1>1. n \in 1..Len(cs) /\ cs[n] \in Constructs
  BY ShapeLast
<1>2. /\ c \in Constructs
      /\ c.kind = cs[n].kind
      /\ c.target = cs[n].target
      /\ c.next = cs[n].next
  BY <1>1 DEF Constructs
<1>3. [cs EXCEPT ![n].done = TRUE] = [cs EXCEPT ![n] = c]
  OBVIOUS
<1>4. c.kind \in {"then", "else", "while"} =>
          c.target \in 1..k /\ c.next \in 1..k
  BY <1>1, <1>2 DEF Shape
<1> HIDE DEF c
<1>5. /\ Shape([cs EXCEPT ![n] = c], k)
      /\ [cs EXCEPT ![n] = c] # << >>
  BY <1>2, <1>4, ShapeChanged
<1> QED BY <1>3, <1>5 DEF StmtDone

LEMMA ShapePush ==
    ASSUME NEW cs, NEW k, Shape(cs, k), cs # << >>,
           NEW c \in Constructs, c.kind # "func",
           c.kind \in {"then", "else", "while"} =>
               c.target \in 1..k /\ c.next \in 1..k
    PROVE  Shape(Append(cs, c), k) /\ Append(cs, c) # << >>
<1> DEFINE ds == Append(cs, c)
<1>1. Len(cs) \in Nat \ {0} /\ cs \in Seq(Constructs)
  BY ShapeLast DEF Shape
<1>2. /\ ds \in Seq(Constructs)
      /\ Len(ds) = Len(cs) + 1
      /\ \A i \in 1..Len(cs) : ds[i] = cs[i]
      /\ ds[Len(cs) + 1] = c
  BY <1>1
<1>3. ds # << >>
  BY <1>1, <1>2, EmptySeq
<1> HIDE DEF ds
<1>4. Shape(ds, k)
  BY <1>1, <1>2 DEF Shape
<1> QED BY <1>3, <1>4 DEF ds

LEMMA ShapeClosed ==
    ASSUME NEW cs, NEW k, Shape(cs, k), cs # << >>, cs[Len(cs)].kind # "func"
    PROVE  Shape(Closed(cs), k) /\ Closed(cs) # << >>
<1> DEFINE m  == Len(cs) - 1
           ds == SubSeq(cs, 1, m)
<1>1. Len(cs) \in Nat \ {0} /\ cs \in Seq(Constructs)
  BY ShapeLast DEF Shape
<1>2. Len(cs) # 1
  BY <1>1 DEF Shape
<1>3. m \in Nat \ {0}
  BY <1>1, <1>2
<1>4. \A i \in 1..m : i \in 1..Len(cs) /\ cs[i] \in Constructs
  BY <1>1, ElementOfSeq
<1> HIDE DEF m
<1>5. /\ ds \in Seq(Constructs)
      /\ Len(ds) = IF 1 <= m THEN m - 1 + 1 ELSE 0
      /\ \A i \in 1..(m - 1 + 1) : ds[i] = cs[1 + i - 1]
  BY <1>3, <1>4, SubSeqProperties
<1>6. Len(ds) = m /\ \A i \in 1..m : ds[i] = cs[i]
  BY <1>3, <1>5
<1>7. ds # << >>
  BY <1>3, <1>5, <1>6, EmptySeq
<1> HIDE DEF ds
<1>8. Shape(ds, k)
  BY <1>3, <1>4, <1>5, <1>6 DEF Shape
<1> QED BY <1>7, <1>8 DEF Closed, ds, m

LEMMA ConstructType ==
    ASSUME NEW kind \in ConstructKinds, NEW decls \in SUBSET Names,
           NEW target \in Nat, NEW next \in Nat
    PROVE  /\ Construct(kind, decls, target, next) \in Constructs
           /\ Construct(kind, decls, target, next).kind = kind
           /\ Construct(kind, decls, target, next).target = target
           /\ Construct(kind, decls, target, next).next = next
BY DEF Construct, Constructs

-----------------------------------------------------------------------------
(* Types.  The inductive invariant adds to TypeOK that the blocks which ifs *)
(* and whiles remember exist: only then does the insertion point stay one   *)
(* of the function's blocks when such a construct ends.                     *)

BlockCount == IF cur \in Fns THEN Len(blocks[cur]) ELSE 0

BodyOK ==
    /\ blocks \in [Fns -> Seq(Blocks)]
    /\ cur \in Fns \cup {NoFn}
    /\ insert \in Nat
    /\ cur # NoFn => insert \in 1..Len(blocks[cur])
    /\ constructs # << >> => cur \in Fns
    /\ Shape(constructs, BlockCount)

RestOK ==
    /\ phase \in Phases
    /\ symbols \in [Fns -> {"none", "declared", "defined"}]
    /\ todo \subseteq Fns
    /\ theModule \in [Fns -> {"absent", "declared", "body"}]
    /\ success \in BOOLEAN
    /\ generated \in BOOLEAN
    /\ calls \in [Fns -> SUBSET Fns]
    /\ varCtxStack \in Seq(Frames)
    /\ nStmts \in 0..MaxStmts

Sound == BodyOK /\ RestOK

LEMMA SoundTypes == Sound => TypeOK
BY DEF Sound, BodyOK, RestOK, TypeOK, Shape

LEMMA InBody ==
    ASSUME BodyOK, constructs # << >>
    PROVE  /\ cur \in Fns
           /\ blocks[cur] \in Seq(Blocks)
           /\ Len(blocks[cur]) \in Nat
           /\ insert \in 1..Len(blocks[cur])
           /\ Shape(constructs, Len(blocks[cur]))
           /\ Len(constructs) \in Nat
<1>1. cur \in Fns /\ cur # NoFn
  BY NoFnIsNone DEF BodyOK
<1> QED BY <1>1, LenProperties, ShapeLast DEF BodyOK, BlockCount

\* A step inside a function that only makes its body longer.
LEMMA BodyStep ==
    ASSUME BodyOK, constructs # << >>, cur' = cur,
           NEW bs, Extends(bs, blocks[cur]),
           blocks' = [blocks EXCEPT ![cur] = bs],
           insert' \in 1..Len(bs),
           Shape(constructs', Len(bs))
    PROVE  BodyOK'
<1>1. cur \in Fns
  BY InBody
<1>2. blocks' \in [Fns -> Seq(Blocks)] /\ blocks'[cur] = bs
  BY <1>1 DEF BodyOK, Extends
<1>3. insert' \in Nat
  BY LenProperties DEF Extends
<1> QED BY <1>1, <1>2, <1>3 DEF BodyOK, BlockCount

\* A step that only changes which constructs are active.
LEMMA ConstructStep ==
    ASSUME BodyOK, constructs # << >>, UNCHANGED bodyVars, cur' = cur,
           Shape(constructs', Len(blocks[cur]))
    PROVE  BodyOK'
<1>1. cur \in Fns
  BY InBody
<1> QED BY <1>1 DEF BodyOK, BlockCount, bodyVars

LEMMA PushFrameType ==
    ASSUME RestOK, NEW decls \in SUBSET Names, Len(constructs) \in Nat,
           PushFrame(decls)
    PROVE  varCtxStack' \in Seq(Frames)
<1>1. FrameOf(decls, Len(constructs) + 1) \in Frames
  BY DEF FrameOf, Frames
<1> QED BY <1>1 DEF PushFrame, RestOK

LEMMA PopFrameType ==
    ASSUME RestOK, PopFrame
    PROVE  varCtxStack' \in Seq(Frames)
<1>1. varCtxStack \in Seq(Frames) /\ Len(varCtxStack) \in Nat
  BY LenProperties DEF RestOK
<1>2. \A i \in 1..(Len(varCtxStack) - 1) : varCtxStack[i] \in Frames
  BY <1>1, ElementOfSeq
<1>3. SubSeq(varCtxStack, 1, Len(varCtxStack) - 1) \in Seq(Frames)
  BY <1>1, <1>2, SubSeqProperties
<1> QED BY <1>3 DEF PopFrame

LEMMA CountType ==
    ASSUME RestOK, CountStmt
    PROVE  nStmts' \in 0..MaxStmts
BY BoundsAreNat DEF RestOK, CountStmt

LEMMA AbortStep ==
    ASSUME Sound, Abort, nStmts' \in 0..MaxStmts
    PROVE  Sound'
<1>1. BodyOK'
  BY DEF Sound, Abort, BodyOK, BlockCount, bodyVars, nameVars
<1>2. RestOK'
  BY DEF Sound, Abort, RestOK, Phases, nameVars, bodyVars
<1> QED BY <1>1, <1>2 DEF Sound

\* A step that leaves the module and the phase alone.
LEMMA RestStep ==
    ASSUME RestOK, UNCHANGED unitVars,
           calls' \in [Fns -> SUBSET Fns],
           varCtxStack' \in Seq(Frames),
           nStmts' \in 0..MaxStmts
    PROVE  RestOK'
BY DEF RestOK, unitVars

LEMMA SoundInit == Init => Sound
<1> SUFFICES ASSUME Init PROVE Sound
  OBVIOUS
<1> USE DEF Init
<1>1. /\ blocks \in [Fns -> Seq(Blocks)]
      /\ constructs \in Seq(Constructs) /\ Len(constructs) = 0
      /\ varCtxStack \in Seq(Frames)
  BY EmptySeq
<1>2. BodyOK
  BY <1>1, NoFnIsNone DEF BodyOK, Shape
<1>3. /\ calls \in [Fns -> SUBSET Fns]
      /\ symbols \in [Fns -> {"none", "declared", "defined"}]
      /\ theModule \in [Fns -> {"absent", "declared", "body"}]
      /\ nStmts \in 0..MaxStmts
      /\ phase \in Phases
  BY BoundsAreNat DEF Phases
<1>4. RestOK
  BY <1>1, <1>3 DEF RestOK
<1> QED BY <1>2, <1>4 DEF Sound

\* Beginning and ending a module.
LEMMA ModuleSteps ==
    ASSUME Sound,
           \/ \E syms \in [Fns -> {"none", "declared", "defined"}] :
                  BeginModule(syms)
           \/ EndModule
           \/ WriteModule
           \/ InitGlobal
    PROVE  Sound'
<1>1. Len(constructs) \in Nat
  BY LenProperties DEF Sound, BodyOK, Shape
<1>2. ASSUME NEW syms \in [Fns -> {"none", "declared", "defined"}],
             BeginModule(syms)
      PROVE  Sound'
  <2>1. varCtxStack' \in Seq(Frames)
    BY <1>1, <1>2, PushFrameType DEF BeginModule, Sound
  <2>2. RestOK'
    BY <1>2, <2>1 DEF BeginModule, RestOK, Sound, Phases, bodyVars
  <2>3. BodyOK'
    BY <1>2 DEF BeginModule, BodyOK, Sound, BlockCount, bodyVars
  <2> QED BY <2>2, <2>3 DEF Sound
<1>3. CASE EndModule
  <2>1. varCtxStack' \in Seq(Frames)
    BY <1>3, PopFrameType DEF EndModule, Sound
  <2>2. RestOK'
    BY <1>3, <2>1 DEF EndModule, RestOK, Sound, Phases, bodyVars
  <2>3. BodyOK'
    BY <1>3 DEF EndModule, BodyOK, Sound, BlockCount, bodyVars
  <2> QED BY <2>2, <2>3 DEF Sound
<1>4. CASE WriteModule
  <2>1. RestOK'
    BY <1>4 DEF WriteModule, RestOK, Sound, Phases, bodyVars, nameVars
  <2>2. BodyOK'
    BY <1>4 DEF WriteModule, BodyOK, Sound, BlockCount, bodyVars, nameVars
  <2> QED BY <2>1, <2>2 DEF Sound
<1>5. CASE InitGlobal
  BY <1>5, AbortStep DEF InitGlobal, Sound, RestOK
<1> QED BY <1>2, <1>3, <1>4, <1>5

\* Beginning and ending a function.
LEMMA FunctionSteps ==
    ASSUME Sound,
           \/ \E f \in Fns, ps \in SUBSET Names : BeginFuncDef(f, ps)
           \/ EndFuncDef
    PROVE  Sound'
<1> USE DEF Sound
<1>1. ASSUME NEW f \in Fns, NEW ps \in SUBSET Names, BeginFuncDef(f, ps)
      PROVE  Sound'
  <2>1. nStmts' \in 0..MaxStmts
    BY <1>1, CountType DEF BeginFuncDef, RestOK
  <2>2. CASE theModule[f] = "absent"
    BY <1>1, <2>1, <2>2, AbortStep DEF BeginFuncDef
  <2>3. CASE theModule[f] # "absent"
    <3> DEFINE bs == Append(blocks[f], NewBlock(TRUE))
               c  == Construct("func", ps, Len(blocks[f]) + 1, 0)
    <3>1. /\ cur' = f
          /\ blocks' = [blocks EXCEPT ![f] = bs]
          /\ insert' = Len(blocks[f]) + 1
          /\ PushFrame(ps)
          /\ constructs' = <<c>>
          /\ todo' = todo \ {f}
          /\ UNCHANGED <<phase, symbols, theModule, success, generated, calls>>
      BY <1>1, <2>3 DEF BeginFuncDef
    <3>2. /\ bs \in Seq(Blocks)
          /\ Len(blocks[f]) \in Nat
          /\ Len(bs) = Len(blocks[f]) + 1
      <4>1. blocks[f] \in Seq(Blocks) /\ NewBlock(TRUE) \in Blocks
        BY NewBlockType DEF BodyOK
      <4> HIDE DEF BodyOK
      <4> QED BY <4>1, LenProperties, AppendProperties
    <3>3. c \in Constructs /\ c.kind = "func"
      BY <3>2, ConstructType DEF ConstructKinds
    <3> HIDE DEF bs, c
    <3>4. Shape(constructs', Len(bs))
      BY <3>1, <3>3 DEF Shape
    <3>5. blocks' \in [Fns -> Seq(Blocks)] /\ blocks'[f] = bs
      BY <3>1, <3>2 DEF BodyOK
    <3>6. /\ cur' \in Fns
          /\ insert' \in Nat
          /\ insert' \in 1..Len(blocks'[cur'])
          /\ Shape(constructs', Len(blocks'[cur']))
      BY <3>1, <3>2, <3>4, <3>5
    <3>9. BodyOK'
      BY <3>5, <3>6 DEF BodyOK, BlockCount
    <3>7. varCtxStack' \in Seq(Frames)
      BY <3>1, PushFrameType, LenProperties DEF BodyOK, Shape
    <3>8. RestOK'
      BY <2>1, <3>1, <3>7 DEF RestOK
    <3> QED BY <3>9, <3>8
  <2> QED BY <2>2, <2>3
<1>2. CASE EndFuncDef
  <2>1. /\ constructs # << >>
        /\ constructs' = << >> /\ cur' = NoFn /\ insert' = 0 /\ PopFrame
        /\ UNCHANGED <<symbols, todo, generated, nStmts>>
        /\ Keep \/ Erase
    BY <1>2 DEF EndFuncDef, InnerIs
  <2>2. /\ cur \in Fns
        /\ blocks[cur] \in Seq(Blocks)
        /\ insert \in 1..Len(blocks[cur])
    BY <2>1, InBody
  <2>3. ReturnAdded \in Seq(Blocks)
    BY <2>2, TermAdded DEF ReturnAdded
  <2>4. varCtxStack' \in Seq(Frames)
    BY <2>1, PopFrameType
  <2>5. blocks' \in [Fns -> Seq(Blocks)]
    <3>1. CASE Keep
      BY <2>2, <2>3, <3>1 DEF Keep, BodyOK
    <3>2. CASE Erase
      BY <2>2, <3>2, EmptySeq DEF Erase, BodyOK
    <3> QED BY <2>1, <3>1, <3>2
  <2>6. Shape(constructs', 0)
    BY <2>1, EmptySeq DEF Shape
  <2>7. BodyOK'
    BY <2>1, <2>5, <2>6, NoFnIsNone DEF BodyOK, BlockCount
  <2>8. RestOK'
    <3>1. CASE Keep
      BY <2>1, <2>2, <2>4, <3>1 DEF Keep, RestOK
    <3>2. CASE Erase
      BY <2>1, <2>2, <2>4, <3>2 DEF Erase, RestOK, Phases
    <3> QED BY <2>1, <3>1, <3>2
  <2> QED BY <2>7, <2>8
<1> QED BY <1>1, <1>2

\* Statements that end where they begin.
LEMMA SimpleSteps ==
    ASSUME Sound,
           \/ NoCode
           \/ ExprStmt
           \/ \E n \in Names : InitDecltr(n)
           \/ \E f \in Fns, matches \in BOOLEAN : CallStmt(f, matches)
           \/ \E fits \in BOOLEAN : ReturnStmt(fits)
    PROVE  Sound'
<1> USE DEF Sound
<1>1. /\ constructs # << >>
      /\ calls \in [Fns -> SUBSET Fns]
      /\ varCtxStack \in Seq(Frames)
      /\ nStmts \in 0..MaxStmts
  BY DEF NoCode, ExprStmt, InitDecltr, CallStmt, ReturnStmt, AtStmt, InnerIs,
         RestOK
<1>2. /\ cur \in Fns
      /\ blocks[cur] \in Seq(Blocks)
      /\ Len(blocks[cur]) \in Nat
      /\ insert \in 1..Len(blocks[cur])
      /\ Shape(constructs, Len(blocks[cur]))
  BY <1>1, InBody
<1>3. /\ Shape(StmtDone(constructs), Len(blocks[cur]))
      /\ StmtDone(constructs) # << >>
  BY <1>1, <1>2, ShapeDone
<1>4. CountStmt => nStmts' \in 0..MaxStmts
  BY CountType
<1>5. /\ WithInst(blocks[cur], insert) \in Seq(Blocks)
      /\ Len(WithInst(blocks[cur], insert)) = Len(blocks[cur])
  BY <1>2, InstAdded
<1>6. CASE NoCode
  <2>1. BodyOK'
    BY <1>1, <1>3, <1>6, ConstructStep DEF NoCode
  <2>2. RestOK'
    BY <1>1, <1>6, RestStep DEF NoCode, bodyVars
  <2> QED BY <2>1, <2>2
<1>7. CASE ExprStmt
  <2> DEFINE bs == WithInst(blocks[cur], insert)
  <2>3. /\ cur' = cur
        /\ blocks' = [blocks EXCEPT ![cur] = bs]
        /\ insert' = insert
        /\ constructs' = StmtDone(constructs)
    BY <1>7 DEF ExprStmt
  <2>4. Extends(bs, blocks[cur]) /\ Len(bs) = Len(blocks[cur])
    BY <1>2, <1>5 DEF Extends
  <2> HIDE DEF bs
  <2>1. BodyOK'
    BY <1>1, <1>2, <1>3, <2>3, <2>4, BodyStep
  <2>2. RestOK'
    BY <1>1, <1>4, <1>7, RestStep DEF ExprStmt
  <2> QED BY <2>1, <2>2
<1>8. ASSUME NEW n \in Names, InitDecltr(n)
      PROVE  Sound'
  <2>1. CASE FindNamedValue(n) = 0
    BY <1>4, <1>8, <2>1, AbortStep DEF InitDecltr
  <2>2. CASE FindNamedValue(n) # 0
    <3>1. BodyOK'
      BY <1>1, <1>2, <1>5, <1>8, <2>2, BodyStep DEF InitDecltr, Extends, nameVars
    <3>2. RestOK'
      BY <1>1, <1>4, <1>8, <2>2, RestStep DEF InitDecltr, nameVars
    <3> QED BY <3>1, <3>2
  <2> QED BY <2>1, <2>2
<1>9. ASSUME NEW f \in Fns, NEW matches \in BOOLEAN, CallStmt(f, matches)
      PROVE  Sound'
  <2>1. CASE theModule[f] = "absent"
    BY <1>4, <1>9, <2>1, AbortStep DEF CallStmt
  <2>2. CASE theModule[f] # "absent" /\ matches
    <3>1. BodyOK'
      BY <1>1, <1>2, <1>3, <1>5, <1>9, <2>2, BodyStep DEF CallStmt, Extends
    <3>2. calls' \in [Fns -> SUBSET Fns]
      BY <1>1, <1>2, <1>9, <2>2 DEF CallStmt
    <3>3. RestOK'
      BY <1>1, <1>4, <1>9, <2>2, <3>2, RestStep DEF CallStmt
    <3> QED BY <3>1, <3>3
  <2>3. CASE theModule[f] # "absent" /\ ~matches
    <3>1. BodyOK'
      BY <1>1, <1>3, <1>9, <2>3, ConstructStep DEF CallStmt, bodyVars
    <3>2. RestOK'
      BY <1>1, <1>4, <1>9, <2>3, RestStep DEF CallStmt
    <3> QED BY <3>1, <3>2
  <2> QED BY <2>1, <2>2, <2>3
<1>10. ASSUME NEW fits \in BOOLEAN, ReturnStmt(fits)
       PROVE  Sound'
  <2> DEFINE bs == WithReturn(blocks[cur], insert, fits)
  <2>1. bs \in Seq(Blocks) /\ Len(bs) = Len(blocks[cur])
    BY <1>2, ReturnBuilt
  <2>2. /\ cur' = cur
        /\ blocks' = [blocks EXCEPT ![cur] = bs]
        /\ insert' = insert
        /\ constructs' = StmtDone(constructs)
    BY <1>10 DEF ReturnStmt
  <2>3. Extends(bs, blocks[cur])
    BY <1>2, <2>1 DEF Extends
  <2> HIDE DEF bs
  <2>7. BodyOK'
    BY <1>1, <1>2, <1>3, <2>1, <2>2, <2>3, BodyStep
  <2>8. RestOK'
    BY <1>1, <1>4, <1>10, RestStep DEF ReturnStmt
  <2> QED BY <2>7, <2>8
<1> QED BY <1>6, <1>7, <1>8, <1>9, <1>10

\* Blocks of statements.
LEMMA BlockSteps ==
    ASSUME Sound,
           \/ \E decls \in SUBSET Names, protos \in SUBSET Fns :
                  BeginCompStmt(decls, protos)
           \/ EndCompStmt
    PROVE  Sound'
<1> USE DEF Sound
<1>1. ASSUME NEW decls \in SUBSET Names, NEW protos \in SUBSET Fns,
             BeginCompStmt(decls, protos)
      PROVE  Sound'
  <2> DEFINE c == Construct("comp", decls, 0, 0)
  <2>1. /\ constructs # << >>
        /\ PushFrame(decls)
        /\ constructs' = Append(constructs, c)
        /\ theModule' = [f \in Fns |->
                             IF f \in protos /\ theModule[f] = "absent"
                             THEN "declared" ELSE theModule[f]]
        /\ UNCHANGED <<phase, symbols, todo, success, generated>>
        /\ UNCHANGED bodyVars /\ cur' = cur
        /\ nStmts' \in 0..MaxStmts
    BY <1>1, CountType DEF BeginCompStmt, AtStmt, InnerIs
  <2>2. c \in Constructs /\ c.kind = "comp"
    BY ConstructType DEF ConstructKinds
  <2> HIDE DEF c
  <2>3. Shape(constructs', Len(blocks[cur]))
    BY <2>1, <2>2, InBody, ShapePush
  <2>4. BodyOK'
    BY <2>1, <2>3, ConstructStep
  <2>5. varCtxStack' \in Seq(Frames)
    BY <2>1, InBody, PushFrameType
  <2>6. theModule' \in [Fns -> {"absent", "declared", "body"}]
    BY <2>1 DEF RestOK
  <2>7. RestOK'
    BY <2>1, <2>5, <2>6 DEF RestOK, bodyVars
  <2> QED BY <2>4, <2>7
<1>2. CASE EndCompStmt
  <2>1. /\ constructs # << >>
        /\ constructs[Len(constructs)].kind = "comp"
        /\ PopFrame
        /\ constructs' = StmtDone(Closed(constructs))
        /\ UNCHANGED unitVars /\ UNCHANGED bodyVars /\ UNCHANGED <<cur, nStmts>>
    BY <1>2 DEF EndCompStmt, InnerIs, Inner
  <2>2. /\ Shape(Closed(constructs), Len(blocks[cur]))
        /\ Closed(constructs) # << >>
    BY <2>1, InBody, ShapeClosed
  <2>3. Shape(constructs', Len(blocks[cur]))
    BY <2>1, <2>2, ShapeDone
  <2>4. BodyOK'
    BY <2>1, <2>3, ConstructStep
  <2>5. RestOK'
    BY <2>1, PopFrameType, RestStep DEF bodyVars, RestOK
  <2> QED BY <2>4, <2>5
<1> QED BY <1>1, <1>2

\* Ifs and whiles that begin.
LEMMA BranchSteps ==
    ASSUME Sound, BeginIf \/ BeginWhile
    PROVE  Sound'
<1> USE DEF Sound
<1>1. /\ constructs # << >>
      /\ calls \in [Fns -> SUBSET Fns]
      /\ varCtxStack \in Seq(Frames)
  BY DEF BeginIf, BeginWhile, AtStmt, RestOK
<1> DEFINE k == Len(blocks[cur])
<1>2. /\ cur \in Fns
      /\ blocks[cur] \in Seq(Blocks)
      /\ k \in Nat
      /\ insert \in 1..k
      /\ Shape(constructs, k)
  BY <1>1, InBody
<1>3. /\ NewBlockId(1) = k + 1
      /\ NewBlockId(2) = k + 2
      /\ NewBlockId(3) = k + 3
  BY DEF NewBlockId
<1>4. RestOK'
  BY <1>1, CountType, RestStep DEF BeginIf, BeginWhile
<1> HIDE DEF k
<1>5. Shape(constructs, k + 3)
  BY <1>2, ShapeGrows
<1>6. ASSUME NEW kind \in {"then", "while"},
             NEW target \in 1..(k + 3), NEW next \in 1..(k + 3)
      PROVE  Shape(Append(constructs, Construct(kind, {}, target, next)), k + 3)
  <2> DEFINE c == Construct(kind, {}, target, next)
  <2>1. /\ c \in Constructs
        /\ c.kind = kind
        /\ c.target = target
        /\ c.next = next
    BY <1>2, <1>6, ConstructType DEF ConstructKinds
  <2> HIDE DEF c
  <2>2. Shape(Append(constructs, c), k + 3)
    BY <1>1, <1>5, <1>6, <2>1, ShapePush
  <2> QED BY <2>2 DEF c
<1>7. CASE BeginIf
  <2> DEFINE more == <<NewBlock(TRUE), NewBlock(FALSE), NewBlock(FALSE)>>
             b1   == WithTerm(blocks[cur], insert, {k + 1, k + 2})
             bs   == b1 \o more
  <2>1. /\ cur' = cur
        /\ blocks' = [blocks EXCEPT ![cur] = bs]
        /\ insert' = k + 1
        /\ constructs' = Append(constructs, Construct("then", {}, k + 2, k + 3))
    BY <1>3, <1>7 DEF BeginIf
  <2>2. {k + 1, k + 2} \in SUBSET Nat
    BY <1>2
  <2>3. b1 \in Seq(Blocks) /\ Len(b1) = k
    BY <1>2, <2>2, TermAdded DEF k
  <2> HIDE DEF b1
  <2>4. bs \in Seq(Blocks) /\ Len(bs) = k + 3
    BY <2>3, BlocksAdded
  <2> HIDE DEF bs
  <2>5. Extends(bs, blocks[cur])
    BY <1>2, <2>4 DEF Extends, k
  <2>6. Shape(constructs', Len(bs))
    BY <1>2, <1>6, <2>1, <2>4
  <2>7. insert' \in 1..Len(bs)
    BY <1>2, <2>1, <2>4
  <2>8. BodyOK'
    BY <1>1, <2>1, <2>5, <2>6, <2>7, BodyStep
  <2> QED BY <1>4, <2>8
<1>8. CASE BeginWhile
  <2> DEFINE more == <<NewBlock(TRUE), NewBlock(TRUE), NewBlock(FALSE)>>
             b1   == WithTerm(blocks[cur], insert, {k + 1})
             b2   == b1 \o more
             bs   == WithTerm(b2, k + 1, {k + 2, k + 3})
  <2>1. /\ cur' = cur
        /\ blocks' = [blocks EXCEPT ![cur] = bs]
        /\ insert' = k + 2
        /\ constructs' = Append(constructs, Construct("while", {}, k + 1, k + 3))
    BY <1>3, <1>8 DEF BeginWhile
  <2>2. {k + 1} \in SUBSET Nat /\ {k + 2, k + 3} \in SUBSET Nat
    BY <1>2
  <2>3. b1 \in Seq(Blocks) /\ Len(b1) = k
    BY <1>2, <2>2, TermAdded DEF k
  <2> HIDE DEF b1
  <2>4. b2 \in Seq(Blocks) /\ Len(b2) = k + 3
    BY <2>3, BlocksAdded
  <2> HIDE DEF b2
  <2>5. k + 1 \in 1..Len(b2)
    BY <1>2, <2>4
  <2>6. bs \in Seq(Blocks) /\ Len(bs) = k + 3
    BY <2>2, <2>4, <2>5, TermAdded
  <2> HIDE DEF bs
  <2>7. Extends(bs, blocks[cur])
    BY <1>2, <2>6 DEF Extends, k
  <2>8. Shape(constructs', Len(bs))
    BY <1>2, <1>6, <2>1, <2>6
  <2>9. insert' \in 1..Len(bs)
    BY <1>2, <2>1, <2>6
  <2>10. BodyOK'
    BY <1>1, <2>1, <2>7, <2>8, <2>9, BodyStep
  <2> QED BY <1>4, <2>10
<1> QED BY <1>7, <1>8

\* Ifs and whiles that end, or go on with their else.
LEMMA JoinSteps ==
    ASSUME Sound, (\E hasElse \in BOOLEAN : EndThen(hasElse)) \/ EndElse \/ EndWhile
    PROVE  Sound'
<1> USE DEF Sound
<1>1. /\ constructs # << >>
      /\ Inner.kind \in {"then", "else", "while"}
      /\ cur' = cur
      /\ UNCHANGED unitVars /\ UNCHANGED <<calls, varCtxStack, nStmts>>
  BY DEF EndThen, EndElse, EndWhile, InnerIs
<1>2. /\ cur \in Fns
      /\ blocks[cur] \in Seq(Blocks)
      /\ Len(blocks[cur]) \in Nat
      /\ insert \in 1..Len(blocks[cur])
      /\ Shape(constructs, Len(blocks[cur]))
  BY <1>1, InBody
<1> DEFINE k == Len(blocks[cur])
<1>3. Inner.target \in 1..k /\ Inner.next \in 1..k /\ Inner \in Constructs
  BY <1>1, <1>2, ShapeLast DEF Shape, Inner
<1>4. RestOK'
  BY <1>1, RestStep DEF RestOK
<1>5. JoinAdded \in Seq(Blocks) /\ Len(JoinAdded) = k
  <2>1. {Inner.next} \in SUBSET Nat
    BY <1>2, <1>3
  <2> QED BY <1>2, <2>1, TermAdded DEF JoinAdded
<1> HIDE DEF k
<1>6. ASSUME NEW b1 \in Seq(Blocks), Len(b1) = k, NEW to \in 1..k,
             blocks' = [blocks EXCEPT ![cur] = Placed(b1, to)],
             insert' = to, Shape(constructs', k)
      PROVE  BodyOK'
  <2> DEFINE bs == Placed(b1, to)
  <2>1. bs \in Seq(Blocks) /\ Len(bs) = k
    BY <1>6, BlockPlaced
  <2>2. blocks' = [blocks EXCEPT ![cur] = bs]
    BY <1>6
  <2> HIDE DEF bs
  <2>3. Extends(bs, blocks[cur])
    BY <1>2, <2>1 DEF Extends, k
  <2> QED BY <1>1, <1>6, <2>1, <2>2, <2>3, BodyStep
<1>7. Inner.kind # "func" =>
          Shape(StmtDone(Closed(constructs)), k)
  BY <1>1, <1>2, ShapeClosed, ShapeDone DEF Inner, k
<1>8. ASSUME NEW hasElse \in BOOLEAN, EndThen(hasElse)
      PROVE  BodyOK'
  <2> DEFINE n == Len(constructs)
             c == [Inner EXCEPT !.kind = "else", !.done = ~hasElse]
  <2>1. /\ blocks' = [blocks EXCEPT ![cur] = Placed(JoinAdded, Inner.target)]
        /\ insert' = Inner.target
        /\ constructs' = [constructs EXCEPT ![n].kind = "else",
                                            ![n].done = ~hasElse]
    BY <1>8 DEF EndThen
  <2>2. /\ c \in Constructs
        /\ c.kind = "else"
        /\ c.target = Inner.target
        /\ c.next = Inner.next
    BY <1>3 DEF Constructs, ConstructKinds
  <2>3. constructs' = [constructs EXCEPT ![n] = c]
    BY <1>1, <1>2, <2>1, ShapeLast, LenProperties DEF Inner, Shape
  <2> HIDE DEF c
  <2>4. Shape(constructs', k)
    BY <1>1, <1>2, <1>3, <2>2, <2>3, ShapeChanged DEF Inner, k
  <2> QED BY <1>3, <1>5, <1>6, <2>1, <2>4
<1>9. CASE EndElse
  BY <1>1, <1>3, <1>4, <1>5, <1>6, <1>7, <1>9 DEF EndElse
<1>10. CASE EndWhile
  <2> DEFINE b1 == WithTerm(blocks[cur], insert, {Inner.target})
  <2>1. {Inner.target} \in SUBSET Nat
    BY <1>2, <1>3 DEF k
  <2>2. b1 \in Seq(Blocks) /\ Len(b1) = k
    BY <1>2, <2>1, TermAdded DEF k
  <2>3. /\ blocks' = [blocks EXCEPT ![cur] = Placed(b1, Inner.next)]
        /\ insert' = Inner.next
        /\ constructs' = StmtDone(Closed(constructs))
    BY <1>10 DEF EndWhile
  <2> HIDE DEF b1
  <2> QED BY <1>1, <1>3, <1>4, <1>6, <1>7, <2>2, <2>3
<1> QED BY <1>4, <1>8, <1>9, <1>10

LEMMA SoundStep == Sound /\ [Next]_vars => Sound'
<1> SUFFICES ASSUME Sound, [Next]_vars PROVE Sound'
  OBVIOUS
<1>1. CASE UNCHANGED vars
  <2>1. BodyOK'
    BY <1>1 DEF vars, bodyVars, nameVars, Sound, BodyOK, BlockCount
  <2>2. RestOK'
    BY <1>1 DEF vars, unitVars, bodyVars, nameVars, Sound, RestOK
  <2> QED BY <2>1, <2>2 DEF Sound
<1>2. CASE Next /\ ~UNCHANGED vars
  BY <1>2, ModuleSteps, FunctionSteps, SimpleSteps, BlockSteps, BranchSteps,
     JoinSteps
     DEF Next, Finished
<1> QED BY <1>1, <1>2

\* Every state of the builder is type correct: in particular code is always
\* added to a block of the function that is being generated, and the blocks an
\* if or a while comes back to exist.
THEOREM SoundInvariant == Spec => []Sound
<1>1. Init => Sound
  BY SoundInit
<1>2. Sound /\ [Next]_vars => Sound'
  BY SoundStep
<1> QED BY <1>1, <1>2, PTL DEF Spec

THEOREM CodeGenTypes == Spec => []TypeOK
<1>1. Sound => TypeOK
  BY SoundTypes
<1> QED BY <1>1, SoundInvariant, PTL

-----------------------------------------------------------------------------
(* What a module that was generated with success contains.                 *)

\* Until the end a defined function is in one of three places: its definition
\* is still to come, is being generated, or is in the module.
Progress ==
    /\ phase = "idle" => /\ \A f \in Fns : symbols[f] = "none"
                         /\ \A f \in Fns : calls[f] = {}
                         /\ cur = NoFn
    /\ phase \in {"idle", "generating"} => ~generated
    /\ generated => cur = NoFn /\ todo = {}
    /\ success =>
           /\ \A f \in Fns : /\ symbols[f] # "none" => theModule[f] # "absent"
                             /\ \A g \in calls[f] : theModule[g] # "absent"
           /\ \A f \in Fns : symbols[f] = "defined" =>
                  \/ f \in todo
                  \/ f = cur
                  \/ theModule[f] = "body" /\ WellFormed(blocks[f])

LEMMA ProgressInit == Init => Progress
BY DEF Init, Progress

LEMMA ProgressStep == Sound /\ Progress /\ [Next]_vars => Progress'
<1> SUFFICES ASSUME Sound, Progress, [Next]_vars PROVE Progress'
  OBVIOUS
<1>t. /\ blocks \in [Fns -> Seq(Blocks)]
      /\ calls \in [Fns -> SUBSET Fns]
      /\ theModule \in [Fns -> {"absent", "declared", "body"}]
      /\ cur \in Fns \cup {NoFn}
  BY DEF Sound, BodyOK, RestOK
\* A step inside a function, that does not end it.
<1>s. ASSUME phase = "generating", UNCHANGED unitVars, cur' = cur,
             UNCHANGED calls,
             \A f \in Fns \ {cur} : blocks'[f] = blocks[f]
      PROVE  Progress'
  BY <1>s DEF Progress, unitVars
<1>b. ASSUME NEW bs, blocks' = [blocks EXCEPT ![cur] = bs]
      PROVE  \A f \in Fns \ {cur} : blocks'[f] = blocks[f]
  BY <1>t, <1>b
<1>a. ASSUME Abort PROVE Progress'
  BY <1>a DEF Abort, Progress, bodyVars
<1>1. CASE UNCHANGED vars
  BY <1>1 DEF vars, unitVars, bodyVars, Progress
<1>2. ASSUME NEW syms \in [Fns -> {"none", "declared", "defined"}],
             BeginModule(syms)
      PROVE  Progress'
  BY <1>2 DEF BeginModule, Progress, bodyVars
<1>3. CASE EndModule
  BY <1>3 DEF EndModule, Progress, bodyVars
<1>4. CASE WriteModule
  BY <1>4 DEF WriteModule, Progress, bodyVars
<1>5. CASE InitGlobal
  BY <1>5, <1>a DEF InitGlobal
<1>6. ASSUME NEW f \in Fns, NEW ps \in SUBSET Names, BeginFuncDef(f, ps)
      PROVE  Progress'
  <2>1. CASE theModule[f] = "absent"
    BY <1>6, <2>1, <1>a DEF BeginFuncDef
  <2>2. CASE theModule[f] # "absent"
    <3>1. /\ cur = NoFn /\ cur' = f
          /\ \A h \in Fns \ {f} : blocks'[h] = blocks[h]
          /\ todo' = todo \ {f}
          /\ phase = "generating"
          /\ UNCHANGED <<phase, symbols, theModule, success, generated, calls>>
      BY <1>6, <2>2, <1>t DEF BeginFuncDef
    <3> QED BY <3>1, NoFnIsNone DEF Progress
  <2> QED BY <2>1, <2>2
<1>7. CASE EndFuncDef
  <2>1. /\ phase = "generating"
        /\ cur' = NoFn
        /\ UNCHANGED <<symbols, todo, generated>>
        /\ cur \in Fns
    BY <1>7, InBody DEF EndFuncDef, InnerIs, Sound
  <2>2. CASE WellFormed(ReturnAdded)
    <3>1. /\ blocks' = [blocks EXCEPT ![cur] = ReturnAdded]
          /\ theModule' = [theModule EXCEPT ![cur] = "body"]
          /\ UNCHANGED <<phase, calls, success>>
      BY <1>7, <2>2 DEF EndFuncDef, Keep
    <3> DEFINE bs == ReturnAdded
    <3>2. WellFormed(bs) /\ blocks' = [blocks EXCEPT ![cur] = bs]
      BY <2>2, <3>1
    <3> HIDE DEF bs
    <3>3. /\ blocks'[cur] = bs
          /\ theModule'[cur] = "body"
          /\ \A f \in Fns \ {cur} : /\ blocks'[f] = blocks[f]
                                    /\ theModule'[f] = theModule[f]
      BY <2>1, <3>1, <3>2, <1>t
    <3>4. \A f \in Fns : theModule[f] # "absent" => theModule'[f] # "absent"
      BY <3>3
    <3>5. WellFormed(blocks'[cur])
      BY <3>2, <3>3
    <3> QED BY <1>t, <2>1, <3>1, <3>3, <3>4, <3>5 DEF Progress
  <2>3. CASE ~WellFormed(ReturnAdded)
    <3>1. success' = FALSE /\ phase' \in {phase, "aborted"}
      BY <1>7, <2>3 DEF EndFuncDef, Erase
    <3> QED BY <2>1, <3>1 DEF Progress
  <2> QED BY <2>2, <2>3
<1>8. ASSUME NEW decls \in SUBSET Names, NEW protos \in SUBSET Fns,
             BeginCompStmt(decls, protos)
      PROVE  Progress'
  <2>1. /\ phase = "generating"
        /\ \A f \in Fns : /\ theModule[f] # "absent" => theModule'[f] = theModule[f]
        /\ UNCHANGED <<phase, symbols, todo, success, generated, blocks, calls, cur>>
    BY <1>8 DEF BeginCompStmt, bodyVars
  <2> QED BY <1>t, <2>1 DEF Progress
<1>9. CASE EndCompStmt \/ NoCode
  BY <1>9, <1>s DEF EndCompStmt, NoCode, AtStmt, bodyVars
<1>10. CASE ExprStmt
  BY <1>10, <1>s, <1>b DEF ExprStmt, AtStmt
<1>11. ASSUME NEW n \in Names, InitDecltr(n)
       PROVE  Progress'
  BY <1>11, <1>s, <1>b, <1>a DEF InitDecltr, AtStmt
<1>12. ASSUME NEW f \in Fns, NEW matches \in BOOLEAN, CallStmt(f, matches)
       PROVE  Progress'
  <2>1. CASE theModule[f] = "absent"
    BY <1>12, <2>1, <1>a DEF CallStmt
  <2>2. CASE theModule[f] # "absent" /\ ~matches
    BY <1>12, <2>2, <1>s DEF CallStmt, AtStmt
  <2>3. CASE theModule[f] # "absent" /\ matches
    <3>1. /\ phase = "generating" /\ UNCHANGED unitVars /\ cur' = cur
          /\ calls' = [calls EXCEPT ![cur] = @ \cup {f}]
          /\ \A h \in Fns \ {cur} : blocks'[h] = blocks[h]
      BY <1>12, <2>3, <1>b DEF CallStmt, AtStmt
    <3>2. \A h \in Fns : calls'[h] \subseteq calls[h] \cup {f}
      BY <3>1, <1>t
    <3> QED BY <3>1, <3>2, <2>3 DEF Progress, unitVars
  <2> QED BY <2>1, <2>2, <2>3
<1>13. CASE BeginIf
  BY <1>13, <1>s, <1>b DEF BeginIf, AtStmt
<1>14. ASSUME NEW hasElse \in BOOLEAN, EndThen(hasElse)
       PROVE  Progress'
  BY <1>14, <1>s, <1>b DEF EndThen
<1>15. CASE EndElse
  BY <1>15, <1>s, <1>b DEF EndElse
<1>16. CASE BeginWhile
  BY <1>16, <1>s, <1>b DEF BeginWhile, AtStmt
<1>17. CASE EndWhile
  BY <1>17, <1>s, <1>b DEF EndWhile
<1>18. ASSUME NEW fits \in BOOLEAN, ReturnStmt(fits)
       PROVE  Progress'
  BY <1>18, <1>s, <1>b DEF ReturnStmt, AtStmt
<1> QED
  BY <1>1, <1>2, <1>3, <1>4, <1>5, <1>6, <1>7, <1>8, <1>9, <1>10, <1>11, <1>12,
     <1>13, <1>14, <1>15, <1>16, <1>17, <1>18 DEF Next, Finished

LEMMA ProgressInvariant == Spec => []Progress
<1>1. Init => Progress
  BY ProgressInit
<1>2. Sound /\ Progress /\ [Next]_vars => Progress'
  BY ProgressStep
<1> QED BY <1>1, <1>2, SoundInvariant, PTL DEF Spec

\* A module that was generated with success is complete: no function of the
\* file is missing, every call finds its function, and every function defined
\* in the file has a body LLVM accepts.
THEOREM SuccessMeansComplete == Spec => []ModuleComplete
<1>1. Sound /\ Progress => ModuleComplete
  BY NoFnIsNone DEF Progress, ModuleComplete
<1> QED BY <1>1, SoundInvariant, ProgressInvariant, PTL

-----------------------------------------------------------------------------
(* What a name means.  The frames of varCtxStack belong to the module and  *)
(* to the functions and blocks being generated, in their order; an if or a *)
(* while has no frame and declares nothing.                                *)

HasFrame(c) == c.kind \in {"func", "comp"}

\* The variables whose AllocaInst is in the frame of construct k; the frame of
\* the module, k = 0, has none.
DeclaredAt(cs, k) == IF k = 0 THEN {} ELSE cs[k].decls

\* owner says which construct a frame belongs to.
Owns(owner, cs, stack) ==
    /\ owner \in [1..Len(stack) -> 0..Len(cs)]
    /\ \A i \in 1..Len(stack) :
           /\ stack[i] = FrameOf(DeclaredAt(cs, owner[i]), owner[i])
           /\ owner[i] # 0 => HasFrame(cs[owner[i]])
    /\ \A i, j \in 1..Len(stack) : i < j => owner[i] < owner[j]
    /\ \A k \in 1..Len(cs) :
           IF HasFrame(cs[k]) THEN \E i \in 1..Len(stack) : owner[i] = k
                              ELSE cs[k].decls = {}

Matched(cs, stack) ==
    \E owner \in [1..Len(stack) -> 0..Len(cs)] : Owns(owner, cs, stack)

FramesFollowConstructs ==
    /\ Matched(constructs, varCtxStack)
    /\ phase = "idle" => varCtxStack = << >>

\* All of a sequence but its end.
LEMMA FrontOf ==
    ASSUME NEW S, NEW s \in Seq(S), Len(s) - 1 \in Nat
    PROVE  LET front == SubSeq(s, 1, Len(s) - 1)
           IN  /\ Len(front) = Len(s) - 1
               /\ \A i \in 1..(Len(s) - 1) : front[i] = s[i]
<1> DEFINE m     == Len(s) - 1
           front == SubSeq(s, 1, m)
<1>1. Len(s) \in Nat /\ m \in Nat
  BY LenProperties
<1>2. \A i \in 1..m : s[i] \in S
  BY <1>1, ElementOfSeq
<1> HIDE DEF m
<1>3. /\ Len(front) = IF 1 <= m THEN m - 1 + 1 ELSE 0
      /\ \A i \in 1..(m - 1 + 1) : front[i] = s[1 + i - 1]
  BY <1>1, <1>2, SubSeqProperties
<1>4. Len(front) = m /\ \A i \in 1..m : front[i] = s[i]
  BY <1>1, <1>3
<1> QED BY <1>4 DEF m

LEMMA FramePushed ==
    ASSUME NEW cs \in Seq(Constructs), NEW stack \in Seq(Frames),
           NEW c \in Constructs, HasFrame(c), Matched(cs, stack)
    PROVE  Matched(Append(cs, c),
                   Append(stack, FrameOf(c.decls, Len(cs) + 1)))
<1> DEFINE n  == Len(stack)
           k  == Len(cs)
           f  == FrameOf(c.decls, k + 1)
           ds == Append(cs, c)
           fs == Append(stack, f)
<1>1. PICK owner \in [1..n -> 0..k] : Owns(owner, cs, stack)
  BY DEF Matched
<1>2. /\ n \in Nat /\ k \in Nat
      /\ Len(fs) = n + 1 /\ fs[n + 1] = f
      /\ \A i \in 1..n : fs[i] = stack[i]
      /\ Len(ds) = k + 1 /\ ds[k + 1] = c
      /\ \A i \in 1..k : ds[i] = cs[i]
  BY LenProperties
<1> DEFINE own == [i \in 1..(n + 1) |-> IF i = n + 1 THEN k + 1 ELSE owner[i]]
<1>3. own \in [1..(n + 1) -> 0..(k + 1)]
  BY <1>1, <1>2
<1>4. /\ own[n + 1] = k + 1
      /\ \A i \in 1..n : own[i] = owner[i] /\ own[i] \in 0..k
  BY <1>1, <1>2
<1> HIDE DEF own, n, k, ds, fs
<1>5. \A i \in 1..(n + 1) : i = n + 1 \/ i \in 1..n
  BY <1>2
<1>6. \A i \in 1..n : DeclaredAt(ds, own[i]) = DeclaredAt(cs, owner[i])
  BY <1>2, <1>4 DEF DeclaredAt
<1>7. DeclaredAt(ds, own[n + 1]) = c.decls
  BY <1>2, <1>4 DEF DeclaredAt
<1>8. \A i \in 1..(n + 1) :
          /\ fs[i] = FrameOf(DeclaredAt(ds, own[i]), own[i])
          /\ own[i] # 0 => HasFrame(ds[own[i]])
  <2>1. \A i \in 1..n : /\ fs[i] = FrameOf(DeclaredAt(ds, own[i]), own[i])
                        /\ own[i] # 0 => HasFrame(ds[own[i]])
    BY <1>1, <1>2, <1>4, <1>6 DEF Owns, n, k
  <2> QED BY <1>2, <1>4, <1>5, <1>7, <2>1
<1>9. \A i, j \in 1..(n + 1) : i < j => own[i] < own[j]
  <2> SUFFICES ASSUME NEW i \in 1..(n + 1), NEW j \in 1..(n + 1), i < j
               PROVE  own[i] < own[j]
    OBVIOUS
  <2>1. i \in 1..n /\ own[i] = owner[i] /\ own[i] \in 0..k
    BY <1>2, <1>4
  <2>2. CASE j = n + 1
    BY <1>2, <1>4, <2>1, <2>2
  <2>3. CASE j \in 1..n
    <3>1. owner[i] < owner[j]
      BY <1>1, <2>1, <2>3 DEF Owns, n
    <3> QED BY <1>4, <2>1, <2>3, <3>1
  <2> QED BY <1>5, <2>2, <2>3
<1>10. \A l \in 1..(k + 1) :
           IF HasFrame(ds[l]) THEN \E i \in 1..(n + 1) : own[i] = l
                              ELSE ds[l].decls = {}
  <2>1. ASSUME NEW l \in 1..k, HasFrame(cs[l])
        PROVE  \E i \in 1..(n + 1) : own[i] = l
    <3>1. PICK i \in 1..n : owner[i] = l
      BY <1>1, <2>1 DEF Owns, n, k
    <3>2. i \in 1..(n + 1) /\ own[i] = l
      BY <1>2, <1>4, <3>1
    <3> QED BY <3>2
  <2>2. \A l \in 1..k : ~HasFrame(cs[l]) => cs[l].decls = {}
    BY <1>1 DEF Owns, k
  <2>3. n + 1 \in 1..(n + 1) /\ own[n + 1] = k + 1 /\ HasFrame(ds[k + 1])
    BY <1>2, <1>4
  <2>4. \A l \in 1..k : ds[l] = cs[l]
    BY <1>2
  <2>5. \A l \in 1..(k + 1) : l = k + 1 \/ l \in 1..k
    BY <1>2
  <2> QED BY <2>1, <2>2, <2>3, <2>4, <2>5
<1>11. Owns(own, ds, fs)
  BY <1>2, <1>3, <1>8, <1>9, <1>10 DEF Owns
<1> QED BY <1>2, <1>3, <1>11 DEF Matched, ds, fs, k

LEMMA NoFramePushed ==
    ASSUME NEW cs \in Seq(Constructs), NEW stack \in Seq(Frames),
           NEW c \in Constructs, ~HasFrame(c), c.decls = {}, Matched(cs, stack)
    PROVE  Matched(Append(cs, c), stack)
<1> DEFINE n  == Len(stack)
           k  == Len(cs)
           ds == Append(cs, c)
<1>1. PICK owner \in [1..n -> 0..k] : Owns(owner, cs, stack)
  BY DEF Matched
<1>2. /\ n \in Nat /\ k \in Nat
      /\ Len(ds) = k + 1 /\ ds[k + 1] = c
      /\ \A i \in 1..k : ds[i] = cs[i]
  BY LenProperties
<1> HIDE DEF n, k, ds
<1>3. owner \in [1..n -> 0..(k + 1)]
  BY <1>1, <1>2
<1>4. \A i \in 1..n : /\ owner[i] \in 0..k
                      /\ DeclaredAt(ds, owner[i]) = DeclaredAt(cs, owner[i])
                      /\ owner[i] # 0 => ds[owner[i]] = cs[owner[i]]
  BY <1>1, <1>2 DEF DeclaredAt
<1>5. \A l \in 1..(k + 1) : l = k + 1 \/ l \in 1..k
  BY <1>2
<1>6. Owns(owner, ds, stack)
  BY <1>1, <1>2, <1>3, <1>4, <1>5 DEF Owns, n, k
<1> QED BY <1>2, <1>3, <1>6 DEF Matched, ds, n

\* Constructs that differ in what an if or a while is doing.
LEMMA FramesKept ==
    ASSUME NEW cs, NEW ds, NEW stack, Matched(cs, stack),
           Len(ds) = Len(cs),
           \A l \in 1..Len(cs) : /\ ds[l].decls = cs[l].decls
                                 /\ HasFrame(ds[l]) <=> HasFrame(cs[l])
    PROVE  Matched(ds, stack)
<1>1. PICK owner \in [1..Len(stack) -> 0..Len(cs)] : Owns(owner, cs, stack)
  BY DEF Matched
<1>2. \A i \in 1..Len(stack) :
          owner[i] # 0 => owner[i] \in 1..Len(cs)
  BY <1>1
<1>3. \A i \in 1..Len(stack) :
          DeclaredAt(ds, owner[i]) = DeclaredAt(cs, owner[i])
  BY <1>2 DEF DeclaredAt
<1>4. Owns(owner, ds, stack)
  BY <1>1, <1>2, <1>3 DEF Owns
<1> QED BY <1>1, <1>4 DEF Matched

\* A function or block that ends takes its frame along.
LEMMA FramePopped ==
    ASSUME NEW cs \in Seq(Constructs), NEW stack \in Seq(Frames),
           cs # << >>, HasFrame(cs[Len(cs)]), Matched(cs, stack)
    PROVE  Matched(Closed(cs), SubSeq(stack, 1, Len(stack) - 1))
<1> DEFINE n  == Len(stack)
           k  == Len(cs)
           ds == SubSeq(cs, 1, k - 1)
           fs == SubSeq(stack, 1, n - 1)
<1>1. PICK owner \in [1..n -> 0..k] : Owns(owner, cs, stack)
  BY DEF Matched
<1>2. n \in Nat /\ k \in Nat \ {0}
  BY LenProperties, EmptySeq
<1>3. PICK last \in 1..n : owner[last] = k
  BY <1>1, <1>2 DEF Owns
<1>4. last = n
  <2> SUFFICES ASSUME last < n PROVE FALSE
    BY <1>2, <1>3
  <2>1. owner[last] < owner[n] /\ owner[n] \in 0..k
    BY <1>1, <1>2, <1>3 DEF Owns
  <2> QED BY <1>2, <1>3, <2>1
<1>5. /\ Len(fs) = n - 1 /\ n - 1 \in Nat
      /\ \A i \in 1..(n - 1) : fs[i] = stack[i]
  <2>1. n - 1 \in Nat
    BY <1>2, <1>3
  <2> QED BY <2>1, FrontOf
<1>6. /\ Len(ds) = k - 1 /\ k - 1 \in Nat
      /\ \A i \in 1..(k - 1) : ds[i] = cs[i]
  <2>1. k - 1 \in Nat
    BY <1>2
  <2> QED BY <2>1, FrontOf
<1> DEFINE own == [i \in 1..(n - 1) |-> owner[i]]
<1>7. \A i \in 1..(n - 1) : /\ i \in 1..n /\ own[i] = owner[i]
                            /\ owner[i] \in 0..(k - 1)
  <2> TAKE i \in 1..(n - 1)
  <2>1. i \in 1..n /\ n \in 1..n /\ i < n
    BY <1>2
  <2>2. owner[i] < owner[n]
    BY <1>1, <2>1 DEF Owns
  <2> QED BY <1>2, <1>3, <1>4, <2>1, <2>2
<1>8. own \in [1..(n - 1) -> 0..(k - 1)]
  BY <1>7
<1> HIDE DEF own, n, k, ds, fs
<1>9. \A i \in 1..(n - 1) :
          /\ DeclaredAt(ds, own[i]) = DeclaredAt(cs, owner[i])
          /\ own[i] # 0 => ds[own[i]] = cs[owner[i]]
  BY <1>2, <1>6, <1>7 DEF DeclaredAt
<1>10. \A i \in 1..(n - 1) :
          /\ fs[i] = FrameOf(DeclaredAt(ds, own[i]), own[i])
          /\ own[i] # 0 => HasFrame(ds[own[i]])
  <2>1. \A i \in 1..n : /\ stack[i] = FrameOf(DeclaredAt(cs, owner[i]), owner[i])
                        /\ owner[i] # 0 => HasFrame(cs[owner[i]])
    BY <1>1 DEF Owns, n
  <2> QED BY <1>5, <1>7, <1>9, <2>1
<1>11. \A i, j \in 1..(n - 1) : i < j => own[i] < own[j]
  <2>1. \A i, j \in 1..n : i < j => owner[i] < owner[j]
    BY <1>1 DEF Owns, n
  <2> QED BY <1>7, <2>1
<1>12. \A l \in 1..(k - 1) :
           IF HasFrame(ds[l]) THEN \E i \in 1..(n - 1) : own[i] = l
                              ELSE ds[l].decls = {}
  <2> TAKE l \in 1..(k - 1)
  <2>1. l \in 1..k /\ l # k /\ ds[l] = cs[l]
    BY <1>2, <1>6
  <2>2. IF HasFrame(cs[l]) THEN \E i \in 1..n : owner[i] = l
                           ELSE cs[l].decls = {}
    BY <1>1, <2>1 DEF Owns, n, k
  <2>3. \A i \in 1..n : owner[i] = l => i \in 1..(n - 1)
    BY <1>2, <1>3, <1>4, <2>1
  <2> QED BY <1>7, <2>1, <2>2, <2>3
<1>13. Owns(own, ds, fs)
  BY <1>5, <1>6, <1>8, <1>10, <1>11, <1>12 DEF Owns
<1> QED BY <1>5, <1>6, <1>8, <1>13 DEF Matched, Closed, ds, fs, k, n

\* An if or a while that ends had no frame.
LEMMA NoFramePopped ==
    ASSUME NEW cs \in Seq(Constructs), NEW stack \in Seq(Frames),
           cs # << >>, ~HasFrame(cs[Len(cs)]), Matched(cs, stack)
    PROVE  Matched(Closed(cs), stack)
<1> DEFINE n  == Len(stack)
           k  == Len(cs)
           ds == SubSeq(cs, 1, k - 1)
<1>1. PICK owner \in [1..n -> 0..k] : Owns(owner, cs, stack)
  BY DEF Matched
<1>2. k \in Nat \ {0}
  BY LenProperties, EmptySeq
<1>3. /\ Len(ds) = k - 1 /\ k - 1 \in Nat
      /\ \A i \in 1..(k - 1) : ds[i] = cs[i]
  <2>1. k - 1 \in Nat
    BY <1>2
  <2> QED BY <2>1, FrontOf
<1>4. \A i \in 1..n : owner[i] \in 0..(k - 1)
  <2> TAKE i \in 1..n
  <2>1. owner[i] # k
    BY <1>1, <1>2 DEF Owns
  <2> QED BY <1>1, <1>2, <2>1
<1> HIDE DEF n, k, ds
<1>5. owner \in [1..n -> 0..(k - 1)]
  BY <1>1, <1>4
<1>6. \A i \in 1..n :
          /\ DeclaredAt(ds, owner[i]) = DeclaredAt(cs, owner[i])
          /\ owner[i] # 0 => ds[owner[i]] = cs[owner[i]]
  BY <1>2, <1>3, <1>4 DEF DeclaredAt
<1>7. \A l \in 1..(k - 1) : l \in 1..k /\ ds[l] = cs[l]
  BY <1>2, <1>3
<1>8. Owns(owner, ds, stack)
  BY <1>1, <1>3, <1>5, <1>6, <1>7 DEF Owns, n, k
<1> QED BY <1>3, <1>5, <1>8 DEF Matched, Closed, ds, n, k

\* A construct on which only the end of one statement, or of the first arm of
\* an if, is noted.
LEMMA FramesMarked ==
    ASSUME NEW cs \in Seq(Constructs), NEW stack, cs # << >>, Matched(cs, stack),
           NEW c \in Constructs, c.decls = cs[Len(cs)].decls,
           HasFrame(c) <=> HasFrame(cs[Len(cs)])
    PROVE  Matched([cs EXCEPT ![Len(cs)] = c], stack)
<1>1. Len(cs) \in 1..Len(cs)
  BY EmptySeq, LenProperties
<1>2. /\ Len([cs EXCEPT ![Len(cs)] = c]) = Len(cs)
      /\ \A j \in 1..Len(cs) :
             [cs EXCEPT ![Len(cs)] = c][j] = IF j = Len(cs) THEN c ELSE cs[j]
  BY <1>1, ExceptSeq
<1> DEFINE ds == [cs EXCEPT ![Len(cs)] = c]
<1>3. \A l \in 1..Len(cs) : /\ ds[l].decls = cs[l].decls
                            /\ HasFrame(ds[l]) <=> HasFrame(cs[l])
  BY <1>2
<1>4. Len(ds) = Len(cs)
  BY <1>2
<1> HIDE DEF ds
<1>5. Matched(ds, stack)
  BY <1>3, <1>4, FramesKept
<1> QED BY <1>5 DEF ds

LEMMA FramesDone ==
    ASSUME NEW cs \in Seq(Constructs), NEW stack, cs # << >>, Matched(cs, stack)
    PROVE  Matched(StmtDone(cs), stack)
<1> DEFINE n == Len(cs)
           c == [cs[n] EXCEPT !.done = TRUE]
<1>1. cs[n] \in Constructs
  BY EmptySeq, LenProperties, ElementOfSeq
<1>2. c \in Constructs /\ c.decls = cs[n].decls /\ c.kind = cs[n].kind
  BY <1>1 DEF Constructs
<1>3. [cs EXCEPT ![n].done = TRUE] = [cs EXCEPT ![n] = c]
  OBVIOUS
<1> HIDE DEF c
<1>4. Matched([cs EXCEPT ![n] = c], stack)
  BY <1>2, FramesMarked DEF HasFrame
<1> QED BY <1>3, <1>4 DEF StmtDone

LEMMA FramesInit == Init => FramesFollowConstructs
<1> SUFFICES ASSUME Init PROVE FramesFollowConstructs
  OBVIOUS
<1> DEFINE owner == [i \in 1..0 |-> 0]
<1>1. Len(varCtxStack) = 0 /\ Len(constructs) = 0
  BY EmptySeq DEF Init
<1>2. owner \in [1..0 -> 0..0]
  OBVIOUS
<1>3. Owns(owner, constructs, varCtxStack)
  BY <1>1, <1>2 DEF Owns
<1> QED BY <1>1, <1>2, <1>3 DEF FramesFollowConstructs, Matched, Init

LEMMA FramesStep ==
    Sound /\ Progress /\ FramesFollowConstructs /\ [Next]_vars
        => FramesFollowConstructs'
<1> SUFFICES ASSUME Sound, Progress, FramesFollowConstructs, [Next]_vars
             PROVE  FramesFollowConstructs'
  OBVIOUS
<1>t. /\ constructs \in Seq(Constructs)
      /\ varCtxStack \in Seq(Frames)
      /\ Len(constructs) \in Nat
      /\ Matched(constructs, varCtxStack)
      /\ cur = NoFn => constructs = << >>
  BY LenProperties, NoFnIsNone
     DEF Sound, BodyOK, RestOK, Shape, FramesFollowConstructs
<1>p. ASSUME phase' # "idle", Matched(constructs', varCtxStack')
      PROVE  FramesFollowConstructs'
  BY <1>p DEF FramesFollowConstructs
<1>a. ASSUME Abort PROVE FramesFollowConstructs'
  BY <1>a, <1>t, <1>p DEF Abort, nameVars
\* A statement that is done, or is not.
<1>s. ASSUME phase' # "idle", constructs # << >>, varCtxStack' = varCtxStack,
             constructs' \in {constructs, StmtDone(constructs)}
      PROVE  FramesFollowConstructs'
  BY <1>s, <1>t, <1>p, FramesDone
\* An if or a while that begins or ends.
<1>w. ASSUME phase' # "idle", varCtxStack' = varCtxStack,
             NEW kind \in {"then", "while"}, NEW target \in Nat, NEW next \in Nat,
             constructs' = Append(constructs, Construct(kind, {}, target, next))
      PROVE  FramesFollowConstructs'
  <2> DEFINE c == Construct(kind, {}, target, next)
  <2>1. c \in Constructs /\ ~HasFrame(c) /\ c.decls = {}
    BY DEF Construct, Constructs, ConstructKinds, HasFrame
  <2> HIDE DEF c
  <2>2. Matched(Append(constructs, c), varCtxStack)
    BY <2>1, <1>t, NoFramePushed
  <2> QED BY <2>2, <1>w, <1>p DEF c
<1>e. ASSUME phase' # "idle", varCtxStack' = varCtxStack, constructs # << >>,
             Inner.kind \in {"else", "while"},
             constructs' = StmtDone(Closed(constructs))
      PROVE  FramesFollowConstructs'
  <2>1. Matched(Closed(constructs), varCtxStack)
    BY <1>e, <1>t, NoFramePopped DEF Inner, HasFrame
  <2>2. Shape(constructs, Len(blocks[cur]))
    BY <1>e, InBody DEF Sound
  <2>3. /\ Closed(constructs) \in Seq(Constructs)
        /\ Closed(constructs) # << >>
    BY <1>e, <2>2, ShapeClosed DEF Inner, Shape
  <2>4. Matched(constructs', varCtxStack')
    BY <1>e, <2>1, <2>3, FramesDone
  <2> QED BY <1>e, <2>4, <1>p
<1>1. CASE UNCHANGED vars
  BY <1>1 DEF vars, unitVars, nameVars, FramesFollowConstructs
<1>2. ASSUME NEW syms \in [Fns -> {"none", "declared", "defined"}],
             BeginModule(syms)
      PROVE  FramesFollowConstructs'
  <2>1. /\ varCtxStack = << >> /\ constructs = << >>
        /\ phase' # "idle" /\ constructs' = constructs
        /\ varCtxStack' = Append(varCtxStack, FrameOf({}, Len(constructs) + 1))
    BY <1>2, <1>t DEF BeginModule, FramesFollowConstructs, Progress, PushFrame
  <2> DEFINE owner == [i \in 1..1 |-> 0]
  <2>2. /\ Len(constructs) = 0 /\ Len(varCtxStack') = 1
        /\ varCtxStack'[1] = FrameOf({}, 1)
    BY <2>1, <1>t, EmptySeq
  <2>3. FrameOf({}, 1) = FrameOf({}, 0)
    BY DEF FrameOf
  <2>4. owner \in [1..1 -> 0..0] /\ owner[1] = 0
    OBVIOUS
  <2> HIDE DEF owner
  <2>5. Owns(owner, constructs', varCtxStack')
    BY <2>1, <2>2, <2>3, <2>4 DEF Owns, DeclaredAt
  <2> QED BY <2>1, <2>2, <2>4, <2>5, <1>p DEF Matched
<1>3. CASE EndModule
  <2>1. /\ constructs = << >> /\ constructs' = constructs
        /\ phase' # "idle"
        /\ varCtxStack' = SubSeq(varCtxStack, 1, Len(varCtxStack) - 1)
    BY <1>3, <1>t DEF EndModule, PopFrame
  <2>2. PICK owner \in [1..Len(varCtxStack) -> 0..Len(constructs)] :
            Owns(owner, constructs, varCtxStack)
    BY <1>t DEF Matched
  <2>3. Len(constructs) = 0 /\ Len(varCtxStack) \in Nat
    BY <2>1, <1>t, EmptySeq, LenProperties
  <2>4. Len(varCtxStack) <= 1
    <3> SUFFICES ASSUME Len(varCtxStack) >= 2 PROVE FALSE
      BY <2>3
    <3>1. 1 \in 1..Len(varCtxStack) /\ 2 \in 1..Len(varCtxStack)
      BY <2>3
    <3>2. owner[1] < owner[2] /\ owner[1] \in 0..0 /\ owner[2] \in 0..0
      BY <2>2, <2>3, <3>1 DEF Owns
    <3> QED BY <3>2
  <2>5. Len(varCtxStack') = 0
    BY <2>1, <2>3, <2>4, <1>t, SubSeqProperties
  <2> DEFINE none == [i \in 1..0 |-> 0]
  <2>6. none \in [1..0 -> 0..0]
    OBVIOUS
  <2>7. Owns(none, constructs', varCtxStack')
    BY <2>1, <2>3, <2>5, <2>6 DEF Owns
  <2> QED BY <2>1, <2>3, <2>5, <2>6, <2>7, <1>p DEF Matched
<1>4. CASE WriteModule
  BY <1>4, <1>t, <1>p DEF WriteModule, nameVars
<1>5. CASE InitGlobal
  BY <1>5, <1>a DEF InitGlobal
<1>6. ASSUME NEW f \in Fns, NEW ps \in SUBSET Names, BeginFuncDef(f, ps)
      PROVE  FramesFollowConstructs'
  <2>1. CASE theModule[f] = "absent"
    BY <1>6, <2>1, <1>a DEF BeginFuncDef
  <2>2. CASE theModule[f] # "absent"
    <3> DEFINE c == Construct("func", ps, Len(blocks[f]) + 1, 0)
    <3>1. /\ phase' # "idle" /\ constructs = << >> /\ constructs' = <<c>>
          /\ varCtxStack' = Append(varCtxStack, FrameOf(ps, Len(constructs) + 1))
      BY <1>6, <2>2, <1>t DEF BeginFuncDef, PushFrame
    <3>2. c \in Constructs /\ HasFrame(c) /\ c.decls = ps
      <4>1. Len(blocks[f]) + 1 \in Nat
        BY LenProperties DEF Sound, BodyOK
      <4> QED BY <4>1 DEF Construct, Constructs, ConstructKinds, HasFrame
    <3> HIDE DEF c
    <3>3. <<c>> = Append(constructs, c)
      BY <3>1
    <3>4. Matched(Append(constructs, c), varCtxStack')
      BY <3>1, <3>2, <1>t, FramePushed
    <3> QED BY <3>1, <3>3, <3>4, <1>p
  <2> QED BY <2>1, <2>2
<1>7. CASE EndFuncDef
  <2>1. /\ constructs # << >> /\ Inner.kind = "func" /\ constructs' = << >>
        /\ phase' # "idle"
        /\ varCtxStack' = SubSeq(varCtxStack, 1, Len(varCtxStack) - 1)
    BY <1>7 DEF EndFuncDef, InnerIs, PopFrame, Keep, Erase
  <2>2. Matched(Closed(constructs), varCtxStack')
    BY <2>1, <1>t, FramePopped DEF Inner, HasFrame
  <2>3. Len(constructs) = 1
    <3>1. Shape(constructs, Len(blocks[cur])) /\ Len(constructs) \in Nat \ {0}
      BY <2>1, <1>t, InBody, EmptySeq DEF Sound
    <3>2. Len(constructs) \in 1..Len(constructs)
      BY <3>1
    <3> QED BY <2>1, <3>2, <3>1 DEF Shape, Inner
  <2>4. Closed(constructs) = << >>
    BY <2>3, <1>t DEF Closed
  <2> QED BY <2>1, <2>2, <2>4, <1>p
<1>8. ASSUME NEW decls \in SUBSET Names, NEW protos \in SUBSET Fns,
             BeginCompStmt(decls, protos)
      PROVE  FramesFollowConstructs'
  <2> DEFINE c == Construct("comp", decls, 0, 0)
  <2>1. /\ phase' # "idle" /\ constructs' = Append(constructs, c)
        /\ varCtxStack' =
               Append(varCtxStack, FrameOf(decls, Len(constructs) + 1))
    BY <1>8 DEF BeginCompStmt, PushFrame
  <2>2. c \in Constructs /\ HasFrame(c) /\ c.decls = decls
    BY DEF Construct, Constructs, ConstructKinds, HasFrame
  <2> HIDE DEF c
  <2>3. Matched(constructs', varCtxStack')
    BY <2>1, <2>2, <1>t, FramePushed
  <2> QED BY <2>1, <2>3, <1>p
<1>9. CASE EndCompStmt
  <2>1. /\ constructs # << >> /\ Inner.kind = "comp"
        /\ phase' # "idle"
        /\ constructs' = StmtDone(Closed(constructs))
        /\ varCtxStack' = SubSeq(varCtxStack, 1, Len(varCtxStack) - 1)
    BY <1>9 DEF EndCompStmt, InnerIs, PopFrame, unitVars
  <2>2. Matched(Closed(constructs), varCtxStack')
    BY <2>1, <1>t, FramePopped DEF Inner, HasFrame
  <2>3. Shape(constructs, Len(blocks[cur]))
    BY <2>1, InBody DEF Sound
  <2>4. /\ Closed(constructs) \in Seq(Constructs)
        /\ Closed(constructs) # << >>
    BY <2>1, <2>3, ShapeClosed DEF Inner, Shape
  <2>5. Matched(constructs', varCtxStack')
    BY <2>1, <2>2, <2>4, FramesDone
  <2> QED BY <2>1, <2>5, <1>p
<1>10. CASE NoCode
  BY <1>10, <1>s DEF NoCode, AtStmt, InnerIs, unitVars
<1>11. CASE ExprStmt
  BY <1>11, <1>s DEF ExprStmt, AtStmt, unitVars
<1>12. ASSUME NEW n \in Names, InitDecltr(n)
       PROVE  FramesFollowConstructs'
  <2>1. CASE FindNamedValue(n) = 0
    BY <1>12, <2>1, <1>a DEF InitDecltr
  <2>2. CASE FindNamedValue(n) # 0
    BY <1>12, <2>2, <1>s DEF InitDecltr, AtStmt, unitVars, nameVars
  <2> QED BY <2>1, <2>2
<1>13. ASSUME NEW f \in Fns, NEW matches \in BOOLEAN, CallStmt(f, matches)
       PROVE  FramesFollowConstructs'
  <2>1. CASE theModule[f] = "absent"
    BY <1>13, <2>1, <1>a DEF CallStmt
  <2>2. CASE theModule[f] # "absent"
    BY <1>13, <2>2, <1>s DEF CallStmt, AtStmt, unitVars
  <2> QED BY <2>1, <2>2
<1>14. CASE BeginIf \/ BeginWhile
  <2>1. constructs # << >>
    BY <1>14 DEF BeginIf, BeginWhile, AtStmt
  <2>2. \A k \in {1, 2, 3} : NewBlockId(k) \in Nat
    BY <2>1, InBody DEF NewBlockId, Sound
  <2> QED BY <1>14, <2>2, <1>w DEF BeginIf, BeginWhile, AtStmt, unitVars
<1>15. ASSUME NEW hasElse \in BOOLEAN, EndThen(hasElse)
       PROVE  FramesFollowConstructs'
  <2> DEFINE n == Len(constructs)
             c == [constructs[n] EXCEPT !.kind = "else", !.done = ~hasElse]
  <2>1. /\ constructs # << >> /\ constructs[n].kind = "then"
        /\ phase' # "idle" /\ varCtxStack' = varCtxStack
        /\ constructs' = [constructs EXCEPT ![n].kind = "else",
                                            ![n].done = ~hasElse]
    BY <1>15 DEF EndThen, InnerIs, Inner, unitVars
  <2>2. n \in 1..n /\ constructs[n] \in Constructs
    BY <2>1, <1>t, EmptySeq, ElementOfSeq
  <2>3. /\ c \in Constructs /\ c.decls = constructs[n].decls
        /\ ~HasFrame(c) /\ ~HasFrame(constructs[n])
    BY <2>1, <2>2 DEF Constructs, ConstructKinds, HasFrame
  <2>4. constructs' = [constructs EXCEPT ![n] = c]
    BY <2>1, <2>2, <1>t
  <2> HIDE DEF c
  <2>5. Matched([constructs EXCEPT ![n] = c], varCtxStack)
    BY <2>1, <2>3, <1>t, FramesMarked
  <2> QED BY <2>1, <2>4, <2>5, <1>p
<1>16. CASE EndElse \/ EndWhile
  BY <1>16, <1>e DEF EndElse, EndWhile, InnerIs, unitVars
<1>17. ASSUME NEW fits \in BOOLEAN, ReturnStmt(fits)
       PROVE  FramesFollowConstructs'
  BY <1>17, <1>s DEF ReturnStmt, AtStmt, unitVars
<1> QED
  BY <1>1, <1>2, <1>3, <1>4, <1>5, <1>6, <1>7, <1>8, <1>9, <1>10, <1>11, <1>12,
     <1>13, <1>14, <1>15, <1>16, <1>17 DEF Next, Finished

LEMMA FramesInvariant == Spec => []FramesFollowConstructs
<1>1. Init => FramesFollowConstructs
  BY FramesInit
<1>2. Sound /\ Progress /\ FramesFollowConstructs /\ [Next]_vars
          => FramesFollowConstructs'
  BY FramesStep
<1> QED BY <1>1, <1>2, SoundInvariant, ProgressInvariant, PTL DEF Spec

LEMMA MaxIs ==
    ASSUME NEW S \in SUBSET Nat, NEW m \in S, \A x \in S : x <= m
    PROVE  Max(S) = m
<1>1. \A x \in S : m >= x
  OBVIOUS
<1>2. \A x \in S : (\A y \in S : x >= y) => x = m
  OBVIOUS
<1> QED BY <1>1, <1>2 DEF Max

\* Every set of natural numbers that is not empty has a least element, and one
\* that is bounded a greatest.
LEMMA LeastNatural ==
    ASSUME NEW T \in SUBSET Nat, T # {}
    PROVE  \E m \in T : \A k \in T : m <= k
<1> DEFINE R == OpToRel(<, Nat)
<1>1. IsWellFoundedOn(R, Nat)
  BY NatLessThanWellFounded
<1>2. \A j, k \in Nat : <<j, k>> \in R <=> j < k
  BY DEF OpToRel
<1> HIDE DEF R
<1>3. PICK m \in T : \A k \in T : ~(<<k, m>> \in R)
  BY <1>1, WFMin
<1>4. \A k \in T : k \in Nat
  OBVIOUS
<1>5. \A k \in T : ~(k < m)
  BY <1>2, <1>3, <1>4
<1>6. \A k \in T : m <= k
  BY <1>4, <1>5
<1> QED BY <1>6

LEMMA GreatestExists ==
    ASSUME NEW n \in Nat, NEW S \in SUBSET (0..n), S # {}
    PROVE  \E m \in S : \A x \in S : x <= m
<1> DEFINE T == {n - x : x \in S}
<1>0. \A x \in S : x \in 0..n
  OBVIOUS
<1>1. T \in SUBSET Nat /\ T # {}
  <2>1. \A x \in S : n - x \in Nat
    BY <1>0
  <2> QED BY <2>1
<1>2. PICK t \in T : \A k \in T : t <= k
  BY <1>1, LeastNatural
<1>3. PICK m \in S : t = n - m
  BY <1>2
<1>4. \A x \in S : n - m <= n - x /\ x \in 0..n
  BY <1>2, <1>3
<1>5. m \in 0..n
  BY <1>3
<1>6. \A x \in S : x <= m
  BY <1>4, <1>5
<1> QED BY <1>6

\* Where the frames follow the constructs, a name that is looked up from the
\* innermost frame outwards means what the innermost construct declares.
LEMMA FramesResolve ==
    ASSUME Sound, FramesFollowConstructs
    PROVE  NamesResolve
<1> DEFINE cs == constructs
           stack == varCtxStack
<1>1. PICK owner \in [1..Len(stack) -> 0..Len(cs)] : Owns(owner, cs, stack)
  BY DEF FramesFollowConstructs, Matched
<1>2. Len(stack) \in Nat /\ Len(cs) \in Nat
  BY LenProperties DEF Sound, BodyOK, RestOK, Shape
<1> SUFFICES ASSUME NEW n \in Names
             PROVE  LET decl == {i \in 1..Len(cs) : n \in cs[i].decls}
                    IN  FindNamedValue(n) = IF decl = {} THEN 0 ELSE Max(decl)
  BY DEF NamesResolve
<1> DEFINE with == {i \in 1..Len(stack) : stack[i][n] # 0}
           decl == {i \in 1..Len(cs) : n \in cs[i].decls}
<1>3. \A i \in 1..Len(stack) :
          stack[i][n] = IF n \in DeclaredAt(cs, owner[i]) THEN owner[i] ELSE 0
  <2> TAKE i \in 1..Len(stack)
  <2>1. stack[i] = FrameOf(DeclaredAt(cs, owner[i]), owner[i])
    BY <1>1 DEF Owns
  <2> QED BY <2>1 DEF FrameOf
<1>4. \A i \in with : owner[i] \in decl /\ stack[i][n] = owner[i]
  BY <1>1, <1>2, <1>3 DEF DeclaredAt
<1>5. ASSUME NEW k \in decl
      PROVE  \E i \in with : owner[i] = k
  <2>1. cs[k].decls # {} /\ k \in 1..Len(cs) /\ k # 0
    BY <1>2
  <2>2. PICK i \in 1..Len(stack) : owner[i] = k
    BY <1>1, <2>1 DEF Owns
  <2>3. n \in DeclaredAt(cs, owner[i])
    BY <2>1, <2>2 DEF DeclaredAt
  <2>4. stack[i][n] # 0
    BY <1>3, <2>1, <2>2, <2>3
  <2> QED BY <2>2, <2>4
<1>6. FindNamedValue(n) = IF with = {} THEN 0 ELSE stack[Max(with)][n]
  BY DEF FindNamedValue
<1>7. with \in SUBSET (0..Len(stack)) /\ with \in SUBSET Nat
      /\ decl \in SUBSET Nat
  BY <1>2
<1>8. with \subseteq 1..Len(stack)
  OBVIOUS
<1> HIDE DEF with, decl
<1>9. CASE with = {}
  BY <1>5, <1>6, <1>9 DEF decl
<1>10. CASE with # {}
  <2>1. PICK m \in with : \A i \in with : i <= m
    BY <1>2, <1>7, <1>10, GreatestExists
  <2>2. Max(with) = m
    BY <1>7, <2>1, MaxIs
  <2>3. \A k \in decl : k <= owner[m]
    <3> TAKE k \in decl
    <3>1. PICK i \in with : owner[i] = k
      BY <1>5
    <3>2. i = m \/ i < m
      BY <1>7, <2>1, <3>1
    <3>3. i < m => owner[i] < owner[m]
      BY <1>1, <1>8, <2>1, <3>1 DEF Owns
    <3>4. owner[i] \in Nat /\ owner[m] \in Nat
      BY <1>1, <1>2, <1>8, <2>1, <3>1
    <3> QED BY <3>1, <3>2, <3>3, <3>4
  <2>4. owner[m] \in decl /\ stack[m][n] = owner[m]
    BY <1>4, <2>1
  <2>5. Max(decl) = owner[m] /\ decl # {}
    BY <1>7, <2>3, <2>4, MaxIs
  <2>6. FindNamedValue(n) = Max(decl)
    BY <1>6, <1>10, <2>2, <2>4, <2>5
  <2> QED BY <2>5, <2>6 DEF decl
<1> QED BY <1>9, <1>10

\* In every program the name of a variable means the declaration the scopes of
\* C give it: the frames that CGFuncDef and CGCompStmt push and pop never get
\* out of step with the constructs being generated, however they are nested.
THEOREM NamesMeanInnermost == Spec => []NamesResolve
<1>1. Sound /\ FramesFollowConstructs => NamesResolve
  BY FramesResolve
<1> QED BY <1>1, SoundInvariant, FramesInvariant, PTL
=============================================================================
