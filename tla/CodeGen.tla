------------------------------ MODULE CodeGen ------------------------------
(***************************************************************************)
(* The generation of an LLVM module from a translation unit: class         *)
(* ObjBuilder (modules/splc/src/CodeGen/ObjBuilder.cc).  The builder walks *)
(* the syntax tree once; constructs stands for its C++ call stack, and the *)
(* program it walks is whatever sequence of statements TLC chooses.        *)
(*                                                                         *)
(* An instruction is only told from the others by being a terminator.      *)
(* What LLVM does (adding an instruction, looking a function up, verifying *)
(* one, erasing one) is external and modelled as ObjBuilder relies on it.  *)
(* Conditions and initializers are expressions the builder supports.       *)
(***************************************************************************)
EXTENDS Naturals, Sequences, FiniteSetsExt

CONSTANTS
    Fns,        \* function names
    Names,      \* variable names
    NoFn,       \* no function is being generated
    MaxStmts,   \* bound: statements, and definitions repeated
    MaxDepth    \* bound: nesting of constructs

ASSUME NoFnIsNone == NoFn \notin Fns
ASSUME BoundsAreNat == MaxStmts \in Nat /\ MaxDepth \in Nat

VARIABLES
    phase,        \* where ObjBuilder is in testObjBuilder
    symbols,      \* the functions in the symbol table of the translation unit
    todo,         \* defined functions whose definition has not been reached
    theModule,    \* the functions of the module, and whether they have a body
    success,      \* llvmModuleGenerationSuccess
    generated,    \* llvmModuleGenerated
    blocks,       \* the basic blocks of every function
    calls,        \* the functions the body of a function calls
    cur,          \* the function CGFuncDef is generating
    insert,       \* builder->GetInsertBlock()
    constructs,   \* the CG... methods that are active, innermost last
    varCtxStack,  \* the frames of named values, innermost last
    nStmts        \* statements and repeated definitions, for MaxStmts

unitVars == <<phase, symbols, todo, theModule, success, generated>>
bodyVars == <<blocks, calls, insert>>
nameVars == <<constructs, varCtxStack>>
vars     == <<unitVars, bodyVars, cur, nameVars, nStmts>>

Phases == {"idle", "generating", "generated", "written", "skipped", "aborted"}

-----------------------------------------------------------------------------
(* Basic blocks.                                                           *)

\* terms: its terminators.  closed: the last instruction is one.  mistyped: a
\* return does not fit the function.  placed: the block is in the function.
Blocks == [terms : Nat, closed : BOOLEAN, mistyped : BOOLEAN,
           succ : SUBSET Nat, placed : BOOLEAN]

NewBlock(isPlaced) == [terms |-> 0, closed |-> FALSE, mistyped |-> FALSE,
                       succ |-> {}, placed |-> isPlaced]

\* An instruction that is not a terminator.
WithInst(bs, b) == [bs EXCEPT ![b].closed = FALSE]

\* CreateBr, CreateCondBr, CreateRet.
WithTerm(bs, b, targets) ==
    [bs EXCEPT ![b].terms = @ + 1, ![b].closed = TRUE, ![b].succ = @ \cup targets]

\* CreateRet of a value, of the type of the function or not.
WithReturn(bs, b, fits) ==
    [WithTerm(bs, b, {}) EXCEPT ![b].mistyped = @ \/ ~fits]

\* BasicBlock::getTerminator() looks at the last instruction only.
HasTerminator(bs, b) == bs[b].closed

\* theFunction->insert(theFunction->end(), b).
Placed(bs, b) == [bs EXCEPT ![b].placed = TRUE]

\* What llvm::verifyFunction asks of the blocks.
WellFormed(bs) ==
    \A b \in 1..Len(bs) :
        bs[b].placed => /\ bs[b].terms = 1
                        /\ bs[b].closed
                        /\ ~bs[b].mistyped
                        /\ \A t \in bs[b].succ : bs[t].placed

-----------------------------------------------------------------------------
(* Frames and constructs.                                                  *)

Frames == [Names -> Nat]

\* A variable's AllocaInst is known by the construct that declares it.
FrameOf(decls, at) == [n \in Names |-> IF n \in decls THEN at ELSE 0]

PushFrame(decls) ==
    varCtxStack' = Append(varCtxStack, FrameOf(decls, Len(constructs) + 1))
PopFrame ==
    varCtxStack' = SubSeq(varCtxStack, 1, Len(varCtxStack) - 1)

\* findNamedValue: the innermost frame that has the name; 0 when none does.
FindNamedValue(n) ==
    LET with == {i \in 1..Len(varCtxStack) : varCtxStack[i][n] # 0}
    IN  IF with = {} THEN 0 ELSE varCtxStack[Max(with)][n]

ConstructKinds == {"func", "comp", "then", "else", "while"}

\* decls: what a function or block declares.  target and next: for an if the
\* else and the merge block, for a while the test and the block after it.
\* done: the one statement a construct consists of has been generated.
Constructs == [kind : ConstructKinds, decls : SUBSET Names, target : Nat,
               next : Nat, done : BOOLEAN]

Construct(kind, decls, target, next) ==
    [kind |-> kind, decls |-> decls, target |-> target, next |-> next,
     done |-> FALSE]

Inner      == constructs[Len(constructs)]
InnerIs(k) == constructs # << >> /\ Inner.kind = k
Closed(cs) == SubSeq(cs, 1, Len(cs) - 1)

StmtDone(cs) ==
    IF cs[Len(cs)].kind = "comp" THEN cs ELSE [cs EXCEPT ![Len(cs)].done = TRUE]

\* CGStmt is called, for a statement that is not the body of a function.
AtStmt ==
    /\ phase = "generating"
    /\ constructs # << >>
    /\ Inner.kind # "func"
    /\ ~Inner.done

CountStmt == nStmts < MaxStmts /\ nStmts' = nStmts + 1  \* bound
Deeper    == Len(constructs) < MaxDepth                 \* bound

\* Mutant of NewBlockId: the block CGFuncDef starts with is counted twice.
NewBlockId_OffByOne(k) == Len(blocks[cur]) + k + 1

NewBlockId(k) == Len(blocks[cur]) + k

Init ==
    /\ phase = "idle"
    /\ symbols = [f \in Fns |-> "none"]
    /\ todo = {}
    /\ theModule = [f \in Fns |-> "absent"]
    /\ success = FALSE
    /\ generated = FALSE
    /\ blocks = [f \in Fns |-> << >>]
    /\ calls = [f \in Fns |-> {}]
    /\ cur = NoFn
    /\ insert = 0
    /\ constructs = << >>
    /\ varCtxStack = << >>
    /\ nStmts = 0

-----------------------------------------------------------------------------
(* The module.                                                             *)

\* generateModule: every function in the symbol table of the translation unit
\* is declared to LLVM before any body is generated.
BeginModule(syms) ==
    /\ phase = "idle"
    /\ phase' = "generating"
    /\ symbols' = syms
    /\ todo' = {f \in Fns : syms[f] = "defined"}
    /\ theModule' = [f \in Fns |-> IF syms[f] = "none" THEN "absent"
                                                       ELSE "declared"]
    /\ success' = TRUE
    /\ generated' = FALSE
    /\ PushFrame({})
    /\ UNCHANGED <<bodyVars, cur, constructs, nStmts>>

EndModule ==
    /\ phase = "generating"
    /\ cur = NoFn
    /\ todo = {}
    /\ PopFrame
    /\ generated' = TRUE
    /\ phase' = "generated"
    /\ UNCHANGED <<symbols, todo, theModule, success, bodyVars, cur,
                   constructs, nStmts>>

\* writeModuleAsFile.  Both tests have to fail for the writing to be skipped.
WriteModule ==
    /\ phase = "generated"
    /\ phase' = IF ~generated /\ ~success THEN "skipped" ELSE "written"
    /\ UNCHANGED <<symbols, todo, theModule, success, generated, bodyVars, cur,
                   nameVars, nStmts>>

\* splc_error and splc_assert end the compiler.
Abort ==
    /\ phase' = "aborted"
    /\ UNCHANGED <<symbols, todo, theModule, success, generated, bodyVars, cur,
                   nameVars>>

\* A variable of the file with an initial value: registerGlobalCtxMutableVar
\* has given it no AllocaInst, and CGInitDecltr asserts that there is one.
InitGlobal ==
    /\ phase = "generating"
    /\ cur = NoFn
    /\ Abort
    /\ UNCHANGED nStmts

-----------------------------------------------------------------------------
(* Function definitions.                                                   *)

\* CGFuncDef up to its body.  A function that is defined twice, which the
\* parser reports and goes on after, is visited twice: its second body gets
\* blocks of its own behind those of the first.
BeginFuncDef(f, ps) ==
    /\ phase = "generating"
    /\ cur = NoFn
    /\ symbols[f] = "defined"
    /\ IF f \in todo THEN UNCHANGED nStmts ELSE CountStmt
    /\ IF theModule[f] = "absent"  \* getFunction
       THEN Abort
       ELSE /\ cur' = f
            /\ blocks' = [blocks EXCEPT ![f] = Append(@, NewBlock(TRUE))]
            /\ insert' = Len(blocks[f]) + 1
            /\ PushFrame(ps)
            /\ constructs' = <<Construct("func", ps, Len(blocks[f]) + 1, 0)>>
            /\ todo' = todo \ {f}
            /\ UNCHANGED <<phase, symbols, theModule, success, generated, calls>>

\* Mutant of ReturnAdded: the return is added whatever the block ends with.
ReturnAdded_Always == WithTerm(blocks[cur], insert, {})

\* The body with the return CGFuncDef adds to a block that is left open.
ReturnAdded ==
    IF HasTerminator(blocks[cur], insert)
    THEN blocks[cur]
    ELSE WithTerm(blocks[cur], insert, {})

Keep ==
    /\ blocks' = [blocks EXCEPT ![cur] = ReturnAdded]
    /\ theModule' = [theModule EXCEPT ![cur] = "body"]
    /\ UNCHANGED <<phase, calls, success>>

\* Mutant of Erase: setGenerationStatus(false) is forgotten.
Erase_KeepsStatus ==
    /\ blocks' = [blocks EXCEPT ![cur] = << >>]
    /\ calls' = [calls EXCEPT ![cur] = {}]
    /\ theModule' = [theModule EXCEPT ![cur] = "absent"]
    /\ UNCHANGED <<phase, success>>

\* eraseFromParent.  To erase a function another body calls is undefined: LLVM
\* stops at an assertion, or goes on with calls of nothing.
Erase ==
    /\ blocks' = [blocks EXCEPT ![cur] = << >>]
    /\ calls' = [calls EXCEPT ![cur] = {}]
    /\ theModule' = [theModule EXCEPT ![cur] = "absent"]
    /\ success' = FALSE
    /\ \/ UNCHANGED phase
       \/ (\E h \in Fns \ {cur} : cur \in calls[h]) /\ phase' = "aborted"

\* The rest of CGFuncDef: a function LLVM does not verify is erased.
EndFuncDef ==
    /\ phase = "generating"
    /\ InnerIs("func")
    /\ Inner.done
    /\ PopFrame
    /\ constructs' = << >>
    /\ cur' = NoFn
    /\ insert' = 0
    /\ IF WellFormed(ReturnAdded) THEN Keep ELSE Erase
    /\ UNCHANGED <<symbols, todo, generated, nStmts>>

-----------------------------------------------------------------------------
(* Statements.                                                             *)

\* CGCompStmt, of a block with something in it: all the variables of its
\* scope get their AllocaInst now, and the functions it declares are declared.
BeginCompStmt(decls, protos) ==
    /\ phase = "generating"
    /\ AtStmt \/ (InnerIs("func") /\ ~Inner.done)
    /\ CountStmt /\ Deeper
    /\ PushFrame(decls)
    /\ constructs' = Append(constructs, Construct("comp", decls, 0, 0))
    /\ theModule' = [f \in Fns |-> IF f \in protos /\ theModule[f] = "absent"
                                   THEN "declared" ELSE theModule[f]]
    /\ UNCHANGED <<phase, symbols, todo, success, generated, bodyVars, cur>>

\* Mutant of EndCompStmt: the frame is left on the stack.
EndCompStmt_NoPop ==
    /\ phase = "generating"
    /\ InnerIs("comp")
    /\ constructs' = StmtDone(Closed(constructs))
    /\ UNCHANGED <<unitVars, bodyVars, cur, varCtxStack, nStmts>>

EndCompStmt ==
    /\ phase = "generating"
    /\ InnerIs("comp")
    /\ PopFrame
    /\ constructs' = StmtDone(Closed(constructs))
    /\ UNCHANGED <<unitVars, bodyVars, cur, nStmts>>

\* An empty block, which gets no frame; or a statement nothing is generated
\* for: empty, or one CGSelStmt, CGIterStmt or CGJumpStmt does not support.
NoCode ==
    /\ AtStmt \/ (phase = "generating" /\ InnerIs("func") /\ ~Inner.done)
    /\ constructs' = StmtDone(constructs)
    /\ UNCHANGED <<unitVars, bodyVars, cur, varCtxStack, nStmts>>

\* An expression statement that generates an instruction.
ExprStmt ==
    /\ AtStmt
    /\ CountStmt
    /\ blocks' = [blocks EXCEPT ![cur] = WithInst(@, insert)]
    /\ constructs' = StmtDone(constructs)
    /\ UNCHANGED <<unitVars, calls, insert, cur, varCtxStack>>

\* CGInitDecltr: the initial value is stored to the variable the name means.
InitDecltr(n) ==
    /\ AtStmt
    /\ InnerIs("comp")
    /\ n \in Inner.decls
    /\ CountStmt
    /\ IF FindNamedValue(n) = 0
       THEN Abort
       ELSE /\ blocks' = [blocks EXCEPT ![cur] = WithInst(@, insert)]
            /\ UNCHANGED <<unitVars, calls, insert, cur, nameVars>>

\* CGExprStmt of CGCallExpr.  A call with the wrong number of arguments is
\* logged and generates nothing.
CallStmt(f, matches) ==
    /\ AtStmt
    /\ CountStmt
    /\ IF theModule[f] = "absent"  \* getFunction
       THEN Abort
       ELSE /\ IF matches
               THEN /\ blocks' = [blocks EXCEPT ![cur] = WithInst(@, insert)]
                    /\ calls' = [calls EXCEPT ![cur] = @ \cup {f}]
               ELSE UNCHANGED <<blocks, calls>>
            /\ constructs' = StmtDone(constructs)
            /\ UNCHANGED <<unitVars, insert, cur, varCtxStack>>

\* CGIfStmt up to the statement after the condition.
BeginIf ==
    /\ AtStmt
    /\ CountStmt /\ Deeper
    /\ LET then == NewBlockId(1)
           else == NewBlockId(2)
           more == <<NewBlock(TRUE), NewBlock(FALSE), NewBlock(FALSE)>>
       IN  /\ blocks' = [blocks EXCEPT
                  ![cur] = WithTerm(@, insert, {then, else}) \o more]
           /\ insert' = then
           /\ constructs' =
                  Append(constructs, Construct("then", {}, else, NewBlockId(3)))
    /\ UNCHANGED <<unitVars, calls, cur, varCtxStack>>

\* Mutant of JoinAdded: the branch is added as the one of a while is.
JoinAdded_Always == WithTerm(blocks[cur], insert, {Inner.next})

\* A branch to the merge block, unless the arm of the if has ended itself.
JoinAdded ==
    IF HasTerminator(blocks[cur], insert)
    THEN blocks[cur]
    ELSE WithTerm(blocks[cur], insert, {Inner.next})

\* Without an else the else block stays empty, and is generated at once.
EndThen(hasElse) ==
    /\ phase = "generating"
    /\ InnerIs("then")
    /\ Inner.done
    /\ blocks' = [blocks EXCEPT ![cur] = Placed(JoinAdded, Inner.target)]
    /\ insert' = Inner.target
    /\ constructs' = [constructs EXCEPT ![Len(constructs)].kind = "else",
                                        ![Len(constructs)].done = ~hasElse]
    /\ UNCHANGED <<unitVars, calls, cur, varCtxStack, nStmts>>

EndElse ==
    /\ phase = "generating"
    /\ InnerIs("else")
    /\ Inner.done
    /\ blocks' = [blocks EXCEPT ![cur] = Placed(JoinAdded, Inner.next)]
    /\ insert' = Inner.next
    /\ constructs' = StmtDone(Closed(constructs))
    /\ UNCHANGED <<unitVars, calls, cur, varCtxStack, nStmts>>

\* CGWhileStmt up to the body.
BeginWhile ==
    /\ AtStmt
    /\ CountStmt /\ Deeper
    /\ LET test  == NewBlockId(1)
           body  == NewBlockId(2)
           after == NewBlockId(3)
           more  == <<NewBlock(TRUE), NewBlock(TRUE), NewBlock(FALSE)>>
       IN  /\ blocks' = [blocks EXCEPT
                  ![cur] = WithTerm(WithTerm(@, insert, {test}) \o more,
                                    test, {body, after})]
           /\ insert' = body
           /\ constructs' =
                  Append(constructs, Construct("while", {}, test, after))
    /\ UNCHANGED <<unitVars, calls, cur, varCtxStack>>

\* The branch back is added whatever the body ended with.
EndWhile ==
    /\ phase = "generating"
    /\ InnerIs("while")
    /\ Inner.done
    /\ blocks' = [blocks EXCEPT
           ![cur] = Placed(WithTerm(@, insert, {Inner.target}), Inner.next)]
    /\ insert' = Inner.next
    /\ constructs' = StmtDone(Closed(constructs))
    /\ UNCHANGED <<unitVars, calls, cur, varCtxStack, nStmts>>

\* CGReturnStmt.  The value is returned as it is: no conversion is made to
\* the type of the function.
ReturnStmt(fits) ==
    /\ AtStmt
    /\ CountStmt
    /\ blocks' = [blocks EXCEPT ![cur] = WithReturn(@, insert, fits)]
    /\ constructs' = StmtDone(constructs)
    /\ UNCHANGED <<unitVars, calls, insert, cur, varCtxStack>>

Finished ==
    /\ phase \in {"written", "skipped", "aborted"}
    /\ UNCHANGED vars

Next ==
    \/ \E syms \in [Fns -> {"none", "declared", "defined"}] : BeginModule(syms)
    \/ EndModule
    \/ WriteModule
    \/ InitGlobal
    \/ \E f \in Fns, ps \in SUBSET Names : BeginFuncDef(f, ps)
    \/ EndFuncDef
    \/ \E decls \in SUBSET Names, protos \in SUBSET Fns :
           BeginCompStmt(decls, protos)
    \/ EndCompStmt
    \/ NoCode
    \/ ExprStmt
    \/ \E n \in Names : InitDecltr(n)
    \/ \E f \in Fns, matches \in BOOLEAN : CallStmt(f, matches)
    \/ BeginIf
    \/ \E hasElse \in BOOLEAN : EndThen(hasElse)
    \/ EndElse
    \/ BeginWhile
    \/ EndWhile
    \/ \E fits \in BOOLEAN : ReturnStmt(fits)
    \/ Finished

Spec == Init /\ [][Next]_vars

-----------------------------------------------------------------------------
(* Properties.                                                             *)

TypeOK ==
    /\ phase \in Phases
    /\ symbols \in [Fns -> {"none", "declared", "defined"}]
    /\ todo \subseteq Fns
    /\ theModule \in [Fns -> {"absent", "declared", "body"}]
    /\ success \in BOOLEAN
    /\ generated \in BOOLEAN
    /\ blocks \in [Fns -> Seq(Blocks)]
    /\ calls \in [Fns -> SUBSET Fns]
    /\ cur \in Fns \cup {NoFn}
    /\ insert \in Nat
    /\ cur # NoFn => insert \in 1..Len(blocks[cur])
    /\ constructs \in Seq(Constructs)
    /\ varCtxStack \in Seq(Frames)
    /\ nStmts \in 0..MaxStmts

\* As long as no function has failed, the module has everything the program
\* refers to: getFunction finds every function of the symbol table, and every
\* function a body calls is still there.  At the end every defined function
\* has a body LLVM accepts, even one that was visited twice.
ModuleComplete ==
    success =>
        /\ \A f \in Fns : /\ symbols[f] # "none" => theModule[f] # "absent"
                          /\ \A g \in calls[f] : theModule[g] # "absent"
        /\ generated =>
               \A f \in Fns : symbols[f] = "defined" =>
                   theModule[f] = "body" /\ WellFormed(blocks[f])

\* The name of a variable means the one the innermost enclosing function or
\* block declares: the frames that are pushed and popped follow the
\* constructs, although only some constructs push one.
NamesResolve ==
    \A n \in Names :
        LET decl == {i \in 1..Len(constructs) : n \in constructs[i].decls}
        IN  FindNamedValue(n) = IF decl = {} THEN 0 ELSE Max(decl)

\* A module is not written when generating it has failed.
NothingWrittenAfterFailure == phase = "written" => success
=============================================================================
