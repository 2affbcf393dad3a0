---------------------------- MODULE SIRCompiler ----------------------------
(***************************************************************************)
(* The SIR of a program from makeProgram to writeProgram, with or without  *)
(* optimizeProgram (writeSIR in splc.cc, SIR/IRBuilder.hh,                 *)
(* SIR/IROptimizer.cc, SIR/IR.hh).  An action of the builder is one method *)
(* up to its next call, an action of the optimizer one pass on a function. *)
(*                                                                         *)
(* main calls neither writeSIR nor optimizeProgram at present, and the     *)
(* trees are those IRBuilder is written for: a function definition of      *)
(* three children, which today's grammar no longer makes.                  *)
(***************************************************************************)
EXTENDS SIRBuilder, SIROptimizer

CONSTANTS
    Names,       \* identifiers of the programs
    Units,       \* translation units
    Trees,       \* the trees in them, with all their subtrees
    FuncOrder    \* the functions in the order of funcMap

VARIABLES
    source,      \* the translation unit
    rest,        \* its declarations not yet lowered
    b,           \* the IRBuilder
    phase,       \* "build", "made", "optimize", "written", "stopped"
    stop,        \* the assertion or error that ended the compiler
    funcs,       \* funcMap of the program: the code of each function
    todo,        \* functions to optimize
    propagated,  \* constantPropagate is done for the first of them
    text         \* what is printed

vars == <<source, rest, b, phase, stop, funcs, todo, propagated, text>>

Values == {v \in Seq(Int) : Len(v) <= 1}

\* What the parser makes: the parts of a loop, of a branch and of a statement
\* that consists of an expression are there, and write has an argument.
ASSUME TreesAssumption ==
    /\ {e.kids : e \in Trees} \subseteq Seq(Trees)
    /\ \A e \in Trees :
          /\ e.id \in Names \cup {NoName} /\ e.val \in Values
          /\ e.op \in {"while", "if"} => Len(e.kids) \in {2, 3}
          /\ e.op = "expr" => Len(e.kids) >= 1
          /\ e.op = "call" /\ e.id = WriteName => Len(e.kids) >= 1

Declarations ==
    [kind : {"func", "decl"}, name : Names, params : Seq(Names), body : Trees]

ASSUME UnitsAssumption ==
    /\ Units \subseteq Seq(Declarations)
    /\ \A u \in Units : \A d \in ToSet(u) : d.kind = "func" => d.name \in ToSet(FuncOrder)

Init ==
    /\ source \in Units
    /\ rest = source
    /\ b = NewBuilder
    /\ phase = "build"
    /\ stop = ""
    /\ funcs = << >>
    /\ todo = {}
    /\ propagated = FALSE
    /\ text = << >>

StopFor(why, next) == /\ stop' = why
                      /\ phase' = IF why = "" THEN next ELSE "stopped"

-----------------------------------------------------------------------------
(* The builder.                                                            *)

Builds(c) == /\ b' = c
             /\ StopFor(c.stop, "build")
             /\ UNCHANGED <<source, funcs, todo, propagated, text>>

RecParseAST ==
    /\ phase = "build" /\ b.work = << >> /\ rest # << >>
    /\ rest' = Tail(rest)
    /\ Builds(ExternDecl(b, Head(rest)))

\* The innermost call is one of those that a set names.
Doing(what) == /\ phase = "build" /\ b.work # << >>
               /\ Head(b.work).do \in what
               /\ UNCHANGED rest

RecRegisterStmts == Doing({"stmt"}) /\ Builds(Stmts(b, Head(b.work).e))
RecRegisterExprs == Doing({"expr"}) /\ Builds(Exprs(b, Head(b.work).e))
RecRegisterCondExpr ==
    /\ Doing({"cond"})
    /\ LET t == Head(b.work) IN Builds(CondExpr(b, t.e, t.x, t.y))

\* The call that a method waited for has returned.
OperandDone ==
    /\ Doing({"lhs", "combine", "test lhs", "branch", "negate"})
    /\ Builds(Operand(b, Head(b.work)))
ArgumentDone ==
    /\ Doing({"arg", "PushCallArg", "invoke", "write"})
    /\ Builds(Argument(b, Head(b.work)))
PartDone ==
    /\ Doing({"SetLabel", "Goto", "one", "result", "init", "Return", "else"})
    /\ Builds(Rest(b, Head(b.work)))
BodyDone == Doing({"function"}) /\ Builds(FinishFunction(b, Head(b.work)))

\* allocCnt goes on counting; the maps are cleared.
MakeProgram ==
    /\ phase = "build" /\ b.work = << >> /\ rest = << >>
    /\ funcs' = b.funcs
    /\ b' = [NewBuilder EXCEPT !.cnt = b.cnt, !.objs = b.objs]
    /\ phase' = "made"
    /\ UNCHANGED <<source, rest, stop, todo, propagated, text>>

-----------------------------------------------------------------------------
(* The optimizer and the printed program.                                  *)

OptimizeProgram ==
    /\ phase = "made"
    /\ phase' = "optimize"
    /\ todo' = DOMAIN funcs
    /\ UNCHANGED <<source, rest, b, stop, funcs, propagated, text>>

IsNext(f) == \E i \in DOMAIN FuncOrder :
                /\ FuncOrder[i] = f
                /\ \A j \in 1..(i - 1) : FuncOrder[j] \notin todo

\* The two halves of optimizeFunction.
PropagateConstants(f) ==
    /\ phase = "optimize" /\ IsNext(f) /\ ~propagated
    /\ LET work == ConstantPropagate(funcs[f], b.objs)
       IN  /\ funcs' = [funcs EXCEPT ![f] = work.code]
           /\ b' = [b EXCEPT !.objs = @ + Len(work.code)]
           /\ StopFor(work.stop, "optimize")
    /\ propagated' = TRUE
    /\ UNCHANGED <<source, rest, todo, text>>

RemoveUnused(f) ==
    /\ phase = "optimize" /\ IsNext(f) /\ propagated
    /\ funcs' = [funcs EXCEPT ![f] = RemoveUnusedStmts(@)]
    /\ todo' = todo \ {f}
    /\ propagated' = FALSE
    /\ UNCHANGED <<source, rest, b, phase, stop, text>>

WriteProgram ==
    /\ phase \in {"made", "optimize"} /\ todo = {}
    /\ text' = [f \in DOMAIN funcs |-> Text(funcs[f])]
    /\ phase' = "written"
    /\ UNCHANGED <<source, rest, b, stop, funcs, todo, propagated>>

Next ==
    \/ RecParseAST
    \/ RecRegisterStmts
    \/ RecRegisterExprs
    \/ RecRegisterCondExpr
    \/ OperandDone
    \/ ArgumentDone
    \/ PartDone
    \/ BodyDone
    \/ MakeProgram
    \/ OptimizeProgram
    \/ \E f \in todo : PropagateConstants(f) \/ RemoveUnused(f)
    \/ WriteProgram

Spec == Init /\ [][Next]_vars

-----------------------------------------------------------------------------
(* Properties.                                                             *)

IRVars == [p : Nat, t : {"nullptr", "Label", "Function", "Variable", "Constant"},
           n : Names \cup {NoName} \cup ({"lb", "tmp"} \X Nat), v : Values]
Statements == [op : Defines \cup {"Goto", "SetLabel", "BranchIf", "Return", "PushCallArg",
                                 "Write"},
               br : CompareOps \cup {""}, x : IRVars, y : IRVars, z : IRVars]

Objects(code) == UNION {{code[i].x, code[i].y, code[i].z} : i \in DOMAIN code}

\* Types, and that an object has one name and one value wherever it is used.
TypeOK ==
    /\ phase \in {"build", "made", "optimize", "written", "stopped"}
    /\ (phase = "stopped") = (stop # "")
    /\ DOMAIN funcs \subseteq ToSet(FuncOrder)
    /\ \A f \in DOMAIN funcs : funcs[f] \in Seq(Statements)
    /\ LET objs == UNION {Objects(funcs[f]) : f \in DOMAIN funcs}
       IN  /\ \A x \in objs : x.p \in 0..b.objs
           /\ \A x, y \in objs : x.p = y.p => x = y

\* The labels that code sets, each at its place, and those it jumps to.
SetAt(code)   == {i \in DOMAIN code : code[i].op = "SetLabel"}
JumpsTo(code) == {code[i].x : i \in {j \in DOMAIN code : code[j].op = "Goto"}} \cup
                 {code[i].z : i \in {j \in DOMAIN code : code[j].op = "BranchIf"}}

\* Every jump of a function leads to one place of the same function, and no
\* label is set in two functions, before and after optimization
\* (getTmpLabel, which counts on through the whole program).
LabelsResolve ==
    phase \in {"made", "optimize", "written"} =>
        \A f \in DOMAIN funcs :
            /\ \A x \in JumpsTo(funcs[f]) :
                  \E i \in SetAt(funcs[f]) : Name(funcs[f][i].x) = Name(x)
            /\ \A g \in DOMAIN funcs :
                  \A i \in SetAt(funcs[f]), j \in SetAt(funcs[g]) :
                      Name(funcs[f][i].x) = Name(funcs[g][j].x) => f = g /\ i = j
=============================================================================
