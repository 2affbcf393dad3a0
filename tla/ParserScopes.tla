--------------------------- MODULE ParserScopes ----------------------------
(***************************************************************************)
(* What the parser does to the scopes of a translation unit: the semantic  *)
(* actions of modules/splc/src/IO/Parser.yy that push, pop and register,   *)
(* in the orders the grammar lets them be reduced in.  The variable        *)
(* constructs stands for the part of bison's stack that matters: which     *)
(* scope-opening constructs are being parsed, and in which the parser is.  *)
(*                                                                         *)
(* The program being compiled is whatever sequence of reductions TLC       *)
(* chooses.  ForLoops and SyntaxErrors say whether it may contain for      *)
(* loops, and compound statements the parser has to recover in.            *)
(*                                                                         *)
(* A reduction that loops over declarators takes one step per declarator.  *)
(***************************************************************************)
EXTENDS ScopeStack

CONSTANTS
    ForLoops,       \* the program has for statements
    SyntaxErrors,   \* the program has broken compound statements
    MaxParams,      \* bound: parameters of a function
    MaxDecls        \* bound: declarations and parameters in the program

ASSUME SwitchesAreBoolean == ForLoops \in BOOLEAN /\ SyntaxErrors \in BOOLEAN
ASSUME BoundsAreNat == MaxParams \in Nat /\ MaxDecls \in Nat

VARIABLES
    constructs,       \* the constructs being parsed, innermost last
    params,           \* parameters read by the function declarator being parsed
    inProto,          \* FuncProto's action is registering those parameters
    namedStructTypes, \* SPLCContext::namedStructTypes: structure names in use
    unitScope,        \* the scope attached to the TransUnit node, 0 before
    status,           \* whether the parse goes on
    nDecls            \* declarations and parameters begun, for MaxDecls

protoVars   == <<params, inProto>>
outcomeVars == <<namedStructTypes, unitScope, status>>
parserVars  == <<constructs, protoVars, outcomeVars, nDecls>>

vars == <<scopeVars, parserVars>>

ConstructKinds == {"unit", "struct", "decltr", "func", "comp", "for"}

\* ctx: the scope pushed for the construct.  name and type: what a function
\* declarator declares.  done: the one statement of a function or a for has
\* been parsed.
Constructs == [kind : ConstructKinds, ctx : CtxIds, name : IDs, type : Types,
               done : BOOLEAN]

OpenedAs(kind, n, ty) == [kind |-> kind, ctx |-> nCtx + 1, name |-> n,
                          type |-> ty, done |-> FALSE]
Opened(kind) == OpenedAs(kind, NoName, ObjectType)

Inner       == constructs[Len(constructs)]
InnerIn(ks) == constructs # << >> /\ Inner.kind \in ks
Closed(cs)  == SubSeq(cs, 1, Len(cs) - 1)

\* A statement has been parsed: inside a for or a function it is the body.
StmtParsed(cs) ==
    IF cs # << >> /\ cs[Len(cs)].kind \in {"for", "func"}
    THEN [cs EXCEPT ![Len(cs)].done = TRUE]
    ELSE cs

Parsing == status = "parsing" /\ ~inProto

CountDecl == nDecls < MaxDecls /\ nDecls' = nDecls + 1  \* bound

\* Where a declaration may stand: the init expression of a for is one too.
AtDeclaration == InnerIn({"unit", "comp", "for"}) /\ ~Inner.done
AtStatement   == InnerIn({"comp", "for"}) /\ ~Inner.done

Init ==
    /\ ScopeInit
    /\ constructs = << >>
    /\ params = << >>
    /\ inProto = FALSE
    /\ namedStructTypes = {}
    /\ unitScope = 0
    /\ status = "parsing"
    /\ nDecls = 0

-----------------------------------------------------------------------------
(* The translation unit.                                                   *)

BeginParseRoot ==
    /\ Parsing
    /\ constructs = << >>
    /\ PushNew
    /\ constructs' = <<Opened("unit")>>
    /\ UNCHANGED <<tableVars, protoVars, outcomeVars, nDecls>>

EndParseRoot ==
    /\ Parsing
    /\ InnerIn({"unit"})
    /\ unitScope' = Top
    /\ Pop
    /\ constructs' = << >>
    /\ status' = "accepted"
    /\ UNCHANGED <<tableVars, protoVars, namedStructTypes, nDecls>>

-----------------------------------------------------------------------------
(* Structures and unions.                                                  *)

BeginStruct ==
    /\ Parsing
    /\ CountDecl
    /\ AtDeclaration \/ InnerIn({"struct", "decltr"})
    /\ PushNew
    /\ constructs' = Append(constructs, Opened("struct"))
    /\ UNCHANGED <<tableVars, protoVars, outcomeVars>>

DeclareMember(n) ==
    /\ Parsing
    /\ CountDecl
    /\ InnerIn({"struct"})
    /\ TryRegister(Top, "Variable", n, ObjectType, TRUE)
    /\ UNCHANGED <<treeVars, constructs, protoVars, outcomeVars>>

\* The scope is popped and the structure type created; StructType::setName
\* asserts that no structure of the translation unit has that name already.
EndStruct(kind, tag) ==
    /\ Parsing
    /\ InnerIn({"struct"})
    /\ Pop
    /\ constructs' = Closed(constructs)
    /\ IF tag \in namedStructTypes
       THEN /\ status' = "aborted"
            /\ UNCHANGED <<tableVars, namedStructTypes>>
       ELSE /\ namedStructTypes' = namedStructTypes \cup ({tag} \ {NoName})
            /\ TryRegister(FromTop(1), kind, tag, ObjectType, TRUE)
            /\ UNCHANGED status
    /\ UNCHANGED <<protoVars, unitScope, nDecls>>

-----------------------------------------------------------------------------
(* Declarations.                                                           *)

\* One declarator of DirDecl's loop that is not a function.
DeclareVariable(n) ==
    /\ Parsing
    /\ CountDecl
    /\ AtDeclaration
    /\ TryRegister(Top, "Variable", n, ObjectType, TRUE)
    /\ UNCHANGED <<treeVars, constructs, protoVars, outcomeVars>>

\* Mutant of BeginFuncDecltr: the scope that is innermost is pushed again.
BeginFuncDecltr_Again(n, ty) ==
    /\ Parsing
    /\ CountDecl
    /\ AtDeclaration
    /\ contextStack' = Append(contextStack, Top)
    /\ constructs' = Append(constructs, [OpenedAs("decltr", n, ty) EXCEPT !.ctx = Top])
    /\ params' = << >>
    /\ UNCHANGED <<nCtx, depth, parentContexts, directChildren, tableVars, inProto, outcomeVars>>

\* DirFuncDecltrBegin: the parameters get a scope of their own.
BeginFuncDecltr(n, ty) ==
    /\ Parsing
    /\ CountDecl
    /\ AtDeclaration
    /\ PushNew
    /\ constructs' = Append(constructs, OpenedAs("decltr", n, ty))
    /\ params' = << >>
    /\ UNCHANGED <<tableVars, inProto, outcomeVars>>

\* A parameter is read, and registered only if a body follows.
ReadParam(n) ==
    /\ Parsing
    /\ CountDecl
    /\ InnerIn({"decltr"})
    /\ Len(params) < MaxParams
    /\ params' = Append(params, n)
    /\ UNCHANGED <<scopeVars, constructs, inProto, outcomeVars>>

\* Mutant of DeclareFunction: InitDecltr forgets the pop, as IterStmt does.
DeclareFunction_NoPop ==
    /\ Parsing
    /\ InnerIn({"decltr"})
    /\ constructs' = Closed(constructs)
    /\ params' = << >>
    /\ TryRegister(FromTop(1), "Function", Inner.name, Inner.type, FALSE)
    /\ UNCHANGED <<treeVars, inProto, outcomeVars, nDecls>>

\* InitDecltr pops the parameters' scope; DirDecl's loop registers the
\* function, as declared only.
DeclareFunction ==
    /\ Parsing
    /\ InnerIn({"decltr"})
    /\ Pop
    /\ constructs' = Closed(constructs)
    /\ params' = << >>
    /\ TryRegister(FromTop(1), "Function", Inner.name, Inner.type, FALSE)
    /\ UNCHANGED <<inProto, outcomeVars, nDecls>>

-----------------------------------------------------------------------------
(* Function definitions.                                                   *)

\* A '{' follows the declarator, so FuncProto is reduced.  Its test for an
\* earlier definition looks at the scope that is innermost now; when it finds
\* one, nothing at all is registered.
BeginFuncProto ==
    /\ Parsing
    /\ InnerIn({"decltr"})
    /\ constructs[Len(constructs) - 1].kind = "unit"
    /\ nCtx < MaxCtx  \* bound: the body needs a scope
    /\ IF IsSymDefined(symbolMap[Top], "Function", Inner.name)
       THEN /\ constructs' = [constructs EXCEPT ![Len(constructs)].kind = "func"]
            /\ UNCHANGED inProto
       ELSE /\ inProto' = TRUE
            /\ UNCHANGED constructs
    /\ UNCHANGED <<scopeVars, params, outcomeVars, nDecls>>

\* One turn of FuncProto's loop over the parameters.
RegisterParam ==
    /\ inProto
    /\ params # << >>
    /\ TryRegister(Top, "Paramater", Head(params), ObjectType, FALSE)
    /\ params' = Tail(params)
    /\ UNCHANGED <<treeVars, constructs, inProto, outcomeVars, nDecls>>

\* Mutant of RegisterProto: the scope to push again is read after the pop.
RegisterProto_TakesLater ==
    LET below == Popped(contextStack)
        ctx   == below[Len(below)]
    IN  /\ inProto
        /\ params = << >>
        /\ TryRegister(below[Len(below)], "Function", Inner.name, Inner.type, FALSE)
        /\ PushAgain(below, ctx)
        /\ constructs' = [constructs EXCEPT ![Len(constructs)].kind = "func"]
        /\ inProto' = FALSE
        /\ UNCHANGED <<params, outcomeVars, nDecls>>

\* The rest of FuncProto: the parameters' scope is taken off the stack, the
\* function registered as declared in the scope that is then on top, and the
\* very same scope pushed again for the body.
RegisterProto ==
    LET ctx   == Top
        below == Popped(contextStack)
    IN  /\ inProto
        /\ params = << >>
        /\ TryRegister(below[Len(below)], "Function", Inner.name, Inner.type, FALSE)
        /\ PushAgain(below, ctx)
        /\ constructs' = [constructs EXCEPT ![Len(constructs)].kind = "func"]
        /\ inProto' = FALSE
        /\ UNCHANGED <<params, outcomeVars, nDecls>>

\* Mutants of EndFuncDef: the function is looked up before the parameters'
\* scope is popped, and the definition is registered as a declaration.
EndFuncDef_LooksUpFirst ==
    /\ Parsing
    /\ InnerIn({"func"})
    /\ Inner.done
    /\ Pop
    /\ constructs' = Closed(constructs)
    /\ LET map == symbolMap[Top]
           n   == Inner.name
       IN  IF HasSymbol(map, "Function", n)
           THEN TryRegister(Top, "Function", n, Inner.type, TRUE)
                /\ UNCHANGED status
           ELSE status' = "terminated" /\ UNCHANGED tableVars
    /\ UNCHANGED <<protoVars, namedStructTypes, unitScope, nDecls>>

EndFuncDef_OnlyDeclares ==
    /\ Parsing
    /\ InnerIn({"func"})
    /\ Inner.done
    /\ Pop
    /\ constructs' = Closed(constructs)
    /\ LET map == symbolMap[FromTop(1)]
           n   == Inner.name
       IN  IF HasSymbol(map, "Function", n)
           THEN TryRegister(FromTop(1), "Function", n, Inner.type, FALSE)
                /\ UNCHANGED status
           ELSE status' = "terminated" /\ UNCHANGED tableVars
    /\ UNCHANGED <<protoVars, namedStructTypes, unitScope, nDecls>>

\* FuncDef: the parameters' scope is popped for good and the function looked
\* up.  getSymbol throws when it is not there, and nothing catches that.  A
\* function whose declarator has the type found is now defined.
EndFuncDef ==
    /\ Parsing
    /\ InnerIn({"func"})
    /\ Inner.done
    /\ Pop
    /\ constructs' = Closed(constructs)
    /\ LET scope == FromTop(1)
           map   == symbolMap[scope]
           n     == Inner.name
           ty    == Inner.type
       IN  IF ~HasSymbol(map, "Function", n)
           THEN status' = "terminated" /\ UNCHANGED tableVars
           ELSE IF map[n].type = ty
           THEN TryRegister(scope, "Function", n, ty, TRUE) /\ UNCHANGED status
           ELSE /\ diagnosed' = diagnosed \cup {<<scope, n>>}
                /\ UNCHANGED <<symbolMap, symbolList, status>>
    /\ UNCHANGED <<protoVars, namedStructTypes, unitScope, nDecls>>

-----------------------------------------------------------------------------
(* Statements.                                                             *)

\* ComptStmtBegin: a block, or the body of a function.
BeginCompStmt ==
    /\ Parsing
    /\ AtStatement \/ (InnerIn({"func"}) /\ ~Inner.done)
    /\ PushNew
    /\ constructs' = Append(constructs, Opened("comp"))
    /\ UNCHANGED <<tableVars, protoVars, outcomeVars, nDecls>>

\* Mutant of EndCompStmt: no pop, as in the alternatives with error.
EndCompStmt_NoPop ==
    /\ Parsing
    /\ InnerIn({"comp"})
    /\ constructs' = StmtParsed(Closed(constructs))
    /\ UNCHANGED <<scopeVars, protoVars, outcomeVars, nDecls>>

\* CompStmt's two complete alternatives.
EndCompStmt ==
    /\ Parsing
    /\ InnerIn({"comp"})
    /\ Pop
    /\ constructs' = StmtParsed(Closed(constructs))
    /\ UNCHANGED <<tableVars, protoVars, outcomeVars, nDecls>>

\* The alternatives of CompStmt that end in the error token do not pop.
RecoverCompStmt ==
    /\ Parsing
    /\ SyntaxErrors
    /\ InnerIn({"comp"})
    /\ constructs' = StmtParsed(Closed(constructs))
    /\ UNCHANGED <<scopeVars, protoVars, outcomeVars, nDecls>>

\* ForLoopCtxBegin.
BeginFor ==
    /\ Parsing
    /\ ForLoops
    /\ AtStatement
    /\ PushNew
    /\ constructs' = Append(constructs, Opened("for"))
    /\ UNCHANGED <<tableVars, protoVars, outcomeVars, nDecls>>

\* A statement that opens no scope is the whole body of the for.
SimpleForBody ==
    /\ Parsing
    /\ InnerIn({"for"})
    /\ ~Inner.done
    /\ constructs' = StmtParsed(constructs)
    /\ UNCHANGED <<scopeVars, protoVars, outcomeVars, nDecls>>

\* IterStmt's alternatives for KwdFor build the node and leave the scopes.
EndFor ==
    /\ Parsing
    /\ InnerIn({"for"})
    /\ Inner.done
    /\ constructs' = StmtParsed(Closed(constructs))
    /\ UNCHANGED <<scopeVars, protoVars, outcomeVars, nDecls>>

\* The parse is over, one way or another.
Finished ==
    /\ status # "parsing"
    /\ UNCHANGED vars

Step ==
    \/ BeginParseRoot
    \/ EndParseRoot
    \/ BeginStruct
    \/ \E n \in Names : DeclareMember(n)
    \/ \E kind \in {"StructDecl", "UnionDecl"}, tag \in IDs :
           EndStruct(kind, tag)
    \/ \E n \in Names : DeclareVariable(n)
    \/ \E n \in Names, ty \in FunctionTypes : BeginFuncDecltr(n, ty)
    \/ \E n \in Names : ReadParam(n)
    \/ DeclareFunction
    \/ BeginFuncProto
    \/ RegisterParam
    \/ RegisterProto
    \/ EndFuncDef
    \/ BeginCompStmt
    \/ EndCompStmt
    \/ RecoverCompStmt
    \/ BeginFor
    \/ SimpleForBody
    \/ EndFor

Next == Step \/ Finished

Spec == Init /\ [][Next]_vars

-----------------------------------------------------------------------------
(* Properties.                                                             *)

TypeOK ==
    /\ ScopeTypeOK
    /\ constructs \in Seq(Constructs)
    /\ params \in Seq(Names)
    /\ inProto \in BOOLEAN
    /\ namedStructTypes \subseteq Names
    /\ unitScope \in 0..MaxCtx
    /\ nDecls \in 0..MaxDecls
    /\ status \in {"parsing", "accepted", "terminated", "aborted"}

\* A symbol never leaves its scope or changes its kind, and once defined it
\* does not change at all: later registrations of the name are rejected.
EntriesOnlyGetDefined ==
    [][\A c \in CtxIds, n \in IDs :
           LET old == symbolMap[c][n]
               new == symbolMap'[c][n]
           IN  old # NoEntry => /\ new # NoEntry
                                /\ new.symEntTy = old.symEntTy
                                /\ old.defined => new = old]_vars

\* While a function declarator is read, the innermost scope holds nothing of
\* kind Function, so the test FuncProto makes for an earlier definition of
\* the function never finds one; redefinitions are left to FuncDef.
ProtoTestFindsNothing ==
    InnerIn({"decltr"}) =>
        \A n \in IDs : ~HasSymbol(symbolMap[Top], "Function", n)

\* The open scopes are those of the constructs being parsed, one for one.
ScopesMatchConstructs ==
    /\ Len(contextStack) = Len(constructs)
    /\ \A i \in 1..Len(constructs) : contextStack[i] = constructs[i].ctx

\* The whole program ends up below the first scope: that is the one attached
\* to the TransUnit node, and no scope is left open.
UnitScopeIsRoot ==
    status = "accepted" => unitScope = 1 /\ contextStack = << >>

\* When FuncDef's lookup throws, the reason has been reported: the function
\* shares its name with something else declared at file scope.
TerminationExplained ==
    status = "terminated" =>
        \E n \in Names : /\ <<1, n>> \in diagnosed
                         /\ symbolMap[1][n] # NoEntry
                         /\ symbolMap[1][n].symEntTy # "Function"

\* A function definition the parser goes on after leaves the function defined
\* at file scope: as this one or, after an error was logged, as an earlier one.
FuncDefDefines ==
    [][EndFuncDef /\ status' = "parsing" =>
           LET n == Inner.name
           IN  /\ IsSymDefined(symbolMap'[1], "Function", n)
               /\ \/ symbolMap'[1][n].type = Inner.type
                  \/ <<1, n>> \in diagnosed']_vars

\* The parser implements lexical scoping.
FrameKind(k) == IF k \in {"decltr", "func"} THEN "params" ELSE k

Scoping == INSTANCE LexicalScoping WITH
    open <- [i \in 1..Len(constructs) |-> FrameKind(constructs[i].kind)],
    env  <- [i \in 1..Len(contextStack) |-> symbolMap[contextStack[i]]]

ImplementsScoping == Scoping!ASpec
=============================================================================
