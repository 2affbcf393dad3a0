------------------------ MODULE ParserScopesHistory ------------------------
(***************************************************************************)
(* ParserScopes with a history variable: the types every function has been *)
(* declared with at file scope, which the symbol table forgets when a      *)
(* later declaration of the function replaces an earlier one.              *)
(***************************************************************************)
EXTENDS ParserScopes, TLC

CONSTANTS x, f, ft1, ft2

VARIABLE declaredAs

hvars == <<vars, declaredAs>>

Symmetry == Permutations({x, f}) \cup Permutations({ft1, ft2})

HInit == Init /\ declaredAs = [n \in Names |-> {}]

HNext ==
    /\ Next
    /\ declaredAs' =
           [n \in Names |-> declaredAs[n] \cup
                {ty \in FunctionTypes :
                     /\ HasSymbol(symbolMap'[1], "Function", n)
                     /\ symbolMap'[1][n].type = ty}]

HSpec == HInit /\ [][HNext]_hvars

\* A definition that disagrees with an earlier declaration of the function is
\* reported ("function does not match the previous definition", FuncDef).
ConflictReported ==
    \A n \in Names :
        IsSymDefined(symbolMap[1], "Function", n) =>
            \/ declaredAs[n] = {symbolMap[1][n].type}
            \/ <<1, n>> \in diagnosed
=============================================================================
