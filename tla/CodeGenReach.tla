--------------------------- MODULE CodeGenReach ----------------------------
(***************************************************************************)
(* CodeGen together with what the source program says of control flow:     *)
(* whether the statement about to be generated can be reached, by the      *)
(* rules of C for blocks, if, while and return.  The three variables are   *)
(* history variables: no action of CodeGen reads them.                     *)
(***************************************************************************)
EXTENDS CodeGen

VARIABLES
    live,     \* the source statement about to be generated can be reached
    saved,    \* for every if and while being generated, see Swap and Push
    blame     \* what the source of cur has that may make LLVM reject it

flowVars  == <<live, saved, blame>>
reachVars == <<vars, flowVars>>

Blames == {"code at a point that is never reached",
           "return that does not fit",
           "loop body whose end is never reached"}

Blame(what, holds) == blame' = blame \cup (IF holds THEN {what} ELSE {})

\* A statement that generates code is generated.
Reached == Blame("code at a point that is never reached", ~live)

PushFlow == saved' = Append(saved, live)
PopFlow  == saved' = SubSeq(saved, 1, Len(saved) - 1)
Last     == saved[Len(saved)]

ReachInit ==
    /\ Init
    /\ live = TRUE
    /\ saved = << >>
    /\ blame = {}

\* A second definition of a function LLVM has taken is judged on its own.
Begin(f, ps) ==
    /\ BeginFuncDef(f, ps)
    /\ live' = TRUE
    /\ saved' = << >>
    /\ blame' = {}

Straight ==
    \/ ExprStmt
    \/ \E n \in Names : InitDecltr(n)
    \/ \E f \in Fns, matches \in BOOLEAN : CallStmt(f, matches)

Return(fits) ==
    /\ ReturnStmt(fits)
    /\ live' = FALSE
    /\ blame' = blame
           \cup (IF live THEN {} ELSE {"code at a point that is never reached"})
           \cup (IF fits THEN {} ELSE {"return that does not fit"})
    /\ UNCHANGED saved

\* saved remembers whether the if is reached, then whether its first arm ends.
Swap(hasElse) ==
    /\ EndThen(hasElse)
    /\ live' = Last
    /\ saved' = [saved EXCEPT ![Len(saved)] = live]
    /\ UNCHANGED blame

Join ==
    /\ EndElse
    /\ live' = (live \/ Last)
    /\ PopFlow
    /\ UNCHANGED blame

\* The condition may be false at once: a while that is reached is left.
Leave ==
    /\ EndWhile
    /\ live' = Last
    /\ PopFlow
    /\ Blame("loop body whose end is never reached", ~live)

ReachNext ==
    \/ /\ \/ \E syms \in [Fns -> {"none", "declared", "defined"}] :
                 BeginModule(syms)
          \/ EndModule
          \/ WriteModule
          \/ InitGlobal
          \/ EndFuncDef
          \/ \E decls \in SUBSET Names, protos \in SUBSET Fns :
                 BeginCompStmt(decls, protos)
          \/ EndCompStmt
          \/ NoCode
          \/ Finished
       /\ UNCHANGED flowVars
    \/ \E f \in Fns, ps \in SUBSET Names : Begin(f, ps)
    \/ Straight /\ Reached /\ UNCHANGED <<live, saved>>
    \/ (BeginIf \/ BeginWhile) /\ Reached /\ PushFlow /\ UNCHANGED live
    \/ \E fits \in BOOLEAN : Return(fits)
    \/ \E hasElse \in BOOLEAN : Swap(hasElse)
    \/ Join
    \/ Leave

ReachSpec == ReachInit /\ [][ReachNext]_reachVars

-----------------------------------------------------------------------------
(* Properties.                                                             *)

\* The blocks control can come to from block b.
ReachableFrom(bs, b) ==
    LET within[k \in 0..Len(bs)] ==
            IF k = 0 THEN {b}
            ELSE LET near == within[k - 1]
                 IN  near \cup UNION {bs[i].succ : i \in near}
    IN  within[Len(bs)]

\* Code is generated where control comes to exactly when the source statement
\* it is generated for can be reached: the branches between the blocks of ifs
\* and whiles, nested any way, do what the source says.
InsertPointFollowsSource ==
    cur # NoFn /\ blame = {} =>
        (live <=> /\ insert \in ReachableFrom(blocks[cur], constructs[1].target)
                  /\ ~HasTerminator(blocks[cur], insert))

\* A function whose source gives LLVM no reason to reject it is kept.
RejectionHasReason ==
    [][EndFuncDef => (theModule'[cur] = "absent" => blame # {})]_reachVars
=============================================================================
