---------------------------- MODULE SIROptimizer ----------------------------
(***************************************************************************)
(* IROptimizer (SIR/IROptimizer.cc): the dependences between the           *)
(* statements of a function, the propagation of copies and constants along *)
(* them, and the removal of statements nothing depends on.                 *)
(*                                                                         *)
(* A dependency is [nodes, map, ins, outs].  A node is [v, s, up]: its     *)
(* variable, the index of its statement (0 for nullptr) and its parents.   *)
(* Nodes are numbered as they are made, which is the order of allDepNodes  *)
(* for all that have a statement either pass changes.                      *)
(***************************************************************************)
EXTENDS SIR

NoDep == [nodes |-> << >>, map |-> << >>, ins |-> {}, outs |-> {}]

\* insertOrReplace, findOrMake
Replace(d, x, s) ==
    [d EXCEPT !.nodes = Append(@, [v |-> x.p, s |-> s, up |-> {}]),
              !.map   = Extend(@, x.p, Len(d.nodes) + 1)]
FindOrMake(d, x, s) == IF x.p \in DOMAIN d.map THEN d ELSE Replace(d, x, s)
At(d, x)        == d.map[x.p]
Connect(d, up, n) == [d EXCEPT !.nodes[n].up = @ \cup {up}]
Output(d, x)    == [d EXCEPT !.outs = @ \cup {At(d, x)}]

\* The operands are looked up before the result takes the place of an older
\* value of the same variable.
ExamineAssign(d, s, i) ==
    LET r == FindOrMake(d, s.y, 0)
        l == Replace(r, s.x, i)
    IN  Connect(l, At(r, s.y), At(l, s.x))

ExamineArith(d, s, i) ==
    LET r == FindOrMake(FindOrMake(d, s.y, 0), s.z, 0)
        l == Replace(r, s.x, i)
        n == At(l, s.x)
    IN  Connect(Connect(l, At(r, s.y), n), At(r, s.z), n)

\* Both operands get a new node each, below the one they had.
ExamineBranch(d, s, i) ==
    LET r  == FindOrMake(FindOrMake(d, s.y, 0), s.x, 0)
        ry == Replace(r, s.y, i)
        rx == Replace(ry, s.x, i)
        c  == Connect(Connect(rx, At(r, s.x), At(rx, s.x)),
                      At(r, s.y), At(ry, s.y))
    IN  [c EXCEPT !.outs = @ \cup {At(rx, s.x), At(ry, s.y)}]

ExamineStmt(d, s, i) ==
    CASE s.op \in {"SetLabel", "Goto", "InvokeFunc"} -> d
      [] s.op = "Assign"   -> ExamineAssign(d, s, i)
      [] s.op \in Arith    -> ExamineArith(d, s, i)
      [] s.op = "BranchIf" -> ExamineBranch(d, s, i)
      [] s.op = "Read"     -> LET l == Replace(d, s.x, i)
                              IN  [l EXCEPT !.ins = @ \cup {At(l, s.x)}]
      [] s.op \in {"Return", "PopCallArg", "PushCallArg", "Write"} ->
            Output(FindOrMake(d, s.x, i), s.x)

\* After i statements.
BuildDependency(code) ==
    LET dep[i \in 0..Len(code)] ==
            IF i = 0 THEN NoDep ELSE ExamineStmt(dep[i - 1], code[i], i)
    IN  dep[Len(code)]

-----------------------------------------------------------------------------
(* constantPropagate                                                       *)

\* The parents of a node that have an assignment or arithmetic as statement:
\* it is copied over the assignment, which keeps only its left side.
Copied(code, d, n) ==
    {d.nodes[u].s : u \in {w \in d.nodes[n].up :
        d.nodes[w].s # 0 /\ code[d.nodes[w].s].op \in Arith \cup {"Assign"}}}

\* work is [code, stop]; objects made here get the addresses above base.
PropagateAssign(work, d, n) ==
    LET i    == d.nodes[n].s
        from == Copied(work.code, d, n)
    IN  IF from = {} THEN work
        ELSE LET s == work.code[CHOOSE j \in from : TRUE]
             IN  [work EXCEPT !.code[i] = [s EXCEPT !.x = work.code[i].x]]

PropagateArith(work, d, n, base) ==
    LET i == d.nodes[n].s
        s == work.code[i]
    IN  CASE Cardinality(d.nodes[n].up) # 2 ->
                [work EXCEPT !.stop = "same operand"]
          [] Cardinality(d.nodes[n].up) = 2 /\ ~(IsConst(s.y) /\ IsConst(s.z)) ->
                work
          [] OTHER ->
                IF NoInt \in {s.y.v, s.z.v}
                THEN [work EXCEPT !.stop = "no integer"]
                ELSE IF s.op = "Div" /\ s.z.v = Num(0)
                THEN [work EXCEPT !.stop = "division by zero"]
                ELSE [work EXCEPT !.code[i] = Stmt2("Assign", s.x,
                        IRVar(base + i, "Constant", NoName,
                              Num(Compute(s.op, s.y.v[1], s.z.v[1]))))]

PropagateNode(work, d, n, base) ==
    LET i == d.nodes[n].s
    IN  IF work.stop # "" \/ i = 0 THEN work
        ELSE CASE work.code[i].op = "Assign" -> PropagateAssign(work, d, n)
               [] work.code[i].op \in Arith  -> PropagateArith(work, d, n, base)
               [] OTHER                      -> work

\* Node by node.
ConstantPropagate(code, base) ==
    LET d == BuildDependency(code)
        work[n \in 0..Len(d.nodes)] ==
            IF n = 0 THEN [code |-> code, stop |-> ""]
            ELSE PropagateNode(work[n - 1], d, n, base)
    IN  work[Len(d.nodes)]

-----------------------------------------------------------------------------
(* removeUnusedStmts                                                       *)

Neighbours_Children(d, n) == {m \in DOMAIN d.nodes : n \in d.nodes[m].up}

\* recursiveColor goes to parents and to children.
Neighbours(d, n) ==
    d.nodes[n].up \cup {m \in DOMAIN d.nodes : n \in d.nodes[m].up}

Color(d, outs) ==
    LET color[marked \in SUBSET DOMAIN d.nodes] ==
            LET more == marked \cup UNION {Neighbours(d, n) : n \in marked}
            IN  IF more = marked THEN marked ELSE color[more]
    IN  color[outs]

UsedStmts(d) ==
    LET marked   == Color(d, d.outs) \cup d.ins
        usedVars == {d.nodes[n].v : n \in d.outs}
    IN  {d.nodes[n].s : n \in {m \in DOMAIN d.nodes :
                                  m \in marked \/ d.nodes[m].v \in usedVars}}

RemoveUnusedStmts(code) ==
    LET used == UsedStmts(BuildDependency(code))
        keep == {i \in DOMAIN code :
                    i \in used \/ code[i].op \notin Arith \cup {"Assign"}}
        kept[i \in 0..Len(code)] ==
            IF i = 0 THEN << >>
            ELSE IF i \in keep THEN Append(kept[i - 1], code[i])
            ELSE kept[i - 1]
    IN  kept[Len(code)]
=============================================================================
