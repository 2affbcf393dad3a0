------------------------------- MODULE MCSIR -------------------------------
(***************************************************************************)
(* Programs of two functions:                                              *)
(*                                                                         *)
(*   f(p, q) { if (p < 1) return q; return f(p - 1, q + 2); }              *)
(*   main()  { int a = read(); int y = 1;  S1 S2 S3                        *)
(*             write(y); write(a); return 5; }                             *)
(*                                                                         *)
(* S2 is one statement of many shapes, S1 and S3 are simple ones; y is the *)
(* name b, or tmp_6, which is a temporary of main as well.                 *)
(***************************************************************************)
EXTENDS SIRProperties

A == <<"a", 0>>
B == <<"b", 0>>
P == <<"p", 0>>
Q == <<"q", 0>>
W == <<"w", 0>>
F == <<"f", 0>>
Tmp6 == <<"tmp", 6>>

a == Id(A)
k(n) == Const(Num(n))
Chr  == Const(NoInt)
Op(op, x, y)    == Node(op, <<x, y>>)
Stmt(e)         == Node("expr", <<e>>)
Set1(x, e)      == Stmt(Op("=", x, e))
DeclOf(n, init) == [Node("decl", init) EXCEPT !.id = n]
Block(s)        == Node("block", s)
If(c, s)        == Node("if", <<c, s>>)
IfElse(c, s, t) == Node("if", <<c, s, t>>)
While(c, s)     == Node("while", <<c, s>>)
ReturnOf(e)     == Node("return", <<e>>)
WriteOf(e)      == CallOf(WriteName, <<e>>)
ReadCall        == CallOf(ReadName, << >>)
FCall(x, y)     == CallOf(F, <<x, y>>)
FuncDef(n, ps, s) == [kind |-> "func", name |-> n, params |-> ps, body |-> Block(s)]
GlobalDecl      == [kind |-> "decl", name |-> A, params |-> << >>,
                    body |-> Node("empty", << >>)]

DefF == FuncDef(F, <<P, Q>>,
    <<If(Op("<", Id(P), k(1)), ReturnOf(Id(Q))),
      ReturnOf(FCall(Op("-", Id(P), k(1)), Op("+", Id(Q), k(2))))>>)

Main(y, ss) == FuncDef(MainName, << >>,
    <<DeclOf(A, <<ReadCall>>), DeclOf(y, <<k(1)>>)>> \o ss \o
    <<Stmt(WriteOf(Id(y))), Stmt(WriteOf(a)), ReturnOf(k(5))>>)

Leaves(y) == {a, Id(y), k(2)}

Simple(y) == {Node("empty", << >>), Set1(Id(y), a), Set1(a, Op("+", a, k(1)))}

Conds(y) ==
    {Op(op, a, Id(y)) : op \in CompareOps} \cup
    {Op(op, l, r) : op \in LogicOps,
        l \in {a, Op("<", a, k(2)), Op("==", Paren(Op("=", Id(y), a)), k(2))},
        r \in {Id(y), Op("<", k(0), Id(y)), Op(">", ReadCall, a)}} \cup
    {a, Paren(Op("<", a, k(2))), Node("!", <<Paren(Op("<", a, k(2)))>>), ReadCall,
     Op("<", ReadCall, k(2)), Op("=", a, Id(y)), Op("+", a, Id(y)), Op("comma", a, k(2)),
     Op("<", FCall(a, Id(y)), k(4))}

Exps(y) ==
    {Op(op, l, r) : op \in {"+", "-", "*", "/"}, l, r \in Leaves(y) \cup {k(0)}} \cup
    {Op("-", Chr, k(1)), Op("%", a, k(2)), Chr, Paren(a), ReadCall,
     Node("-", <<a>>), Node("-", <<Paren(Op("-", a, k(2)))>>), Node("!", <<a>>),
     Op("=", a, k(3)), Op("=", Paren(a), k(3)), Op("+=", a, k(3)),
     Op("-", Paren(Op("=", a, k(3))), a), WriteOf(a), Op("+", WriteOf(a), k(1)),
     Op("*", Paren(Op("+", a, k(2))), Paren(Op("-", a, k(1)))),
     FCall(a, k(1)), FCall(k(1), a), FCall(FCall(k(1), a), FCall(a, k(2))),
     FCall(WriteOf(a), a), FCall(ReadCall, k(1))} \cup
    Conds(y)

Middles(y) ==
    {Set1(Id(y), e) : e \in Exps(y)} \cup {Stmt(e) : e \in Exps(y)} \cup
    {If(c, s) : c \in Conds(y), s \in Simple(y)} \cup
    {IfElse(c, Set1(Id(y), k(2)), Set1(Id(y), a)) : c \in Conds(y)} \cup
    {Block(<<DeclOf(W, << >>), IfElse(c, Set1(Id(W), k(2)), Set1(Id(W), a)),
             Set1(Id(y), Op("+", Id(W), k(1)))>>) : c \in Conds(y)} \cup
    {While(c, s) : c \in Conds(y), s \in Simple(y)} \cup
    {Block(<<DeclOf(W, <<e>>), Stmt(WriteOf(Id(W)))>>) : e \in Exps(y)} \cup
    {While(c, Block(<<DeclOf(W, <<e>>), Stmt(WriteOf(Op("-", r, k(1))))>>)) :
        r \in {Id(W), a},
        c \in {Op("<", ReadCall, k(2)), Op("!=", ReadCall, a)},
        e \in {Id(y), ReadCall, Op("+", a, k(2)), FCall(a, Id(y))}} \cup
    {Block(<<DeclOf(A, <<k(1)>>)>>), ReturnOf(a), Node("return", << >>),
     Node("break", << >>), Node("for", << >>), Node("do", << >>),
     Node("switch", << >>), Node("label", << >>),
     [Node("pointer", << >>) EXCEPT !.id = W]}

MCUnits ==
    {<<DefF, Main(B, <<t>>)>> : t \in Middles(B)}
    \cup {<<DefF, Main(B, <<Set1(Id(B), a), t, Set1(a, Op("+", a, k(1)))>>)>> : t \in Middles(B)}
    \cup {<<DefF, Main(B, <<Set1(a, Op("+", a, k(1))), t, Set1(Id(B), a)>>)>> : t \in Middles(B)}
    \cup {<<DefF, Main(Tmp6, <<t>>)>> : t \in Middles(Tmp6)}
    \cup {<<Main(B, <<t>>), DefF>> : t \in {Set1(Id(B), e) : e \in Exps(B)}}
    \cup {<<DefF, GlobalDecl, Main(B, << >>)>>}

MCTrees ==
    LET bodies == {d.body : d \in UNION {ToSet(u) : u \in MCUnits}}
        stmts  == UNION {ToSet(t.kids) : t \in bodies}
    IN  bodies \cup UNION {Subtrees(s) : s \in stmts}
MCNames     == {A, B, P, Q, W, F, Tmp6, MainName, ReadName, WriteName}
MCInputs    == {<<0, 1, 3, 2>>, <<2, 0, 3>>}
MCFuncOrder == <<F, MainName>>
=============================================================================
