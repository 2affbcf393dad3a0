----------------------------- MODULE SIRMeaning -----------------------------
(***************************************************************************)
(* What programs mean, for the comparison of a source program with the     *)
(* SIR made of it.  Neither half is code of the repository: CMain is C for *)
(* the trees of SIRBuilder, RunText executes printed SIR.                  *)
(*                                                                         *)
(* A result is [st, out, ret].  st is "done", or why there is no result:   *)
(* "undefined" (C gives the program no meaning), "fuel" (a bound was met), *)
(* or, for SIR, what no machine could execute.                             *)
(***************************************************************************)
EXTENDS SIRBuilder

CONSTANTS
    CharValue,   \* the value C gives to a constant that is no int
    MaxTurns,    \* bound: iterations and calls of one execution in C
    MaxSteps     \* bound: steps of one execution of SIR

Unset    == << >>
MainName == <<"main", 0>>
Bool(p)  == IF p THEN 1 ELSE 0

-----------------------------------------------------------------------------
(* C.  c is [env, in, out, st, val, turns]; st is "go" while it executes.  *)

Val(c, n)    == [c EXCEPT !.val = Num(n)]
Undefined(c) == [c EXCEPT !.st = "undefined"]
Turn(c)      == IF c.turns = 0 THEN [c EXCEPT !.st = "fuel"]
                ELSE [c EXCEPT !.turns = @ - 1]

RECURSIVE CExpr(_, _, _), CArgs(_, _, _, _), CStmt(_, _, _)

CArgs(u, c, args, vals) ==
    IF args = << >> THEN [c EXCEPT !.val = vals]
    ELSE LET v == CExpr(u, c, Head(args))
         IN  CArgs(u, v, Tail(args), vals \o v.val)

\* A call runs in variables of its own.
CCall(u, c, f, vals) ==
    LET d    == CHOOSE g \in ToSet(u) : g.kind = "func" /\ g.name = f
        env  == [n \in ToSet(d.params) |->
                    <<vals[CHOOSE i \in DOMAIN d.params : d.params[i] = n]>>]
        body == CStmt(u, [Turn(c) EXCEPT !.env = env], d.body)
    IN  [body EXCEPT !.env = c.env,
                     !.st  = IF @ = "return" THEN "go" ELSE @,
                     !.val = IF body.st = "return" THEN @ ELSE Unset]

CWrite(c) == [c EXCEPT !.out = @ \o c.val, !.val = Unset]
CRead(c)  == IF c.in = << >> THEN Undefined(c)
             ELSE [c EXCEPT !.in = Tail(@), !.val = Num(Head(c.in))]

CBinary(u, c, e) ==
    LET l == CExpr(u, c, e.kids[1])
        r == CExpr(u, l, e.kids[2])
        n == l.val[1]
        d == r.val[1]
    IN  CASE l.st # "go"                       -> l
          [] l.st = "go" /\ l.val = Unset      -> Undefined(l)
          [] e.op = "&&" /\ l.val = Num(0)     -> Val(l, 0)
          [] e.op = "||" /\ l.val \notin {Unset, Num(0)} -> Val(l, 1)
          [] OTHER ->
               CASE r.st # "go"                -> r
                 [] r.st = "go" /\ r.val = Unset -> Undefined(r)
                 [] e.op = "/" /\ r.val = Num(0) -> Undefined(r)
                 [] e.op \in LogicOps          -> Val(r, Bool(d # 0))
                 [] e.op \in CompareOps        -> Val(r, Bool(Compares(e.op, n, d)))
                 [] OTHER -> Val(r, Compute(ArithOf[e.op], n, d))

CExpr(u, c, e) ==
    CASE c.st # "go"   -> c
      [] e.op = "call" /\ e.id = ReadName -> CRead(c)
      [] e.op = "call" /\ e.id = WriteName -> CWrite(CArgs(u, c, e.kids, << >>))
      [] e.op = "call" /\ e.id \notin {ReadName, WriteName} ->
            LET a == CArgs(u, c, e.kids, << >>)
            IN  IF a.st = "go" THEN CCall(u, a, e.id, a.val) ELSE a
      [] e.op = "()"    -> CExpr(u, c, e.kids[1])
      [] e.op = "const" -> Val(c, IF e.val = NoInt THEN CharValue ELSE e.val[1])
      [] e.op = "id"    -> IF c.env[e.id] = Unset THEN Undefined(c)
                           ELSE [c EXCEPT !.val = c.env[e.id]]
      [] Len(e.kids) = 1 /\ e.op \in {"-", "!"} ->
            LET v == CExpr(u, c, e.kids[1])
            IN  IF v.st # "go" THEN v
                ELSE Val(v, IF e.op = "-" THEN -v.val[1] ELSE Bool(v.val[1] = 0))
      [] e.op = "=" ->
            LET v == CExpr(u, c, e.kids[2])
            IN  IF v.st # "go" THEN v
                ELSE [v EXCEPT !.env[e.kids[1].id] = v.val]
      [] Len(e.kids) = 2 /\ e.op \notin {"=", "call"} -> CBinary(u, c, e)

CWhile(u, c, s) ==
    LET t == CExpr(u, Turn(c), s.kids[1])
    IN  IF t.st # "go" \/ t.val = Num(0) THEN t
        ELSE CStmt(u, CStmt(u, t, s.kids[2]), s)

CIf(u, c, s) ==
    LET t == CExpr(u, c, s.kids[1])
    IN  CASE t.st # "go"          -> t
          [] t.st = "go" /\ t.val # Num(0) -> CStmt(u, t, s.kids[2])
          [] OTHER -> IF Len(s.kids) = 3 THEN CStmt(u, t, s.kids[3]) ELSE t

CStmt(u, c, s) ==
    CASE c.st # "go"     -> c
      [] s.op = "block"  -> FoldLeft(LAMBDA d, k : CStmt(u, d, k), c, s.kids)
      [] s.op = "decl"   ->
            LET v == IF s.kids = << >> THEN [c EXCEPT !.val = Unset]
                     ELSE CExpr(u, c, s.kids[1])
            IN  [v EXCEPT !.env = Extend(@, s.id, v.val)]
      [] s.op = "empty"  -> c
      [] s.op = "expr"   -> CExpr(u, c, s.kids[1])
      [] s.op = "while"  -> CWhile(u, c, s)
      [] s.op = "if"     -> CIf(u, c, s)
      [] s.op = "return" ->
            LET v == CExpr(u, c, s.kids[1])
            IN  IF v.st = "go" THEN [v EXCEPT !.st = "return"] ELSE v

CMain(u, input) ==
    LET c == CCall(u, [env |-> << >>, in |-> input, out |-> << >>, st |-> "go",
                       val |-> Unset, turns |-> MaxTurns], MainName, << >>)
    IN  [st |-> IF c.st = "go" THEN "done" ELSE c.st, out |-> c.out, ret |-> c.val]

-----------------------------------------------------------------------------
(* SIR.  m is [fn, pc, env, args, calls, in, out, st, ret]: args is the    *)
(* stack of arguments, calls the stack of suspended functions.             *)

Read(m, n) == IF n[1] = "#" THEN Num(n[2])
              ELSE IF n \in DOMAIN m.env THEN m.env[n] ELSE Unset
Set(m, n, v)  == [m EXCEPT !.env = Extend(@, n, v)]
Broken(m, why) == [m EXCEPT !.st = why]
Jump(t, m, label) ==
    LET at == {i \in DOMAIN t[m.fn] : /\ t[m.fn][i].op = "SetLabel"
                                      /\ t[m.fn][i].x = label}
    IN  IF at = {} THEN Broken(m, "label")
        ELSE [m EXCEPT !.pc = CHOOSE i \in at : \A j \in at : i <= j]

Operands(l) ==
    CASE l.op \in Arith                      -> {l.y, l.z}
      [] l.op = "BranchIf"                   -> {l.x, l.y}
      [] l.op = "Assign"                     -> {l.y}
      [] l.op \in {"Return", "PushCallArg", "Write"} -> {l.x}
      [] OTHER                               -> {}

Return(m, v) ==
    IF m.calls = << >> THEN [m EXCEPT !.st = "done", !.ret = v]
    ELSE LET k == Head(m.calls)
         IN  [m EXCEPT !.calls = Tail(@), !.fn = k.fn, !.pc = k.pc,
                       !.env = Extend(k.env, k.res, v)]

\* One line.
Execute(t, m, l) ==
    LET x == Read(m, l.x)
        y == Read(m, l.y)
        z == Read(m, l.z)
        n == [m EXCEPT !.pc = @ + 1]
    IN  CASE l.op = "SetLabel"    -> n
          [] l.op = "Assign"      -> Set(n, l.x, y)
          [] l.op \in Arith       ->
                IF l.op = "Div" /\ z = Num(0) THEN Broken(m, "trap")
                ELSE Set(n, l.x, Num(Compute(l.op, y[1], z[1])))
          [] l.op = "Goto"        -> Jump(t, m, l.x)
          [] l.op = "BranchIf"    ->
                IF Compares(l.br, x[1], y[1]) THEN Jump(t, m, l.z) ELSE n
          [] l.op = "Return"      -> Return(m, x)
          [] l.op = "PushCallArg" -> [n EXCEPT !.args = x \o @]
          [] l.op = "PopCallArg"  ->
                IF m.args = << >> THEN Broken(m, "arguments")
                ELSE [Set(n, l.x, Num(Head(m.args))) EXCEPT !.args = Tail(@)]
          [] l.op = "InvokeFunc"  ->
                [m EXCEPT !.calls = <<[fn |-> m.fn, pc |-> m.pc + 1, env |-> m.env,
                                       res |-> l.x]>> \o @,
                          !.fn = l.y, !.pc = 1, !.env = << >>]
          [] l.op = "Write"       -> [n EXCEPT !.out = @ \o x]
          [] l.op = "Read"        ->
                IF m.in = << >> THEN Broken(m, "input")
                ELSE [Set(n, l.x, Num(Head(m.in))) EXCEPT !.in = Tail(@)]

RECURSIVE Steps(_, _, _)
Steps(t, m, n) ==
    IF m.st # "go" THEN m
    ELSE IF n = 0 THEN Broken(m, "fuel")
    ELSE IF m.pc > Len(t[m.fn]) THEN Steps(t, Return(m, Unset), n - 1)
    ELSE LET l == t[m.fn][m.pc]
         IN  IF NoName \in Operands(l) THEN Broken(m, "unreadable")
             ELSE IF \E o \in Operands(l) : Read(m, o) = Unset
             THEN Broken(m, "unset")
             ELSE Steps(t, Execute(t, m, l), n - 1)

RunText(t, input) ==
    LET m == Steps(t, [fn |-> MainName, pc |-> 1, env |-> << >>, args |-> << >>,
                       calls |-> << >>, in |-> input, out |-> << >>, st |-> "go",
                       ret |-> Unset], MaxSteps)
    IN  [st |-> m.st, out |-> m.out, ret |-> m.ret]
=============================================================================
