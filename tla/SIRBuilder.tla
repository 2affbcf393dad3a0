----------------------------- MODULE SIRBuilder -----------------------------
(***************************************************************************)
(* IRBuilder (SIR/IRBuilder.cc): from syntax trees to SIR.                 *)
(*                                                                         *)
(* A tree node is [op, kids, id, val].  The rec.. methods call each other; *)
(* b.work is the stack of calls: what is still to be done, innermost       *)
(* first, each entry with the locals its method needs after the call it    *)
(* waits for.  b.res is what the last call returned.  An operator stands   *)
(* for a method up to its next call: it takes the builder and gives the    *)
(* builder after.  b.stop names the assertion or error that ends the       *)
(* compiler; nothing happens after it.                                     *)
(***************************************************************************)
EXTENDS SIR

Node(op, kids)  == [op |-> op, kids |-> kids, id |-> NoName, val |-> NoInt]
Id(n)           == [Node("id", << >>) EXCEPT !.id = n]
Const(v)        == [Node("const", << >>) EXCEPT !.val = v]
Paren(e)        == Node("()", <<e>>)
CallOf(f, args) == [Node("call", args) EXCEPT !.id = f]

ReadName  == <<"read", 0>>
WriteName == <<"write", 0>>

ArithOf == [op \in {"+", "-", "*", "/"} |->
               CASE op = "+" -> "Plus" [] op = "-" -> "Minus"
                 [] op = "*" -> "Mul"  [] op = "/" -> "Div"]
CompareOps == {"<", "<=", ">", ">=", "==", "!="}
LogicOps   == {"&&", "||"}

NewBuilder ==
    [cnt |-> 0, objs |-> 0, code |-> << >>, vars |-> << >>, res |-> Nullptr,
     funcs |-> << >>, funcVars |-> << >>, work |-> << >>, stop |-> ""]
Halt(b, why) == [b EXCEPT !.stop = why]

Insert(f, k, v) == IF k \in DOMAIN f THEN f ELSE Extend(f, k, v)

Create_Shared(b, t, n, v) == [b EXCEPT !.res = IRVar(b.objs, t, n, v)]

\* A new IRVar, as result.
Create(b, t, n, v) ==
    [b EXCEPT !.objs = @ + 1, !.res = IRVar(b.objs + 1, t, n, v)]

Count_Stuck(b) == b.cnt
Count(b) == b.cnt + 1
GetTmpLabel(b) ==
    [Create(b, "Label", <<"lb", b.cnt>>, NoInt) EXCEPT !.cnt = Count(b)]
GetTmpVar(b) ==
    [Create(b, "Variable", <<"tmp", b.cnt>>, NoInt) EXCEPT !.cnt = Count(b)]

-----------------------------------------------------------------------------
(* The stack of calls.                                                     *)

\* What is to be done, with which tree, and two locals.
Task(do, e, x, y) == [do |-> do, e |-> e, x |-> x, y |-> y]
Lower(e)          == Task("expr", e, Nullptr, Nullptr)
Test(e, lbt, lbf) == Task("cond", e, lbt, lbf)
Perform(s)        == Task("stmt", s, Nullptr, Nullptr)
Then(do, e)       == Task(do, e, Nullptr, Nullptr)
NoTree            == Node("", << >>)
Emit(op, x)       == Task(op, NoTree, x, Nullptr)

\* The calls that a method goes on with, in the place of its own entry.
Call(b, tasks) == [b EXCEPT !.work = tasks \o Tail(@)]

\* create...Stmt and push_back.
Push(b, s) ==
    IF Nullptr \in UsedBy(s) THEN Halt(b, "null operand")
    ELSE [b EXCEPT !.code = Append(@, s)]

\* Push as the last thing that a method does, and what it returns.
Finish(b, s)     == Push(Call(b, << >>), s)
Answer(b, s, x)  == [Finish(b, s) EXCEPT !.res = x]

-----------------------------------------------------------------------------
(* Expressions.                                                            *)

\* The arguments of a call are pushed one by one, as they are evaluated.
CallExpr(b, e) ==
    LET t == GetTmpVar(b)
    IN  CASE e.id = WriteName ->
                Call(b, <<Lower(e.kids[1]), Then("write", NoTree)>>)
          [] e.id = ReadName -> Finish(t, Stmt1("Read", t.res))
          [] e.id \notin {ReadName, WriteName} /\ e.id \notin DOMAIN b.funcVars ->
                Halt(b, "unknown function")
          [] OTHER ->
                Call(t, [i \in DOMAIN e.kids |-> Then("arg", e.kids[i])] \o
                        <<Task("invoke", NoTree, t.res, b.funcVars[e.id])>>)

\* Jumps to lbt or lbf.  A condition that is no comparison, conjunction,
\* disjunction or negation leaves no code at all.  That goes for a comma as
\* well: its node has the two operands for children, and no operator.
CondExpr(b, e, lbt, lbf) ==
    LET lb == GetTmpLabel(b)
    IN  CASE e.op = "!" /\ Len(e.kids) = 1 ->
                Call(b, <<Test(e.kids[1], lbf, lbt)>>)
          [] e.op \in CompareOps /\ Len(e.kids) = 2 ->
                Call(b, <<Lower(e.kids[1]), Task("test lhs", e, lbt, Nullptr),
                          Emit("Goto", lbf)>>)
          [] e.op \in LogicOps /\ Len(e.kids) = 2 ->
                Call(lb, <<IF e.op = "&&" THEN Test(e.kids[1], lb.res, lbf)
                           ELSE Test(e.kids[1], lbt, lb.res),
                           Emit("SetLabel", lb.res),
                           Test(e.kids[2], lbt, lbf)>>)
          [] e.op \notin CompareOps \cup LogicOps \cup {"call", "comma"} /\ Len(e.kids) = 2 ->
                Halt(b, "unsupported")
          [] OTHER -> Call(b, << >>)

\* A comparison or logical operator as a value: 0 or 1 by way of jumps, after
\* the operands have been lowered once already.
Boolean(b, e) ==
    LET lb1  == GetTmpLabel(b)
        lb2  == GetTmpLabel(lb1)
        res  == GetTmpVar(lb2)
        zero == Create(res, "Constant", NoName, Num(0))
    IN  Push(Call(zero, <<Test(e, lb1.res, lb2.res), Emit("SetLabel", lb1.res),
                          Emit("one", res.res), Emit("SetLabel", lb2.res),
                          Emit("result", res.res)>>),
             Stmt2("Assign", res.res, zero.res))

Negate(b) ==
    LET zero == Create(b, "Constant", NoName, Num(0))
        res  == GetTmpVar(zero)
    IN  Finish(res, Stmt3("Minus", res.res, zero.res, b.res))

\* The three ways on once both operands are lowered.
Combine(b, e, lhs) ==
    LET t == GetTmpVar(b)
    IN  CASE e.op = "=" /\ e.kids[1].op = "id" ->
                Answer(b, Stmt2("Assign", lhs, b.res), lhs)
          [] e.op \in DOMAIN ArithOf ->
                Finish(t, Stmt3(ArithOf[e.op], t.res, lhs, b.res))
          [] e.op \in CompareOps \cup LogicOps -> Boolean(b, e)
          [] OTHER -> Halt(b, "unsupported")

Exprs(b, e) ==
    CASE e.op = "call" -> CallExpr(b, e)
      [] e.op = "()" /\ Len(e.kids) = 1 -> Call(b, <<Lower(e.kids[1])>>)
      [] e.op = "const" -> Call(Create(b, "Constant", NoName, e.val), << >>)
      [] e.op = "id" ->
            IF e.id \in DOMAIN b.vars THEN [Call(b, << >>) EXCEPT !.res = b.vars[e.id]]
            ELSE Halt(b, "undeclared")
      [] e.op = "-" /\ Len(e.kids) = 1 ->
            Call(b, <<Lower(e.kids[1]), Then("negate", NoTree)>>)
      [] e.op \notin {"call", "const", "id", "comma"} /\ Len(e.kids) = 2 ->
            Call(b, <<Lower(e.kids[1]), Then("lhs", e)>>)
      [] OTHER -> Halt(b, "unsupported")

-----------------------------------------------------------------------------
(* Statements.  varMap belongs to the function: blocks have no scopes.     *)

Declare(b, s) ==
    LET var  == Create(b, "Variable", s.id, NoInt)
        decl == [var EXCEPT !.vars = Extend(b.vars, s.id, var.res)]
    IN  Call(decl, IF s.kids = << >> THEN << >>
                   ELSE <<Lower(s.kids[1]), Emit("init", var.res)>>)

DeclVar_Shadow(b, s) ==
    IF s.op = "pointer" THEN Halt(b, "unsupported") ELSE Declare(b, s)

DeclVar(b, s) ==
    CASE s.op = "pointer"                            -> Halt(b, "unsupported")
      [] s.op # "pointer" /\ s.id \in DOMAIN b.vars -> Halt(b, "redeclared")
      [] OTHER                                       -> Declare(b, s)

\* Label, test, label, body, jump back, label.
IterStmt(b, s) ==
    LET lb1 == GetTmpLabel(b)
        lb2 == GetTmpLabel(lb1)
        lb3 == GetTmpLabel(lb2)
    IN  Push(Call(lb3, <<Test(s.kids[1], lb2.res, lb3.res),
                         Emit("SetLabel", lb2.res), Perform(s.kids[2]),
                         Emit("Goto", lb1.res), Emit("SetLabel", lb3.res)>>),
             Stmt1("SetLabel", lb1.res))

SelStmt(b, s) ==
    LET lb1 == GetTmpLabel(b)
        lb2 == GetTmpLabel(lb1)
    IN  Call(lb2, <<Test(s.kids[1], lb1.res, lb2.res), Emit("SetLabel", lb1.res),
                    Perform(s.kids[2]),
                    Task(IF Len(s.kids) = 2 THEN "SetLabel" ELSE "else", s, lb2.res, Nullptr)>>)

\* The label behind the second branch is made when the first one is done.
ElseBranch(b, s, lb2) ==
    LET lb3 == GetTmpLabel(b)
    IN  Push(Call(lb3, <<Emit("SetLabel", lb2), Perform(s.kids[3]),
                         Emit("SetLabel", lb3.res)>>),
             Stmt1("Goto", lb3.res))

JumpStmt(b, s) ==
    IF s.op = "return" /\ s.kids # << >>
    THEN Call(b, <<Lower(s.kids[1]), Then("Return", NoTree)>>)
    ELSE Halt(b, "unsupported")

Stmts(b, s) ==
    CASE s.op = "block" -> Call(b, [i \in DOMAIN s.kids |-> Perform(s.kids[i])])
      [] s.op \in {"decl", "pointer"} -> DeclVar(b, s)
      [] s.op = "empty"               -> Call(b, << >>)
      [] s.op = "expr"                -> Call(b, <<Lower(s.kids[1])>>)
      [] s.op = "while"               -> IterStmt(b, s)
      [] s.op = "if"                  -> SelStmt(b, s)
      [] s.op \in {"return", "break"} -> JumpStmt(b, s)
      [] OTHER                        -> Halt(b, "unsupported")

-----------------------------------------------------------------------------
(* What a method does when a call it has made returns.                     *)

Operand(b, t) ==
    CASE t.do = "lhs"      -> Call(b, <<Lower(t.e.kids[2]), Task("combine", t.e, b.res, Nullptr)>>)
      [] t.do = "combine"  -> Combine(b, t.e, t.x)
      [] t.do = "test lhs" -> Call(b, <<Lower(t.e.kids[2]), Task("branch", t.e, b.res, t.x)>>)
      [] t.do = "branch"   -> Finish(b, BranchIf(t.e.op, t.x, b.res, t.y))
      [] t.do = "negate"   -> Negate(b)

Argument(b, t) ==
    CASE t.do = "arg"         -> Call(b, <<Lower(t.e), Then("PushCallArg", NoTree)>>)
      [] t.do = "PushCallArg" -> Finish(b, Stmt1("PushCallArg", b.res))
      [] t.do = "invoke"      -> Answer(b, Stmt2("InvokeFunc", t.x, t.y), t.x)
      [] t.do = "write"       -> Answer(b, Stmt1("Write", b.res), Nullptr)

Rest(b, t) ==
    LET one == Create(b, "Constant", NoName, Num(1))
    IN  CASE t.do \in {"SetLabel", "Goto"} -> Finish(b, Stmt1(t.do, t.x))
          [] t.do = "one"    -> Finish(one, Stmt2("Assign", t.x, one.res))
          [] t.do = "result" -> [Call(b, << >>) EXCEPT !.res = t.x]
          [] t.do = "init"   -> Finish(b, Stmt2("Assign", t.x, b.res))
          [] t.do = "Return" -> Finish(b, Stmt1("Return", b.res))
          [] t.do = "else"   -> ElseBranch(b, t.e, t.x)

-----------------------------------------------------------------------------
PopOrder_Pushed(n, i) == i

\* The i-th of n parameters to be popped: last first.
PopOrder(n, i) == n + 1 - i

\* Of two parameters of one name the map has the first.
Params(b, f) ==
    LET n     == Len(f.params)
        param == [i \in 1..n |-> IRVar(b.objs + i, "Variable", f.params[i], NoInt)]
        first == [m \in ToSet(f.params) |->
                     CHOOSE i \in 1..n : /\ f.params[i] = m
                                         /\ \A j \in 1..(i - 1) : f.params[j] # m]
    IN  [b EXCEPT !.objs = @ + n,
                  !.vars = [m \in ToSet(f.params) |-> param[first[m]]],
                  !.code = [i \in 1..n |-> Stmt1("PopCallArg", param[PopOrder(n, i)])]]

\* registerFunction: the function is known before its body is lowered.
RegisterFunction(b, f) ==
    LET v == Create(Params(b, f), "Function", f.name, NoInt)
    IN  [v EXCEPT !.funcVars = Insert(@, f.name, v.res),
                  !.work = <<Perform(f.body), Emit("function", v.res)>>]

\* currentFunc is complete; a function of the name that is there already stays.
FinishFunction(b, t) ==
    [Call(b, << >>) EXCEPT !.funcs = Insert(@, t.x.n, b.code)]

\* recParseAST: nothing but functions may stand at the top.
ExternDecl(b, d) ==
    IF d.kind = "func" THEN RegisterFunction(b, d) ELSE Halt(b, "unsupported")
=============================================================================
