---------------------------- MODULE ExprCodeGen ----------------------------
(***************************************************************************)
(* The lowering of expressions by ObjBuilder (CGGeneralExprDispatch and    *)
(* the methods it dispatches to, modules/splc/src/CodeGen/ObjBuilder.cc).  *)
(*                                                                         *)
(* The code of an expression has no branches: even && and || become a      *)
(* select.  Emitting an instruction is therefore modelled by executing it  *)
(* on the memory of one run of the compiled function (omem, oout), next to *)
(* what C says the same expression does (smem, sout).  frames is the C++   *)
(* call stack of the CG... methods, and TLC chooses the expression one     *)
(* node at a time, in the order in which the methods reach it.             *)
(*                                                                         *)
(* An int has W bits here and a char B.  Floating point takes the same     *)
(* paths with the other instruction of each pair, and is left out.         *)
(***************************************************************************)
EXTENDS Integers, Sequences, FiniteSets

CONSTANTS
    Vars,       \* local variables of type int
    Globals,    \* global variables
    NoVar,      \* the node is not an identifier
    W,          \* width of an int, and of the i32 that holds it
    B,          \* width of a char, and of the bytes that make up an int
    Literals,   \* integer literals
    Chars,      \* character literals
    InitVals,   \* values the variables may have at first
    CoreOps,    \* bound: the operators that three of may be combined
    MaxCost,    \* bound: cost of the operators in one run
    MaxStmts    \* bound: expressions lowered in one run

ASSUME NoVarIsNone == NoVar \notin Vars
ASSUME WidthsAreSane == B \in Nat /\ W \in Nat /\ 1 < B /\ B < W
ASSUME BoundsAreNumbers == MaxCost \in Nat /\ MaxStmts \in Nat

VARIABLES
    phase,      \* "rest", "down" (a dispatch is called), "up" (it returned),
                \* "crashed" (a null pointer was used), "asserted"
    frames,     \* the methods that wait for an operand, innermost last
    ret,        \* what the last dispatch returned
    smem, omem, \* the variables, by C and by the generated code
    sout, oout, \* the arguments of the calls made so far, likewise
    logged,     \* an error was logged
    rejected,   \* llvm::verifyFunction will not accept an instruction
    sUndef,     \* C gives the expression no meaning
    oTrap,      \* the generated code divides by zero
    odd,        \* known differences between the code and C met so far
    used,       \* the sorts of operators and operands lowered so far
    cost, nStmts

flow  == <<phase, frames, ret>>
mems  == <<smem, omem>>
outs  == <<sout, oout>>
flags == <<logged, rejected, sUndef, oTrap, odd>>
vars  == <<flow, mems, outs, flags, used, cost, nStmts>>

-----------------------------------------------------------------------------
(* Machine integers: w-bit values, read as two's complement.               *)

\* 2^n, as a function so that facts about it can be proved.
Pow2[n \in Nat] == IF n = 0 THEN 1 ELSE 2 * Pow2[n - 1]

Words(w) == 0..Pow2[w] - 1

Signed(v, w)   == IF v < Pow2[w - 1] THEN v ELSE v - Pow2[w]
Unsigned(n, w) == n % Pow2[w]

\* The bitwise operators, bit by bit from the lowest of n.
BitOps == {"&", "|", "^"}
OnBits(op, p, q) ==
    IF CASE op = "&" -> p = 1 /\ q = 1
         [] op = "|" -> p = 1 \/ q = 1
         [] op = "^" -> p # q
    THEN 1 ELSE 0

Bitwise[n \in Nat] ==
    [op \in BitOps |-> [a \in Nat |-> [b \in Nat |->
        IF n = 0 THEN 0
        ELSE OnBits(op, a % 2, b % 2) + 2 * Bitwise[n - 1][op][a \div 2][b \div 2]]]]

\* Division that truncates toward zero, of C and of sdiv.
Abs(n)     == IF n < 0 THEN -n ELSE n
Quot(n, d) == IF (n < 0) = (d < 0) THEN Abs(n) \div Abs(d)
              ELSE -(Abs(n) \div Abs(d))

Traps(op, a, b, w) ==
    /\ op \in {"/", "%"}
    /\ b = 0 \/ (a = Pow2[w - 1] /\ b = Pow2[w] - 1)
Meaningless(op, a, b, w) ==
    Traps(op, a, b, w) \/ (op \in {"<<", ">>"} /\ b >= w)

\* What C defines for a op b on ints.
CArith(op, a, b, w) ==
    LET n == Signed(a, w)
        d == Signed(b, w)
    IN  IF Meaningless(op, a, b, w) THEN 0 ELSE
        CASE op = "+"  -> Unsigned(n + d, w)
          [] op = "-"  -> Unsigned(n - d, w)
          [] op = "*"  -> Unsigned(n * d, w)
          [] op = "/"  -> Unsigned(Quot(n, d), w)
          [] op = "%"  -> Unsigned(n - d * Quot(n, d), w)
          [] op = "<<" -> Unsigned(n * Pow2[b], w)
          [] op = ">>" -> Unsigned(n \div Pow2[b], w)
          [] op \in BitOps -> Bitwise[w][op][a][b]

CCompare(op, a, b, w) ==
    LET n == Signed(a, w)
        d == Signed(b, w)
    IN  CASE op = "<"  -> n < d
          [] op = "<=" -> n <= d
          [] op = ">"  -> n > d
          [] op = ">=" -> n >= d
          [] op = "==" -> n = d
          [] op = "!=" -> n # d

Bit(p) == IF p THEN 1 ELSE 0

ArithOps  == {"+", "-", "*", "/", "%", "<<", ">>", "&", "|", "^"}
CondOps   == {"<", "<=", ">", ">=", "==", "!="}
LogicOps  == {"&&", "||"}
AssignOps == ArithOps \cup {"="}
UnaryOps  == {"+", "-", "~", "!"}
StepOps   == {"++", "--"}

-----------------------------------------------------------------------------
(* LLVM values.                                                            *)

Types   == {"i1", "i8", "i32", "i64", "null"}
Bits(t) == CASE t = "i1" -> 1 [] t = "i8" -> B [] OTHER -> W

\* What a dispatch returns: the C value, and the llvm::Value (type "null" is
\* nullptr).  id is the variable when the node is an identifier; const tells
\* an llvm::Constant, which IRBuilder folds without making an instruction.
Result(src, ty, val, const) ==
    [id |-> NoVar, src |-> src, ty |-> ty, val |-> Unsigned(val, Bits(ty)),
     const |-> const]
Null       == Result(0, "null", 0, FALSE)
IsNull(r)  == r.ty = "null"
IsNarrow(r) == r.ty \in {"i1", "i8"}

\* The instructions of CGBinaryArithExpr and CGAssignExpr.
ShiftRight(a, b, w) == a \div Pow2[b]   \* CreateLShr

SDiv(a, b, w) == IF Unsigned(b, w) = 0 THEN 0
                 ELSE Unsigned(Quot(Signed(a, w), Signed(Unsigned(b, w), w)), w)

Remainder(a, b, w) == Unsigned(a - b * SDiv(a, b, w), w)

OArith(op, a, b, w) ==
    IF Meaningless(op, a, b, w) THEN 0 ELSE
    CASE op = "+"  -> Unsigned(a + b, w)
      [] op = "-"  -> Unsigned(a - b, w)
      [] op = "*"  -> Unsigned(a * b, w)
      [] op = "/"  -> SDiv(a, b, w)
      [] op = "%"  -> Remainder(a, b, w)
      [] op = "<<" -> Unsigned(a * Pow2[b], w)
      [] op = ">>" -> ShiftRight(a, b, w)
      [] op \in BitOps -> Bitwise[w][op][a][b]

\* Mutant of Stored: the narrow value is put after the old one.
Stored_Appended(old, r) ==
    IF r.ty \in {"i1", "i8"} THEN old * Pow2[B] + r.val ELSE r.val

\* CreateStore of a value into the bytes of a variable: a narrow value leaves
\* the rest of the variable as it was.
Stored(old, r) ==
    IF IsNarrow(r) THEN (old \div Pow2[B]) * Pow2[B] + r.val ELSE r.val

-----------------------------------------------------------------------------
(* Frames.                                                                 *)

Kinds == {"stmt", "paren", "unary", "prefix", "postfix", "arith",
          "compare", "logic", "assign", "call"}

\* left is the operand already lowered.  live: C evaluates this expression.
\* right: C evaluates the operand being lowered.
Frame(kind, op, live) ==
    [kind |-> kind, op |-> op, live |-> live, right |-> live, left |-> << >>]

Top   == frames[Len(frames)]
Below == SubSeq(frames, 1, Len(frames) - 1)

\* C evaluates the expression that is dispatched next.
LiveNow == Top.right

Return(r) ==
    /\ phase' = "up"
    /\ ret' = r
    /\ frames' = Below

\* A leaf has no frame of its own.
Answer(r) ==
    /\ phase' = "up"
    /\ ret' = r
    /\ UNCHANGED frames

Stop(how) ==
    /\ phase' = how
    /\ UNCHANGED <<frames, ret, mems, outs, flags, used, cost, nStmts>>

\* What the lexer and the program hand over: literals of any size, characters
\* of a signed char, variables with a value of an int.
ASSUME InputsFit ==
    /\ Literals \subseteq Nat
    /\ Chars \subseteq -Pow2[B - 1]..Pow2[B - 1] - 1
    /\ InitVals \subseteq Words(W)

Init ==
    /\ phase = "rest"
    /\ frames = << >>
    /\ ret = Null
    /\ smem \in [Vars -> InitVals]
    /\ omem = smem
    /\ sout = << >> /\ oout = << >>
    /\ logged = FALSE /\ rejected = FALSE
    /\ sUndef = FALSE /\ oTrap = FALSE
    /\ odd = {} /\ used = {}
    /\ cost = 0 /\ nStmts = 0

-----------------------------------------------------------------------------
(* Leaves.                                                                 *)

\* A statement calls CGGeneralExprDispatch on its expression.  Which kind of
\* statement it is makes no difference before the expression is lowered.
Begin ==
    /\ phase = "rest"
    /\ nStmts < MaxStmts      \* bound
    /\ nStmts' = nStmts + 1
    /\ phase' = "down"
    /\ frames' = <<Frame("stmt", "", TRUE)>>
    /\ UNCHANGED <<ret, mems, outs, flags, used, cost>>

\* Mutant of IntLiteral: the literal keeps the 64 bits the lexer gives it.
IntLiteral_Wide(n) ==
    /\ phase = "down"
    /\ Answer(Result(Unsigned(n, W), "i64", n, TRUE))
    /\ UNCHANGED <<mems, outs, flags, used, cost, nStmts>>

\* CGConstant: an int literal is an i32 whatever its type, a char an i8.  C
\* gives a literal that no int holds another type.
IntLiteral(n) ==
    /\ phase = "down"
    /\ Answer(Result(Unsigned(n, W), "i32", n, TRUE))
    /\ odd' = IF n < Pow2[W - 1] THEN odd ELSE odd \cup {"literal"}
    /\ UNCHANGED <<mems, outs, logged, rejected, sUndef, oTrap, used, cost, nStmts>>

CharLiteral(c) ==
    /\ phase = "down"
    /\ Answer(Result(Unsigned(c, W), "i8", c, TRUE))
    /\ used' = used \cup {"char"}
    /\ UNCHANGED <<mems, outs, flags, cost, nStmts>>

\* CGExprID: a load.
Identifier(v) ==
    /\ phase = "down"
    /\ Answer([Result(smem[v], "i32", omem[v], FALSE) EXCEPT !.id = v])
    /\ UNCHANGED <<mems, outs, flags, used, cost, nStmts>>

\* CGExprID: a global variable has no storage, and CreateLoad gets no type.
GlobalIdentifier ==
    /\ phase = "down" /\ Globals # {}
    /\ phase' = "crashed"
    /\ used' = used \cup {"global"}
    /\ UNCHANGED <<frames, ret, mems, outs, flags, cost, nStmts>>

\* Mutant of Unsupported: nullptr without an error.
Unsupported_Silent ==
    /\ phase = "down"
    /\ Answer(Null)
    /\ UNCHANGED <<mems, outs, flags, used, cost, nStmts>>

\* String literals, casts, sizeof, the conditional and the comma operator,
\* subscripts, members, addresses and a wrong number of arguments: an error
\* is logged and the operands are not visited.
Unsupported ==
    /\ phase = "down"
    /\ logged' = TRUE
    /\ Answer(Null)
    /\ UNCHANGED <<mems, outs, rejected, sUndef, oTrap, odd, used, cost, nStmts>>

\* The sorts of nodes that used keeps.
Sorts == {"compare", "logic", "!", "char", "prefix", "proc", "global"}

Cost(op) == IF op \in CoreOps THEN 2 ELSE 3

\* A method that dispatches its first operand.
Enter(kind, op) ==
    /\ phase = "down"
    /\ cost + Cost(op) <= MaxCost   \* bound
    /\ cost' = cost + Cost(op)
    /\ frames' = Append(frames, Frame(kind, op, LiveNow))
    /\ used' = used \cup ({kind, op} \cap Sorts)
    /\ UNCHANGED <<phase, ret, mems, outs, flags, nStmts>>

-----------------------------------------------------------------------------
(* Methods with one operand.                                               *)

AtOperand(kind) == phase = "up" /\ Top.kind = kind

\* Mutant of Paren: the expression itself is dispatched, not its child.
Paren_Itself ==
    /\ AtOperand("paren")
    /\ phase' = "down"
    /\ UNCHANGED <<frames, ret, mems, outs, flags, used, cost, nStmts>>

\* CGPrimaryExpr of a parenthesised expression.
Paren ==
    /\ AtOperand("paren")
    /\ Return([ret EXCEPT !.id = NoVar])
    /\ UNCHANGED <<mems, outs, flags, used, cost, nStmts>>

UnaryResult(op, r) ==
    LET w == Bits(r.ty)
    IN  CASE op = "-" -> Result(Unsigned(-r.src, W), r.ty, Unsigned(-r.val, w), r.const)
          [] op = "~" -> Result(Pow2[W] - 1 - r.src, r.ty, Pow2[w] - 1 - r.val, r.const)
          [] op = "!" -> Result(Bit(r.src = 0), "i1", Bit(r.val = 0), r.const)
          [] op = "+" -> [r EXCEPT !.id = NoVar]

\* CGUnaryExpr: only + lets a null operand pass.
Unary ==
    /\ AtOperand("unary")
    /\ IF IsNull(ret) /\ Top.op # "+"
       THEN Stop("crashed")
       ELSE /\ Return(UnaryResult(Top.op, ret))
            /\ odd' = IF IsNarrow(ret) /\ Top.op \in {"-", "~"}
                      THEN odd \cup {"narrow"} ELSE odd
            /\ UNCHANGED <<mems, outs, logged, rejected, sUndef, oTrap, used,
                           cost, nStmts>>

StepOp(op) == IF op = "++" THEN "+" ELSE "-"

\* CGUnaryExpr for ++ and --: the 1 that is added is an i64, so that LLVM
\* rejects the addition, and the sum is not stored.
Prefix ==
    /\ AtOperand("prefix")
    /\ IF IsNull(ret) THEN Stop("crashed") ELSE
       LET v   == ret.id
           new == CArith(StepOp(Top.op), ret.src, 1, W)
       IN  /\ Return(Result(new, ret.ty,
                      OArith(StepOp(Top.op), ret.val, 1, Bits(ret.ty)), ret.const))
           /\ smem' = IF Top.live /\ v \in Vars THEN [smem EXCEPT ![v] = new]
                      ELSE smem
           /\ rejected' \in (IF ret.const THEN {rejected, TRUE} ELSE {TRUE})
           /\ odd' = odd \cup {"prefix"}
           /\ sUndef' = (sUndef \/ v \notin Vars)
           /\ UNCHANGED <<omem, outs, logged, oTrap, used, cost, nStmts>>

\* What is odd about an effect of the code: C does not have it.
Effect(live) == IF live THEN {} ELSE {"skipped"}

\* CGPostfixExpr: the operand must be an identifier, by an assertion.
Postfix ==
    /\ AtOperand("postfix")
    /\ IF ret.id \notin Vars THEN Stop("asserted") ELSE
       LET op == StepOp(Top.op)
       IN  /\ Return([ret EXCEPT !.id = NoVar])
           /\ smem' = IF Top.live
                      THEN [smem EXCEPT ![ret.id] = CArith(op, ret.src, 1, W)]
                      ELSE smem
           /\ omem' = [omem EXCEPT ![ret.id] = OArith(op, ret.val, 1, W)]
           /\ odd' = odd \cup Effect(Top.live)
           /\ UNCHANGED <<outs, logged, rejected, sUndef, oTrap, used, cost, nStmts>>

\* CGCallExpr, with the one argument lowered.  "proc" is a void function.
Call ==
    /\ AtOperand("call")
    /\ IF IsNull(ret) THEN Stop("crashed") ELSE
       /\ Return(IF Top.op = "proc" THEN Null
                 ELSE Result(ret.src, "i32", ret.val, FALSE))
       /\ sout' = IF Top.live THEN Append(sout, ret.src) ELSE sout
       /\ oout' = Append(oout, ret.val)
       /\ rejected' = (rejected \/ ret.ty # "i32")
       /\ odd' = odd \cup Effect(Top.live)
       /\ UNCHANGED <<mems, logged, sUndef, oTrap, used, cost, nStmts>>

-----------------------------------------------------------------------------
(* Methods with two operands.                                              *)

TwoOperands == {"arith", "compare", "logic", "assign"}

\* Whether C goes on to the right operand.
RightIsLive(f, left) ==
    /\ f.live
    /\ f.kind = "logic" => (f.op = "&&") = (left.src # 0)

\* The left operand is lowered.  A method lowers the right one in any case.
LeftDone ==
    /\ phase = "up" /\ Top.kind \in TwoOperands /\ Top.left = << >>
    /\ phase' = "down"
    /\ frames' = [frames EXCEPT ![Len(frames)].left = <<ret>>,
                                ![Len(frames)].right = RightIsLive(Top, ret)]
    /\ UNCHANGED <<ret, mems, outs, flags, used, cost, nStmts>>

AtRight(kind) == AtOperand(kind) /\ Top.left # << >>
Left          == Top.left[1]
OneIsNull     == IsNull(Left) \/ IsNull(ret)

\* An instruction whose operands differ in type is rejected.  What IRBuilder
\* folds two such constants to is not defined.
Rejection(fits) ==
    IF fits THEN {rejected}
    ELSE IF Left.const /\ ret.const THEN {rejected, TRUE} ELSE {TRUE}
Mixed(fits) == IF fits THEN {} ELSE {"mixed"}
SameType    == Left.ty = ret.ty

OddArith(op) ==
    LET narrow == IF op \notin {"&", "|", "^"} /\ (IsNarrow(Left) \/ IsNarrow(ret))
                  THEN {"narrow"} ELSE {}
        shift  == IF op = ">>" /\ Signed(Left.src, W) < 0 THEN {"shift"} ELSE {}
        trap   == IF Traps(op, Left.val, ret.val, Bits(Left.ty))
                  THEN Effect(Top.live) ELSE {}
    IN  odd \cup narrow \cup shift \cup trap \cup Mixed(SameType)

\* What evaluating op on the two operands says about the run.
ArithFlags(op) ==
    /\ rejected' \in Rejection(SameType)
    /\ sUndef' = (sUndef \/ (Top.live /\ Meaningless(op, Left.src, ret.src, W)))
    /\ oTrap' = (oTrap \/ Traps(op, Left.val, ret.val, Bits(Left.ty)))
    /\ odd' = OddArith(op) \cup (IF Top.kind = "assign" THEN Effect(Top.live) ELSE {})

\* CGBinaryArithExpr.
BinaryArith ==
    /\ AtRight("arith")
    /\ IF OneIsNull THEN Stop("crashed") ELSE
       /\ Return(Result(CArith(Top.op, Left.src, ret.src, W), Left.ty,
                 OArith(Top.op, Left.val, ret.val, Bits(Left.ty)),
                 Left.const /\ ret.const))
       /\ ArithFlags(Top.op)
       /\ UNCHANGED <<mems, outs, logged, used, cost, nStmts>>

\* CGBinaryCondExpr, the comparisons: signed, with an i1 result.
CompareResult(op, l, r) ==
    Result(Bit(CCompare(op, l.src, r.src, W)), "i1",
           Bit(CCompare(op, l.val, r.val, Bits(l.ty))), l.const /\ r.const)

Compare ==
    /\ AtRight("compare")
    /\ IF OneIsNull THEN Stop("crashed") ELSE
       /\ Return(CompareResult(Top.op, Left, ret))
       /\ rejected' \in Rejection(SameType)
       /\ odd' = odd \cup Mixed(SameType)
                     \cup (IF Left.ty = "i1" /\ Top.op \notin {"==", "!="}
                           THEN {"narrow"} ELSE {})
       /\ UNCHANGED <<mems, outs, logged, sUndef, oTrap, used, cost, nStmts>>

\* CGBinaryCondExpr, && and ||: CreateLogicalAnd and CreateLogicalOr select
\* between the right operand and a constant of its type, on the left one.
LogicSource(op, l, r) ==
    IF op = "&&" THEN Bit(l.src # 0 /\ r.src # 0) ELSE Bit(l.src # 0 \/ r.src # 0)

\* Mutant of LogicSelect: the constants of the two selects are swapped.
LogicSelect_Swapped(op, l, r) ==
    IF op = "&&" THEN IF l.val = 1 THEN r.val ELSE Pow2[Bits(r.ty)] - 1
    ELSE IF l.val = 1 THEN 0 ELSE r.val

LogicSelect(op, l, r) ==
    IF op = "&&" THEN IF l.val = 1 THEN r.val ELSE 0
    ELSE IF l.val = 1 THEN Pow2[Bits(r.ty)] - 1 ELSE r.val

Logic ==
    /\ AtRight("logic")
    /\ IF OneIsNull THEN Stop("crashed") ELSE
       LET fits == Left.ty = "i1"
       IN  /\ Return(Result(LogicSource(Top.op, Left, ret), ret.ty,
                     LogicSelect(Top.op, Left, ret), Left.const /\ ret.const))
           /\ rejected' \in Rejection(fits)
           /\ odd' = odd \cup Mixed(fits)
                         \cup (IF ret.ty # "i1" THEN {"select"} ELSE {})
           /\ UNCHANGED <<mems, outs, logged, sUndef, oTrap, used, cost, nStmts>>

NarrowStore(r) == IF IsNarrow(r) THEN {"narrowStore"} ELSE {}

\* CGAssignExpr: the operation, the store, and a new load.  The variable is
\* found by an assertion on the left operand.
Assign ==
    /\ AtRight("assign")
    /\ LET op    == Top.op
           plain == op = "="
           v     == Left.id
           src   == IF plain THEN ret.src ELSE CArith(op, Left.src, ret.src, W)
           val   == IF plain THEN ret
                    ELSE Result(src, Left.ty, OArith(op, Left.val, ret.val, W), FALSE)
       IN  IF (~plain /\ OneIsNull) \/ (v \in Vars /\ IsNull(ret))
           THEN Stop("crashed")
           ELSE IF v \notin Vars THEN Stop("asserted") ELSE
           /\ smem' = IF Top.live THEN [smem EXCEPT ![v] = src] ELSE smem
           /\ omem' = [omem EXCEPT ![v] = Stored(omem[v], val)]
           /\ Return(Result(src, "i32", omem'[v], FALSE))
           /\ IF plain
              THEN /\ odd' = odd \cup NarrowStore(ret) \cup Effect(Top.live)
                   /\ UNCHANGED <<rejected, sUndef, oTrap>>
              ELSE ArithFlags(op)
           /\ UNCHANGED <<outs, logged, used, cost, nStmts>>

-----------------------------------------------------------------------------
(* Statements, when the value of their expression is there.                *)

AtEnd == AtOperand("stmt") /\ phase' = "rest" /\ frames' = << >>

\* CGExprStmt drops the value, nullptr or not.
EndExprStmt ==
    /\ AtEnd
    /\ UNCHANGED <<ret, mems, outs, flags, used, cost, nStmts>>

\* CGInitDecltr, CGIfStmt and CGWhileStmt use the value.
NullAtEnd == AtOperand("stmt") /\ IsNull(ret) /\ Stop("crashed")

\* CGInitDecltr stores it.
EndInit(v) ==
    /\ AtEnd /\ ~IsNull(ret)
    /\ smem' = [smem EXCEPT ![v] = ret.src]
    /\ omem' = [omem EXCEPT ![v] = Stored(@, ret)]
    /\ odd' = odd \cup NarrowStore(ret)
    /\ UNCHANGED <<ret, outs, logged, rejected, sUndef, oTrap, used, cost, nStmts>>

\* CGIfStmt and CGWhileStmt branch on a comparison with 0.
EndTest ==
    /\ AtEnd /\ ~IsNull(ret)
    /\ sout' = Append(sout, Bit(ret.src # 0))
    /\ oout' = Append(oout, Bit(ret.val # 0))
    /\ UNCHANGED <<ret, mems, flags, used, cost, nStmts>>

\* CGReturnStmt, in a function that returns int: nullptr makes a ret void.
EndReturn ==
    /\ AtEnd
    /\ sout' = Append(sout, ret.src)
    /\ oout' = Append(oout, ret.val)
    /\ rejected' = (rejected \/ ret.ty # "i32")
    /\ UNCHANGED <<ret, mems, logged, sUndef, oTrap, odd, used, cost, nStmts>>

-----------------------------------------------------------------------------
Leaf ==
    \/ \E n \in Literals : IntLiteral(n)
    \/ \E c \in Chars : CharLiteral(c)
    \/ \E v \in Vars : Identifier(v)
    \/ GlobalIdentifier
    \/ Unsupported

Node ==
    \/ Enter("paren", "()")
    \/ \E op \in UnaryOps : Enter("unary", op)
    \/ \E op \in StepOps : Enter("prefix", op) \/ Enter("postfix", op)
    \/ \E op \in ArithOps : Enter("arith", op)
    \/ \E op \in CondOps : Enter("compare", op)
    \/ \E op \in LogicOps : Enter("logic", op)
    \/ \E op \in AssignOps : Enter("assign", op)
    \/ \E f \in {"func", "proc"} : Enter("call", f)

Combine ==
    \/ Paren \/ Unary \/ Prefix \/ Postfix \/ Call
    \/ LeftDone \/ BinaryArith \/ Compare \/ Logic \/ Assign
    \/ EndExprStmt \/ NullAtEnd \/ (\E v \in Vars : EndInit(v))
    \/ EndTest \/ EndReturn

\* The steps the builder takes by itself once a statement has been begun.
Lower == Leaf \/ Node \/ Combine

Next == Begin \/ Lower

Spec == Init /\ [][Next]_vars

\* The builder is sequential: a method that was called runs on.
FairSpec == Spec /\ WF_vars(Lower)

-----------------------------------------------------------------------------
TypeOK ==
    /\ phase \in {"rest", "down", "up", "crashed", "asserted"}
    /\ \A i \in 1..Len(frames) :
         /\ frames[i].kind \in Kinds
         /\ (frames[i].kind = "stmt") = (i = 1)
         /\ frames[i].live \in BOOLEAN /\ frames[i].right \in BOOLEAN
         /\ Len(frames[i].left) \in 0..1
    /\ (phase = "rest") => frames = << >>
    /\ ret.ty \in Types /\ ret.val \in Words(Bits(ret.ty))
    /\ ret.src \in Words(W)
    /\ smem \in [Vars -> Words(W)] /\ omem \in [Vars -> Words(W)]
    /\ {logged, rejected, sUndef, oTrap} \subseteq BOOLEAN
    /\ odd \subseteq {"narrow", "prefix", "skipped", "mixed", "shift", "select",
                      "narrowStore", "literal"}
    /\ used \subseteq Sorts
    /\ cost \in 0..MaxCost /\ nStmts \in 0..MaxStmts

\* Nothing happened that makes the compiled function differ from C.
Faithful == ~logged /\ ~rejected /\ ~sUndef /\ odd = {}

\* What the compiled function does is what C says: the variables, the calls
\* with their arguments and order, and the branches agree at every step, and
\* no division traps, unless an error was logged, LLVM rejected the function,
\* or one of the eight differences listed by odd was met.  (The methods of
\* ObjBuilder lower operands in one fixed order; see CGAssignExpr.)
AgreesWithC ==
    Faithful => /\ smem = omem
                /\ sout = oout
                /\ ~oTrap

\* A null llvm::Value is used only when an error was logged before, or the
\* value of a void function or a global variable is used: the two uses that
\* nothing diagnoses (CGCallExpr, CGExprID).
CrashExplained ==
    phase = "crashed" => logged \/ used \cap {"proc", "global"} # {}

\* LLVM rejects an expression only for a value narrower than an int, a
\* prefix ++ or --, a logical operator on ints, or a return without value.
RejectionExplained ==
    rejected => \/ logged
                \/ used \cap {"compare", "logic", "!", "char", "prefix", "proc"} # {}

\* Lowering an expression ends: every method that was called returns, or
\* stops the compiler.
LoweringEnds == phase = "down" ~> phase \in {"rest", "crashed", "asserted"}
=============================================================================
