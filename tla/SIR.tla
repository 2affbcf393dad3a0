-------------------------------- MODULE SIR --------------------------------
(***************************************************************************)
(* The statements of SIR, the three-address code that SIR/IR.hh declares,  *)
(* and what SIR/IR.cc prints of them.                                      *)
(*                                                                         *)
(* An IRVar is an object: the builder and the optimizer tell two of them   *)
(* apart by address (the field p), the printed program by name (n).  A     *)
(* name is a pair, so that <<"tmp", 3>> stands for tmp_3 whoever chose it. *)
(* AddrOf, Deref, CopyToAddr, Alloc and FuncDecl are never built.          *)
(***************************************************************************)
EXTENDS Integers, Sequences, FiniteSets, SequencesExt

NoInt   == << >>          \* the constant is a char or a floating number
Num(k)  == <<k>>
NoName  == <<"", 0>>

IRVar(p, t, n, v) == [p |-> p, t |-> t, n |-> n, v |-> v]
Nullptr    == IRVar(0, "nullptr", NoName, NoInt)
IsConst(x) == x.t = "Constant"

\* IRVar::getName: only the constants that are integers have a text.
Name(x) == IF IsConst(x) /\ x.v # NoInt THEN <<"#", x.v[1]>> ELSE x.n

Arith == {"Plus", "Minus", "Mul", "Div"}
Defines == Arith \cup {"Assign", "Read", "PopCallArg", "InvokeFunc"}

Stmt3(op, x, y, z) == [op |-> op, br |-> "", x |-> x, y |-> y, z |-> z]
Stmt2(op, x, y)    == Stmt3(op, x, y, Nullptr)
Stmt1(op, x)       == Stmt3(op, x, Nullptr, Nullptr)
BranchIf(br, x, y, label) ==
    [op |-> "BranchIf", br |-> br, x |-> x, y |-> y, z |-> label]

\* The operands that the create... methods dereference for setUsed().
UsedBy(s) ==
    CASE s.op \in {"Assign", "InvokeFunc"} -> {s.y}
      [] s.op \in Arith                    -> {s.y, s.z}
      [] s.op = "BranchIf"                 -> {s.x, s.y}
      [] OTHER                             -> {s.x}

\* operator<< for an IRStmt and an IRFunction: only names are left.
Line(s) == [op |-> s.op, br |-> s.br,
            x |-> Name(s.x), y |-> Name(s.y), z |-> Name(s.z)]
Text(code) == [i \in DOMAIN code |-> Line(code[i])]

Extend(f, k, v) == [i \in DOMAIN f \cup {k} |-> IF i = k THEN v ELSE f[i]]

\* Division of C++ ints.
Quotient(n, d) ==
    LET abs(k) == IF k < 0 THEN -k ELSE k
        q      == abs(n) \div abs(d)
    IN  IF (n < 0) = (d < 0) THEN q ELSE -q
Compute(op, n, d) ==
    CASE op = "Plus"  -> n + d
      [] op = "Minus" -> n - d
      [] op = "Mul"   -> n * d
      [] op = "Div"   -> Quotient(n, d)
Compares(br, n, d) ==
    CASE br = "<"  -> n < d
      [] br = "<=" -> n <= d
      [] br = ">"  -> n > d
      [] br = ">=" -> n >= d
      [] br = "==" -> n = d
      [] br = "!=" -> n # d
=============================================================================
