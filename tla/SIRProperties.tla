--------------------------- MODULE SIRProperties ---------------------------
(***************************************************************************)
(* SIR against C: what the printed program does and what the source does,  *)
(* and the causes in the source for which the compiler ends.  Both are     *)
(* compared by way of the interpreters of SIRMeaning, so TLC alone reads   *)
(* this module.                                                            *)
(***************************************************************************)
EXTENDS SIRMeaning, SIRCompiler

CONSTANT Inputs  \* what read() finds

-----------------------------------------------------------------------------
(* Syntax the properties speak of.                                         *)

RECURSIVE Subtrees(_), Declared(_), Bare(_)
Subtrees(t) == {t} \cup UNION {Subtrees(k) : k \in ToSet(t.kids)}
Functions(u) == {d \in ToSet(u) : d.kind = "func"}
TreesOf(u)     == UNION {Subtrees(d.body) : d \in Functions(u)}

\* The names a tree declares, each as often as it does.
Declared(t) == (IF t.op = "decl" THEN <<t.id>> ELSE << >>)
               \o FlattenSeq([i \in DOMAIN t.kids |-> Declared(t.kids[i])])

\* Without parentheses.
Bare(e) == IF e.op = "()" THEN Bare(e.kids[1]) ELSE e

IsTest(e) == e.op \in CompareOps \cup LogicOps

\* Places where C tests a value: conditions, and operands of ! && ||.
Tested(t) ==
    CASE t.op \in {"if", "while", "!"} -> {t.kids[1]}
      [] t.op \in LogicOps             -> ToSet(t.kids)
      [] OTHER                         -> {}

\* Places where the value of an expression is wanted.
Wanted(t) ==
    IF t.op \in {"()", "-", "=", "call", "decl", "return", "expr"}
                \cup DOMAIN ArithOf \cup CompareOps
    THEN ToSet(t.kids) ELSE {}

-----------------------------------------------------------------------------
(* Where SIR and C part.                                                   *)

\* CondExpr makes no jump for a condition that is no test.
SkipsTest(u) == \E t \in TreesOf(u) : \E e \in Tested(t) : ~IsTest(e) /\ e.op # "!"

\* A test whose value is wanted is lowered twice, both operands each time.
Effects(e) == \E t \in Subtrees(e) : t.op \in {"=", "call", "/"}
LoweredTwice(u) ==
    \E t \in TreesOf(u) : \E e \in Wanted(t) : IsTest(e) /\ Effects(e)

\* A constant that is no integer is printed as nothing.
NoText(u) == \E t \in TreesOf(u) : t.op = "const" /\ t.val = NoInt

\* A variable is printed as a temporary of its function is.
NameClash(code) ==
    \E i, j \in DOMAIN code :
        /\ code[i].op \in Defines
        /\ code[j].op \in Defines
        /\ code[i].x.n = code[j].x.n
        /\ code[i].x # code[j].x

Texts(fs) == [f \in DOMAIN fs |-> Text(fs[f])]
Agree(before, after) == before.st = "done" => after = before

-----------------------------------------------------------------------------
(* Why the compiler ends.                                                  *)

\* The variable whose IRVar is the value of an expression.
Denotes(e) ==
    LET x == Bare(e)
    IN  CASE x.op = "id" -> {x.id}
          [] x.op = "="  -> {y.id : y \in {z \in {x.kids[1]} : z.op = "id"}}
          [] OTHER       -> {}

Redeclares(u) == \E d \in Functions(u) :
    LET names == d.params \o Declared(d.body)
    IN  Len(names) # Cardinality(ToSet(names))
CallsEarly(u) == \E i \in DOMAIN u : \E t \in TreesOf(<<u[i]>>) :
    /\ t.op = "call" /\ t.id \notin {ReadName, WriteName}
    /\ \A j \in 1..i : u[j].kind # "func" \/ u[j].name # t.id
WantsWrite(u) == \E t \in TreesOf(u) : \E e \in Wanted(t) :
    t.op \notin {"expr", "()"} /\ Bare(e).op = "call" /\ Bare(e).id = WriteName
Unsupported(u) ==
    \/ \E d \in ToSet(u) : d.kind # "func"
    \/ \E t \in TreesOf(u) :
          \/ t.op \in {"%", "+=", "~", "pointer", "for", "do", "switch",
                      "label", "break"}
          \/ t.op = "=" /\ t.kids[1].op # "id"
          \/ t.op = "return" /\ t.kids = << >>
          \/ \E e \in Wanted(t) : e.op \in {"!", "comma"}
          \/ \E e \in Tested(t) : e.op \in DOMAIN ArithOf \cup {"="}
SameOperand(u) == \E t \in TreesOf(u) :
    /\ t.op \in DOMAIN ArithOf /\ Len(t.kids) = 2
    /\ Denotes(t.kids[1]) \cap Denotes(t.kids[2]) # {}
Divides(u) == \E t \in TreesOf(u) : t.op = "/"

BuildCauses == {"redeclared", "unknown function", "null operand", "unsupported"}
Cause(u, why) ==
    CASE why = "redeclared"       -> Redeclares(u)
      [] why = "unknown function" -> CallsEarly(u)
      [] why = "null operand"     -> WantsWrite(u)
      [] why = "unsupported"      -> Unsupported(u)
      [] why = "same operand"     -> SameOperand(u)
      [] why = "division by zero" -> Divides(u)
      [] why = "no integer"       -> NoText(u)
      [] OTHER                    -> FALSE

-----------------------------------------------------------------------------
(* Properties.                                                             *)

\* The SIR of a program reads, writes and returns what the program does in C,
\* on every input, but for the four differences named above (IRBuilder.cc).
BuilderAgrees ==
    phase = "made" =>
        \/ SkipsTest(source) \/ LoweredTwice(source) \/ NoText(source)
        \/ \E f \in DOMAIN funcs : NameClash(funcs[f])
        \/ LET t == Texts(funcs)
           IN  \A i \in Inputs : Agree(CMain(source, i), RunText(t, i))

\* What ends the compiler is in the source: a name declared twice in a function
\* (its blocks share one varMap), a call of a function defined further down,
\* the result of write, syntax without a lowering, or, for the optimizer, an
\* operator with one variable on both sides or a constant it cannot compute.
\* And the builder gets past none of the first four it reaches.
StopExplained ==
    /\ phase = "stopped" => Cause(source, stop)
    /\ phase = "made" /\ ~SkipsTest(source) =>
          \A why \in BuildCauses : ~Cause(source, why)
    /\ phase = "optimize" /\ todo = {} /\ ~SkipsTest(source) =>
          ~SameOperand(source)

\* A printed name with two statements that give it a value.
AssignedTwice(code) ==
    \E i, j \in DOMAIN code :
        /\ i # j
        /\ code[i].op \in Defines /\ code[j].op \in Defines
        /\ code[i].x.n = code[j].x.n
HasLabels(code) == \E s \in ToSet(code) : s.op = "SetLabel"

\* Each pass of the optimizer keeps what the program does, with the exceptions
\* its dependences overlook: copies in a function that assigns a name twice, and
\* the removal of statements of such a function if it has branches or prints two
\* variables alike (examineStmt, which reads a function as one straight line).
OptimizerAgrees ==
    [][\A f \in todo :
          LET code == funcs[f]
              same == \A i \in Inputs :
                         Agree(RunText(Texts(funcs), i), RunText(Texts(funcs'), i))
          IN  /\ PropagateConstants(f) /\ stop' = "" => AssignedTwice(code) \/ same
              /\ RemoveUnused(f) => \/ AssignedTwice(code) /\ HasLabels(code)
                                    \/ NameClash(code)
                                    \/ same
      ]_vars
=============================================================================
