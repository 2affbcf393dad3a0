------------------------- MODULE SIRCompilerProofs -------------------------
(***************************************************************************)
(* Theorems about SIRCompiler, for every set of programs and every order   *)
(* of their functions: the SIR is well typed with one object per address,  *)
(* every jump leads to one place of its own function, in what the builder  *)
(* makes and in what the optimizer leaves of it, the optimizer keeps what  *)
(* can be observed of a function, and it refuses a function for a cause.   *)
(*                                                                         *)
(* While a function is lowered, a label may be used whose place no code    *)
(* has yet, since a call that is still to be made will set it.  The        *)
(* inductive invariant therefore speaks of the code and of the stack of    *)
(* calls together: each label is set once by one of the two, what either   *)
(* jumps to is set by one of the two, and no function that is complete     *)
(* sets a label of theirs.                                                 *)
(***************************************************************************)
EXTENDS SIRCompiler, FiniteSetTheorems, WellFoundedInduction, TLAPS

-----------------------------------------------------------------------------
(* The inductive invariant.                                                *)

TreeTasks == {"stmt", "expr", "cond", "arg", "lhs", "combine", "test lhs", "branch", "else"}
DoTasks   == TreeTasks \cup {"PushCallArg", "invoke", "write", "negate", "SetLabel", "Goto",
                             "one", "result", "init", "Return", "function"}
Tasks     == [do : DoTasks, e : Trees \cup {NoTree}, x : IRVars, y : IRVars]

\* What the methods that go on later need of their trees.
TaskOK(t) ==
    /\ t.do \in TreeTasks => t.e \in Trees
    /\ t.do \in {"lhs", "combine", "test lhs"} => Len(t.e.kids) = 2
    /\ t.do \in {"test lhs", "branch"} => t.e.op \in CompareOps
    /\ t.do = "else" => Len(t.e.kids) = 3
    /\ t.do = "function" => t.x.n \in ToSet(FuncOrder)

Shaped(c) ==
    c = [cnt |-> c.cnt, objs |-> c.objs, code |-> c.code, vars |-> c.vars,
         res |-> c.res, funcs |-> c.funcs, funcVars |-> c.funcVars,
         work |-> c.work, stop |-> c.stop]

BuilderTyped(c) ==
    /\ Shaped(c)
    /\ c.cnt \in Nat /\ c.objs \in Nat
    /\ c.code \in Seq(Statements)
    /\ c.work \in Seq(Tasks)
    /\ DOMAIN c.funcs \subseteq ToSet(FuncOrder)
    /\ \A f \in DOMAIN c.funcs : c.funcs[f] \in Seq(Statements)

\* The function that is being lowered is the outermost call.
StackOK(work) == \A i \in DOMAIN work : /\ TaskOK(work[i])
                                        /\ work[i].do = "function" <=> i = Len(work)

\* The objects that the builder can still reach.
Held(c) ==
    {Nullptr, c.res} \cup Objects(c.code)
    \cup {c.vars[n] : n \in DOMAIN c.vars} \cup {c.funcVars[n] : n \in DOMAIN c.funcVars}
    \cup (UNION {{c.work[i].x, c.work[i].y} : i \in DOMAIN c.work})
    \cup (UNION {Objects(c.funcs[f]) : f \in DOMAIN c.funcs})

\* Objects have addresses up to top, and one each.
Told(objs, top) ==
    /\ \A x \in objs : x \in IRVars /\ x.p \in 0..top
    /\ \A x, y \in objs : x.p = y.p => x = y

IsLabel(x, cnt) == x.t = "Label" /\ \E num \in 0..(cnt - 1) : x.n = <<"lb", num>>

\* Labels that a statement, or a call still to be made, sets and jumps to.
SetIn(s) == IF s.op = "SetLabel" THEN {s.x} ELSE {}
AimIn(s) == CASE s.op = "Goto" -> {s.x} [] s.op = "BranchIf" -> {s.z} [] OTHER -> {}
SetBy(t) == IF t.do \in {"SetLabel", "else"} THEN {t.x} ELSE {}
AimOf(t) == CASE t.do = "cond"                   -> {t.x, t.y}
              [] t.do \in {"Goto", "test lhs"}   -> {t.x}
              [] t.do = "branch"                 -> {t.y}
              [] OTHER                           -> {}

CodeSets(code) == UNION {SetIn(code[i]) : i \in DOMAIN code}
CodeAims(code) == UNION {AimIn(code[i]) : i \in DOMAIN code}
WorkSets(work) == UNION {SetBy(work[i]) : i \in DOMAIN work}
WorkAims(work) == UNION {AimOf(work[i]) : i \in DOMAIN work}
CodeOnce(code) == \A i, j \in DOMAIN code : \A x \in SetIn(code[i]), y \in SetIn(code[j]) :
                      x.n = y.n => i = j
WorkOnce(work) == \A i, j \in DOMAIN work : \A x \in SetBy(work[i]), y \in SetBy(work[j]) :
                      x.n = y.n => i = j
Apart(xs, ys)  == \A x \in xs, y \in ys : x.n # y.n
Among(xs, ys)  == \A x \in xs : \E y \in ys : x.n = y.n

\* The functions that are complete.
FuncLabels(fs, cnt) ==
    \A f \in DOMAIN fs :
        /\ \A x \in CodeSets(fs[f]) \cup CodeAims(fs[f]) : IsLabel(x, cnt)
        /\ CodeOnce(fs[f])
        /\ Among(CodeAims(fs[f]), CodeSets(fs[f]))
        /\ \A g \in DOMAIN fs : g # f => Apart(CodeSets(fs[f]), CodeSets(fs[g]))

\* The function that is being lowered: each label is set once, by its code or
\* by one of the calls still to be made.
CurrentLabels(c) ==
    /\ \A x \in CodeSets(c.code) \cup CodeAims(c.code)
                \cup WorkSets(c.work) \cup WorkAims(c.work) : IsLabel(x, c.cnt)
    /\ CodeOnce(c.code) /\ WorkOnce(c.work)
    /\ Apart(CodeSets(c.code), WorkSets(c.work))
    /\ Among(CodeAims(c.code) \cup WorkAims(c.work), CodeSets(c.code) \cup WorkSets(c.work))
    /\ \A f \in DOMAIN c.funcs :
          Apart(CodeSets(c.funcs[f]), CodeSets(c.code) \cup WorkSets(c.work))

BuilderOK(c) ==
    /\ BuilderTyped(c)
    /\ StackOK(c.work)
    /\ Told(Held(c), c.objs)
    /\ FuncLabels(c.funcs, c.cnt)
    /\ c.work # << >> => CurrentLabels(c)

ProgramObjects(fs) == UNION {Objects(fs[f]) : f \in DOMAIN fs}

IInv ==
    /\ phase \in {"build", "made", "optimize", "written", "stopped"}
    /\ (phase = "stopped") = (stop # "")
    /\ rest \in Seq(Declarations)
    /\ \A d \in ToSet(rest) : d.kind = "func" => d.name \in ToSet(FuncOrder)
    /\ DOMAIN funcs \subseteq ToSet(FuncOrder)
    /\ \A f \in DOMAIN funcs : funcs[f] \in Seq(Statements)
    /\ todo \subseteq DOMAIN funcs
    /\ phase = "build" => BuilderOK(b) /\ funcs = << >>
    /\ phase \in {"made", "optimize"} => BuilderTyped(b)
    /\ funcs # << >> => Told(ProgramObjects(funcs) \cup {Nullptr}, b.objs)
    /\ phase \in {"made", "optimize", "written"} => FuncLabels(funcs, b.cnt)

-----------------------------------------------------------------------------
(* Objects and statements.                                                 *)

LEMMA NullIs == Nullptr \in IRVars /\ Nullptr.p = 0
<1>1. NoInt \in Values
  BY DEF NoInt, Values
<1> QED BY <1>1 DEF Nullptr, IRVar, IRVars

LEMMA NumTyped == ASSUME NEW k \in Int PROVE Num(k) \in Values
BY DEF Num, Values

VarNames == Names \cup {NoName} \cup ({"lb", "tmp"} \X Nat)

LEMMA IRVarTyped ==
    ASSUME NEW p \in Nat, NEW t \in {"Label", "Function", "Variable", "Constant"},
           NEW n \in VarNames, NEW v \in Values
    PROVE  IRVar(p, t, n, v) \in IRVars /\ IRVar(p, t, n, v).p = p
BY DEF IRVar, IRVars, VarNames

LEMMA StatementTyped ==
    ASSUME NEW x \in IRVars, NEW y \in IRVars, NEW z \in IRVars
    PROVE  /\ \A op \in Arith : Stmt3(op, x, y, z) \in Statements
           /\ \A op \in {"Assign", "InvokeFunc"} : Stmt2(op, x, y) \in Statements
           /\ \A op \in {"Read", "PopCallArg", "Goto", "SetLabel", "Return", "PushCallArg",
                        "Write"} : Stmt1(op, x) \in Statements
           /\ \A op \in CompareOps : BranchIf(op, x, y, z) \in Statements
BY NullIs DEF Stmt3, Stmt2, Stmt1, BranchIf, Statements, Defines, Arith, CompareOps

LEMMA TaskTyped ==
    ASSUME NEW do \in DoTasks, NEW e \in Trees \cup {NoTree}, NEW x \in IRVars, NEW y \in IRVars
    PROVE  Task(do, e, x, y) \in Tasks
BY DEF Task, Tasks

\* The subtrees of a tree, and its name and value.
LEMMA TreeTyped ==
    ASSUME NEW e \in Trees
    PROVE  /\ e.id \in Names \cup {NoName} /\ e.val \in Values
           /\ e.kids \in Seq(Trees) /\ Len(e.kids) \in Nat
           /\ \A i \in 1..Len(e.kids) : e.kids[i] \in Trees
           /\ DOMAIN e.kids = 1..Len(e.kids)
<1>1. e.kids \in Seq(Trees) /\ e.id \in Names \cup {NoName} /\ e.val \in Values
  BY TreesAssumption
<1> QED BY <1>1

-----------------------------------------------------------------------------
(* What the builder makes.                                                 *)

\* Only the counters and the result differ.
Alike(c, d) ==
    /\ d.code = c.code /\ d.vars = c.vars /\ d.funcs = c.funcs
    /\ d.funcVars = c.funcVars /\ d.work = c.work /\ d.stop = c.stop

LEMMA CreateIs ==
    ASSUME NEW c, BuilderTyped(c), NEW t \in {"Label", "Function", "Variable", "Constant"},
           NEW n \in VarNames, NEW v \in Values
    PROVE  LET d == Create(c, t, n, v)
           IN  /\ BuilderTyped(d) /\ Alike(c, d)
               /\ d.cnt = c.cnt /\ d.objs = c.objs + 1
               /\ d.res = IRVar(c.objs + 1, t, n, v) /\ d.res \in IRVars
               /\ d.res.p = c.objs + 1
<1> DEFINE d == Create(c, t, n, v)
<1>1. /\ Shaped(d) /\ Alike(c, d) /\ d.cnt = c.cnt /\ d.objs = c.objs + 1
      /\ d.res = IRVar(c.objs + 1, t, n, v)
  <2>1. Shaped(c)
    BY DEF BuilderTyped
  <2>2. d = [c EXCEPT !.objs = @ + 1, !.res = IRVar(c.objs + 1, t, n, v)]
    BY DEF Create
  <2> HIDE DEF d
  <2> QED BY <2>1, <2>2 DEF Shaped, Alike
<1>2. IRVar(c.objs + 1, t, n, v) \in IRVars /\ IRVar(c.objs + 1, t, n, v).p = c.objs + 1
  <2>1. c.objs + 1 \in Nat
    BY DEF BuilderTyped
  <2> QED BY <2>1, IRVarTyped
<1> HIDE DEF d
<1>3. BuilderTyped(d)
  BY <1>1 DEF BuilderTyped, Alike
<1> QED BY <1>1, <1>2, <1>3 DEF d

LEMMA LabelIs ==
    ASSUME NEW c, BuilderTyped(c)
    PROVE  LET d == GetTmpLabel(c)
           IN  /\ BuilderTyped(d) /\ Alike(c, d)
               /\ d.cnt = c.cnt + 1 /\ d.objs = c.objs + 1
               /\ d.res \in IRVars /\ d.res.p = c.objs + 1
               /\ d.res.t = "Label" /\ d.res.n = <<"lb", c.cnt>>
<1> DEFINE a == Create(c, "Label", <<"lb", c.cnt>>, NoInt)
           d == GetTmpLabel(c)
<1>1. <<"lb", c.cnt>> \in VarNames /\ NoInt \in Values
  BY DEF BuilderTyped, VarNames, Values, NoInt
<1>2. /\ BuilderTyped(a) /\ Alike(c, a)
      /\ a.cnt = c.cnt /\ a.objs = c.objs + 1
      /\ a.res = IRVar(c.objs + 1, "Label", <<"lb", c.cnt>>, NoInt) /\ a.res \in IRVars
      /\ a.res.p = c.objs + 1
  BY <1>1, CreateIs
<1>3. d = [a EXCEPT !.cnt = c.cnt + 1]
  BY DEF GetTmpLabel, Count
<1>4. a.res.t = "Label" /\ a.res.n = <<"lb", c.cnt>>
  BY <1>2 DEF IRVar
<1> HIDE DEF a, d
<1>5. BuilderTyped(d) /\ Alike(a, d) /\ d.cnt = c.cnt + 1 /\ d.objs = a.objs /\ d.res = a.res
  <2>0. c.cnt + 1 \in Nat
    BY DEF BuilderTyped
  <2>1. Shaped(a)
    BY <1>2 DEF BuilderTyped
  <2>2. Shaped(d) /\ Alike(a, d) /\ d.cnt = c.cnt + 1 /\ d.objs = a.objs /\ d.res = a.res
    BY <1>3, <2>1 DEF Shaped, Alike
  <2> QED BY <1>2, <2>0, <2>2 DEF BuilderTyped, Alike
<1> QED BY <1>2, <1>4, <1>5 DEF Alike, d

LEMMA VariableIs ==
    ASSUME NEW c, BuilderTyped(c)
    PROVE  LET d == GetTmpVar(c)
           IN  /\ BuilderTyped(d) /\ Alike(c, d)
               /\ d.cnt = c.cnt + 1 /\ d.objs = c.objs + 1
               /\ d.res \in IRVars /\ d.res.p = c.objs + 1
<1> DEFINE a == Create(c, "Variable", <<"tmp", c.cnt>>, NoInt)
           d == GetTmpVar(c)
<1>1. <<"tmp", c.cnt>> \in VarNames /\ NoInt \in Values
  BY DEF BuilderTyped, VarNames, Values, NoInt
<1>2. /\ BuilderTyped(a) /\ Alike(c, a)
      /\ a.cnt = c.cnt /\ a.objs = c.objs + 1 /\ a.res \in IRVars
      /\ a.res.p = c.objs + 1
  BY <1>1, CreateIs
<1>3. d = [a EXCEPT !.cnt = c.cnt + 1]
  BY DEF GetTmpVar, Count
<1> HIDE DEF a, d
<1>5. BuilderTyped(d) /\ Alike(a, d) /\ d.cnt = c.cnt + 1 /\ d.objs = a.objs /\ d.res = a.res
  <2>0. c.cnt + 1 \in Nat
    BY DEF BuilderTyped
  <2>1. Shaped(a)
    BY <1>2 DEF BuilderTyped
  <2>2. Shaped(d) /\ Alike(a, d) /\ d.cnt = c.cnt + 1 /\ d.objs = a.objs /\ d.res = a.res
    BY <1>3, <2>1 DEF Shaped, Alike
  <2> QED BY <1>2, <2>0, <2>2 DEF BuilderTyped, Alike
<1> QED BY <1>2, <1>5 DEF Alike, d

-----------------------------------------------------------------------------
(* A step of the builder: the innermost call goes on with the calls new    *)
(* and the statements out, and makes the objects made.                     *)

Made(objs, low, top) ==
    /\ low <= top
    /\ \A x \in objs : x \in IRVars /\ x.p \in (low + 1)..top
    /\ \A x, y \in objs : x.p = y.p => x = y

Steps(c, d, new, out, made) ==
    /\ Shaped(d)
    /\ d.cnt \in Nat /\ d.cnt >= c.cnt
    /\ d.objs \in Nat
    /\ d.work = new \o Tail(c.work) /\ new \in Seq(Tasks)
    /\ d.code = c.code \o out /\ out \in Seq(Statements)
    /\ d.funcs = c.funcs /\ d.funcVars = c.funcVars
    /\ \A n \in DOMAIN d.vars : d.vars[n] \in Held(c) \cup made
    /\ d.res \in Held(c) \cup made
    /\ \A i \in DOMAIN new : /\ TaskOK(new[i]) /\ new[i].do # "function"
                             /\ new[i].x \in Held(c) \cup made
                             /\ new[i].y \in Held(c) \cup made
    /\ Objects(out) \subseteq Held(c) \cup made
    /\ Made(made, c.objs, d.objs)

LabelMoves(c, d, new, out) ==
    LET h    == Head(c.work)
        sets == CodeSets(out) \cup WorkSets(new)
    IN  /\ \A x \in sets \cup CodeAims(out) \cup WorkAims(new) : IsLabel(x, d.cnt)
        /\ CodeOnce(out) /\ WorkOnce(new) /\ Apart(CodeSets(out), WorkSets(new))
        /\ \A x \in sets : \/ x \in SetBy(h)
                           \/ \E k \in c.cnt..(d.cnt - 1) : x.n = <<"lb", k>>
        /\ Among(SetBy(h), sets)
        /\ Among(CodeAims(out) \cup WorkAims(new), AimOf(h) \cup sets)

LEMMA Concatenated ==
    ASSUME NEW S, NEW p \in Seq(S), NEW q \in Seq(S)
    PROVE  /\ p \o q \in Seq(S) /\ DOMAIN (p \o q) = 1..(Len(p) + Len(q))
           /\ Len(p \o q) = Len(p) + Len(q)
           /\ DOMAIN p = 1..Len(p) /\ DOMAIN q = 1..Len(q)
           /\ Len(p) \in Nat /\ Len(q) \in Nat
           /\ \A i \in 1..Len(p) : (p \o q)[i] = p[i]
           /\ \A i \in 1..Len(q) : (p \o q)[Len(p) + i] = q[i]
           /\ \A i \in 1..(Len(p) + Len(q)) : i \in 1..Len(p) \/ i - Len(p) \in 1..Len(q)
OBVIOUS

LEMMA TailIs ==
    ASSUME NEW S, NEW q \in Seq(S), q # << >>
    PROVE  /\ Tail(q) \in Seq(S) /\ Len(q) \in Nat \ {0}
           /\ Len(Tail(q)) = Len(q) - 1 /\ DOMAIN q = 1..Len(q)
           /\ DOMAIN Tail(q) = 1..(Len(q) - 1)
           /\ Head(q) \in S /\ Head(q) = q[1]
           /\ \A i \in 1..(Len(q) - 1) : Tail(q)[i] = q[i + 1]
OBVIOUS

LEMMA ObjectsConcat ==
    ASSUME NEW p \in Seq(Statements), NEW q \in Seq(Statements)
    PROVE  Objects(p \o q) = Objects(p) \cup Objects(q)
<1>1. ASSUME NEW x \in Objects(p \o q) PROVE x \in Objects(p) \cup Objects(q)
  <2>1. PICK i \in DOMAIN (p \o q) : x \in {(p \o q)[i].x, (p \o q)[i].y, (p \o q)[i].z}
    BY <1>1 DEF Objects
  <2>2. CASE i \in 1..Len(p)
    BY <2>1, <2>2, Concatenated DEF Objects
  <2>3. CASE i - Len(p) \in 1..Len(q)
    <3>1. (p \o q)[i] = q[i - Len(p)]
      <4>1. i = Len(p) + (i - Len(p))
        BY <2>1, Concatenated
      <4> QED BY <2>3, <4>1, Concatenated
    <3> QED BY <2>1, <2>3, <3>1, Concatenated DEF Objects
  <2> QED BY <2>1, <2>2, <2>3, Concatenated
<1>2. ASSUME NEW x \in Objects(p) PROVE x \in Objects(p \o q)
  <2>1. PICK i \in DOMAIN p : x \in {p[i].x, p[i].y, p[i].z}
    BY <1>2 DEF Objects
  <2>2. i \in DOMAIN (p \o q) /\ (p \o q)[i] = p[i]
    BY <2>1, Concatenated
  <2> QED BY <2>1, <2>2 DEF Objects
<1>3. ASSUME NEW x \in Objects(q) PROVE x \in Objects(p \o q)
  <2>1. PICK i \in DOMAIN q : x \in {q[i].x, q[i].y, q[i].z}
    BY <1>3 DEF Objects
  <2>2. Len(p) + i \in DOMAIN (p \o q) /\ (p \o q)[Len(p) + i] = q[i]
    BY <2>1, Concatenated
  <2> QED BY <2>1, <2>2 DEF Objects
<1> QED BY <1>1, <1>2, <1>3

\* Sets and aims of code, and of calls, add up like objects.
LEMMA CodeConcat ==
    ASSUME NEW p \in Seq(Statements), NEW q \in Seq(Statements)
    PROVE  /\ CodeSets(p \o q) = CodeSets(p) \cup CodeSets(q)
           /\ CodeAims(p \o q) = CodeAims(p) \cup CodeAims(q)
<1>0. /\ \A i \in DOMAIN p : i \in DOMAIN (p \o q) /\ (p \o q)[i] = p[i]
      /\ \A i \in DOMAIN q : Len(p) + i \in DOMAIN (p \o q) /\ (p \o q)[Len(p) + i] = q[i]
  BY Concatenated
<1>1. \A i \in DOMAIN (p \o q) : \/ i \in DOMAIN p /\ (p \o q)[i] = p[i]
                                 \/ i - Len(p) \in DOMAIN q /\ (p \o q)[i] = q[i - Len(p)]
  <2> SUFFICES ASSUME NEW i \in DOMAIN (p \o q), i \notin DOMAIN p
               PROVE  i - Len(p) \in DOMAIN q /\ (p \o q)[i] = q[i - Len(p)]
    BY <1>0
  <2>1. i - Len(p) \in 1..Len(q) /\ i = Len(p) + (i - Len(p))
    BY Concatenated
  <2> QED BY <1>0, <2>1, Concatenated
<1> HIDE DEF SetIn, AimIn
<1>2. CodeSets(p \o q) = CodeSets(p) \cup CodeSets(q)
  <2>1. CodeSets(p \o q) \subseteq CodeSets(p) \cup CodeSets(q)
    BY <1>1 DEF CodeSets
  <2>2. CodeSets(p) \cup CodeSets(q) \subseteq CodeSets(p \o q)
    BY <1>0 DEF CodeSets
  <2> QED BY <2>1, <2>2
<1>3. CodeAims(p \o q) = CodeAims(p) \cup CodeAims(q)
  <2>1. CodeAims(p \o q) \subseteq CodeAims(p) \cup CodeAims(q)
    BY <1>1 DEF CodeAims
  <2>2. CodeAims(p) \cup CodeAims(q) \subseteq CodeAims(p \o q)
    BY <1>0 DEF CodeAims
  <2> QED BY <2>1, <2>2
<1> QED BY <1>2, <1>3

LEMMA WorkConcat ==
    ASSUME NEW p \in Seq(Tasks), NEW q \in Seq(Tasks)
    PROVE  /\ WorkSets(p \o q) = WorkSets(p) \cup WorkSets(q)
           /\ WorkAims(p \o q) = WorkAims(p) \cup WorkAims(q)
<1>0. /\ \A i \in DOMAIN p : i \in DOMAIN (p \o q) /\ (p \o q)[i] = p[i]
      /\ \A i \in DOMAIN q : Len(p) + i \in DOMAIN (p \o q) /\ (p \o q)[Len(p) + i] = q[i]
  BY Concatenated
<1>1. \A i \in DOMAIN (p \o q) : \/ i \in DOMAIN p /\ (p \o q)[i] = p[i]
                                 \/ i - Len(p) \in DOMAIN q /\ (p \o q)[i] = q[i - Len(p)]
  <2> SUFFICES ASSUME NEW i \in DOMAIN (p \o q), i \notin DOMAIN p
               PROVE  i - Len(p) \in DOMAIN q /\ (p \o q)[i] = q[i - Len(p)]
    BY <1>0
  <2>1. i - Len(p) \in 1..Len(q) /\ i = Len(p) + (i - Len(p))
    BY Concatenated
  <2> QED BY <1>0, <2>1, Concatenated
<1> HIDE DEF SetBy, AimOf
<1>2. WorkSets(p \o q) = WorkSets(p) \cup WorkSets(q)
  <2>1. WorkSets(p \o q) \subseteq WorkSets(p) \cup WorkSets(q)
    BY <1>1 DEF WorkSets
  <2>2. WorkSets(p) \cup WorkSets(q) \subseteq WorkSets(p \o q)
    BY <1>0 DEF WorkSets
  <2> QED BY <2>1, <2>2
<1>3. WorkAims(p \o q) = WorkAims(p) \cup WorkAims(q)
  <2>1. WorkAims(p \o q) \subseteq WorkAims(p) \cup WorkAims(q)
    BY <1>1 DEF WorkAims
  <2>2. WorkAims(p) \cup WorkAims(q) \subseteq WorkAims(p \o q)
    BY <1>0 DEF WorkAims
  <2> QED BY <2>1, <2>2
<1> QED BY <1>2, <1>3

LEMMA CodeOnceConcat ==
    ASSUME NEW p \in Seq(Statements), NEW q \in Seq(Statements),
           CodeOnce(p), CodeOnce(q), Apart(CodeSets(p), CodeSets(q))
    PROVE  CodeOnce(p \o q)
<1> DEFINE r == p \o q
<1>1. ASSUME NEW i \in DOMAIN r
      PROVE  \/ i \in DOMAIN p /\ r[i] = p[i]
             \/ i - Len(p) \in DOMAIN q /\ r[i] = q[i - Len(p)]
  <2> SUFFICES ASSUME i \notin DOMAIN p
               PROVE  i - Len(p) \in DOMAIN q /\ r[i] = q[i - Len(p)]
    BY Concatenated
  <2>1. i - Len(p) \in 1..Len(q) /\ i = Len(p) + (i - Len(p))
    BY Concatenated
  <2> QED BY <2>1, Concatenated
<1>2. ASSUME NEW i \in DOMAIN p, NEW x \in SetIn(p[i]) PROVE x \in CodeSets(p)
  BY <1>2 DEF CodeSets
<1>3. ASSUME NEW i \in DOMAIN q, NEW x \in SetIn(q[i]) PROVE x \in CodeSets(q)
  BY <1>3 DEF CodeSets
<1>4. DOMAIN r \subseteq Int /\ Len(p) \in Int
  BY Concatenated
<1> SUFFICES ASSUME NEW i \in DOMAIN r, NEW j \in DOMAIN r,
                    NEW x \in SetIn(r[i]), NEW y \in SetIn(r[j]), x.n = y.n
             PROVE  i = j
  BY DEF CodeOnce
<1> HIDE DEF r
<1>5. CASE i \in DOMAIN p /\ r[i] = p[i] /\ j \in DOMAIN p /\ r[j] = p[j]
  BY <1>5 DEF CodeOnce
<1>6. CASE /\ i - Len(p) \in DOMAIN q /\ r[i] = q[i - Len(p)]
           /\ j - Len(p) \in DOMAIN q /\ r[j] = q[j - Len(p)]
  <2>1. i - Len(p) = j - Len(p)
    BY <1>6 DEF CodeOnce
  <2> QED BY <2>1, <1>4
<1>7. CASE i \in DOMAIN p /\ r[i] = p[i] /\ j - Len(p) \in DOMAIN q /\ r[j] = q[j - Len(p)]
  BY <1>2, <1>3, <1>7 DEF Apart
<1>8. CASE j \in DOMAIN p /\ r[j] = p[j] /\ i - Len(p) \in DOMAIN q /\ r[i] = q[i - Len(p)]
  BY <1>2, <1>3, <1>8 DEF Apart
<1> QED BY <1>1, <1>5, <1>6, <1>7, <1>8

LEMMA WorkOnceConcat ==
    ASSUME NEW p \in Seq(Tasks), NEW q \in Seq(Tasks),
           WorkOnce(p), WorkOnce(q), Apart(WorkSets(p), WorkSets(q))
    PROVE  WorkOnce(p \o q)
<1> DEFINE r == p \o q
<1>1. ASSUME NEW i \in DOMAIN r
      PROVE  \/ i \in DOMAIN p /\ r[i] = p[i]
             \/ i - Len(p) \in DOMAIN q /\ r[i] = q[i - Len(p)]
  <2> SUFFICES ASSUME i \notin DOMAIN p
               PROVE  i - Len(p) \in DOMAIN q /\ r[i] = q[i - Len(p)]
    BY Concatenated
  <2>1. i - Len(p) \in 1..Len(q) /\ i = Len(p) + (i - Len(p))
    BY Concatenated
  <2> QED BY <2>1, Concatenated
<1>2. ASSUME NEW i \in DOMAIN p, NEW x \in SetBy(p[i]) PROVE x \in WorkSets(p)
  BY <1>2 DEF WorkSets
<1>3. ASSUME NEW i \in DOMAIN q, NEW x \in SetBy(q[i]) PROVE x \in WorkSets(q)
  BY <1>3 DEF WorkSets
<1>4. DOMAIN r \subseteq Int /\ Len(p) \in Int
  BY Concatenated
<1> SUFFICES ASSUME NEW i \in DOMAIN r, NEW j \in DOMAIN r,
                    NEW x \in SetBy(r[i]), NEW y \in SetBy(r[j]), x.n = y.n
             PROVE  i = j
  BY DEF WorkOnce
<1> HIDE DEF r
<1>5. CASE i \in DOMAIN p /\ r[i] = p[i] /\ j \in DOMAIN p /\ r[j] = p[j]
  BY <1>5 DEF WorkOnce
<1>6. CASE /\ i - Len(p) \in DOMAIN q /\ r[i] = q[i - Len(p)]
           /\ j - Len(p) \in DOMAIN q /\ r[j] = q[j - Len(p)]
  <2>1. i - Len(p) = j - Len(p)
    BY <1>6 DEF WorkOnce
  <2> QED BY <2>1, <1>4
<1>7. CASE i \in DOMAIN p /\ r[i] = p[i] /\ j - Len(p) \in DOMAIN q /\ r[j] = q[j - Len(p)]
  BY <1>2, <1>3, <1>7 DEF Apart
<1>8. CASE j \in DOMAIN p /\ r[j] = p[j] /\ i - Len(p) \in DOMAIN q /\ r[i] = q[i - Len(p)]
  BY <1>2, <1>3, <1>8 DEF Apart
<1> QED BY <1>1, <1>5, <1>6, <1>7, <1>8

-----------------------------------------------------------------------------
(* The invariant after such a step.                                        *)

\* Labels that are new, or that a call sets, are not those of others.
LEMMA FreshApart ==
    ASSUME NEW xs, NEW ys, NEW zs, NEW low \in Nat, NEW top \in Int,
           \A x \in xs : x \in zs \/ \E k \in low..top : x.n = <<"lb", k>>,
           \A y \in ys : IsLabel(y, low),
           Apart(zs, ys)
    PROVE  Apart(xs, ys)
<1> SUFFICES ASSUME NEW x \in xs, NEW y \in ys, x.n = y.n PROVE FALSE
  BY DEF Apart
<1>1. PICK j \in 0..(low - 1) : y.n = <<"lb", j>>
  BY DEF IsLabel
<1>2. CASE x \in zs
  BY <1>2 DEF Apart
<1>3. CASE \E k \in low..top : x.n = <<"lb", k>>
  <2>1. PICK k \in low..top : x.n = <<"lb", k>>
    BY <1>3
  <2>2. k = j
    BY <1>1, <2>1
  <2> QED BY <2>2
<1> QED BY <1>2, <1>3

LEMMA LabelsLater ==
    ASSUME NEW x, NEW low \in Nat, NEW top \in Nat, low <= top, IsLabel(x, low)
    PROVE  IsLabel(x, top)
<1>1. PICK k \in 0..(low - 1) : x.n = <<"lb", k>>
  BY DEF IsLabel
<1>2. k \in 0..(top - 1)
  OBVIOUS
<1> QED BY <1>1, <1>2 DEF IsLabel

LEMMA FuncLabelsLater ==
    ASSUME NEW fs, NEW low \in Nat, NEW top \in Nat, low <= top, FuncLabels(fs, low)
    PROVE  FuncLabels(fs, top)
BY LabelsLater DEF FuncLabels

\* The innermost call and those around it.
LEMMA HeadAndTail ==
    ASSUME NEW work \in Seq(Tasks), work # << >>, WorkOnce(work)
    PROVE  /\ WorkSets(work) = SetBy(Head(work)) \cup WorkSets(Tail(work))
           /\ WorkAims(work) = AimOf(Head(work)) \cup WorkAims(Tail(work))
           /\ WorkOnce(Tail(work))
           /\ Apart(SetBy(Head(work)), WorkSets(Tail(work)))
<1> DEFINE t == Tail(work)
           n == Len(work)
<1>1. /\ n \in Nat \ {0} /\ DOMAIN work = 1..n /\ DOMAIN t = 1..(n - 1)
      /\ Head(work) = work[1] /\ \A i \in 1..(n - 1) : t[i] = work[i + 1]
  BY TailIs
<1>2. \A i \in DOMAIN work : i = 1 \/ (i - 1 \in DOMAIN t /\ t[i - 1] = work[i])
  <2> SUFFICES ASSUME NEW i \in DOMAIN work, i # 1
               PROVE  i - 1 \in DOMAIN t /\ t[i - 1] = work[i]
    OBVIOUS
  <2>1. i - 1 \in 1..(n - 1) /\ (i - 1) + 1 = i
    BY <1>1
  <2> QED BY <1>1, <2>1
<1>3. \A i \in DOMAIN t : i + 1 \in DOMAIN work /\ work[i + 1] = t[i] /\ i + 1 # 1 /\ i \in Int
  BY <1>1
<1>4. 1 \in DOMAIN work
  BY <1>1
<1> HIDE DEF t, n, SetBy, AimOf
<1>5. WorkSets(work) = SetBy(Head(work)) \cup WorkSets(t)
  <2>1. WorkSets(work) \subseteq SetBy(Head(work)) \cup WorkSets(t)
    BY <1>1, <1>2 DEF WorkSets
  <2>2. SetBy(Head(work)) \cup WorkSets(t) \subseteq WorkSets(work)
    BY <1>1, <1>3, <1>4 DEF WorkSets
  <2> QED BY <2>1, <2>2
<1>6. WorkAims(work) = AimOf(Head(work)) \cup WorkAims(t)
  <2>1. WorkAims(work) \subseteq AimOf(Head(work)) \cup WorkAims(t)
    BY <1>1, <1>2 DEF WorkAims
  <2>2. AimOf(Head(work)) \cup WorkAims(t) \subseteq WorkAims(work)
    BY <1>1, <1>3, <1>4 DEF WorkAims
  <2> QED BY <2>1, <2>2
<1>7. WorkOnce(t)
  <2> SUFFICES ASSUME NEW i \in DOMAIN t, NEW j \in DOMAIN t,
                      NEW x \in SetBy(t[i]), NEW y \in SetBy(t[j]), x.n = y.n
               PROVE  i = j
    BY DEF WorkOnce
  <2>1. i + 1 = j + 1
    BY <1>3 DEF WorkOnce
  <2> QED BY <1>3, <2>1
<1>8. Apart(SetBy(Head(work)), WorkSets(t))
  <2> SUFFICES ASSUME NEW x \in SetBy(work[1]), NEW y \in WorkSets(t), x.n = y.n
               PROVE  FALSE
    BY <1>1 DEF Apart
  <2>1. PICK j \in DOMAIN t : y \in SetBy(t[j])
    BY DEF WorkSets
  <2>2. 1 = j + 1
    BY <1>3, <1>4, <2>1 DEF WorkOnce
  <2> QED BY <1>3, <2>2
<1> QED BY <1>5, <1>6, <1>7, <1>8 DEF t

LEMMA StepTyped ==
    ASSUME NEW c, NEW d, NEW new, NEW out, NEW made,
           BuilderTyped(c), c.work # << >>, Steps(c, d, new, out, made)
    PROVE  BuilderTyped(d) /\ Tail(c.work) \in Seq(Tasks)
<1>1. Tail(c.work) \in Seq(Tasks)
  BY TailIs DEF BuilderTyped
<1>2. d.work \in Seq(Tasks)
  <2>1. d.work = new \o Tail(c.work) /\ new \in Seq(Tasks)
    BY DEF Steps
  <2> QED BY <1>1, <2>1, Concatenated
<1>3. d.code \in Seq(Statements)
  <2>1. d.code = c.code \o out /\ out \in Seq(Statements) /\ c.code \in Seq(Statements)
    BY DEF Steps, BuilderTyped
  <2> QED BY <2>1, Concatenated
<1> QED BY <1>1, <1>2, <1>3 DEF Steps, BuilderTyped

LEMMA StepStack ==
    ASSUME NEW c, NEW d, NEW new, NEW out, NEW made,
           BuilderTyped(c), c.work # << >>, Head(c.work).do # "function",
           StackOK(c.work), Steps(c, d, new, out, made)
    PROVE  StackOK(d.work)
<1> DEFINE t == Tail(c.work)
           m == Len(c.work)
           k == Len(new)
<1>1. /\ c.work \in Seq(Tasks) /\ new \in Seq(Tasks) /\ d.work = new \o t /\ t \in Seq(Tasks)
  BY TailIs DEF BuilderTyped, Steps
<1>2. /\ m \in Nat \ {0} /\ DOMAIN c.work = 1..m /\ Head(c.work) = c.work[1]
      /\ Len(t) = m - 1 /\ \A i \in 1..(m - 1) : t[i] = c.work[i + 1]
  BY <1>1, TailIs
<1>3. m # 1
  BY <1>2 DEF StackOK
<1>4. /\ k \in Nat /\ Len(d.work) = k + (m - 1) /\ DOMAIN d.work = 1..(k + (m - 1))
      /\ \A i \in 1..k : d.work[i] = new[i]
      /\ \A i \in 1..(m - 1) : d.work[k + i] = t[i]
      /\ DOMAIN new = 1..k
  BY <1>1, <1>2, Concatenated
<1>5. \A i \in 1..k : TaskOK(new[i]) /\ new[i].do # "function"
  BY <1>4 DEF Steps
<1> HIDE DEF t, m, k, TaskOK
<1> SUFFICES ASSUME NEW i \in 1..(k + (m - 1))
             PROVE  TaskOK(d.work[i]) /\ (d.work[i].do = "function" <=> i = Len(d.work))
  BY <1>4 DEF StackOK
<1>6. CASE i \in 1..k
  BY <1>2, <1>3, <1>4, <1>5, <1>6
<1>7. CASE i \notin 1..k
  <2>0. k \in Int /\ m \in Int /\ i \in Int /\ i > k /\ i <= k + (m - 1)
    BY <1>2, <1>4, <1>7
  <2>1. i - k \in 1..(m - 1) /\ i = k + (i - k) /\ (i - k) + 1 \in 1..m
    BY <2>0
  <2>2. d.work[i] = c.work[(i - k) + 1]
    BY <1>2, <1>4, <2>1
  <2>3. TaskOK(c.work[(i - k) + 1]) /\ (c.work[(i - k) + 1].do = "function" <=> (i - k) + 1 = m)
    BY <1>2, <2>1 DEF StackOK, m
  <2> QED BY <1>2, <1>4, <2>1, <2>2, <2>3
<1> QED BY <1>6, <1>7

\* What is held, part by part.
LEMMA HeldParts ==
    ASSUME NEW c, NEW x
    PROVE  x \in Held(c) <=> \/ x \in {Nullptr, c.res} \/ x \in Objects(c.code)
                             \/ \E n \in DOMAIN c.vars : x = c.vars[n]
                             \/ \E n \in DOMAIN c.funcVars : x = c.funcVars[n]
                             \/ \E i \in DOMAIN c.work : x \in {c.work[i].x, c.work[i].y}
                             \/ \E f \in DOMAIN c.funcs : x \in Objects(c.funcs[f])
<1> DEFINE V == {c.vars[n] : n \in DOMAIN c.vars}
           W == {c.funcVars[n] : n \in DOMAIN c.funcVars}
           K == UNION {{c.work[i].x, c.work[i].y} : i \in DOMAIN c.work}
           F == UNION {Objects(c.funcs[f]) : f \in DOMAIN c.funcs}
<1>1. x \in V <=> \E n \in DOMAIN c.vars : x = c.vars[n]
  OBVIOUS
<1>2. x \in W <=> \E n \in DOMAIN c.funcVars : x = c.funcVars[n]
  OBVIOUS
<1>3. x \in K <=> \E i \in DOMAIN c.work : x \in {c.work[i].x, c.work[i].y}
  OBVIOUS
<1>4. x \in F <=> \E f \in DOMAIN c.funcs : x \in Objects(c.funcs[f])
  OBVIOUS
<1>5. Held(c) = {Nullptr, c.res} \cup Objects(c.code) \cup V \cup W \cup K \cup F
  BY DEF Held
<1> HIDE DEF V, W, K, F
<1> QED BY <1>1, <1>2, <1>3, <1>4, <1>5

LEMMA StepHeld ==
    ASSUME NEW c, NEW d, NEW new, NEW out, NEW made,
           BuilderTyped(c), c.work # << >>, Steps(c, d, new, out, made)
    PROVE  Held(d) \subseteq Held(c) \cup made
<1>1. Objects(d.code) \subseteq Held(c) \cup made
  <2>1. Objects(d.code) = Objects(c.code) \cup Objects(out)
    BY ObjectsConcat DEF Steps, BuilderTyped
  <2> QED BY <2>1 DEF Steps, Held
<1>2. ASSUME NEW i \in DOMAIN d.work PROVE {d.work[i].x, d.work[i].y} \subseteq Held(c) \cup made
  <2> DEFINE t == Tail(c.work)
             k == Len(new)
             m == Len(c.work)
  <2>1. /\ c.work \in Seq(Tasks) /\ new \in Seq(Tasks) /\ d.work = new \o t /\ t \in Seq(Tasks)
    BY TailIs DEF BuilderTyped, Steps
  <2>2. /\ m \in Nat \ {0} /\ DOMAIN c.work = 1..m
        /\ Len(t) = m - 1 /\ \A j \in 1..(m - 1) : t[j] = c.work[j + 1]
    BY <2>1, TailIs
  <2>3. /\ k \in Nat /\ DOMAIN d.work = 1..(k + (m - 1))
        /\ \A j \in 1..k : d.work[j] = new[j]
        /\ \A j \in 1..(m - 1) : d.work[k + j] = t[j]
        /\ DOMAIN new = 1..k
    BY <2>1, <2>2, Concatenated
  <2> HIDE DEF t, k, m
  <2>4. CASE i \in 1..k
    BY <2>3, <2>4 DEF Steps
  <2>5. CASE i \notin 1..k
    <3>0. k \in Int /\ m \in Int /\ i \in Int /\ i > k /\ i <= k + (m - 1)
      BY <1>2, <2>2, <2>3, <2>5
    <3>1. i - k \in 1..(m - 1) /\ i = k + (i - k) /\ (i - k) + 1 \in 1..m
      BY <3>0
    <3>2. d.work[i] = c.work[(i - k) + 1]
      BY <2>2, <2>3, <3>1
    <3> QED BY <2>2, <3>1, <3>2 DEF Held
  <2> QED BY <2>4, <2>5
<1>3. /\ {Nullptr, d.res} \subseteq Held(c) \cup made
      /\ {d.vars[n] : n \in DOMAIN d.vars} \subseteq Held(c) \cup made
  BY DEF Steps, Held
<1>4. d.funcs = c.funcs /\ d.funcVars = c.funcVars
  BY DEF Steps
<1>5. ASSUME NEW n \in DOMAIN d.funcVars PROVE d.funcVars[n] \in Held(c)
  BY <1>4, HeldParts
<1>6. ASSUME NEW f \in DOMAIN d.funcs, NEW x \in Objects(d.funcs[f]) PROVE x \in Held(c)
  BY <1>4, HeldParts
<1> SUFFICES ASSUME NEW x \in Held(d) PROVE x \in Held(c) \cup made
  OBVIOUS
<1>7. \/ x \in {Nullptr, d.res} \/ x \in Objects(d.code)
      \/ \E n \in DOMAIN d.vars : x = d.vars[n]
      \/ \E n \in DOMAIN d.funcVars : x = d.funcVars[n]
      \/ \E i \in DOMAIN d.work : x \in {d.work[i].x, d.work[i].y}
      \/ \E f \in DOMAIN d.funcs : x \in Objects(d.funcs[f])
  BY HeldParts
<1> QED BY <1>1, <1>2, <1>3, <1>5, <1>6, <1>7

LEMMA ToldMore ==
    ASSUME NEW old, NEW made, NEW low \in Nat, NEW top \in Nat,
           Told(old, low), Made(made, low, top)
    PROVE  Told(old \cup made, top)
<1>1. \A x \in old : x \in IRVars /\ x.p \in 0..low
  BY DEF Told
<1>2. \A x \in made : x \in IRVars /\ x.p \in (low + 1)..top
  BY DEF Made
<1>3. low <= top
  BY DEF Made
<1>4. ASSUME NEW x \in old \cup made PROVE x \in IRVars /\ x.p \in 0..top
  BY <1>1, <1>2, <1>3
<1>5. ASSUME NEW x \in old \cup made, NEW y \in old \cup made, x.p = y.p PROVE x = y
  <2>1. CASE x \in old /\ y \in old
    BY <1>5, <2>1 DEF Told
  <2>2. CASE x \in made /\ y \in made
    BY <1>5, <2>2 DEF Made
  <2>3. CASE x \in old /\ y \in made
    BY <1>1, <1>2, <1>5, <2>3
  <2>4. CASE x \in made /\ y \in old
    BY <1>1, <1>2, <1>5, <2>4
  <2> QED BY <2>1, <2>2, <2>3, <2>4
<1> QED BY <1>4, <1>5 DEF Told

LEMMA ToldFewer ==
    ASSUME NEW objs, NEW some, NEW top, some \subseteq objs, Told(objs, top)
    PROVE  Told(some, top)
BY DEF Told

LEMMA StepLabels ==
    ASSUME NEW c, NEW d, NEW new, NEW out, NEW made,
           BuilderTyped(c), c.work # << >>, FuncLabels(c.funcs, c.cnt), CurrentLabels(c),
           Steps(c, d, new, out, made), LabelMoves(c, d, new, out)
    PROVE  CurrentLabels(d)
<1> DEFINE h == Head(c.work)
           t == Tail(c.work)
           S == CodeSets(c.code)
           H == SetBy(h)
           T == WorkSets(t)
           F(f) == CodeSets(c.funcs[f])
           sets == CodeSets(out) \cup WorkSets(new)
<1>1. /\ c.work \in Seq(Tasks) /\ new \in Seq(Tasks) /\ d.work = new \o t /\ t \in Seq(Tasks)
      /\ c.code \in Seq(Statements) /\ out \in Seq(Statements) /\ d.code = c.code \o out
  BY TailIs DEF BuilderTyped, Steps
<1>2. /\ CodeSets(d.code) = S \cup CodeSets(out)
      /\ CodeAims(d.code) = CodeAims(c.code) \cup CodeAims(out)
      /\ WorkSets(d.work) = WorkSets(new) \cup T
      /\ WorkAims(d.work) = WorkAims(new) \cup WorkAims(t)
  BY <1>1, CodeConcat, WorkConcat
<1>3. /\ WorkSets(c.work) = H \cup T /\ WorkAims(c.work) = AimOf(h) \cup WorkAims(t)
      /\ WorkOnce(t) /\ Apart(H, T)
  BY <1>1, HeadAndTail DEF CurrentLabels
<1>4. /\ c.cnt \in Nat /\ d.cnt \in Nat /\ c.cnt <= d.cnt /\ d.cnt - 1 \in Int
  BY DEF BuilderTyped, Steps
<1>5. /\ \A x \in S \cup CodeAims(c.code) \cup H \cup T \cup WorkAims(t) : IsLabel(x, c.cnt)
      /\ CodeOnce(c.code) /\ Apart(S, H \cup T)
      /\ Among(CodeAims(c.code) \cup (AimOf(h) \cup WorkAims(t)), S \cup (H \cup T))
      /\ \A f \in DOMAIN c.funcs : Apart(F(f), S \cup (H \cup T))
  BY <1>3 DEF CurrentLabels
<1>6. /\ \A x \in sets \cup CodeAims(out) \cup WorkAims(new) : IsLabel(x, d.cnt)
      /\ CodeOnce(out) /\ WorkOnce(new) /\ Apart(CodeSets(out), WorkSets(new))
      /\ \A x \in sets : x \in H \/ \E k \in c.cnt..(d.cnt - 1) : x.n = <<"lb", k>>
      /\ Among(H, sets)
      /\ Among(CodeAims(out) \cup WorkAims(new), AimOf(h) \cup sets)
  BY DEF LabelMoves
<1> HIDE DEF h, t, S, H, T, sets
<1>7. Apart(H, S) /\ Apart(H, T) /\ Apart(S, T)
  BY <1>3, <1>5 DEF Apart
<1>8. Apart(sets, S) /\ Apart(sets, T)
  BY <1>4, <1>5, <1>6, <1>7, FreshApart
<1>9. CodeOnce(d.code)
  <2>1. Apart(S, CodeSets(out))
    BY <1>8 DEF Apart, sets
  <2> QED BY <1>1, <1>5, <1>6, <2>1, CodeOnceConcat DEF S
<1>10. WorkOnce(d.work)
  <2>1. Apart(WorkSets(new), T)
    BY <1>8 DEF Apart, sets
  <2> QED BY <1>1, <1>3, <1>6, <2>1, WorkOnceConcat DEF T
<1>11. Apart(CodeSets(d.code), WorkSets(d.work))
  BY <1>2, <1>6, <1>7, <1>8 DEF Apart, sets
<1>12. \A x \in CodeSets(d.code) \cup CodeAims(d.code) \cup WorkSets(d.work)
                \cup WorkAims(d.work) : IsLabel(x, d.cnt)
  <2>1. \A x : IsLabel(x, c.cnt) => IsLabel(x, d.cnt)
    BY <1>4, LabelsLater
  <2> HIDE DEF IsLabel
  <2> QED BY <1>2, <1>5, <1>6, <2>1 DEF sets
<1>13. Among(CodeAims(d.code) \cup WorkAims(d.work), CodeSets(d.code) \cup WorkSets(d.work))
  <2> DEFINE all == S \cup sets \cup T
  <2>1. Among(S \cup (H \cup T), all)
    BY <1>6 DEF Among
  <2>2. Among(CodeAims(c.code) \cup (AimOf(h) \cup WorkAims(t)), all)
    BY <1>5, <2>1 DEF Among
  <2>3. Among(CodeAims(out) \cup WorkAims(new), all)
    BY <1>6, <2>2 DEF Among
  <2>4. CodeSets(d.code) \cup WorkSets(d.work) = all
    BY <1>2 DEF sets
  <2> HIDE DEF all
  <2> QED BY <1>2, <2>2, <2>3, <2>4 DEF Among
<1>14. ASSUME NEW f \in DOMAIN d.funcs
       PROVE  Apart(CodeSets(d.funcs[f]), CodeSets(d.code) \cup WorkSets(d.work))
  <2>0. d.funcs = c.funcs
    BY DEF Steps
  <2>3. Apart(F(f), S \cup (H \cup T))
    BY <1>5, <1>14, <2>0
  \* The labels of a complete function are older than what the step counts.
  <2>4. \A x \in F(f) : IsLabel(x, c.cnt)
    BY <1>14, <2>0 DEF FuncLabels
  <2> HIDE DEF F
  <2>5. Apart(H, F(f))
    BY <2>3 DEF Apart
  <2>6. Apart(sets, F(f))
    BY <1>4, <1>6, <2>4, <2>5, FreshApart
  <2>7. CodeSets(d.code) \cup WorkSets(d.work) = S \cup sets \cup T
    BY <1>2 DEF sets
  <2>8. CodeSets(d.funcs[f]) = F(f)
    BY <2>0 DEF F
  <2> HIDE DEF IsLabel
  <2> QED BY <2>3, <2>6, <2>7, <2>8 DEF Apart
<1> QED BY <1>9, <1>10, <1>11, <1>12, <1>13, <1>14 DEF CurrentLabels

LEMMA StepKeeps ==
    ASSUME NEW c, NEW d, NEW new, NEW out, NEW made,
           BuilderOK(c), c.work # << >>, Head(c.work).do # "function",
           Steps(c, d, new, out, made), LabelMoves(c, d, new, out)
    PROVE  BuilderOK(d)
<1>1. BuilderTyped(d)
  BY StepTyped DEF BuilderOK
<1>2. StackOK(d.work)
  BY StepStack DEF BuilderOK
<1>3. c.cnt \in Nat /\ d.cnt \in Nat /\ c.cnt <= d.cnt /\ c.objs \in Nat /\ d.objs \in Nat
  BY DEF BuilderOK, BuilderTyped, Steps
<1>4. Told(Held(d), d.objs)
  <2>1. Told(Held(c) \cup made, d.objs)
    BY <1>3, ToldMore DEF BuilderOK, Steps
  <2>2. Held(d) \subseteq Held(c) \cup made
    BY StepHeld DEF BuilderOK
  <2> QED BY <2>1, <2>2, ToldFewer
<1>5. FuncLabels(d.funcs, d.cnt)
  <2>1. d.funcs = c.funcs /\ FuncLabels(c.funcs, c.cnt)
    BY DEF BuilderOK, Steps
  <2> QED BY <1>3, <2>1, FuncLabelsLater
<1>6. CurrentLabels(d)
  BY StepLabels DEF BuilderOK
<1> QED BY <1>1, <1>2, <1>4, <1>5, <1>6 DEF BuilderOK

-----------------------------------------------------------------------------
(* How the methods are put together: objects are made, calls take the      *)
(* place of the innermost one, and a statement may be pushed.              *)

\* e is c after some objects have been made, and the maps of names changed.
Prepared(c, e, made) ==
    /\ BuilderTyped(e)
    /\ e.code = c.code /\ e.funcs = c.funcs /\ e.funcVars = c.funcVars /\ e.work = c.work
    /\ e.cnt >= c.cnt
    /\ e.res \in Held(c) \cup made
    /\ \A n \in DOMAIN e.vars : e.vars[n] \in Held(c) \cup made
    /\ Made(made, c.objs, e.objs)

NewCalls(c, new, made) ==
    /\ new \in Seq(Tasks)
    /\ \A i \in DOMAIN new : /\ TaskOK(new[i]) /\ new[i].do # "function"
                             /\ new[i].x \in Held(c) \cup made
                             /\ new[i].y \in Held(c) \cup made

LEMMA PreparedSelf ==
    ASSUME NEW c, BuilderTyped(c)
    PROVE  Prepared(c, c, {})
<1>1. c.res \in Held(c) /\ \A n \in DOMAIN c.vars : c.vars[n] \in Held(c)
  BY HeldParts
<1>2. Made({}, c.objs, c.objs)
  BY DEF Made, BuilderTyped
<1>3. c.cnt >= c.cnt
  BY DEF BuilderTyped
<1> QED BY <1>1, <1>2, <1>3 DEF Prepared

LEMMA PreparedMore ==
    ASSUME NEW c, NEW e, NEW d, NEW made, BuilderTyped(c), Prepared(c, e, made),
           BuilderTyped(d), Alike(e, d), d.cnt >= e.cnt, d.objs = e.objs + 1,
           d.res \in IRVars, d.res.p = e.objs + 1
    PROVE  Prepared(c, d, made \cup {d.res})
<1>1. /\ c.objs \in Nat /\ e.objs \in Nat /\ d.objs \in Nat /\ c.cnt \in Nat /\ e.cnt \in Nat
      /\ d.cnt \in Nat
  BY DEF BuilderTyped, Prepared
<1>2. Made(made, c.objs, e.objs)
  BY DEF Prepared
<1>3. Made(made \cup {d.res}, c.objs, d.objs)
  <2>1. \A x \in made : x \in IRVars /\ x.p \in (c.objs + 1)..e.objs
    BY <1>2 DEF Made
  <2>2. c.objs <= e.objs
    BY <1>2 DEF Made
  <2>3. \A x \in made \cup {d.res} : x \in IRVars /\ x.p \in (c.objs + 1)..d.objs
    BY <1>1, <2>1, <2>2
  <2>4. ASSUME NEW x \in made \cup {d.res}, NEW y \in made \cup {d.res}, x.p = y.p PROVE x = y
    <3>1. CASE x \in made /\ y \in made
      BY <1>2, <2>4, <3>1 DEF Made
    <3>2. CASE x = d.res /\ y \in made
      BY <1>1, <2>1, <2>4, <3>2
    <3>3. CASE y = d.res /\ x \in made
      BY <1>1, <2>1, <2>4, <3>3
    <3> QED BY <2>4, <3>1, <3>2, <3>3
  <2> QED BY <1>1, <2>2, <2>3, <2>4 DEF Made
<1>4. /\ d.code = e.code /\ d.funcs = e.funcs /\ d.funcVars = e.funcVars /\ d.work = e.work
      /\ d.vars = e.vars
  BY DEF Alike
<1>5. d.cnt >= c.cnt
  BY <1>1 DEF Prepared
<1> QED BY <1>3, <1>4, <1>5 DEF Prepared

\* A label, a variable or a constant more.
LEMMA PreparedLabel ==
    ASSUME NEW c, NEW e, NEW made, BuilderTyped(c), Prepared(c, e, made)
    PROVE  LET d == GetTmpLabel(e)
           IN  /\ Prepared(c, d, made \cup {d.res}) /\ BuilderTyped(d)
               /\ d.cnt = e.cnt + 1 /\ d.res \in IRVars /\ d.vars = e.vars
               /\ d.res.t = "Label" /\ d.res.n = <<"lb", e.cnt>>
<1> DEFINE d == GetTmpLabel(e)
<1>1. BuilderTyped(e)
  BY DEF Prepared
<1>2. /\ BuilderTyped(d) /\ Alike(e, d)
      /\ d.cnt = e.cnt + 1 /\ d.objs = e.objs + 1
      /\ d.res \in IRVars /\ d.res.p = e.objs + 1
      /\ d.res.t = "Label" /\ d.res.n = <<"lb", e.cnt>>
  BY <1>1, LabelIs
<1> HIDE DEF d
<1>3. d.cnt >= e.cnt
  BY <1>1, <1>2 DEF BuilderTyped
<1>4. Prepared(c, d, made \cup {d.res})
  BY <1>2, <1>3, PreparedMore
<1> QED BY <1>2, <1>4 DEF d, Alike

LEMMA PreparedVar ==
    ASSUME NEW c, NEW e, NEW made, BuilderTyped(c), Prepared(c, e, made)
    PROVE  LET d == GetTmpVar(e)
           IN  /\ Prepared(c, d, made \cup {d.res}) /\ BuilderTyped(d)
               /\ d.cnt = e.cnt + 1 /\ d.res \in IRVars /\ d.vars = e.vars
<1> DEFINE d == GetTmpVar(e)
<1>1. BuilderTyped(e)
  BY DEF Prepared
<1>2. /\ BuilderTyped(d) /\ Alike(e, d)
      /\ d.cnt = e.cnt + 1 /\ d.objs = e.objs + 1
      /\ d.res \in IRVars /\ d.res.p = e.objs + 1
  BY <1>1, VariableIs
<1> HIDE DEF d
<1>3. d.cnt >= e.cnt
  BY <1>1, <1>2 DEF BuilderTyped
<1>4. Prepared(c, d, made \cup {d.res})
  BY <1>2, <1>3, PreparedMore
<1> QED BY <1>2, <1>4 DEF d, Alike

LEMMA PreparedNew ==
    ASSUME NEW c, NEW e, NEW made, BuilderTyped(c), Prepared(c, e, made),
           NEW t \in {"Variable", "Constant"}, NEW n \in VarNames, NEW v \in Values
    PROVE  LET d == Create(e, t, n, v)
           IN  /\ Prepared(c, d, made \cup {d.res}) /\ BuilderTyped(d)
               /\ d.cnt = e.cnt /\ d.res \in IRVars /\ d.vars = e.vars
<1> DEFINE d == Create(e, t, n, v)
<1>1. BuilderTyped(e)
  BY DEF Prepared
<1>2. /\ BuilderTyped(d) /\ Alike(e, d)
      /\ d.cnt = e.cnt /\ d.objs = e.objs + 1
      /\ d.res \in IRVars /\ d.res.p = e.objs + 1
  BY <1>1, CreateIs
<1> HIDE DEF d
<1>3. d.cnt >= e.cnt
  BY <1>1, <1>2 DEF BuilderTyped
<1>4. Prepared(c, d, made \cup {d.res})
  BY <1>2, <1>3, PreparedMore
<1> QED BY <1>2, <1>4 DEF d, Alike

LEMMA CallStep ==
    ASSUME NEW c, NEW e, NEW made, NEW new,
           BuilderTyped(c), c.work # << >>, Prepared(c, e, made), NewCalls(c, new, made)
    PROVE  LET d == Call(e, new)
           IN  /\ Steps(c, d, new, << >>, made) /\ d.cnt = e.cnt /\ d.code = e.code
               /\ d.stop = e.stop /\ Shaped(d) /\ d.objs = e.objs
<1> DEFINE d == Call(e, new)
<1>1. Shaped(e) /\ d = [e EXCEPT !.work = new \o Tail(e.work)]
  BY DEF Prepared, BuilderTyped, Call
<1> HIDE DEF d
<1>2. /\ Shaped(d) /\ d.cnt = e.cnt /\ d.objs = e.objs /\ d.code = e.code /\ d.vars = e.vars
      /\ d.res = e.res /\ d.funcs = e.funcs /\ d.funcVars = e.funcVars
      /\ d.work = new \o Tail(e.work) /\ d.stop = e.stop
  BY <1>1 DEF Shaped
<1>3. c.code \o << >> = c.code /\ << >> \in Seq(Statements)
  BY DEF BuilderTyped
<1>4. Objects(<< >>) = {}
  BY DEF Objects
<1>5. d.cnt \in Nat /\ d.objs \in Nat /\ d.cnt >= c.cnt
  BY <1>2 DEF Prepared, BuilderTyped
<1>6. Steps(c, d, new, << >>, made)
  BY <1>2, <1>3, <1>4, <1>5 DEF Steps, Prepared, NewCalls
<1> QED BY <1>2, <1>6 DEF d

SameCount(e, d) == d.cnt = e.cnt

LEMMA PushStep ==
    ASSUME NEW c, NEW e, NEW made, NEW new, NEW s \in Statements,
           BuilderTyped(c), c.work # << >>, Prepared(c, e, made), NewCalls(c, new, made),
           {s.x, s.y, s.z} \subseteq Held(c) \cup made
    PROVE  LET d == Push(Call(e, new), s)
           IN  /\ Shaped(d)
               /\ d.stop = "" => Steps(c, d, new, <<s>>, made) /\ SameCount(e, d)
<1> DEFINE g == Call(e, new)
           d == Push(g, s)
<1>1. /\ Steps(c, g, new, << >>, made) /\ g.cnt = e.cnt /\ g.code = e.code /\ Shaped(g)
      /\ g.objs = e.objs
  BY CallStep
<1> HIDE DEF g
<1>2. CASE Nullptr \in UsedBy(s)
  <2>1. d = [g EXCEPT !.stop = "null operand"]
    BY <1>2 DEF Push, Halt
  <2> HIDE DEF d
  <2>2. Shaped(d) /\ d.stop = "null operand"
    BY <1>1, <2>1 DEF Shaped
  <2> QED BY <2>2 DEF d, g
<1>3. CASE Nullptr \notin UsedBy(s)
  <2>1. d = [g EXCEPT !.code = Append(g.code, s)]
    BY <1>3 DEF Push
  <2> HIDE DEF d
  <2>2. /\ Shaped(d) /\ d.cnt = g.cnt /\ d.objs = g.objs /\ d.code = Append(g.code, s)
        /\ d.vars = g.vars /\ d.res = g.res /\ d.funcs = g.funcs /\ d.funcVars = g.funcVars
        /\ d.work = g.work
    BY <1>1, <2>1 DEF Shaped
  <2>3. d.code = c.code \o <<s>> /\ <<s>> \in Seq(Statements)
    <3>1. c.code \in Seq(Statements) /\ e.code = c.code
      BY DEF BuilderTyped, Prepared
    <3> QED BY <1>1, <2>2, <3>1
  <2>4. Objects(<<s>>) \subseteq {s.x, s.y, s.z}
    BY DEF Objects
  <2>5. Steps(c, d, new, <<s>>, made)
    <3>1. /\ d.cnt \in Nat /\ d.cnt >= c.cnt
          /\ d.objs \in Nat
          /\ d.work = new \o Tail(c.work) /\ new \in Seq(Tasks)
          /\ d.funcs = c.funcs /\ d.funcVars = c.funcVars
          /\ \A n \in DOMAIN d.vars : d.vars[n] \in Held(c) \cup made
          /\ d.res \in Held(c) \cup made
          /\ Made(made, c.objs, d.objs)
      BY <1>1, <2>2 DEF Steps
    <3>2. \A i \in DOMAIN new : /\ TaskOK(new[i]) /\ new[i].do # "function"
                                /\ new[i].x \in Held(c) \cup made
                                /\ new[i].y \in Held(c) \cup made
      BY DEF NewCalls
    <3>3. Objects(<<s>>) \subseteq Held(c) \cup made
      BY <2>4
    <3> HIDE DEF TaskOK, Held, Objects, Made
    <3> QED BY <2>2, <2>3, <3>1, <3>2, <3>3 DEF Steps
  <2>6. SameCount(e, d)
    BY <1>1, <2>2 DEF SameCount
  <2> QED BY <2>2, <2>5, <2>6 DEF d, g
<1> QED BY <1>2, <1>3

\* Another result.
LEMMA ResultStep ==
    ASSUME NEW c, NEW d, NEW new, NEW out, NEW made, NEW x,
           Steps(c, d, new, out, made), x \in Held(c) \cup made
    PROVE  LET r == [d EXCEPT !.res = x]
           IN  Steps(c, r, new, out, made) /\ r.cnt = d.cnt /\ r.stop = d.stop
<1> DEFINE r == [d EXCEPT !.res = x]
<1>1. r = [d EXCEPT !.res = x] /\ Shaped(d)
  BY DEF Steps
<1> HIDE DEF r
<1>2. /\ Shaped(r) /\ r.cnt = d.cnt /\ r.objs = d.objs /\ r.code = d.code
      /\ r.vars = d.vars /\ r.res = x /\ r.funcs = d.funcs /\ r.funcVars = d.funcVars
      /\ r.work = d.work /\ r.stop = d.stop
  BY <1>1 DEF Shaped
<1> HIDE DEF TaskOK, Held, Objects, Made
<1>3. Steps(c, r, new, out, made)
  BY <1>2 DEF Steps
<1> QED BY <1>2, <1>3 DEF r

-----------------------------------------------------------------------------
(* The labels of a step.                                                   *)

Fresh(x, low, top) == x.t = "Label" /\ \E k \in low..(top - 1) : x.n = <<"lb", k>>

LEMMA MovesBy ==
    ASSUME NEW c, NEW d, NEW new, NEW out, BuilderOK(c), c.work # << >>,
           d.cnt \in Nat, c.cnt <= d.cnt,
           c.work \in Seq(Tasks),
           \A x \in CodeSets(out) \cup WorkSets(new) :
               x \in SetBy(Head(c.work)) \/ Fresh(x, c.cnt, d.cnt),
           SetBy(Head(c.work)) \subseteq CodeSets(out) \cup WorkSets(new),
           CodeAims(out) \cup WorkAims(new)
               \subseteq AimOf(Head(c.work)) \cup CodeSets(out) \cup WorkSets(new),
           CodeOnce(out), WorkOnce(new), Apart(CodeSets(out), WorkSets(new))
    PROVE  LabelMoves(c, d, new, out)
<1> DEFINE h == Head(c.work)
           sets == CodeSets(out) \cup WorkSets(new)
           aims == CodeAims(out) \cup WorkAims(new)
<1>0. c.cnt \in Nat
  BY DEF BuilderOK, BuilderTyped
<1>1. \A x \in SetBy(h) \cup AimOf(h) : IsLabel(x, c.cnt)
  <2>1. WorkSets(c.work) = SetBy(h) \cup WorkSets(Tail(c.work))
        /\ WorkAims(c.work) = AimOf(h) \cup WorkAims(Tail(c.work))
    BY HeadAndTail DEF BuilderOK, CurrentLabels
  <2> QED BY <2>1 DEF BuilderOK, CurrentLabels
<1>2. \A x : IsLabel(x, c.cnt) => IsLabel(x, d.cnt)
  BY <1>0, LabelsLater
<1>3. \A x : Fresh(x, c.cnt, d.cnt) =>
          IsLabel(x, d.cnt) /\ \E k \in c.cnt..(d.cnt - 1) : x.n = <<"lb", k>>
  <2> SUFFICES ASSUME NEW x, Fresh(x, c.cnt, d.cnt)
               PROVE  IsLabel(x, d.cnt) /\ \E k \in c.cnt..(d.cnt - 1) : x.n = <<"lb", k>>
    OBVIOUS
  <2>1. PICK k \in c.cnt..(d.cnt - 1) : x.n = <<"lb", k>>
    BY DEF Fresh
  <2>2. k \in 0..(d.cnt - 1)
    BY <1>0
  <2> QED BY <2>1, <2>2 DEF Fresh, IsLabel
<1> HIDE DEF h, IsLabel, Fresh, SetBy, AimOf
<1>4. /\ \A x \in sets : x \in SetBy(h) \/ Fresh(x, c.cnt, d.cnt)
      /\ SetBy(h) \subseteq sets /\ aims \subseteq AimOf(h) \cup sets
  BY DEF h
<1>5. CodeSets(out) \cup WorkSets(new) \cup CodeAims(out) \cup WorkAims(new) = sets \cup aims
  OBVIOUS
<1>6. /\ CodeOnce(out) /\ WorkOnce(new) /\ Apart(CodeSets(out), WorkSets(new))
  OBVIOUS
<1> HIDE DEF sets, aims
<1>7. \A x \in sets \cup aims : IsLabel(x, d.cnt)
  BY <1>1, <1>2, <1>3, <1>4
<1>8. \A x \in sets : x \in SetBy(h) \/ \E k \in c.cnt..(d.cnt - 1) : x.n = <<"lb", k>>
  BY <1>3, <1>4
<1>9. Among(SetBy(h), sets) /\ Among(aims, AimOf(h) \cup sets)
  BY <1>4 DEF Among
<1> QED BY <1>5, <1>6, <1>7, <1>8, <1>9 DEF LabelMoves, sets, aims, h

\* Most calls and statements have nothing to do with labels.
QuietWork(work) == \A i \in DOMAIN work : SetBy(work[i]) = {} /\ AimOf(work[i]) = {}
QuietCode(code) == \A i \in DOMAIN code : SetIn(code[i]) = {} /\ AimIn(code[i]) = {}

LEMMA Single == ASSUME NEW s PROVE DOMAIN <<s>> = {1} /\ <<s>>[1] = s
OBVIOUS

LEMMA QuietMoves ==
    ASSUME NEW c, NEW d, NEW new, NEW out, BuilderOK(c), c.work # << >>,
           d.cnt \in Nat, c.cnt <= d.cnt, c.work \in Seq(Tasks),
           SetBy(Head(c.work)) = {}, QuietWork(new), QuietCode(out)
    PROVE  LabelMoves(c, d, new, out)
<1>1. CodeSets(out) = {} /\ CodeAims(out) = {}
  BY DEF QuietCode, CodeSets, CodeAims
<1>2. WorkSets(new) = {} /\ WorkAims(new) = {}
  BY DEF QuietWork, WorkSets, WorkAims
<1>3. CodeOnce(out) /\ WorkOnce(new) /\ Apart(CodeSets(out), WorkSets(new))
  BY <1>1 DEF QuietCode, QuietWork, CodeOnce, WorkOnce, Apart
<1> QED BY <1>1, <1>2, <1>3, MovesBy

QuietTasks == DoTasks \ {"SetLabel", "else", "cond", "Goto", "test lhs", "branch"}

LEMMA QuietTask ==
    ASSUME NEW t, t.do \in QuietTasks
    PROVE  SetBy(t) = {} /\ AimOf(t) = {}
<1>1. SetBy(t) = {}
  BY DEF SetBy, QuietTasks, DoTasks, TreeTasks
<1>2. AimOf(t) = {}
  BY DEF AimOf, QuietTasks, DoTasks, TreeTasks
<1> QED BY <1>1, <1>2

\* The innermost call.
LEMMA HeadIs ==
    ASSUME NEW c, BuilderOK(c), c.work # << >>
    PROVE  LET h == Head(c.work)
           IN  /\ h \in Tasks /\ TaskOK(h)
               /\ h.x \in Held(c) /\ h.y \in Held(c) /\ c.res \in Held(c) /\ Nullptr \in Held(c)
               /\ \A x \in Held(c) : x \in IRVars
               /\ BuilderTyped(c) /\ c.work \in Seq(Tasks)
               /\ c.cnt \in Nat /\ c.objs \in Nat
<1> DEFINE h == Head(c.work)
<1>1. BuilderTyped(c) /\ c.work \in Seq(Tasks) /\ c.cnt \in Nat /\ c.objs \in Nat
  BY DEF BuilderOK, BuilderTyped
<1>2. h \in Tasks /\ h = c.work[1] /\ 1 \in DOMAIN c.work
  BY <1>1, TailIs
<1>3. TaskOK(h)
  BY <1>2 DEF BuilderOK, StackOK
<1>4. h.x \in Held(c) /\ h.y \in Held(c)
  BY <1>2, HeldParts
<1>5. c.res \in Held(c) /\ Nullptr \in Held(c)
  BY HeldParts
<1>6. \A x \in Held(c) : x \in IRVars
  BY DEF BuilderOK, Told
<1> QED BY <1>1, <1>2, <1>3, <1>4, <1>5, <1>6

\* A method that pushes no statement, and sets and aims at no labels.
LEMMA QuietCall ==
    ASSUME NEW c, NEW e, NEW made, NEW new,
           BuilderOK(c), c.work # << >>, Head(c.work).do # "function",
           SetBy(Head(c.work)) = {},
           Prepared(c, e, made), NewCalls(c, new, made), QuietWork(new)
    PROVE  BuilderOK(Call(e, new))
<1> DEFINE d == Call(e, new)
<1>1. BuilderTyped(c) /\ c.work \in Seq(Tasks) /\ c.cnt \in Nat
  BY HeadIs
<1>2. Steps(c, d, new, << >>, made)
  BY <1>1, CallStep
<1> HIDE DEF d
<1>3. d.cnt \in Nat /\ c.cnt <= d.cnt
  BY <1>1, <1>2 DEF Steps
<1>4. QuietCode(<< >>)
  BY DEF QuietCode
<1>5. LabelMoves(c, d, new, << >>)
  BY <1>1, <1>3, <1>4, QuietMoves
<1> QED BY <1>2, <1>5, StepKeeps DEF d

LEMMA QuietPush ==
    ASSUME NEW c, NEW e, NEW made, NEW new, NEW s \in Statements,
           BuilderOK(c), c.work # << >>, Head(c.work).do # "function",
           SetBy(Head(c.work)) = {},
           Prepared(c, e, made), NewCalls(c, new, made), QuietWork(new),
           {s.x, s.y, s.z} \subseteq Held(c) \cup made,
           s.op \notin {"SetLabel", "Goto", "BranchIf"}
    PROVE  LET d == Push(Call(e, new), s)
           IN  d.stop = "" => /\ BuilderOK(d)
                              /\ \A x \in Held(c) \cup made : BuilderOK([d EXCEPT !.res = x])
<1> DEFINE d == Push(Call(e, new), s)
<1> SUFFICES ASSUME d.stop = ""
             PROVE  BuilderOK(d) /\ \A x \in Held(c) \cup made : BuilderOK([d EXCEPT !.res = x])
  OBVIOUS
<1>1. BuilderTyped(c) /\ c.work \in Seq(Tasks) /\ c.cnt \in Nat
  BY HeadIs
<1>2. Steps(c, d, new, <<s>>, made)
  BY <1>1, PushStep
<1> HIDE DEF d
<1>3. d.cnt \in Nat /\ c.cnt <= d.cnt
  BY <1>1, <1>2 DEF Steps
<1>4. QuietCode(<<s>>)
  <2>1. SetIn(s) = {}
    BY DEF SetIn
  <2>2. AimIn(s) = {}
    BY DEF AimIn
  <2> DEFINE q == <<s>>
  <2>3. \A i \in DOMAIN q : q[i] = s
    BY Single
  <2> HIDE DEF q
  <2>4. QuietCode(q)
    BY <2>1, <2>2, <2>3 DEF QuietCode
  <2> QED BY <2>4 DEF q
<1>5. LabelMoves(c, d, new, <<s>>)
  BY <1>1, <1>3, <1>4, QuietMoves
<1>6. BuilderOK(d)
  BY <1>2, <1>5, StepKeeps
<1>7. ASSUME NEW x \in Held(c) \cup made PROVE BuilderOK([d EXCEPT !.res = x])
  <2> DEFINE r == [d EXCEPT !.res = x]
  <2>1. Steps(c, r, new, <<s>>, made) /\ r.cnt = d.cnt
    BY ONLY <1>2, <1>7, ResultStep
  <2> HIDE DEF r
  <2>2. LabelMoves(c, r, new, <<s>>)
    BY <1>1, <1>3, <1>4, <2>1, QuietMoves
  <2>3. BuilderOK(r)
    BY <2>1, <2>2, StepKeeps
  <2> QED BY <2>3 DEF r
<1> QED BY <1>6, <1>7

-----------------------------------------------------------------------------
(* Calls still to be made, one by one.                                     *)

NewCall(c, t, made) ==
    /\ t \in Tasks /\ TaskOK(t) /\ t.do # "function"
    /\ t.x \in Held(c) \cup made /\ t.y \in Held(c) \cup made

LEMMA NewCallsOf ==
    ASSUME NEW c, NEW made
    PROVE  /\ NewCalls(c, << >>, made)
           /\ \A t1 : NewCall(c, t1, made) => NewCalls(c, <<t1>>, made)
           /\ \A t1, t2 : NewCall(c, t1, made) /\ NewCall(c, t2, made)
                 => NewCalls(c, <<t1, t2>>, made)
           /\ \A t1, t2, t3 : NewCall(c, t1, made) /\ NewCall(c, t2, made) /\ NewCall(c, t3, made)
                 => NewCalls(c, <<t1, t2, t3>>, made)
<1> HIDE DEF Tasks, TaskOK, Held
<1>1. NewCalls(c, << >>, made)
  BY DEF NewCalls
<1>2. ASSUME NEW t1, NewCall(c, t1, made) PROVE NewCalls(c, <<t1>>, made)
  BY <1>2 DEF NewCalls, NewCall
<1>3. ASSUME NEW t1, NEW t2, NewCall(c, t1, made), NewCall(c, t2, made)
      PROVE  NewCalls(c, <<t1, t2>>, made)
  BY <1>3 DEF NewCalls, NewCall
<1>4. ASSUME NEW t1, NEW t2, NEW t3,
             NewCall(c, t1, made), NewCall(c, t2, made), NewCall(c, t3, made)
      PROVE  NewCalls(c, <<t1, t2, t3>>, made)
  BY <1>4 DEF NewCalls, NewCall
<1> QED BY <1>1, <1>2, <1>3, <1>4

LEMMA NewCallsConcat ==
    ASSUME NEW c, NEW made, NEW p, NEW q, NewCalls(c, p, made), NewCalls(c, q, made)
    PROVE  NewCalls(c, p \o q, made)
<1>1. p \in Seq(Tasks) /\ q \in Seq(Tasks)
  BY DEF NewCalls
<1>2. /\ p \o q \in Seq(Tasks) /\ DOMAIN (p \o q) = 1..(Len(p) + Len(q))
      /\ DOMAIN p = 1..Len(p) /\ DOMAIN q = 1..Len(q) /\ Len(p) \in Nat /\ Len(q) \in Nat
      /\ \A i \in 1..Len(p) : (p \o q)[i] = p[i]
      /\ \A i \in 1..Len(q) : (p \o q)[Len(p) + i] = q[i]
      /\ \A i \in 1..(Len(p) + Len(q)) : i \in 1..Len(p) \/ i - Len(p) \in 1..Len(q)
  BY <1>1, Concatenated
<1> DEFINE r == p \o q
<1> SUFFICES ASSUME NEW i \in DOMAIN r
             PROVE  /\ TaskOK(r[i]) /\ r[i].do # "function"
                    /\ r[i].x \in Held(c) \cup made /\ r[i].y \in Held(c) \cup made
  BY <1>2 DEF NewCalls
<1>3. CASE i \in 1..Len(p)
  <2>1. r[i] = p[i] /\ i \in DOMAIN p
    BY <1>2, <1>3
  <2> HIDE DEF r, TaskOK, Held
  <2> QED BY <2>1 DEF NewCalls
<1>4. CASE i - Len(p) \in 1..Len(q)
  <2>1. i = Len(p) + (i - Len(p))
    BY <1>2
  <2>2. r[i] = q[i - Len(p)] /\ i - Len(p) \in DOMAIN q
    BY <1>2, <1>4, <2>1
  <2> HIDE DEF r, TaskOK, Held
  <2> QED BY <2>2 DEF NewCalls
<1> QED BY <1>2, <1>3, <1>4

\* Which calls may be made when.
LEMMA NewTask ==
    ASSUME NEW c, NEW made, \A x \in Held(c) \cup made : x \in IRVars,
           NEW do \in DoTasks \ {"function"}, NEW e \in Trees \cup {NoTree},
           NEW x \in Held(c) \cup made, NEW y \in Held(c) \cup made,
           do \in TreeTasks => e \in Trees,
           do \in {"lhs", "combine", "test lhs"} => Len(e.kids) = 2,
           do \in {"test lhs", "branch"} => e.op \in CompareOps,
           do = "else" => Len(e.kids) = 3
    PROVE  NewCall(c, Task(do, e, x, y), made)
<1>1. x \in IRVars /\ y \in IRVars
  OBVIOUS
<1>2. Task(do, e, x, y) \in Tasks
  BY <1>1, TaskTyped
<1>3. TaskOK(Task(do, e, x, y))
  BY DEF Task, TaskOK
<1> QED BY <1>2, <1>3 DEF NewCall, Task

LEMMA NewTasks ==
    ASSUME NEW c, NEW made, \A x \in Held(c) \cup made : x \in IRVars, Nullptr \in Held(c)
    PROVE  /\ \A e \in Trees : NewCall(c, Lower(e), made) /\ NewCall(c, Perform(e), made)
                               /\ NewCall(c, Then("arg", e), made)
           /\ \A e \in Trees : Len(e.kids) = 2 => NewCall(c, Then("lhs", e), made)
           /\ \A do \in {"write", "negate", "Return", "PushCallArg"} :
                 NewCall(c, Then(do, NoTree), made)
           /\ \A x \in Held(c) \cup made : \A do \in {"SetLabel", "Goto", "one", "result", "init"} :
                 NewCall(c, Emit(do, x), made)
           /\ \A x, y \in Held(c) \cup made : NewCall(c, Task("invoke", NoTree, x, y), made)
           /\ \A e \in Trees : \A x, y \in Held(c) \cup made : NewCall(c, Test(e, x, y), made)
<1>1. ASSUME NEW e \in Trees, NEW do \in {"expr", "stmt", "arg"}
      PROVE  NewCall(c, Task(do, e, Nullptr, Nullptr), made)
  BY NewTask DEF DoTasks, TreeTasks
<1>2. ASSUME NEW e \in Trees, Len(e.kids) = 2 PROVE NewCall(c, Task("lhs", e, Nullptr, Nullptr), made)
  BY <1>2, NewTask DEF DoTasks, TreeTasks
<1>3. ASSUME NEW do \in {"write", "negate", "Return", "PushCallArg"}
      PROVE  NewCall(c, Task(do, NoTree, Nullptr, Nullptr), made)
  BY NewTask DEF DoTasks, TreeTasks
<1>4. ASSUME NEW do \in {"SetLabel", "Goto", "one", "result", "init"}, NEW x \in Held(c) \cup made
      PROVE  NewCall(c, Task(do, NoTree, x, Nullptr), made)
  BY NewTask DEF DoTasks, TreeTasks
<1>5. ASSUME NEW x \in Held(c) \cup made, NEW y \in Held(c) \cup made
      PROVE  NewCall(c, Task("invoke", NoTree, x, y), made)
  BY NewTask DEF DoTasks, TreeTasks
<1>6. ASSUME NEW e \in Trees, NEW x \in Held(c) \cup made, NEW y \in Held(c) \cup made
      PROVE  NewCall(c, Task("cond", e, x, y), made)
  BY NewTask DEF DoTasks, TreeTasks
<1> HIDE DEF NewCall, Task
<1> QED BY <1>1, <1>2, <1>3, <1>4, <1>5, <1>6 DEF Lower, Perform, Then, Emit, Test

LEMMA QuietOf ==
    /\ QuietWork(<< >>)
    /\ \A t1 : t1.do \in QuietTasks => QuietWork(<<t1>>)
    /\ \A t1, t2 : t1.do \in QuietTasks /\ t2.do \in QuietTasks => QuietWork(<<t1, t2>>)
    /\ \A t1, t2, t3 : t1.do \in QuietTasks /\ t2.do \in QuietTasks /\ t3.do \in QuietTasks
          => QuietWork(<<t1, t2, t3>>)
<1> HIDE DEF QuietTasks
<1>1. ASSUME NEW w, \A i \in DOMAIN w : w[i].do \in QuietTasks PROVE QuietWork(w)
  BY <1>1, QuietTask DEF QuietWork
<1>2. \A i \in DOMAIN << >> : << >>[i].do \in QuietTasks
  OBVIOUS
<1>3. ASSUME NEW t1, t1.do \in QuietTasks
      PROVE  \A i \in DOMAIN <<t1>> : <<t1>>[i].do \in QuietTasks
  BY <1>3
<1>4. ASSUME NEW t1, NEW t2, t1.do \in QuietTasks, t2.do \in QuietTasks
      PROVE  \A i \in DOMAIN <<t1, t2>> : <<t1, t2>>[i].do \in QuietTasks
  BY <1>4
<1>5. ASSUME NEW t1, NEW t2, NEW t3,
             t1.do \in QuietTasks, t2.do \in QuietTasks, t3.do \in QuietTasks
      PROVE  \A i \in DOMAIN <<t1, t2, t3>> : <<t1, t2, t3>>[i].do \in QuietTasks
  BY <1>5
<1> HIDE DEF QuietWork
<1> QED BY <1>1, <1>2, <1>3, <1>4, <1>5

LEMMA QuietConcat ==
    ASSUME NEW p \in Seq(Tasks), NEW q \in Seq(Tasks), QuietWork(p), QuietWork(q)
    PROVE  QuietWork(p \o q)
<1> DEFINE r == p \o q
<1>1. /\ DOMAIN r = 1..(Len(p) + Len(q))
      /\ DOMAIN p = 1..Len(p) /\ DOMAIN q = 1..Len(q) /\ Len(p) \in Nat /\ Len(q) \in Nat
      /\ \A i \in 1..Len(p) : r[i] = p[i]
      /\ \A i \in 1..Len(q) : r[Len(p) + i] = q[i]
      /\ \A i \in 1..(Len(p) + Len(q)) : i \in 1..Len(p) \/ i - Len(p) \in 1..Len(q)
  BY Concatenated
<1> HIDE DEF r, SetBy, AimOf
<1>2. ASSUME NEW i \in DOMAIN r PROVE SetBy(r[i]) = {} /\ AimOf(r[i]) = {}
  <2>1. CASE i \in 1..Len(p)
    BY <1>1, <2>1 DEF QuietWork
  <2>2. CASE i - Len(p) \in 1..Len(q)
    <3>1. i = Len(p) + (i - Len(p))
      BY <1>1
    <3>2. r[i] = q[i - Len(p)] /\ i - Len(p) \in DOMAIN q
      BY <1>1, <2>2, <3>1
    <3> QED BY <3>2 DEF QuietWork
  <2> QED BY <1>1, <2>1, <2>2
<1> QED BY <1>2 DEF QuietWork, r

-----------------------------------------------------------------------------
(* The methods for expressions.                                            *)

\* What every method finds.
Going(c, whats) ==
    /\ BuilderOK(c) /\ c.work # << >> /\ Head(c.work).do \in whats

LEMMA GoingIs ==
    ASSUME NEW c, NEW whats, whats \subseteq DoTasks \ {"function"}, Going(c, whats)
    PROVE  /\ BuilderOK(c) /\ c.work # << >> /\ Head(c.work).do # "function"
           /\ BuilderTyped(c) /\ Prepared(c, c, {})
           /\ Nullptr \in Held(c) /\ c.res \in Held(c) /\ \A x \in Held(c) : x \in IRVars
           /\ Nullptr \in IRVars /\ c.res \in IRVars
           /\ Head(c.work).x \in Held(c) /\ Head(c.work).y \in Held(c)
           /\ Head(c.work).x \in IRVars /\ Head(c.work).y \in IRVars
           /\ Head(c.work).e \in Trees \cup {NoTree} /\ TaskOK(Head(c.work))
<1>1. BuilderOK(c) /\ c.work # << >> /\ Head(c.work).do # "function"
  BY DEF Going
<1>2. /\ Head(c.work) \in Tasks /\ TaskOK(Head(c.work))
      /\ Head(c.work).x \in Held(c) /\ Head(c.work).y \in Held(c)
      /\ c.res \in Held(c) /\ Nullptr \in Held(c)
      /\ \A x \in Held(c) : x \in IRVars
      /\ BuilderTyped(c)
  BY <1>1, HeadIs
<1>3. Prepared(c, c, {})
  BY <1>2, PreparedSelf
<1>4. Head(c.work).e \in Trees \cup {NoTree}
  BY <1>2 DEF Tasks
<1> QED BY <1>1, <1>2, <1>3, <1>4

LEMMA MadeTyped ==
    ASSUME NEW c, NEW e, NEW made, BuilderOK(c), Prepared(c, e, made)
    PROVE  \A x \in Held(c) \cup made : x \in IRVars
BY DEF Prepared, Made, BuilderOK, Told

LEMMA KidsAre ==
    ASSUME NEW e \in Trees
    PROVE  /\ Len(e.kids) \in Nat
           /\ Len(e.kids) >= 1 => e.kids[1] \in Trees
           /\ Len(e.kids) >= 2 => e.kids[2] \in Trees
           /\ Len(e.kids) >= 3 => e.kids[3] \in Trees
<1>1. Len(e.kids) \in Nat /\ \A i \in 1..Len(e.kids) : e.kids[i] \in Trees
  BY TreeTyped
<1> DEFINE n == Len(e.kids)
           f(i) == e.kids[i]
<1>2. n \in Nat /\ \A i \in 1..n : f(i) \in Trees
  BY <1>1
<1> HIDE DEF n, f
<1>3. /\ n >= 1 => f(1) \in Trees
      /\ n >= 2 => f(2) \in Trees
      /\ n >= 3 => f(3) \in Trees
  BY <1>2
<1> QED BY <1>3 DEF n, f

LEMMA ListOf ==
    ASSUME NEW S, NEW n \in Nat, NEW q \in [1..n -> S]
    PROVE  q \in Seq(S) /\ Len(q) = n /\ DOMAIN q = 1..n
OBVIOUS

LEMMA ReadNotWrite == ReadName # WriteName
<1>1. ReadName[1] = "read" /\ WriteName[1] = "write"
  BY DEF ReadName, WriteName
<1> QED BY <1>1

LEMMA CallExprOK ==
    ASSUME NEW c, NEW e \in Trees, Going(c, {"expr"}), e.op = "call"
    PROVE  CallExpr(c, e).stop = "" => BuilderOK(CallExpr(c, e))
<1> DEFINE t == GetTmpVar(c)
           made == {t.res}
<1>0. /\ BuilderOK(c) /\ c.work # << >> /\ Head(c.work).do # "function"
      /\ BuilderTyped(c) /\ Prepared(c, c, {})
      /\ Nullptr \in Held(c) /\ \A x \in Held(c) : x \in IRVars
      /\ SetBy(Head(c.work)) = {}
  <2>1. {"expr"} \subseteq DoTasks \ {"function"} /\ "expr" \in QuietTasks
    BY DEF DoTasks, TreeTasks, QuietTasks
  <2>2. Head(c.work).do = "expr"
    BY DEF Going
  <2> QED BY <2>1, <2>2, GoingIs, QuietTask
<1>1. Prepared(c, t, made) /\ t.res \in IRVars
  <2>1. Prepared(c, t, {} \cup {t.res}) /\ t.res \in IRVars
    BY <1>0, PreparedVar
  <2>2. {} \cup {t.res} = made
    OBVIOUS
  <2> HIDE DEF t, made
  <2> QED BY <2>1, <2>2
<1>2. \A x \in Held(c) \cup made : x \in IRVars
  BY <1>0, <1>1, MadeTyped
<1> HIDE DEF t
<1>3. /\ e.kids \in Seq(Trees) /\ Len(e.kids) \in Nat /\ DOMAIN e.kids = 1..Len(e.kids)
      /\ \A i \in 1..Len(e.kids) : e.kids[i] \in Trees
  BY TreeTyped
<1>4. CASE e.id = WriteName
  <2>1. CallExpr(c, e) = Call(c, <<Lower(e.kids[1]), Then("write", NoTree)>>)
    BY <1>4, ReadNotWrite DEF CallExpr
  <2>2. e.kids[1] \in Trees
    <3>1. Len(e.kids) >= 1
      BY <1>4, TreesAssumption
    <3> QED BY <3>1, KidsAre
  <2> DEFINE new == <<Lower(e.kids[1]), Then("write", NoTree)>>
  <2>3. NewCalls(c, new, {})
    <3>1. \A x \in Held(c) \cup {} : x \in IRVars
      BY <1>0
    <3>2. NewCall(c, Lower(e.kids[1]), {}) /\ NewCall(c, Then("write", NoTree), {})
      BY <1>0, <2>2, <3>1, NewTasks
    <3> QED BY <3>2, NewCallsOf
  <2>4. QuietWork(new)
    <3>1. Lower(e.kids[1]).do \in QuietTasks /\ Then("write", NoTree).do \in QuietTasks
      BY DEF Lower, Then, Task, QuietTasks, DoTasks, TreeTasks
    <3> QED BY <3>1, QuietOf
  <2> HIDE DEF new
  <2>5. BuilderOK(Call(c, new))
    BY <1>0, <2>3, <2>4, QuietCall
  <2> QED BY <2>1, <2>5 DEF new
<1>5. CASE e.id = ReadName
  <2> DEFINE s == Stmt1("Read", t.res)
  <2>0. e.id # WriteName
    BY <1>5, ReadNotWrite
  <2>1. CallExpr(c, e) = Push(Call(t, << >>), s)
    BY <1>5, <2>0 DEF CallExpr, Finish, t
  <2>2. s \in Statements
    BY <1>1, NullIs, StatementTyped
  <2>3. {s.x, s.y, s.z} \subseteq Held(c) \cup made /\ s.op = "Read"
    BY <1>0 DEF Stmt1, Stmt3
  <2>4. NewCalls(c, << >>, made) /\ QuietWork(<< >>)
    BY NewCallsOf, QuietOf
  <2>5. s.op \notin {"SetLabel", "Goto", "BranchIf"}
    BY <2>1, <2>3
  <2> HIDE DEF s, made
  <2>6. Push(Call(t, << >>), s).stop = "" => BuilderOK(Push(Call(t, << >>), s))
    BY <1>0, <1>1, <2>2, <2>3, <2>4, <2>5, QuietPush
  <2> QED BY <2>1, <2>6
<1>6. CASE e.id \notin {ReadName, WriteName} /\ e.id \notin DOMAIN c.funcVars
  <2>1. CallExpr(c, e) = Halt(c, "unknown function")
    BY <1>6 DEF CallExpr
  <2>2. Shaped(c)
    BY <1>0 DEF BuilderTyped
  <2>3. Halt(c, "unknown function").stop = "unknown function"
    BY <2>2 DEF Halt, Shaped
  <2> QED BY <2>1, <2>3
<1>7. CASE e.id \notin {ReadName, WriteName} /\ e.id \in DOMAIN c.funcVars
  <2> DEFINE f == c.funcVars[e.id]
             p == [i \in DOMAIN e.kids |-> Then("arg", e.kids[i])]
             q == <<Task("invoke", NoTree, t.res, f)>>
  <2>1. CallExpr(c, e) = Call(t, p \o q)
    BY <1>7 DEF CallExpr, t
  <2>2. f \in Held(c)
    BY <1>7, HeldParts
  <2>3. NewCalls(c, p, made) /\ p \in Seq(Tasks)
    <3>1. \A i \in 1..Len(e.kids) : NewCall(c, Then("arg", e.kids[i]), made)
      BY <1>0, <1>2, <1>3, NewTasks
    <3> DEFINE n == Len(e.kids)
               g(i) == Then("arg", e.kids[i])
    <3>2. n \in Nat /\ p = [i \in 1..n |-> g(i)] /\ \A i \in 1..n : NewCall(c, g(i), made)
      BY <1>3, <3>1
    <3> HIDE DEF n, g, p, Tasks, TaskOK, Held, made
    <3>3. \A i \in 1..n : g(i) \in Tasks
      BY <3>2 DEF NewCall
    <3>4. p \in [1..n -> Tasks] /\ \A i \in 1..n : p[i] = g(i)
      BY <3>2, <3>3
    <3>5. p \in Seq(Tasks) /\ DOMAIN p = 1..n
      BY <3>2, <3>4, ListOf
    <3> QED BY <3>2, <3>4, <3>5 DEF NewCall, NewCalls
  <2>4. NewCalls(c, q, made) /\ q \in Seq(Tasks)
    <3>1. NewCall(c, Task("invoke", NoTree, t.res, f), made)
      BY <1>0, <1>2, <2>2, NewTasks
    <3>2. NewCalls(c, q, made)
      BY <3>1, NewCallsOf
    <3> HIDE DEF q
    <3> QED BY <3>2 DEF NewCalls
  <2>5. QuietWork(p \o q)
    <3>1. QuietWork(p)
      <4>1. \A i \in DOMAIN p : p[i].do \in QuietTasks
        BY DEF Then, Task, QuietTasks, DoTasks, TreeTasks
      <4> HIDE DEF p
      <4> QED BY <4>1, QuietTask DEF QuietWork
    <3>2. QuietWork(q)
      <4>1. Task("invoke", NoTree, t.res, f).do \in QuietTasks
        BY DEF Task, QuietTasks, DoTasks, TreeTasks
      <4> QED BY <4>1, QuietOf
    <3> HIDE DEF p, q
    <3> QED BY <2>3, <2>4, <3>1, <3>2, QuietConcat
  <2>6. NewCalls(c, p \o q, made)
    BY <2>3, <2>4, NewCallsConcat
  <2> HIDE DEF p, q, made
  <2> QED BY <1>0, <1>1, <2>1, <2>5, <2>6, QuietCall
<1> QED BY <1>4, <1>5, <1>6, <1>7

\* Calls that have nothing to do with labels, one by one.
PlainCall(c, t, made)    == NewCall(c, t, made) /\ t.do \in QuietTasks
PlainCalls(c, new, made) == NewCalls(c, new, made) /\ QuietWork(new)

LEMMA PlainCallsOf ==
    ASSUME NEW c, NEW made
    PROVE  /\ PlainCalls(c, << >>, made)
           /\ \A t1 : PlainCall(c, t1, made) => PlainCalls(c, <<t1>>, made)
           /\ \A t1, t2 : PlainCall(c, t1, made) /\ PlainCall(c, t2, made)
                 => PlainCalls(c, <<t1, t2>>, made)
<1> HIDE DEF NewCall, NewCalls, QuietWork, QuietTasks
<1>1. NewCalls(c, << >>, made) /\ QuietWork(<< >>)
  BY NewCallsOf, QuietOf
<1>2. ASSUME NEW t1, PlainCall(c, t1, made) PROVE NewCalls(c, <<t1>>, made) /\ QuietWork(<<t1>>)
  BY <1>2, NewCallsOf, QuietOf DEF PlainCall
<1>3. ASSUME NEW t1, NEW t2, PlainCall(c, t1, made), PlainCall(c, t2, made)
      PROVE  NewCalls(c, <<t1, t2>>, made) /\ QuietWork(<<t1, t2>>)
  BY <1>3, NewCallsOf, QuietOf DEF PlainCall
<1> QED BY <1>1, <1>2, <1>3 DEF PlainCalls

LEMMA PlainTasks ==
    ASSUME NEW c, NEW made, \A x \in Held(c) \cup made : x \in IRVars, Nullptr \in Held(c)
    PROVE  /\ \A e \in Trees : PlainCall(c, Lower(e), made) /\ PlainCall(c, Perform(e), made)
           /\ \A e \in Trees : Len(e.kids) = 2 => PlainCall(c, Then("lhs", e), made)
           /\ \A do \in {"write", "negate", "Return", "PushCallArg"} :
                 PlainCall(c, Then(do, NoTree), made)
           /\ \A x \in Held(c) \cup made : PlainCall(c, Emit("init", x), made)
<1>1. /\ \A e \in Trees : NewCall(c, Lower(e), made) /\ NewCall(c, Perform(e), made)
      /\ \A e \in Trees : Len(e.kids) = 2 => NewCall(c, Then("lhs", e), made)
      /\ \A do \in {"write", "negate", "Return", "PushCallArg"} : NewCall(c, Then(do, NoTree), made)
      /\ \A x \in Held(c) \cup made : NewCall(c, Emit("init", x), made)
  BY NewTasks
<1>2. /\ \A e : /\ Lower(e).do \in QuietTasks /\ Perform(e).do \in QuietTasks
                /\ Then("lhs", e).do \in QuietTasks
      /\ \A do \in {"write", "negate", "Return", "PushCallArg"} : Then(do, NoTree).do \in QuietTasks
      /\ \A x : Emit("init", x).do \in QuietTasks
  BY DEF Lower, Perform, Then, Emit, Task, QuietTasks, DoTasks, TreeTasks
<1> HIDE DEF Lower, Perform, Then, Emit, NewCall, QuietTasks
<1> QED BY <1>1, <1>2 DEF PlainCall

LEMMA PlainGoing ==
    ASSUME NEW c, NEW whats, whats \subseteq QuietTasks \ {"function"}, Going(c, whats)
    PROVE  /\ BuilderOK(c) /\ c.work # << >> /\ Head(c.work).do # "function"
           /\ BuilderTyped(c) /\ Prepared(c, c, {}) /\ Shaped(c)
           /\ Nullptr \in Held(c) /\ c.res \in Held(c)
           /\ \A x \in Held(c) : x \in IRVars
           /\ \A x \in Held(c) \cup {} : x \in IRVars
           /\ Head(c.work).x \in Held(c) /\ Head(c.work).y \in Held(c)
           /\ Head(c.work).e \in Trees \cup {NoTree} /\ TaskOK(Head(c.work))
           /\ SetBy(Head(c.work)) = {}
<1>1. whats \subseteq DoTasks \ {"function"} /\ Head(c.work).do \in QuietTasks
  BY DEF QuietTasks, Going
<1>2. SetBy(Head(c.work)) = {}
  BY <1>1, QuietTask
<1>3. /\ BuilderOK(c) /\ c.work # << >> /\ Head(c.work).do # "function"
      /\ BuilderTyped(c) /\ Prepared(c, c, {})
      /\ Nullptr \in Held(c) /\ c.res \in Held(c) /\ \A x \in Held(c) : x \in IRVars
      /\ Head(c.work).x \in Held(c) /\ Head(c.work).y \in Held(c)
      /\ Head(c.work).e \in Trees \cup {NoTree} /\ TaskOK(Head(c.work))
  BY <1>1, GoingIs
<1> QED BY <1>2, <1>3 DEF BuilderTyped

\* The next calls, after some objects have been made.
LEMMA GoOn ==
    ASSUME NEW c, NEW whats, whats \subseteq QuietTasks \ {"function"}, Going(c, whats),
           NEW e, NEW made, Prepared(c, e, made), NEW new, PlainCalls(c, new, made)
    PROVE  BuilderOK(Call(e, new))
<1>1. /\ BuilderOK(c) /\ c.work # << >> /\ Head(c.work).do # "function"
      /\ SetBy(Head(c.work)) = {}
  BY PlainGoing
<1> QED BY <1>1, QuietCall DEF PlainCalls

\* A statement at the end of a method.
LEMMA GoPush ==
    ASSUME NEW c, NEW whats, whats \subseteq QuietTasks \ {"function"}, Going(c, whats),
           NEW e, NEW made, Prepared(c, e, made),
           NEW s \in Statements, {s.x, s.y, s.z} \subseteq Held(c) \cup made,
           s.op \notin {"SetLabel", "Goto", "BranchIf"}
    PROVE  /\ Finish(e, s).stop = "" => BuilderOK(Finish(e, s))
           /\ \A x \in Held(c) \cup made : Answer(e, s, x).stop = "" => BuilderOK(Answer(e, s, x))
<1>1. /\ BuilderOK(c) /\ c.work # << >> /\ Head(c.work).do # "function"
      /\ BuilderTyped(c) /\ SetBy(Head(c.work)) = {}
  BY PlainGoing
<1>2. NewCalls(c, << >>, made) /\ QuietWork(<< >>)
  BY NewCallsOf, QuietOf
<1> DEFINE none == << >>
           d == Push(Call(e, none), s)
<1>3. Finish(e, s) = d /\ \A x : Answer(e, s, x) = [d EXCEPT !.res = x]
  BY DEF Finish, Answer
<1> HIDE DEF none
<1>4. Shaped(d)
  BY <1>1, <1>2, PushStep DEF none
<1>5. d.stop = "" => /\ BuilderOK(d)
                     /\ \A x \in Held(c) \cup made : BuilderOK([d EXCEPT !.res = x])
  BY <1>1, <1>2, QuietPush DEF none
<1> HIDE DEF d
<1>6. \A x : [d EXCEPT !.res = x].stop = d.stop
  BY <1>4 DEF Shaped
<1> QED BY <1>3, <1>5, <1>6

LEMMA HaltStops ==
    ASSUME NEW c, Shaped(c), NEW why
    PROVE  Halt(c, why).stop = why
<1>1. Halt(c, why) = [c EXCEPT !.stop = why]
  BY DEF Halt
<1> QED BY <1>1 DEF Shaped

\* Another result, and nothing else.
LEMMA GoResult ==
    ASSUME NEW c, NEW whats, whats \subseteq QuietTasks \ {"function"}, Going(c, whats),
           NEW x \in Held(c)
    PROVE  BuilderOK([Call(c, << >>) EXCEPT !.res = x])
<1> DEFINE none == << >>
           d == Call(c, none)
           r == [d EXCEPT !.res = x]
<1>1. /\ BuilderOK(c) /\ c.work # << >> /\ Head(c.work).do # "function"
      /\ BuilderTyped(c) /\ Prepared(c, c, {}) /\ SetBy(Head(c.work)) = {}
  BY PlainGoing
<1>2. Steps(c, d, none, none, {})
  <2>1. NewCalls(c, none, {})
    BY NewCallsOf
  <2> QED BY <1>1, <2>1, CallStep
<1>3. QuietWork(none) /\ QuietCode(none)
  BY QuietOf DEF QuietCode
<1> HIDE DEF none, d
<1>4. Steps(c, r, none, none, {})
  <2>1. x \in Held(c) \cup {}
    OBVIOUS
  <2> QED BY <1>2, <2>1, ResultStep
<1> HIDE DEF r
<1>5. LabelMoves(c, r, none, none)
  <2>1. r.cnt \in Nat /\ c.cnt <= r.cnt
    BY <1>1, <1>4 DEF Steps, BuilderTyped
  <2>2. c.work \in Seq(Tasks)
    BY <1>1 DEF BuilderTyped
  <2> QED BY <1>1, <1>3, <2>1, <2>2, QuietMoves
<1>6. BuilderOK(r)
  BY <1>1, <1>4, <1>5, StepKeeps
<1> QED BY <1>6 DEF r, d, none

LEMMA NegateOK ==
    ASSUME NEW c, Going(c, {"negate"})
    PROVE  Negate(c).stop = "" => BuilderOK(Negate(c))
<1> DEFINE zero == Create(c, "Constant", NoName, Num(0))
           r    == GetTmpVar(zero)
           one  == {} \cup {zero.res}
           made == one \cup {r.res}
           s    == Stmt3("Minus", r.res, zero.res, c.res)
<1>1. {"negate"} \subseteq QuietTasks \ {"function"}
  BY DEF QuietTasks, DoTasks
<1>2. /\ BuilderTyped(c) /\ Prepared(c, c, {}) /\ c.res \in Held(c)
      /\ \A x \in Held(c) : x \in IRVars
  BY <1>1, PlainGoing
<1>3. NoName \in VarNames /\ Num(0) \in Values
  BY NumTyped DEF VarNames
<1>4. Prepared(c, zero, one) /\ zero.res \in IRVars
  BY <1>2, <1>3, PreparedNew
<1> HIDE DEF zero, one
<1>5. Prepared(c, r, made) /\ r.res \in IRVars
  BY <1>2, <1>4, PreparedVar
<1> HIDE DEF r
<1>6. s \in Statements
  <2>1. c.res \in IRVars
    BY <1>2
  <2> QED BY <1>4, <1>5, <2>1, StatementTyped DEF Arith
<1>7. {s.x, s.y, s.z} \subseteq Held(c) \cup made /\ s.op = "Minus"
  BY <1>2 DEF Stmt3, one
<1>8. Negate(c) = Finish(r, s)
  BY DEF Negate, zero, r
<1> HIDE DEF s, made
<1>9. s.op \notin {"SetLabel", "Goto", "BranchIf"}
  BY <1>7
<1>10. Finish(r, s).stop = "" => BuilderOK(Finish(r, s))
  BY <1>1, <1>5, <1>6, <1>7, <1>9, GoPush
<1> QED BY <1>8, <1>10

LEMMA ExprsOK ==
    ASSUME NEW c, NEW e \in Trees, Going(c, {"expr"})
    PROVE  Exprs(c, e).stop = "" => BuilderOK(Exprs(c, e))
<1>1. {"expr"} \subseteq QuietTasks \ {"function"}
  BY DEF QuietTasks, DoTasks, TreeTasks
<1>2. /\ BuilderTyped(c) /\ Prepared(c, c, {}) /\ Shaped(c) /\ Nullptr \in Held(c)
      /\ \A x \in Held(c) \cup {} : x \in IRVars
  BY <1>1, PlainGoing
<1>3. CASE e.op = "call"
  <2>1. Exprs(c, e) = CallExpr(c, e)
    BY <1>3 DEF Exprs
  <2> QED BY <1>3, <2>1, CallExprOK
<1>4. CASE e.op = "()" /\ Len(e.kids) = 1
  <2> DEFINE new == <<Lower(e.kids[1])>>
  <2>1. Exprs(c, e) = Call(c, new)
    BY <1>4, KidsAre DEF Exprs
  <2>2. e.kids[1] \in Trees
    BY <1>4, KidsAre
  <2>3. PlainCall(c, Lower(e.kids[1]), {})
    BY <1>2, <2>2, PlainTasks
  <2>4. PlainCalls(c, new, {})
    BY <2>3, PlainCallsOf
  <2> HIDE DEF new
  <2> QED BY <1>1, <1>2, <2>1, <2>4, GoOn
<1>5. CASE e.op = "const"
  <2> DEFINE d == Create(c, "Constant", NoName, e.val)
             made == {} \cup {d.res}
  <2>1. Exprs(c, e) = Call(d, << >>)
    BY <1>5 DEF Exprs
  <2>2. NoName \in VarNames /\ e.val \in Values
    BY TreeTyped DEF VarNames
  <2>3. Prepared(c, d, made)
    BY <1>2, <2>2, PreparedNew
  <2> HIDE DEF d, made
  <2>4. PlainCalls(c, << >>, made)
    BY PlainCallsOf
  <2> QED BY <1>1, <2>1, <2>3, <2>4, GoOn
<1>6. CASE e.op = "id"
  <2>1. CASE e.id \notin DOMAIN c.vars
    BY <1>2, <1>6, <2>1, HaltStops DEF Exprs
  <2>2. CASE e.id \in DOMAIN c.vars
    <3>1. c.vars[e.id] \in Held(c)
      BY <2>2, HeldParts
    <3>2. Exprs(c, e) = [Call(c, << >>) EXCEPT !.res = c.vars[e.id]]
      BY <1>6, <2>2 DEF Exprs
    <3> DEFINE x == c.vars[e.id]
    <3> HIDE DEF x
    <3>3. x \in Held(c)
      BY <3>1 DEF x
    <3>4. BuilderOK([Call(c, << >>) EXCEPT !.res = x])
      BY <1>1, <3>3, GoResult
    <3> QED BY <3>2, <3>4 DEF x
  <2> QED BY <2>1, <2>2
<1>7. CASE e.op = "-" /\ Len(e.kids) = 1
  <2> DEFINE new == <<Lower(e.kids[1]), Then("negate", NoTree)>>
  <2>1. Exprs(c, e) = Call(c, new)
    BY <1>7, KidsAre DEF Exprs
  <2>2. e.kids[1] \in Trees
    BY <1>7, KidsAre
  <2>3. PlainCall(c, Lower(e.kids[1]), {}) /\ PlainCall(c, Then("negate", NoTree), {})
    BY <1>2, <2>2, PlainTasks
  <2>4. PlainCalls(c, new, {})
    BY <2>3, PlainCallsOf
  <2> HIDE DEF new
  <2> QED BY <1>1, <1>2, <2>1, <2>4, GoOn
<1>8. CASE /\ e.op \notin {"call", "const", "id", "comma"} /\ Len(e.kids) = 2
  <2> DEFINE new == <<Lower(e.kids[1]), Then("lhs", e)>>
  <2>1. Exprs(c, e) = Call(c, new)
    BY <1>8, KidsAre DEF Exprs
  <2>2. e.kids[1] \in Trees
    BY <1>8, KidsAre
  <2>3. PlainCall(c, Lower(e.kids[1]), {}) /\ PlainCall(c, Then("lhs", e), {})
    BY <1>2, <1>8, <2>2, PlainTasks
  <2>4. PlainCalls(c, new, {})
    BY <2>3, PlainCallsOf
  <2> HIDE DEF new
  <2> QED BY <1>1, <1>2, <2>1, <2>4, GoOn
<1>9. CASE /\ e.op \notin {"call", "const", "id"} /\ (e.op = "comma" \/ Len(e.kids) # 2)
           /\ ~(e.op = "()" /\ Len(e.kids) = 1) /\ ~(e.op = "-" /\ Len(e.kids) = 1)
  BY <1>2, <1>9, HaltStops DEF Exprs
<1> QED BY <1>3, <1>4, <1>5, <1>6, <1>7, <1>8, <1>9

-----------------------------------------------------------------------------
(* Labels of lists of calls.                                               *)

LEMMA TaskLabels ==
    ASSUME NEW e, NEW x, NEW y
    PROVE  /\ \A t \in {Lower(e), Perform(e), Then("arg", e), Emit("one", x), Emit("result", x)} :
                 SetBy(t) = {} /\ AimOf(t) = {}
           /\ SetBy(Test(e, x, y)) = {} /\ AimOf(Test(e, x, y)) = {x, y}
           /\ SetBy(Emit("Goto", x)) = {} /\ AimOf(Emit("Goto", x)) = {x}
           /\ SetBy(Emit("SetLabel", x)) = {x} /\ AimOf(Emit("SetLabel", x)) = {}
           /\ \A do \in {"SetLabel", "else"} : SetBy(Task(do, e, x, y)) = {x} /\ AimOf(Task(do, e, x, y)) = {}
           /\ SetBy(Task("test lhs", e, x, y)) = {} /\ AimOf(Task("test lhs", e, x, y)) = {x}
           /\ SetBy(Task("branch", e, x, y)) = {} /\ AimOf(Task("branch", e, x, y)) = {y}
<1>1. ASSUME NEW t, t.do \in QuietTasks PROVE SetBy(t) = {} /\ AimOf(t) = {}
  BY <1>1, QuietTask
<1>2. \A do \in {"expr", "stmt", "arg", "one", "result"} : do \in QuietTasks
  BY DEF QuietTasks, DoTasks, TreeTasks
<1>3. \A t \in {Lower(e), Perform(e), Then("arg", e), Emit("one", x), Emit("result", x)} :
         t.do \in {"expr", "stmt", "arg", "one", "result"}
  BY DEF Lower, Perform, Then, Emit, Task
<1>4. \A t \in {Lower(e), Perform(e), Then("arg", e), Emit("one", x), Emit("result", x)} :
         SetBy(t) = {} /\ AimOf(t) = {}
  BY <1>1, <1>2, <1>3
<1>5. SetBy(Test(e, x, y)) = {} /\ AimOf(Test(e, x, y)) = {x, y}
  BY DEF Test, Task, SetBy, AimOf
<1>6. SetBy(Emit("Goto", x)) = {} /\ AimOf(Emit("Goto", x)) = {x}
  BY DEF Emit, Task, SetBy, AimOf
<1>7. SetBy(Emit("SetLabel", x)) = {x} /\ AimOf(Emit("SetLabel", x)) = {}
  BY DEF Emit, Task, SetBy, AimOf
<1>8. \A do \in {"SetLabel", "else"} : SetBy(Task(do, e, x, y)) = {x} /\ AimOf(Task(do, e, x, y)) = {}
  BY DEF Task, SetBy, AimOf
<1>9. SetBy(Task("test lhs", e, x, y)) = {} /\ AimOf(Task("test lhs", e, x, y)) = {x}
  BY DEF Task, SetBy, AimOf
<1>10. SetBy(Task("branch", e, x, y)) = {} /\ AimOf(Task("branch", e, x, y)) = {y}
  BY DEF Task, SetBy, AimOf
<1> QED BY <1>4, <1>5, <1>6, <1>7, <1>8, <1>9, <1>10

LEMMA WorkOf2 ==
    ASSUME NEW t1, NEW t2
    PROVE  LET w == <<t1, t2>>
           IN  /\ WorkSets(w) = SetBy(t1) \cup SetBy(t2)
               /\ WorkAims(w) = AimOf(t1) \cup AimOf(t2)
               /\ Apart(SetBy(t1), SetBy(t2)) => WorkOnce(w)
<1> DEFINE w == <<t1, t2>>
<1>1. DOMAIN w = 1..2 /\ w[1] = t1 /\ w[2] = t2
  OBVIOUS
<1>2. \A i \in DOMAIN w : i = 1 \/ i = 2
  BY <1>1
<1>3. {1, 2} \subseteq DOMAIN w
  BY <1>1
<1> HIDE DEF w, SetBy, AimOf
<1>4. WorkSets(w) = SetBy(t1) \cup SetBy(t2)
  BY <1>1, <1>2, <1>3 DEF WorkSets
<1>5. WorkAims(w) = AimOf(t1) \cup AimOf(t2)
  BY <1>1, <1>2, <1>3 DEF WorkAims
<1>6. ASSUME Apart(SetBy(t1), SetBy(t2))
      PROVE  WorkOnce(w)
  BY <1>1, <1>2, <1>6 DEF WorkOnce, Apart
<1> QED BY <1>4, <1>5, <1>6 DEF w

LEMMA WorkOf3 ==
    ASSUME NEW t1, NEW t2, NEW t3
    PROVE  LET w == <<t1, t2, t3>>
           IN  /\ WorkSets(w) = SetBy(t1) \cup SetBy(t2) \cup SetBy(t3)
               /\ WorkAims(w) = AimOf(t1) \cup AimOf(t2) \cup AimOf(t3)
               /\ (/\ Apart(SetBy(t1), SetBy(t2)) /\ Apart(SetBy(t1), SetBy(t3))
                    /\ Apart(SetBy(t2), SetBy(t3)))
                      => WorkOnce(w)
<1> DEFINE w == <<t1, t2, t3>>
<1>1. DOMAIN w = 1..3 /\ w[1] = t1 /\ w[2] = t2 /\ w[3] = t3
  OBVIOUS
<1>2. \A i \in DOMAIN w : i = 1 \/ i = 2 \/ i = 3
  BY <1>1
<1>3. {1, 2, 3} \subseteq DOMAIN w
  BY <1>1
<1> HIDE DEF w, SetBy, AimOf
<1>4. WorkSets(w) = SetBy(t1) \cup SetBy(t2) \cup SetBy(t3)
  BY <1>1, <1>2, <1>3 DEF WorkSets
<1>5. WorkAims(w) = AimOf(t1) \cup AimOf(t2) \cup AimOf(t3)
  BY <1>1, <1>2, <1>3 DEF WorkAims
<1>6. ASSUME Apart(SetBy(t1), SetBy(t2)),
             Apart(SetBy(t1), SetBy(t3)),
             Apart(SetBy(t2), SetBy(t3))
      PROVE  WorkOnce(w)
  BY <1>1, <1>2, <1>6 DEF WorkOnce, Apart
<1> QED BY <1>4, <1>5, <1>6 DEF w

LEMMA WorkOf4 ==
    ASSUME NEW t1, NEW t2, NEW t3, NEW t4
    PROVE  LET w == <<t1, t2, t3, t4>>
           IN  /\ WorkSets(w) = SetBy(t1) \cup SetBy(t2) \cup SetBy(t3) \cup SetBy(t4)
               /\ WorkAims(w) = AimOf(t1) \cup AimOf(t2) \cup AimOf(t3) \cup AimOf(t4)
               /\ (/\ Apart(SetBy(t1), SetBy(t2)) /\ Apart(SetBy(t1), SetBy(t3))
                    /\ Apart(SetBy(t1), SetBy(t4)) /\ Apart(SetBy(t2), SetBy(t3))
                    /\ Apart(SetBy(t2), SetBy(t4)) /\ Apart(SetBy(t3), SetBy(t4)))
                      => WorkOnce(w)
<1> DEFINE w == <<t1, t2, t3, t4>>
<1>1. DOMAIN w = 1..4 /\ w[1] = t1 /\ w[2] = t2 /\ w[3] = t3 /\ w[4] = t4
  OBVIOUS
<1>2. \A i \in DOMAIN w : i = 1 \/ i = 2 \/ i = 3 \/ i = 4
  BY <1>1
<1>3. {1, 2, 3, 4} \subseteq DOMAIN w
  BY <1>1
<1> HIDE DEF w, SetBy, AimOf
<1>4. WorkSets(w) = SetBy(t1) \cup SetBy(t2) \cup SetBy(t3) \cup SetBy(t4)
  BY <1>1, <1>2, <1>3 DEF WorkSets
<1>5. WorkAims(w) = AimOf(t1) \cup AimOf(t2) \cup AimOf(t3) \cup AimOf(t4)
  BY <1>1, <1>2, <1>3 DEF WorkAims
<1>6. ASSUME Apart(SetBy(t1), SetBy(t2)),
             Apart(SetBy(t1), SetBy(t3)),
             Apart(SetBy(t1), SetBy(t4)),
             Apart(SetBy(t2), SetBy(t3)),
             Apart(SetBy(t2), SetBy(t4)),
             Apart(SetBy(t3), SetBy(t4))
      PROVE  WorkOnce(w)
  BY <1>1, <1>2, <1>6 DEF WorkOnce, Apart
<1> QED BY <1>4, <1>5, <1>6 DEF w

LEMMA WorkOf5 ==
    ASSUME NEW t1, NEW t2, NEW t3, NEW t4, NEW t5
    PROVE  LET w == <<t1, t2, t3, t4, t5>>
           IN  /\ WorkSets(w) = SetBy(t1) \cup SetBy(t2) \cup SetBy(t3) \cup SetBy(t4) \cup SetBy(t5)
               /\ WorkAims(w) = AimOf(t1) \cup AimOf(t2) \cup AimOf(t3) \cup AimOf(t4) \cup AimOf(t5)
               /\ (/\ Apart(SetBy(t1), SetBy(t2)) /\ Apart(SetBy(t1), SetBy(t3))
                    /\ Apart(SetBy(t1), SetBy(t4)) /\ Apart(SetBy(t1), SetBy(t5))
                    /\ Apart(SetBy(t2), SetBy(t3)) /\ Apart(SetBy(t2), SetBy(t4))
                    /\ Apart(SetBy(t2), SetBy(t5)) /\ Apart(SetBy(t3), SetBy(t4))
                    /\ Apart(SetBy(t3), SetBy(t5)) /\ Apart(SetBy(t4), SetBy(t5)))
                      => WorkOnce(w)
<1> DEFINE w == <<t1, t2, t3, t4, t5>>
<1>1. DOMAIN w = 1..5 /\ w[1] = t1 /\ w[2] = t2 /\ w[3] = t3 /\ w[4] = t4 /\ w[5] = t5
  OBVIOUS
<1>2. \A i \in DOMAIN w : i = 1 \/ i = 2 \/ i = 3 \/ i = 4 \/ i = 5
  BY <1>1
<1>3. {1, 2, 3, 4, 5} \subseteq DOMAIN w
  BY <1>1
<1> HIDE DEF w, SetBy, AimOf
<1>4. WorkSets(w) = SetBy(t1) \cup SetBy(t2) \cup SetBy(t3) \cup SetBy(t4) \cup SetBy(t5)
  BY <1>1, <1>2, <1>3 DEF WorkSets
<1>5. WorkAims(w) = AimOf(t1) \cup AimOf(t2) \cup AimOf(t3) \cup AimOf(t4) \cup AimOf(t5)
  BY <1>1, <1>2, <1>3 DEF WorkAims
<1>6. ASSUME Apart(SetBy(t1), SetBy(t2)),
             Apart(SetBy(t1), SetBy(t3)),
             Apart(SetBy(t1), SetBy(t4)),
             Apart(SetBy(t1), SetBy(t5)),
             Apart(SetBy(t2), SetBy(t3)),
             Apart(SetBy(t2), SetBy(t4)),
             Apart(SetBy(t2), SetBy(t5)),
             Apart(SetBy(t3), SetBy(t4)),
             Apart(SetBy(t3), SetBy(t5)),
             Apart(SetBy(t4), SetBy(t5))
      PROVE  WorkOnce(w)
  BY <1>1, <1>2, <1>6 DEF WorkOnce, Apart
<1> QED BY <1>4, <1>5, <1>6 DEF w

LEMMA NewCallsOf4 ==
    ASSUME NEW c, NEW made, NEW t1, NEW t2, NEW t3, NEW t4,
           NewCall(c, t1, made),
           NewCall(c, t2, made),
           NewCall(c, t3, made),
           NewCall(c, t4, made)
    PROVE  NewCalls(c, <<t1, t2, t3, t4>>, made)
<1> HIDE DEF Tasks, TaskOK, Held
<1> QED BY DEF NewCalls, NewCall

LEMMA NewCallsOf5 ==
    ASSUME NEW c, NEW made, NEW t1, NEW t2, NEW t3, NEW t4, NEW t5,
           NewCall(c, t1, made),
           NewCall(c, t2, made),
           NewCall(c, t3, made),
           NewCall(c, t4, made),
           NewCall(c, t5, made)
    PROVE  NewCalls(c, <<t1, t2, t3, t4, t5>>, made)
<1> HIDE DEF Tasks, TaskOK, Held
<1> QED BY DEF NewCalls, NewCall

\* A method that makes labels, or sets or uses those of its caller.
LEMMA LabelCall ==
    ASSUME NEW c, NEW e, NEW made, NEW new,
           BuilderOK(c), c.work # << >>, Head(c.work).do # "function",
           Prepared(c, e, made), NewCalls(c, new, made),
           \A x \in WorkSets(new) : x \in SetBy(Head(c.work)) \/ Fresh(x, c.cnt, e.cnt),
           SetBy(Head(c.work)) \subseteq WorkSets(new),
           WorkAims(new) \subseteq AimOf(Head(c.work)) \cup WorkSets(new),
           WorkOnce(new)
    PROVE  BuilderOK(Call(e, new))
<1> DEFINE d == Call(e, new)
           none == << >>
<1>1. BuilderTyped(c) /\ c.work \in Seq(Tasks) /\ c.cnt \in Nat
  BY HeadIs
<1>2. Steps(c, d, new, none, made) /\ d.cnt = e.cnt
  BY <1>1, CallStep
<1>3. CodeSets(none) = {} /\ CodeAims(none) = {} /\ CodeOnce(none)
  BY DEF CodeSets, CodeAims, CodeOnce
<1> HIDE DEF d, none, Fresh, SetBy, AimOf
<1>4. d.cnt \in Nat /\ c.cnt <= d.cnt
  BY <1>1, <1>2 DEF Steps
<1>5. Apart(CodeSets(none), WorkSets(new))
  BY <1>3 DEF Apart
<1>6. /\ \A x \in CodeSets(none) \cup WorkSets(new) :
             x \in SetBy(Head(c.work)) \/ Fresh(x, c.cnt, d.cnt)
      /\ SetBy(Head(c.work)) \subseteq CodeSets(none) \cup WorkSets(new)
      /\ CodeAims(none) \cup WorkAims(new)
            \subseteq AimOf(Head(c.work)) \cup CodeSets(none) \cup WorkSets(new)
  BY <1>2, <1>3
<1>7. LabelMoves(c, d, new, none)
  BY <1>1, <1>3, <1>4, <1>5, <1>6, MovesBy
<1> QED BY <1>2, <1>7, StepKeeps DEF d

LEMMA OneStatement ==
    ASSUME NEW s
    PROVE  CodeSets(<<s>>) = SetIn(s) /\ CodeAims(<<s>>) = AimIn(s) /\ CodeOnce(<<s>>)
<1> DEFINE q == <<s>>
<1>1. DOMAIN q = {1} /\ q[1] = s
  BY Single
<1> HIDE DEF q, SetIn, AimIn
<1>2. CodeSets(q) = SetIn(s) /\ CodeAims(q) = AimIn(s) /\ CodeOnce(q)
  BY <1>1 DEF CodeSets, CodeAims, CodeOnce
<1> QED BY <1>2 DEF q

LEMMA LabelPush ==
    ASSUME NEW c, NEW e, NEW made, NEW new, NEW s \in Statements, NEW out, out = <<s>>,
           BuilderOK(c), c.work # << >>, Head(c.work).do # "function",
           Prepared(c, e, made), NewCalls(c, new, made),
           {s.x, s.y, s.z} \subseteq Held(c) \cup made,
           \A x \in CodeSets(out) \cup WorkSets(new) :
               x \in SetBy(Head(c.work)) \/ Fresh(x, c.cnt, e.cnt),
           SetBy(Head(c.work)) \subseteq CodeSets(out) \cup WorkSets(new),
           CodeAims(out) \cup WorkAims(new)
               \subseteq AimOf(Head(c.work)) \cup CodeSets(out) \cup WorkSets(new),
           CodeOnce(out), WorkOnce(new), Apart(CodeSets(out), WorkSets(new))
    PROVE  LET d == Push(Call(e, new), s)
           IN  d.stop = "" => BuilderOK(d)
<1> DEFINE d == Push(Call(e, new), s)
<1> SUFFICES ASSUME d.stop = "" PROVE BuilderOK(d)
  OBVIOUS
<1>1. BuilderTyped(c) /\ c.work \in Seq(Tasks) /\ c.cnt \in Nat
  BY HeadIs
<1>2. Steps(c, d, new, <<s>>, made)
  BY <1>1, PushStep
<1>3. SameCount(e, d)
  BY <1>1, PushStep
<1>4. Steps(c, d, new, out, made) /\ d.cnt = e.cnt
  BY <1>2, <1>3 DEF SameCount
<1> HIDE DEF d, Fresh, SetBy, AimOf
<1>5. d.cnt \in Nat /\ c.cnt <= d.cnt
  BY <1>1, <1>4 DEF Steps
<1>6. LabelMoves(c, d, new, out)
  BY <1>1, <1>4, <1>5, MovesBy
<1> QED BY <1>4, <1>6, StepKeeps

\* Labels made one after the other.
LEMMA OneLabel ==
    ASSUME NEW c, NEW e, NEW made, BuilderTyped(c), Prepared(c, e, made)
    PROVE  LET d == GetTmpLabel(e)
           IN  /\ Prepared(c, d, made \cup {d.res}) /\ d.cnt = e.cnt + 1
               /\ Fresh(d.res, c.cnt, d.cnt)
               /\ \A x : Fresh(x, c.cnt, e.cnt) => Fresh(x, c.cnt, d.cnt) /\ Apart({d.res}, {x})
<1> DEFINE d == GetTmpLabel(e)
<1>1. /\ Prepared(c, d, made \cup {d.res}) /\ d.cnt = e.cnt + 1
      /\ d.res.t = "Label" /\ d.res.n = <<"lb", e.cnt>>
  BY PreparedLabel
<1> HIDE DEF d
<1>2. c.cnt \in Nat /\ e.cnt \in Nat /\ c.cnt <= e.cnt
  BY DEF Prepared, BuilderTyped
<1>3. Fresh(d.res, c.cnt, d.cnt)
  <2>1. e.cnt \in c.cnt..(d.cnt - 1)
    BY <1>1, <1>2
  <2> QED BY <1>1, <2>1 DEF Fresh
<1>4. ASSUME NEW x, Fresh(x, c.cnt, e.cnt)
      PROVE  Fresh(x, c.cnt, d.cnt) /\ Apart({d.res}, {x})
  <2>1. PICK k \in c.cnt..(e.cnt - 1) : x.n = <<"lb", k>>
    BY <1>4 DEF Fresh
  <2>2. k \in c.cnt..(d.cnt - 1) /\ k # e.cnt
    BY <1>1, <1>2
  <2>3. Fresh(x, c.cnt, d.cnt)
    BY <1>4, <2>1, <2>2 DEF Fresh
  <2>4. x.n[2] = k /\ d.res.n[2] = e.cnt
    BY <1>1, <2>1
  <2> QED BY <2>2, <2>3, <2>4 DEF Apart
<1> QED BY <1>1, <1>3, <1>4 DEF d

LEMMA TwoLabels ==
    ASSUME NEW c, BuilderTyped(c)
    PROVE  LET lb1 == GetTmpLabel(c)
               lb2 == GetTmpLabel(lb1)
           IN  /\ Prepared(c, lb2, {lb1.res, lb2.res})
               /\ Fresh(lb1.res, c.cnt, lb2.cnt) /\ Fresh(lb2.res, c.cnt, lb2.cnt)
               /\ Apart({lb1.res}, {lb2.res})
<1> DEFINE lb1 == GetTmpLabel(c)
           lb2 == GetTmpLabel(lb1)
           one == {} \cup {lb1.res}
<1>1. Prepared(c, lb1, one) /\ Fresh(lb1.res, c.cnt, lb1.cnt)
  BY PreparedSelf, OneLabel
<1> HIDE DEF lb1
<1>2. /\ Prepared(c, lb2, one \cup {lb2.res})
      /\ Fresh(lb2.res, c.cnt, lb2.cnt)
      /\ \A x : Fresh(x, c.cnt, lb1.cnt) => Fresh(x, c.cnt, lb2.cnt) /\ Apart({lb2.res}, {x})
  BY <1>1, OneLabel
<1> HIDE DEF lb2
<1>3. one \cup {lb2.res} = {lb1.res, lb2.res}
  BY DEF one
<1>4. Fresh(lb1.res, c.cnt, lb2.cnt) /\ Apart({lb2.res}, {lb1.res})
  BY <1>1, <1>2
<1>5. Apart({lb1.res}, {lb2.res})
  BY <1>4 DEF Apart
<1> QED BY <1>2, <1>3, <1>4, <1>5 DEF lb1, lb2

LEMMA ThreeLabels ==
    ASSUME NEW c, BuilderTyped(c)
    PROVE  LET lb1 == GetTmpLabel(c)
               lb2 == GetTmpLabel(lb1)
               lb3 == GetTmpLabel(lb2)
           IN  /\ Prepared(c, lb3, {lb1.res, lb2.res, lb3.res})
               /\ Fresh(lb1.res, c.cnt, lb3.cnt) /\ Fresh(lb2.res, c.cnt, lb3.cnt)
               /\ Fresh(lb3.res, c.cnt, lb3.cnt)
               /\ Apart({lb1.res}, {lb2.res}) /\ Apart({lb1.res}, {lb3.res})
               /\ Apart({lb2.res}, {lb3.res})
<1> DEFINE lb1 == GetTmpLabel(c)
           lb2 == GetTmpLabel(lb1)
           lb3 == GetTmpLabel(lb2)
           two == {lb1.res, lb2.res}
<1>1. /\ Prepared(c, lb2, two)
      /\ Fresh(lb1.res, c.cnt, lb2.cnt) /\ Fresh(lb2.res, c.cnt, lb2.cnt)
      /\ Apart({lb1.res}, {lb2.res})
  BY TwoLabels
<1> HIDE DEF lb1, lb2
<1>2. /\ Prepared(c, lb3, two \cup {lb3.res})
      /\ Fresh(lb3.res, c.cnt, lb3.cnt)
      /\ \A x : Fresh(x, c.cnt, lb2.cnt) => Fresh(x, c.cnt, lb3.cnt) /\ Apart({lb3.res}, {x})
  BY <1>1, OneLabel
<1> HIDE DEF lb3
<1>3. two \cup {lb3.res} = {lb1.res, lb2.res, lb3.res}
  BY DEF two
<1>4. /\ Fresh(lb1.res, c.cnt, lb3.cnt) /\ Apart({lb3.res}, {lb1.res})
      /\ Fresh(lb2.res, c.cnt, lb3.cnt) /\ Apart({lb3.res}, {lb2.res})
  BY <1>1, <1>2
<1>5. Apart({lb1.res}, {lb3.res}) /\ Apart({lb2.res}, {lb3.res})
  BY <1>4 DEF Apart
<1> QED BY <1>1, <1>2, <1>3, <1>4, <1>5 DEF lb1, lb2, lb3

LEMMA FreshLater ==
    ASSUME NEW x, NEW low \in Nat, NEW mid \in Nat, NEW top \in Nat, mid <= top, Fresh(x, low, mid)
    PROVE  Fresh(x, low, top)
<1>1. PICK k \in low..(mid - 1) : x.n = <<"lb", k>>
  BY DEF Fresh
<1>2. k \in low..(top - 1)
  OBVIOUS
<1> QED BY <1>1, <1>2 DEF Fresh

-----------------------------------------------------------------------------
(* The methods that make labels.                                           *)

LEMMA BooleanOK ==
    ASSUME NEW c, NEW e \in Trees, Going(c, {"combine"})
    PROVE  Boolean(c, e).stop = "" => BuilderOK(Boolean(c, e))
<1> DEFINE lb1  == GetTmpLabel(c)
           lb2  == GetTmpLabel(lb1)
           r    == GetTmpVar(lb2)
           zero == Create(r, "Constant", NoName, Num(0))
           two  == {lb1.res, lb2.res}
           three == two \cup {r.res}
           made == three \cup {zero.res}
           t1 == Test(e, lb1.res, lb2.res)
           t2 == Emit("SetLabel", lb1.res)
           t3 == Emit("one", r.res)
           t4 == Emit("SetLabel", lb2.res)
           t5 == Emit("result", r.res)
           new == <<t1, t2, t3, t4, t5>>
           s == Stmt2("Assign", r.res, zero.res)
           out == <<s>>
           d == Push(Call(zero, new), s)
<1>1. Boolean(c, e) = d
  BY DEF Boolean
<1>2. {"combine"} \subseteq QuietTasks \ {"function"}
  BY DEF QuietTasks, DoTasks, TreeTasks
<1>3. /\ BuilderOK(c) /\ c.work # << >> /\ Head(c.work).do # "function"
      /\ BuilderTyped(c) /\ Nullptr \in Held(c) /\ SetBy(Head(c.work)) = {}
  BY <1>2, PlainGoing
<1>4. /\ Prepared(c, lb2, two)
      /\ Fresh(lb1.res, c.cnt, lb2.cnt) /\ Fresh(lb2.res, c.cnt, lb2.cnt)
      /\ Apart({lb1.res}, {lb2.res})
  BY <1>3, TwoLabels
<1> HIDE DEF lb1, lb2
<1>5. Prepared(c, r, three) /\ r.cnt = lb2.cnt + 1 /\ r.res \in IRVars
  BY <1>3, <1>4, PreparedVar
<1> HIDE DEF r
<1>6. Prepared(c, zero, made) /\ zero.cnt = r.cnt /\ zero.res \in IRVars
  <2>1. NoName \in VarNames /\ Num(0) \in Values
    BY NumTyped DEF VarNames
  <2> QED BY <1>3, <1>5, <2>1, PreparedNew
<1> HIDE DEF zero
<1>7. Fresh(lb1.res, c.cnt, zero.cnt) /\ Fresh(lb2.res, c.cnt, zero.cnt)
  <2>1. /\ c.cnt \in Nat /\ lb2.cnt \in Nat /\ zero.cnt \in Nat /\ lb2.cnt <= zero.cnt
    BY <1>3, <1>4, <1>5, <1>6 DEF Prepared, BuilderTyped
  <2> QED BY <1>4, <2>1, FreshLater
<1>8. \A x \in Held(c) \cup made : x \in IRVars
  BY <1>3, <1>6, MadeTyped
<1>9. {lb1.res, lb2.res, r.res, zero.res} \subseteq made
  OBVIOUS
<1> HIDE DEF made
<1>10. NewCalls(c, new, made)
  <2>1. NewCall(c, t1, made) /\ NewCall(c, t2, made) /\ NewCall(c, t3, made)
        /\ NewCall(c, t4, made) /\ NewCall(c, t5, made)
    BY <1>3, <1>8, <1>9, NewTasks
  <2> HIDE DEF t1, t2, t3, t4, t5
  <2> QED BY <2>1, NewCallsOf5
<1>11. /\ SetBy(t1) = {} /\ SetBy(t2) = {lb1.res} /\ SetBy(t3) = {}
       /\ SetBy(t4) = {lb2.res} /\ SetBy(t5) = {}
       /\ AimOf(t1) = two /\ AimOf(t2) = {} /\ AimOf(t3) = {} /\ AimOf(t4) = {} /\ AimOf(t5) = {}
  <2>1. SetBy(t1) = {} /\ AimOf(t1) = two
    <3>1. SetBy(t1) = {}
      BY TaskLabels
    <3> DEFINE x1 == lb1.res
               x2 == lb2.res
    <3> HIDE DEF x1, x2
    <3>2. AimOf(Test(e, x1, x2)) = {x1, x2}
      BY DEF Test, Task, AimOf
    <3> QED BY <3>1, <3>2 DEF x1, x2
  <2>2. SetBy(t2) = {lb1.res} /\ AimOf(t2) = {}
    BY TaskLabels
  <2>3. SetBy(t3) = {} /\ AimOf(t3) = {}
    BY TaskLabels
  <2>4. SetBy(t4) = {lb2.res} /\ AimOf(t4) = {}
    BY TaskLabels
  <2>5. SetBy(t5) = {} /\ AimOf(t5) = {}
    BY TaskLabels
  <2> QED BY <2>1, <2>2, <2>3, <2>4, <2>5
<1>12. WorkSets(new) = two /\ WorkAims(new) = two /\ WorkOnce(new)
  <2> HIDE DEF t1, t2, t3, t4, t5
  <2>1. /\ Apart(SetBy(t1), SetBy(t2)) /\ Apart(SetBy(t1), SetBy(t3))
        /\ Apart(SetBy(t1), SetBy(t4)) /\ Apart(SetBy(t1), SetBy(t5))
        /\ Apart(SetBy(t2), SetBy(t3)) /\ Apart(SetBy(t2), SetBy(t4))
        /\ Apart(SetBy(t2), SetBy(t5)) /\ Apart(SetBy(t3), SetBy(t4))
        /\ Apart(SetBy(t3), SetBy(t5)) /\ Apart(SetBy(t4), SetBy(t5))
    BY <1>4, <1>11 DEF Apart
  <2>2. WorkOnce(new)
    BY <2>1, WorkOf5
  <2>3. /\ WorkSets(new) = SetBy(t1) \cup SetBy(t2) \cup SetBy(t3) \cup SetBy(t4) \cup SetBy(t5)
        /\ WorkAims(new) = AimOf(t1) \cup AimOf(t2) \cup AimOf(t3) \cup AimOf(t4) \cup AimOf(t5)
    BY WorkOf5
  <2> HIDE DEF new
  <2> QED BY <1>11, <2>2, <2>3
<1>13. /\ s \in Statements /\ {s.x, s.y, s.z} \subseteq Held(c) \cup made
  <2>1. s \in Statements
    BY <1>5, <1>6, StatementTyped
  <2>2. {s.x, s.y, s.z} \subseteq Held(c) \cup made
    BY <1>3, <1>9 DEF Stmt2, Stmt3
  <2> QED BY <2>1, <2>2
<1>14. CodeSets(out) = {} /\ CodeAims(out) = {} /\ CodeOnce(out)
  <2>1. s.op = "Assign"
    BY DEF Stmt2, Stmt3
  <2> HIDE DEF s
  <2>2. SetIn(s) = {} /\ AimIn(s) = {}
    BY <2>1 DEF SetIn, AimIn
  <2> QED BY <2>2, OneStatement
<1> HIDE DEF new, s, Fresh
<1>15. out = <<s>>
  OBVIOUS
<1> HIDE DEF out
<1>16. /\ \A x \in CodeSets(out) \cup WorkSets(new) :
             x \in SetBy(Head(c.work)) \/ Fresh(x, c.cnt, zero.cnt)
       /\ SetBy(Head(c.work)) \subseteq CodeSets(out) \cup WorkSets(new)
       /\ CodeAims(out) \cup WorkAims(new)
              \subseteq AimOf(Head(c.work)) \cup CodeSets(out) \cup WorkSets(new)
       /\ Apart(CodeSets(out), WorkSets(new))
  BY <1>3, <1>7, <1>12, <1>14 DEF Apart
<1>17. d.stop = "" => BuilderOK(d)
  BY <1>3, <1>6, <1>10, <1>12, <1>13, <1>14, <1>15, <1>16, LabelPush
<1> QED BY <1>1, <1>17

LEMMA IterStmtOK ==
    ASSUME NEW c, NEW st \in Trees, Going(c, {"stmt"}), st.op = "while"
    PROVE  IterStmt(c, st).stop = "" => BuilderOK(IterStmt(c, st))
<1> DEFINE lb1  == GetTmpLabel(c)
           lb2  == GetTmpLabel(lb1)
           lb3  == GetTmpLabel(lb2)
           x1 == lb1.res
           x2 == lb2.res
           x3 == lb3.res
           made == {x1, x2, x3}
           k1 == st.kids[1]
           k2 == st.kids[2]
           t1 == Test(k1, x2, x3)
           t2 == Emit("SetLabel", x2)
           t3 == Perform(k2)
           t4 == Emit("Goto", x1)
           t5 == Emit("SetLabel", x3)
           new == <<t1, t2, t3, t4, t5>>
           s == Stmt1("SetLabel", x1)
           out == <<s>>
           d == Push(Call(lb3, new), s)
<1>1. IterStmt(c, st) = d
  BY DEF IterStmt
<1>2. {"stmt"} \subseteq QuietTasks \ {"function"}
  BY DEF QuietTasks, DoTasks, TreeTasks
<1>3. /\ BuilderOK(c) /\ c.work # << >> /\ Head(c.work).do # "function"
      /\ BuilderTyped(c) /\ Nullptr \in Held(c) /\ SetBy(Head(c.work)) = {}
  BY <1>2, PlainGoing
<1>4. /\ Prepared(c, lb3, made)
      /\ Fresh(x1, c.cnt, lb3.cnt) /\ Fresh(x2, c.cnt, lb3.cnt) /\ Fresh(x3, c.cnt, lb3.cnt)
      /\ Apart({x1}, {x2}) /\ Apart({x1}, {x3}) /\ Apart({x2}, {x3})
  BY <1>3, ThreeLabels
<1>5. k1 \in Trees /\ k2 \in Trees
  <2>1. Len(st.kids) \in Nat /\ Len(st.kids) \in {2, 3}
    BY KidsAre, TreesAssumption
  <2>2. Len(st.kids) >= 1 /\ Len(st.kids) >= 2
    BY <2>1
  <2> QED BY <2>2, KidsAre
<1> HIDE DEF lb1, lb2, lb3, x1, x2, x3, k1, k2
<1>8. \A x \in Held(c) \cup made : x \in IRVars
  BY <1>3, <1>4, MadeTyped
<1>9. {x1, x2, x3} \subseteq Held(c) \cup made /\ x1 \in IRVars
  BY <1>8
<1> HIDE DEF made
<1>10. NewCalls(c, new, made)
  <2>1. NewCall(c, t1, made) /\ NewCall(c, t2, made) /\ NewCall(c, t3, made)
        /\ NewCall(c, t4, made) /\ NewCall(c, t5, made)
    BY <1>3, <1>5, <1>8, <1>9, NewTasks
  <2> HIDE DEF t1, t2, t3, t4, t5
  <2> QED BY <2>1, NewCallsOf5
<1>11. /\ SetBy(t1) = {} /\ SetBy(t2) = {x2} /\ SetBy(t3) = {}
       /\ SetBy(t4) = {} /\ SetBy(t5) = {x3}
       /\ AimOf(t1) = {x2, x3} /\ AimOf(t2) = {} /\ AimOf(t3) = {} /\ AimOf(t4) = {x1}
       /\ AimOf(t5) = {}
  <2>1. SetBy(t1) = {}
    BY TaskLabels
  <2>2. AimOf(t1) = {x2, x3}
    BY DEF Test, Task, AimOf
  <2>3. SetBy(t2) = {x2} /\ AimOf(t2) = {}
    BY TaskLabels
  <2>4. SetBy(t3) = {} /\ AimOf(t3) = {}
    BY TaskLabels
  <2>5. SetBy(t4) = {} /\ AimOf(t4) = {x1}
    BY TaskLabels
  <2>6. SetBy(t5) = {x3} /\ AimOf(t5) = {}
    BY TaskLabels
  <2> QED BY <2>1, <2>2, <2>3, <2>4, <2>5, <2>6
<1>12. WorkSets(new) = {x2, x3} /\ WorkAims(new) = {x1, x2, x3} /\ WorkOnce(new)
  <2> HIDE DEF t1, t2, t3, t4, t5
  <2>1. /\ Apart(SetBy(t1), SetBy(t2)) /\ Apart(SetBy(t1), SetBy(t3))
        /\ Apart(SetBy(t1), SetBy(t4)) /\ Apart(SetBy(t1), SetBy(t5))
        /\ Apart(SetBy(t2), SetBy(t3)) /\ Apart(SetBy(t2), SetBy(t4))
        /\ Apart(SetBy(t2), SetBy(t5)) /\ Apart(SetBy(t3), SetBy(t4))
        /\ Apart(SetBy(t3), SetBy(t5)) /\ Apart(SetBy(t4), SetBy(t5))
    BY <1>4, <1>11 DEF Apart
  <2>2. WorkOnce(new)
    BY <2>1, WorkOf5
  <2>3. /\ WorkSets(new) = SetBy(t1) \cup SetBy(t2) \cup SetBy(t3) \cup SetBy(t4) \cup SetBy(t5)
        /\ WorkAims(new) = AimOf(t1) \cup AimOf(t2) \cup AimOf(t3) \cup AimOf(t4) \cup AimOf(t5)
    BY WorkOf5
  <2> HIDE DEF new
  <2> QED BY <1>11, <2>2, <2>3
<1>13. s \in Statements /\ {s.x, s.y, s.z} \subseteq Held(c) \cup made
  <2>1. s \in Statements
    BY <1>9, StatementTyped
  <2>2. {s.x, s.y, s.z} \subseteq Held(c) \cup made
    BY <1>3, <1>9 DEF Stmt1, Stmt3
  <2> QED BY <2>1, <2>2
<1>14. CodeSets(out) = {x1} /\ CodeAims(out) = {} /\ CodeOnce(out)
  <2>1. s.op = "SetLabel" /\ s.x = x1
    BY DEF Stmt1, Stmt3
  <2> HIDE DEF s
  <2>2. SetIn(s) = {x1} /\ AimIn(s) = {}
    BY <2>1 DEF SetIn, AimIn
  <2> QED BY <2>2, OneStatement
<1> HIDE DEF new, s, Fresh
<1>15. out = <<s>>
  OBVIOUS
<1> HIDE DEF out
<1>16. /\ \A x \in CodeSets(out) \cup WorkSets(new) :
             x \in SetBy(Head(c.work)) \/ Fresh(x, c.cnt, lb3.cnt)
       /\ SetBy(Head(c.work)) \subseteq CodeSets(out) \cup WorkSets(new)
       /\ CodeAims(out) \cup WorkAims(new)
              \subseteq AimOf(Head(c.work)) \cup CodeSets(out) \cup WorkSets(new)
       /\ Apart(CodeSets(out), WorkSets(new))
  BY <1>3, <1>4, <1>12, <1>14 DEF Apart
<1>17. d.stop = "" => BuilderOK(d)
  BY <1>3, <1>4, <1>10, <1>12, <1>13, <1>14, <1>15, <1>16, LabelPush
<1> QED BY <1>1, <1>17

LEMMA SelStmtOK ==
    ASSUME NEW c, NEW st \in Trees, Going(c, {"stmt"}), st.op = "if"
    PROVE  BuilderOK(SelStmt(c, st))
<1> DEFINE lb1  == GetTmpLabel(c)
           lb2  == GetTmpLabel(lb1)
           x1 == lb1.res
           x2 == lb2.res
           made == {x1, x2}
           k1 == st.kids[1]
           k2 == st.kids[2]
           do == IF Len(st.kids) = 2 THEN "SetLabel" ELSE "else"
           t1 == Test(k1, x1, x2)
           t2 == Emit("SetLabel", x1)
           t3 == Perform(k2)
           t4 == Task(do, st, x2, Nullptr)
           new == <<t1, t2, t3, t4>>
           d == Call(lb2, new)
<1>1. SelStmt(c, st) = d
  BY DEF SelStmt
<1>2. {"stmt"} \subseteq QuietTasks \ {"function"}
  BY DEF QuietTasks, DoTasks, TreeTasks
<1>3. /\ BuilderOK(c) /\ c.work # << >> /\ Head(c.work).do # "function"
      /\ BuilderTyped(c) /\ Nullptr \in Held(c) /\ SetBy(Head(c.work)) = {}
  BY <1>2, PlainGoing
<1>4. /\ Prepared(c, lb2, made)
      /\ Fresh(x1, c.cnt, lb2.cnt) /\ Fresh(x2, c.cnt, lb2.cnt)
      /\ Apart({x1}, {x2})
  BY <1>3, TwoLabels
<1>5. /\ k1 \in Trees /\ k2 \in Trees /\ do \in {"SetLabel", "else"}
      /\ do = "else" => Len(st.kids) = 3
  <2>1. Len(st.kids) \in Nat /\ Len(st.kids) \in {2, 3}
    BY KidsAre, TreesAssumption
  <2>2. Len(st.kids) >= 1 /\ Len(st.kids) >= 2
    BY <2>1
  <2>3. k1 \in Trees /\ k2 \in Trees
    BY <2>2, KidsAre
  <2>4. do \in {"SetLabel", "else"} /\ (do = "else" => Len(st.kids) = 3)
    BY <2>1
  <2> QED BY <2>3, <2>4
<1> HIDE DEF lb1, lb2, x1, x2, k1, k2, do
<1>8. \A x \in Held(c) \cup made : x \in IRVars
  BY <1>3, <1>4, MadeTyped
<1>9. {x1, x2} \subseteq Held(c) \cup made
  OBVIOUS
<1> HIDE DEF made
<1>10. NewCalls(c, new, made)
  <2>1. NewCall(c, t1, made) /\ NewCall(c, t2, made) /\ NewCall(c, t3, made)
    BY <1>3, <1>5, <1>8, <1>9, NewTasks
  <2>2. NewCall(c, t4, made)
    <3>1. do \in DoTasks \ {"function"}
      BY <1>5 DEF DoTasks, TreeTasks
    <3>2. Nullptr \in Held(c) \cup made /\ x2 \in Held(c) \cup made
      BY <1>3, <1>9
    <3>3. do \notin {"lhs", "combine", "test lhs", "branch"}
      BY <1>5
    <3> QED BY <1>5, <1>8, <3>1, <3>2, <3>3, NewTask
  <2> HIDE DEF t1, t2, t3, t4
  <2> QED BY <2>1, <2>2, NewCallsOf4
<1>11. /\ SetBy(t1) = {} /\ SetBy(t2) = {x1} /\ SetBy(t3) = {} /\ SetBy(t4) = {x2}
       /\ AimOf(t1) = {x1, x2} /\ AimOf(t2) = {} /\ AimOf(t3) = {} /\ AimOf(t4) = {}
  <2>1. SetBy(t1) = {}
    BY TaskLabels
  <2>2. AimOf(t1) = {x1, x2}
    BY DEF Test, Task, AimOf
  <2>3. SetBy(t2) = {x1} /\ AimOf(t2) = {}
    BY TaskLabels
  <2>4. SetBy(t3) = {} /\ AimOf(t3) = {}
    BY TaskLabels
  <2>5. SetBy(t4) = {x2} /\ AimOf(t4) = {}
    BY <1>5 DEF Task, SetBy, AimOf
  <2> QED BY <2>1, <2>2, <2>3, <2>4, <2>5
<1>12. WorkSets(new) = {x1, x2} /\ WorkAims(new) = {x1, x2} /\ WorkOnce(new)
  <2> HIDE DEF t1, t2, t3, t4
  <2>1. /\ Apart(SetBy(t1), SetBy(t2)) /\ Apart(SetBy(t1), SetBy(t3))
        /\ Apart(SetBy(t1), SetBy(t4)) /\ Apart(SetBy(t2), SetBy(t3))
        /\ Apart(SetBy(t2), SetBy(t4)) /\ Apart(SetBy(t3), SetBy(t4))
    BY <1>4, <1>11 DEF Apart
  <2>2. WorkOnce(new)
    BY <2>1, WorkOf4
  <2>3. /\ WorkSets(new) = SetBy(t1) \cup SetBy(t2) \cup SetBy(t3) \cup SetBy(t4)
        /\ WorkAims(new) = AimOf(t1) \cup AimOf(t2) \cup AimOf(t3) \cup AimOf(t4)
    BY WorkOf4
  <2> HIDE DEF new
  <2> QED BY <1>11, <2>2, <2>3
<1> HIDE DEF new, Fresh
<1>16. /\ \A x \in WorkSets(new) : x \in SetBy(Head(c.work)) \/ Fresh(x, c.cnt, lb2.cnt)
       /\ SetBy(Head(c.work)) \subseteq WorkSets(new)
       /\ WorkAims(new) \subseteq AimOf(Head(c.work)) \cup WorkSets(new)
  BY <1>3, <1>4, <1>12
<1>17. BuilderOK(d)
  BY <1>3, <1>4, <1>10, <1>12, <1>16, LabelCall
<1> QED BY <1>1, <1>17

\* The label of the innermost call is older than those made now.
LEMMA HeadLabels ==
    ASSUME NEW c, BuilderOK(c), c.work # << >>, NEW top \in Nat
    PROVE  \A x \in SetBy(Head(c.work)) : \A y : Fresh(y, c.cnt, top) => Apart({x}, {y})
<1>1. c.work \in Seq(Tasks) /\ CurrentLabels(c) /\ c.cnt \in Nat
  BY DEF BuilderOK, BuilderTyped
<1> SUFFICES ASSUME NEW x \in SetBy(Head(c.work)), NEW y, Fresh(y, c.cnt, top)
             PROVE  Apart({x}, {y})
  OBVIOUS
<1>2. IsLabel(x, c.cnt)
  <2>1. WorkSets(c.work) = SetBy(Head(c.work)) \cup WorkSets(Tail(c.work))
    BY <1>1, HeadAndTail DEF CurrentLabels
  <2> QED BY <1>1, <2>1 DEF CurrentLabels
<1>3. PICK j \in 0..(c.cnt - 1) : x.n = <<"lb", j>>
  BY <1>2 DEF IsLabel
<1>4. PICK k \in c.cnt..(top - 1) : y.n = <<"lb", k>>
  BY DEF Fresh
<1>5. x.n[2] = j /\ y.n[2] = k /\ j # k
  BY <1>1, <1>3, <1>4
<1> QED BY <1>5 DEF Apart

LEMMA ElseBranchOK ==
    ASSUME NEW c, NEW st \in Trees, Going(c, {"else"}), Len(st.kids) = 3,
           NEW lb2, lb2 = Head(c.work).x
    PROVE  ElseBranch(c, st, lb2).stop = "" => BuilderOK(ElseBranch(c, st, lb2))
<1> DEFINE lb3 == GetTmpLabel(c)
           x3 == lb3.res
           made == {} \cup {x3}
           k3 == st.kids[3]
           t1 == Emit("SetLabel", lb2)
           t2 == Perform(k3)
           t3 == Emit("SetLabel", x3)
           new == <<t1, t2, t3>>
           s == Stmt1("Goto", x3)
           out == <<s>>
           d == Push(Call(lb3, new), s)
<1>1. ElseBranch(c, st, lb2) = d
  BY DEF ElseBranch
<1>2. {"else"} \subseteq DoTasks \ {"function"} /\ Head(c.work).do = "else"
  BY DEF DoTasks, TreeTasks, Going
<1>3. /\ BuilderOK(c) /\ c.work # << >> /\ Head(c.work).do # "function"
      /\ BuilderTyped(c) /\ Nullptr \in Held(c) /\ lb2 \in Held(c) /\ Prepared(c, c, {})
  BY <1>2, GoingIs
<1>4. SetBy(Head(c.work)) = {lb2}
  BY <1>2 DEF SetBy
<1>5. k3 \in Trees
  <2>1. Len(st.kids) >= 3
    OBVIOUS
  <2> QED BY <2>1, KidsAre
<1>6. Prepared(c, lb3, made) /\ Fresh(x3, c.cnt, lb3.cnt) /\ lb3.cnt \in Nat
  <2>1. Prepared(c, lb3, made) /\ Fresh(x3, c.cnt, lb3.cnt)
    BY <1>3, OneLabel
  <2> QED BY <2>1 DEF Prepared, BuilderTyped
<1> HIDE DEF lb3, x3, k3
<1>7. Apart({lb2}, {x3})
  BY <1>3, <1>4, <1>6, HeadLabels
<1>8. \A x \in Held(c) \cup made : x \in IRVars
  BY <1>3, <1>6, MadeTyped
<1>9. x3 \in Held(c) \cup made /\ lb2 \in Held(c) \cup made /\ x3 \in IRVars
  BY <1>3, <1>8
<1> HIDE DEF made
<1>10. NewCalls(c, new, made)
  <2>1. NewCall(c, t1, made) /\ NewCall(c, t2, made) /\ NewCall(c, t3, made)
    BY <1>3, <1>5, <1>8, <1>9, NewTasks
  <2> HIDE DEF t1, t2, t3
  <2> QED BY <2>1, NewCallsOf
<1>11. /\ SetBy(t1) = {lb2} /\ SetBy(t2) = {} /\ SetBy(t3) = {x3}
       /\ AimOf(t1) = {} /\ AimOf(t2) = {} /\ AimOf(t3) = {}
  <2>1. SetBy(t1) = {lb2} /\ AimOf(t1) = {}
    BY TaskLabels
  <2>2. SetBy(t2) = {} /\ AimOf(t2) = {}
    BY TaskLabels
  <2>3. SetBy(t3) = {x3} /\ AimOf(t3) = {}
    BY TaskLabels
  <2> QED BY <2>1, <2>2, <2>3
<1>12. WorkSets(new) = {lb2, x3} /\ WorkAims(new) = {} /\ WorkOnce(new)
  <2> HIDE DEF t1, t2, t3
  <2>1. /\ Apart(SetBy(t1), SetBy(t2)) /\ Apart(SetBy(t1), SetBy(t3))
        /\ Apart(SetBy(t2), SetBy(t3))
    BY <1>7, <1>11 DEF Apart
  <2>2. WorkOnce(new)
    BY <2>1, WorkOf3
  <2>3. /\ WorkSets(new) = SetBy(t1) \cup SetBy(t2) \cup SetBy(t3)
        /\ WorkAims(new) = AimOf(t1) \cup AimOf(t2) \cup AimOf(t3)
    BY WorkOf3
  <2> HIDE DEF new
  <2> QED BY <1>11, <2>2, <2>3
<1>13. s \in Statements /\ {s.x, s.y, s.z} \subseteq Held(c) \cup made
  <2>1. s \in Statements
    BY <1>9, StatementTyped
  <2>2. {s.x, s.y, s.z} \subseteq Held(c) \cup made
    BY <1>3, <1>9 DEF Stmt1, Stmt3
  <2> QED BY <2>1, <2>2
<1>14. CodeSets(out) = {} /\ CodeAims(out) = {x3} /\ CodeOnce(out)
  <2>1. s.op = "Goto" /\ s.x = x3
    BY DEF Stmt1, Stmt3
  <2> HIDE DEF s
  <2>2. SetIn(s) = {} /\ AimIn(s) = {x3}
    BY <2>1 DEF SetIn, AimIn
  <2> QED BY <2>2, OneStatement
<1> HIDE DEF new, s, Fresh
<1>15. out = <<s>>
  OBVIOUS
<1> HIDE DEF out
<1>16. /\ \A x \in CodeSets(out) \cup WorkSets(new) :
             x \in SetBy(Head(c.work)) \/ Fresh(x, c.cnt, lb3.cnt)
       /\ SetBy(Head(c.work)) \subseteq CodeSets(out) \cup WorkSets(new)
       /\ CodeAims(out) \cup WorkAims(new)
              \subseteq AimOf(Head(c.work)) \cup CodeSets(out) \cup WorkSets(new)
       /\ Apart(CodeSets(out), WorkSets(new))
  BY <1>4, <1>6, <1>12, <1>14 DEF Apart
<1>17. d.stop = "" => BuilderOK(d)
  BY <1>3, <1>6, <1>10, <1>12, <1>13, <1>14, <1>15, <1>16, LabelPush
<1> QED BY <1>1, <1>17

LEMMA WorkOf1 ==
    ASSUME NEW t
    PROVE  WorkSets(<<t>>) = SetBy(t) /\ WorkAims(<<t>>) = AimOf(t) /\ WorkOnce(<<t>>)
<1> DEFINE w == <<t>>
<1>1. DOMAIN w = {1} /\ w[1] = t
  BY Single
<1> HIDE DEF w, SetBy, AimOf
<1>2. WorkSets(w) = SetBy(t) /\ WorkAims(w) = AimOf(t) /\ WorkOnce(w)
  BY <1>1 DEF WorkSets, WorkAims, WorkOnce
<1> QED BY <1>2 DEF w

LEMMA NewTestLhs ==
    ASSUME NEW c, NEW made, \A x \in Held(c) \cup made : x \in IRVars, Nullptr \in Held(c),
           NEW e \in Trees, Len(e.kids) = 2, e.op \in CompareOps, NEW x \in Held(c) \cup made
    PROVE  NewCall(c, Task("test lhs", e, x, Nullptr), made)
<1>1. "test lhs" \in DoTasks \ {"function"}
  BY DEF DoTasks, TreeTasks
<1>2. Nullptr \in Held(c) \cup made
  OBVIOUS
<1> QED BY <1>1, <1>2, NewTask

LEMMA CondExprOK ==
    ASSUME NEW c, NEW e \in Trees, Going(c, {"cond"}),
           NEW lbt, NEW lbf, lbt = Head(c.work).x, lbf = Head(c.work).y
    PROVE  CondExpr(c, e, lbt, lbf).stop = "" => BuilderOK(CondExpr(c, e, lbt, lbf))
<1> DEFINE lb == GetTmpLabel(c)
           x1 == lb.res
           k1 == e.kids[1]
           k2 == e.kids[2]
<1>2. {"cond"} \subseteq DoTasks \ {"function"} /\ Head(c.work).do = "cond"
  BY DEF DoTasks, TreeTasks, Going
<1>3. /\ BuilderOK(c) /\ c.work # << >> /\ Head(c.work).do # "function" /\ Shaped(c)
      /\ BuilderTyped(c) /\ Nullptr \in Held(c) /\ lbt \in Held(c) /\ lbf \in Held(c)
      /\ Prepared(c, c, {}) /\ \A x \in Held(c) \cup {} : x \in IRVars
  BY <1>2, GoingIs DEF BuilderTyped
<1>4. SetBy(Head(c.work)) = {} /\ AimOf(Head(c.work)) = {lbt, lbf}
  BY <1>2 DEF SetBy, AimOf
<1>5. CASE e.op = "!" /\ Len(e.kids) = 1
  <2> DEFINE t == Test(k1, lbf, lbt)
             new == <<t>>
  <2>1. CondExpr(c, e, lbt, lbf) = Call(c, new)
    BY <1>5, KidsAre DEF CondExpr, CompareOps, LogicOps
  <2>2. k1 \in Trees
    BY <1>5, KidsAre
  <2>3. NewCalls(c, new, {})
    <3>1. NewCall(c, t, {})
      BY <1>3, <2>2, NewTasks
    <3> QED BY <3>1, NewCallsOf
  <2>4. SetBy(t) = {} /\ AimOf(t) = {lbf, lbt}
    BY DEF Test, Task, SetBy, AimOf
  <2> HIDE DEF t
  <2>5. WorkSets(new) = {} /\ WorkAims(new) = {lbf, lbt} /\ WorkOnce(new)
    BY <2>4, WorkOf1
  <2> HIDE DEF new
  <2>6. /\ \A x \in WorkSets(new) : x \in SetBy(Head(c.work)) \/ Fresh(x, c.cnt, c.cnt)
        /\ SetBy(Head(c.work)) \subseteq WorkSets(new)
        /\ WorkAims(new) \subseteq AimOf(Head(c.work)) \cup WorkSets(new)
    BY <1>4, <2>5
  <2>7. BuilderOK(Call(c, new))
    BY <1>3, <2>3, <2>5, <2>6, LabelCall
  <2> QED BY <2>1, <2>7
<1>6. CASE e.op \in CompareOps /\ Len(e.kids) = 2
  <2> DEFINE t1 == Lower(k1)
             t2 == Task("test lhs", e, lbt, Nullptr)
             t3 == Emit("Goto", lbf)
             new == <<t1, t2, t3>>
  <2>1. CondExpr(c, e, lbt, lbf) = Call(c, new)
    BY <1>6, KidsAre DEF CondExpr, CompareOps, LogicOps
  <2>2. k1 \in Trees
    BY <1>6, KidsAre
  <2>3. NewCalls(c, new, {})
    <3>1. NewCall(c, t1, {}) /\ NewCall(c, t3, {})
      BY <1>3, <2>2, NewTasks
    <3>2. NewCall(c, t2, {})
      BY <1>3, <1>6, NewTestLhs
    <3> HIDE DEF t1, t2, t3
    <3> QED BY <3>1, <3>2, NewCallsOf
  <2>4. /\ SetBy(t1) = {} /\ SetBy(t2) = {} /\ SetBy(t3) = {}
        /\ AimOf(t1) = {} /\ AimOf(t2) = {lbt} /\ AimOf(t3) = {lbf}
    <3>1. SetBy(t1) = {} /\ AimOf(t1) = {}
      BY TaskLabels
    <3>2. SetBy(t2) = {} /\ AimOf(t2) = {lbt}
      BY DEF Task, SetBy, AimOf
    <3>3. SetBy(t3) = {} /\ AimOf(t3) = {lbf}
      BY TaskLabels
    <3> QED BY <3>1, <3>2, <3>3
  <2> HIDE DEF t1, t2, t3
  <2>5. WorkSets(new) = {} /\ WorkAims(new) = {lbf, lbt} /\ WorkOnce(new)
    <3>1. /\ Apart(SetBy(t1), SetBy(t2)) /\ Apart(SetBy(t1), SetBy(t3))
          /\ Apart(SetBy(t2), SetBy(t3))
      BY <2>4 DEF Apart
    <3>2. WorkOnce(new)
      BY <3>1, WorkOf3
    <3>3. /\ WorkSets(new) = SetBy(t1) \cup SetBy(t2) \cup SetBy(t3)
          /\ WorkAims(new) = AimOf(t1) \cup AimOf(t2) \cup AimOf(t3)
      BY WorkOf3
    <3> HIDE DEF new
    <3> QED BY <2>4, <3>2, <3>3
  <2> HIDE DEF new
  <2>6. /\ \A x \in WorkSets(new) : x \in SetBy(Head(c.work)) \/ Fresh(x, c.cnt, c.cnt)
        /\ SetBy(Head(c.work)) \subseteq WorkSets(new)
        /\ WorkAims(new) \subseteq AimOf(Head(c.work)) \cup WorkSets(new)
    BY <1>4, <2>5
  <2>7. BuilderOK(Call(c, new))
    BY <1>3, <2>3, <2>5, <2>6, LabelCall
  <2> QED BY <2>1, <2>7
<1>7. CASE e.op \in LogicOps /\ Len(e.kids) = 2
  <2> DEFINE y1 == IF e.op = "&&" THEN x1 ELSE lbt
             y2 == IF e.op = "&&" THEN lbf ELSE x1
             made == {} \cup {x1}
             t1 == Test(k1, y1, y2)
             t2 == Emit("SetLabel", x1)
             t3 == Test(k2, lbt, lbf)
             new == <<t1, t2, t3>>
  <2>1. CondExpr(c, e, lbt, lbf) = Call(lb, new)
    BY <1>7, KidsAre DEF CondExpr, CompareOps, LogicOps
  <2>2. k1 \in Trees /\ k2 \in Trees
    BY <1>7, KidsAre
  <2>a. Prepared(c, lb, made) /\ Fresh(x1, c.cnt, lb.cnt)
    BY <1>3, OneLabel
  <2>b. y1 \in {x1, lbt} /\ y2 \in {x1, lbf}
    OBVIOUS
  <2> HIDE DEF lb, x1, y1, y2, k1, k2
  <2>c. \A x \in Held(c) \cup made : x \in IRVars
    BY <1>3, <2>a, MadeTyped
  <2>d. {x1, lbt, lbf, y1, y2} \subseteq Held(c) \cup made
    BY <1>3, <2>b
  <2> HIDE DEF made
  <2>3. NewCalls(c, new, made)
    <3>1. NewCall(c, t1, made) /\ NewCall(c, t2, made) /\ NewCall(c, t3, made)
      BY <1>3, <2>2, <2>c, <2>d, NewTasks
    <3> HIDE DEF t1, t2, t3
    <3> QED BY <3>1, NewCallsOf
  <2>4. /\ SetBy(t1) = {} /\ SetBy(t2) = {x1} /\ SetBy(t3) = {}
        /\ AimOf(t1) = {y1, y2} /\ AimOf(t2) = {} /\ AimOf(t3) = {lbt, lbf}
    <3>1. SetBy(t1) = {} /\ AimOf(t1) = {y1, y2}
      BY DEF Test, Task, SetBy, AimOf
    <3>2. SetBy(t2) = {x1} /\ AimOf(t2) = {}
      BY TaskLabels
    <3>3. SetBy(t3) = {} /\ AimOf(t3) = {lbt, lbf}
      BY DEF Test, Task, SetBy, AimOf
    <3> QED BY <3>1, <3>2, <3>3
  <2> HIDE DEF t1, t2, t3
  <2>5. WorkSets(new) = {x1} /\ WorkAims(new) = {y1, y2, lbt, lbf} /\ WorkOnce(new)
    <3>1. /\ Apart(SetBy(t1), SetBy(t2)) /\ Apart(SetBy(t1), SetBy(t3))
          /\ Apart(SetBy(t2), SetBy(t3))
      BY <2>4 DEF Apart
    <3>2. WorkOnce(new)
      BY <3>1, WorkOf3
    <3>3. /\ WorkSets(new) = SetBy(t1) \cup SetBy(t2) \cup SetBy(t3)
          /\ WorkAims(new) = AimOf(t1) \cup AimOf(t2) \cup AimOf(t3)
      BY WorkOf3
    <3> HIDE DEF new
    <3> QED BY <2>4, <3>2, <3>3
  <2> HIDE DEF new
  <2>6. /\ \A x \in WorkSets(new) : x \in SetBy(Head(c.work)) \/ Fresh(x, c.cnt, lb.cnt)
        /\ SetBy(Head(c.work)) \subseteq WorkSets(new)
        /\ WorkAims(new) \subseteq AimOf(Head(c.work)) \cup WorkSets(new)
    BY <1>4, <2>a, <2>b, <2>5
  <2>7. BuilderOK(Call(lb, new))
    BY <1>3, <2>a, <2>3, <2>5, <2>6, LabelCall
  <2> QED BY <2>1, <2>7
<1>8. CASE e.op \notin CompareOps \cup LogicOps \cup {"call", "comma"} /\ Len(e.kids) = 2
  <2>1. CondExpr(c, e, lbt, lbf) = Halt(c, "unsupported")
    BY <1>8, KidsAre DEF CondExpr, CompareOps, LogicOps
  <2>2. Halt(c, "unsupported").stop = "unsupported"
    BY <1>3, HaltStops
  <2> QED BY <2>1, <2>2
<1>9. CASE /\ ~(e.op = "!" /\ Len(e.kids) = 1)
           /\ Len(e.kids) = 2 => e.op \in {"call", "comma"}
  <2> DEFINE none == << >>
  <2>1. CondExpr(c, e, lbt, lbf) = Call(c, none)
    BY <1>9, KidsAre DEF CondExpr, CompareOps, LogicOps
  <2>3. NewCalls(c, none, {})
    BY NewCallsOf
  <2>5. WorkSets(none) = {} /\ WorkAims(none) = {} /\ WorkOnce(none)
    BY DEF WorkSets, WorkAims, WorkOnce
  <2> HIDE DEF none
  <2>6. /\ \A x \in WorkSets(none) : x \in SetBy(Head(c.work)) \/ Fresh(x, c.cnt, c.cnt)
        /\ SetBy(Head(c.work)) \subseteq WorkSets(none)
        /\ WorkAims(none) \subseteq AimOf(Head(c.work)) \cup WorkSets(none)
    BY <1>4, <2>5
  <2>7. BuilderOK(Call(c, none))
    BY <1>3, <2>3, <2>5, <2>6, LabelCall
  <2> QED BY <2>1, <2>7
<1> QED BY <1>5, <1>6, <1>7, <1>8, <1>9

-----------------------------------------------------------------------------
(* What a method does when a call has returned, and statements.            *)

LEMMA CombineOK ==
    ASSUME NEW c, NEW e \in Trees, Going(c, {"combine"}), Len(e.kids) = 2, NEW lhs \in Held(c)
    PROVE  Combine(c, e, lhs).stop = "" => BuilderOK(Combine(c, e, lhs))
<1>1. {"combine"} \subseteq QuietTasks \ {"function"}
  BY DEF QuietTasks, DoTasks, TreeTasks
<1>2. /\ BuilderTyped(c) /\ Prepared(c, c, {}) /\ Shaped(c) /\ Nullptr \in Held(c)
      /\ c.res \in Held(c) /\ \A x \in Held(c) : x \in IRVars
  BY <1>1, PlainGoing
<1>3. lhs \in IRVars /\ c.res \in IRVars
  BY <1>2
<1>4. CASE e.op = "=" /\ e.kids[1].op = "id"
  <2> DEFINE s == Stmt2("Assign", lhs, c.res)
  <2>1. Combine(c, e, lhs) = Answer(c, s, lhs)
    BY <1>4 DEF Combine, ArithOf, CompareOps, LogicOps
  <2>2. s \in Statements
    BY <1>3, StatementTyped
  <2>3. {s.x, s.y, s.z} \subseteq Held(c) \cup {} /\ s.op \notin {"SetLabel", "Goto", "BranchIf"}
    BY <1>2 DEF Stmt2, Stmt3
  <2> HIDE DEF s
  <2>4. lhs \in Held(c) \cup {}
    OBVIOUS
  <2>5. Answer(c, s, lhs).stop = "" => BuilderOK(Answer(c, s, lhs))
    BY <1>1, <1>2, <2>2, <2>3, <2>4, GoPush
  <2> QED BY <2>1, <2>5
<1>5. CASE e.op \in DOMAIN ArithOf
  <2> DEFINE t == GetTmpVar(c)
             made == {} \cup {t.res}
             s == Stmt3(ArithOf[e.op], t.res, lhs, c.res)
  <2>1. Combine(c, e, lhs) = Finish(t, s)
    BY <1>5 DEF Combine, ArithOf, CompareOps, LogicOps
  <2>2. Prepared(c, t, made) /\ t.res \in IRVars
    BY <1>2, PreparedVar
  <2> HIDE DEF t
  <2>3. ArithOf[e.op] \in Arith
    BY <1>5 DEF ArithOf, Arith
  <2>4. s \in Statements
    BY <1>3, <2>2, <2>3, StatementTyped
  <2>5. {s.x, s.y, s.z} \subseteq Held(c) \cup made /\ s.op \notin {"SetLabel", "Goto", "BranchIf"}
    BY <1>2, <2>3 DEF Stmt3, Arith
  <2> HIDE DEF s, made
  <2>6. Finish(t, s).stop = "" => BuilderOK(Finish(t, s))
    BY <1>1, <2>2, <2>4, <2>5, GoPush
  <2> QED BY <2>1, <2>6
<1>6. CASE e.op \in CompareOps \cup LogicOps
  <2>1. Combine(c, e, lhs) = Boolean(c, e)
    BY <1>6 DEF Combine, ArithOf, CompareOps, LogicOps
  <2> QED BY <2>1, BooleanOK
<1>7. CASE /\ ~(e.op = "=" /\ e.kids[1].op = "id") /\ e.op \notin DOMAIN ArithOf
           /\ e.op \notin CompareOps \cup LogicOps
  <2>1. Combine(c, e, lhs) = Halt(c, "unsupported")
    BY <1>7 DEF Combine
  <2>2. Halt(c, "unsupported").stop = "unsupported"
    BY <1>2, HaltStops
  <2> QED BY <2>1, <2>2
<1> QED BY <1>4, <1>5, <1>6, <1>7

\* The kinds of calls that take part in no jump.
LEMMA QuietKinds ==
    {"expr", "stmt", "arg", "lhs", "combine", "PushCallArg", "invoke", "write", "negate",
     "one", "result", "init", "Return"} \subseteq QuietTasks \ {"function"}
BY DEF QuietTasks, DoTasks, TreeTasks

LEMMA LhsOK ==
    ASSUME NEW c, Going(c, {"lhs"}), NEW t, t = Head(c.work)
    PROVE  BuilderOK(Operand(c, t))
<1> DEFINE k2 == t.e.kids[2]
           t1 == Lower(k2)
           t2 == Task("combine", t.e, c.res, Nullptr)
           new == <<t1, t2>>
<1>0. t.do = "lhs"
  BY DEF Going
<1>1. Operand(c, t) = Call(c, new)
  BY <1>0 DEF Operand
<1>2. /\ BuilderTyped(c) /\ Prepared(c, c, {}) /\ Nullptr \in Held(c) /\ c.res \in Held(c)
      /\ \A x \in Held(c) \cup {} : x \in IRVars /\ TaskOK(t)
  BY QuietKinds, PlainGoing
<1>3. t.e \in Trees /\ Len(t.e.kids) = 2
  <2>1. TaskOK(t)
    BY <1>2
  <2> QED BY <1>0, <2>1 DEF TaskOK, TreeTasks
<1>4. k2 \in Trees
  BY <1>3, KidsAre
<1>5. PlainCall(c, t1, {})
  BY <1>2, <1>4, PlainTasks
<1>6. PlainCall(c, t2, {})
  <2>1. "combine" \in DoTasks \ {"function"} /\ "combine" \in QuietTasks
    BY DEF DoTasks, TreeTasks, QuietTasks
  <2>2. c.res \in Held(c) \cup {} /\ Nullptr \in Held(c) \cup {}
    BY <1>2
  <2>3. NewCall(c, t2, {})
    BY <1>2, <1>3, <2>1, <2>2, NewTask
  <2> QED BY <2>1, <2>3 DEF PlainCall, Task
<1>7. PlainCalls(c, new, {})
  <2> HIDE DEF t1, t2
  <2> QED BY <1>5, <1>6, PlainCallsOf
<1> HIDE DEF new
<1> QED BY <1>1, <1>2, <1>7, QuietKinds, GoOn

LEMMA TestLhsOK ==
    ASSUME NEW c, Going(c, {"test lhs"}), NEW t, t = Head(c.work)
    PROVE  BuilderOK(Operand(c, t))
<1> DEFINE k2 == t.e.kids[2]
           t1 == Lower(k2)
           t2 == Task("branch", t.e, c.res, t.x)
           new == <<t1, t2>>
<1>0. t.do = "test lhs"
  BY DEF Going
<1>1. Operand(c, t) = Call(c, new)
  BY <1>0 DEF Operand
<1>2. /\ BuilderOK(c) /\ c.work # << >> /\ Head(c.work).do # "function"
      /\ BuilderTyped(c) /\ Prepared(c, c, {}) /\ Nullptr \in Held(c) /\ c.res \in Held(c)
      /\ t.x \in Held(c) /\ TaskOK(t)
      /\ \A x \in Held(c) \cup {} : x \in IRVars
  <2>1. {"test lhs"} \subseteq DoTasks \ {"function"}
    BY DEF DoTasks, TreeTasks
  <2> QED BY <2>1, GoingIs
<1>3. t.e \in Trees /\ Len(t.e.kids) = 2 /\ t.e.op \in CompareOps
  BY <1>0, <1>2 DEF TaskOK, TreeTasks
<1>4. k2 \in Trees
  <2>1. t.e \in Trees /\ Len(t.e.kids) = 2
    BY <1>3
  <2> QED BY ONLY <2>1, KidsAre
<1>5. SetBy(Head(c.work)) = {} /\ AimOf(Head(c.work)) = {t.x}
  BY <1>0 DEF SetBy, AimOf
<1>6. NewCall(c, t1, {})
  BY <1>2, <1>4, NewTasks
<1>7. NewCall(c, t2, {})
  <2>1. "branch" \in DoTasks \ {"function"}
    BY DEF DoTasks, TreeTasks
  <2>2. c.res \in Held(c) \cup {} /\ t.x \in Held(c) \cup {}
    BY <1>2
  <2> QED BY <1>2, <1>3, <2>1, <2>2, NewTask
<1>8. /\ SetBy(t1) = {} /\ SetBy(t2) = {}
      /\ AimOf(t1) = {} /\ AimOf(t2) = {t.x}
  <2>1. SetBy(t1) = {} /\ AimOf(t1) = {}
    BY TaskLabels
  <2>2. SetBy(t2) = {} /\ AimOf(t2) = {t.x}
    BY DEF Task, SetBy, AimOf
  <2> QED BY <2>1, <2>2
<1> HIDE DEF t1, t2
<1>9. NewCalls(c, new, {})
  BY <1>6, <1>7, NewCallsOf
<1>10. WorkSets(new) = {} /\ WorkAims(new) = {t.x} /\ WorkOnce(new)
  <2>1. Apart(SetBy(t1), SetBy(t2))
    BY <1>8 DEF Apart
  <2>2. WorkOnce(new)
    BY <2>1, WorkOf2
  <2>3. WorkSets(new) = SetBy(t1) \cup SetBy(t2) /\ WorkAims(new) = AimOf(t1) \cup AimOf(t2)
    BY WorkOf2
  <2> HIDE DEF new
  <2> QED BY <1>8, <2>2, <2>3
<1> HIDE DEF new
<1>11. /\ \A x \in WorkSets(new) : x \in SetBy(Head(c.work)) \/ Fresh(x, c.cnt, c.cnt)
       /\ SetBy(Head(c.work)) \subseteq WorkSets(new)
       /\ WorkAims(new) \subseteq AimOf(Head(c.work)) \cup WorkSets(new)
  BY <1>5, <1>10
<1>12. BuilderOK(Call(c, new))
  BY <1>2, <1>9, <1>10, <1>11, LabelCall
<1> QED BY <1>1, <1>12

\* A jump or a label at the end of a method: what it sets or aims at is the
\* business of the innermost call.
LEMMA LabelFinish ==
    ASSUME NEW c, BuilderOK(c), c.work # << >>, Head(c.work).do # "function",
           NEW s \in Statements, {s.x, s.y, s.z} \subseteq Held(c), NEW out, out = <<s>>,
           CodeSets(out) = SetBy(Head(c.work)), CodeAims(out) \subseteq AimOf(Head(c.work)),
           CodeOnce(out)
    PROVE  Finish(c, s).stop = "" => BuilderOK(Finish(c, s))
<1> DEFINE none == << >>
           d == Push(Call(c, none), s)
<1>1. Finish(c, s) = d
  BY DEF Finish
<1>2. Prepared(c, c, {}) /\ NewCalls(c, none, {})
  BY PreparedSelf, NewCallsOf DEF BuilderOK
<1>3. WorkSets(none) = {} /\ WorkAims(none) = {} /\ WorkOnce(none)
  BY DEF WorkSets, WorkAims, WorkOnce
<1>4. {s.x, s.y, s.z} \subseteq Held(c) \cup {}
  OBVIOUS
<1> HIDE DEF none
<1>5. /\ \A x \in CodeSets(out) \cup WorkSets(none) :
             x \in SetBy(Head(c.work)) \/ Fresh(x, c.cnt, c.cnt)
      /\ SetBy(Head(c.work)) \subseteq CodeSets(out) \cup WorkSets(none)
      /\ CodeAims(out) \cup WorkAims(none)
             \subseteq AimOf(Head(c.work)) \cup CodeSets(out) \cup WorkSets(none)
      /\ Apart(CodeSets(out), WorkSets(none))
  BY <1>3 DEF Apart
<1>6. d.stop = "" => BuilderOK(d)
  BY <1>2, <1>3, <1>4, <1>5, LabelPush
<1> QED BY <1>1, <1>6

LEMMA BranchOK ==
    ASSUME NEW c, Going(c, {"branch"}), NEW t, t = Head(c.work)
    PROVE  Operand(c, t).stop = "" => BuilderOK(Operand(c, t))
<1> DEFINE s == BranchIf(t.e.op, t.x, c.res, t.y)
           out == <<s>>
<1>0. t.do = "branch"
  BY DEF Going
<1>1. Operand(c, t) = Finish(c, s)
  BY <1>0 DEF Operand
<1>2. /\ BuilderOK(c) /\ c.work # << >> /\ Head(c.work).do # "function" /\ c.res \in Held(c)
      /\ t.x \in Held(c) /\ t.y \in Held(c) /\ TaskOK(t)
      /\ t.x \in IRVars /\ t.y \in IRVars /\ c.res \in IRVars
  <2>1. {"branch"} \subseteq DoTasks \ {"function"}
    BY DEF DoTasks, TreeTasks
  <2> QED BY <2>1, GoingIs
<1>3. t.e.op \in CompareOps
  BY <1>0, <1>2 DEF TaskOK
<1>4. s \in Statements
  BY <1>2, <1>3, StatementTyped
<1>5. {s.x, s.y, s.z} \subseteq Held(c)
  BY <1>2 DEF BranchIf
<1>6. SetBy(Head(c.work)) = {} /\ AimOf(Head(c.work)) = {t.y}
  BY <1>0 DEF SetBy, AimOf
<1>7. SetIn(s) = {} /\ AimIn(s) = {t.y}
  BY DEF BranchIf, SetIn, AimIn
<1> HIDE DEF s
<1>8. CodeSets(out) = {} /\ CodeAims(out) = {t.y} /\ CodeOnce(out)
  BY <1>7, OneStatement
<1>9. out = <<s>>
  OBVIOUS
<1> HIDE DEF out
<1>10. Finish(c, s).stop = "" => BuilderOK(Finish(c, s))
  BY <1>2, <1>4, <1>5, <1>6, <1>8, <1>9, LabelFinish
<1> QED BY <1>1, <1>10

LEMMA OperandOK ==
    ASSUME NEW c, Going(c, {"lhs", "combine", "test lhs", "branch", "negate"}),
           NEW t, t = Head(c.work)
    PROVE  Operand(c, t).stop = "" => BuilderOK(Operand(c, t))
<1>1. CASE t.do = "lhs"
  <2>1. Going(c, {"lhs"})
    BY <1>1 DEF Going
  <2> QED BY <2>1, LhsOK
<1>2. CASE t.do = "combine"
  <2>1. Going(c, {"combine"})
    BY <1>2 DEF Going
  <2>2. t.x \in Held(c) /\ TaskOK(t)
    BY <2>1, QuietKinds, PlainGoing
  <2>3. t.e \in Trees /\ Len(t.e.kids) = 2
    BY <1>2, <2>2 DEF TaskOK, TreeTasks
  <2>4. Combine(c, t.e, t.x).stop = "" => BuilderOK(Combine(c, t.e, t.x))
    BY <2>1, <2>2, <2>3, CombineOK
  <2>5. Operand(c, t) = Combine(c, t.e, t.x)
    BY <1>2 DEF Operand
  <2> QED BY <2>4, <2>5
<1>3. CASE t.do = "test lhs"
  <2>1. Going(c, {"test lhs"})
    BY <1>3 DEF Going
  <2> QED BY <2>1, TestLhsOK
<1>4. CASE t.do = "branch"
  <2>1. Going(c, {"branch"})
    BY <1>4 DEF Going
  <2> QED BY <2>1, BranchOK
<1>5. CASE t.do = "negate"
  <2>1. Going(c, {"negate"})
    BY <1>5 DEF Going
  <2>2. Operand(c, t) = Negate(c)
    BY <1>5 DEF Operand
  <2> QED BY <2>1, <2>2, NegateOK
<1> QED BY <1>1, <1>2, <1>3, <1>4, <1>5 DEF Going

LEMMA ArgumentOK ==
    ASSUME NEW c, Going(c, {"arg", "PushCallArg", "invoke", "write"}), NEW t, t = Head(c.work)
    PROVE  Argument(c, t).stop = "" => BuilderOK(Argument(c, t))
<1>1. {"arg", "PushCallArg", "invoke", "write"} \subseteq QuietTasks \ {"function"}
  BY QuietKinds
<1>2. /\ BuilderTyped(c) /\ Prepared(c, c, {}) /\ Nullptr \in Held(c) /\ c.res \in Held(c)
      /\ \A x \in Held(c) \cup {} : x \in IRVars
      /\ t.x \in Held(c) /\ t.y \in Held(c) /\ TaskOK(t)
  BY <1>1, PlainGoing
<1>3. t.x \in IRVars /\ t.y \in IRVars /\ c.res \in IRVars
  BY <1>2
<1>4. CASE t.do = "arg"
  <2> DEFINE new == <<Lower(t.e), Then("PushCallArg", NoTree)>>
  <2>1. Argument(c, t) = Call(c, new)
    BY <1>4 DEF Argument
  <2>2. t.e \in Trees
    BY <1>2, <1>4 DEF TaskOK, TreeTasks
  <2>3. PlainCall(c, Lower(t.e), {}) /\ PlainCall(c, Then("PushCallArg", NoTree), {})
    BY <1>2, <2>2, PlainTasks
  <2>4. PlainCalls(c, new, {})
    BY <2>3, PlainCallsOf
  <2> HIDE DEF new
  <2> QED BY <1>1, <1>2, <2>1, <2>4, GoOn
<1>5. CASE t.do = "PushCallArg"
  <2> DEFINE s == Stmt1("PushCallArg", c.res)
  <2>1. Argument(c, t) = Finish(c, s)
    BY <1>5 DEF Argument
  <2>2. s \in Statements
    BY <1>3, StatementTyped
  <2>3. {s.x, s.y, s.z} \subseteq Held(c) \cup {} /\ s.op \notin {"SetLabel", "Goto", "BranchIf"}
    BY <1>2 DEF Stmt1, Stmt3
  <2> HIDE DEF s
  <2>4. Finish(c, s).stop = "" => BuilderOK(Finish(c, s))
    BY <1>1, <1>2, <2>2, <2>3, GoPush
  <2> QED BY <2>1, <2>4
<1>6. CASE t.do = "invoke"
  <2> DEFINE s == Stmt2("InvokeFunc", t.x, t.y)
  <2>1. Argument(c, t) = Answer(c, s, t.x)
    BY <1>6 DEF Argument
  <2>2. s \in Statements
    BY <1>3, StatementTyped
  <2>3. {s.x, s.y, s.z} \subseteq Held(c) \cup {} /\ s.op \notin {"SetLabel", "Goto", "BranchIf"}
    BY <1>2 DEF Stmt2, Stmt3
  <2> HIDE DEF s
  <2>4. \A x \in Held(c) \cup {} : Answer(c, s, x).stop = "" => BuilderOK(Answer(c, s, x))
    BY <1>1, <1>2, <2>2, <2>3, GoPush
  <2> QED BY <1>2, <2>1, <2>4
<1>7. CASE t.do = "write"
  <2> DEFINE s == Stmt1("Write", c.res)
  <2>1. Argument(c, t) = Answer(c, s, Nullptr)
    BY <1>7 DEF Argument
  <2>2. s \in Statements
    BY <1>3, StatementTyped
  <2>3. {s.x, s.y, s.z} \subseteq Held(c) \cup {} /\ s.op \notin {"SetLabel", "Goto", "BranchIf"}
    BY <1>2 DEF Stmt1, Stmt3
  <2> HIDE DEF s
  <2>4. \A x \in Held(c) \cup {} : Answer(c, s, x).stop = "" => BuilderOK(Answer(c, s, x))
    BY <1>1, <1>2, <2>2, <2>3, GoPush
  <2> QED BY <1>2, <2>1, <2>4
<1> QED BY <1>4, <1>5, <1>6, <1>7 DEF Going

\* A label or a jump that was still to come.
LEMMA PlaceOK ==
    ASSUME NEW c, Going(c, {"SetLabel", "Goto"}), NEW t, t = Head(c.work)
    PROVE  Finish(c, Stmt1(t.do, t.x)).stop = "" => BuilderOK(Finish(c, Stmt1(t.do, t.x)))
<1> DEFINE s == Stmt1(t.do, t.x)
           out == <<s>>
<1>0. t.do \in {"SetLabel", "Goto"}
  BY DEF Going
<1>2. /\ BuilderOK(c) /\ c.work # << >> /\ Head(c.work).do # "function"
      /\ Nullptr \in Held(c) /\ t.x \in Held(c) /\ t.x \in IRVars
  <2>1. {"SetLabel", "Goto"} \subseteq DoTasks \ {"function"}
    BY DEF DoTasks, TreeTasks
  <2> QED BY <2>1, GoingIs
<1>4. s \in Statements
  BY <1>0, <1>2, StatementTyped
<1>5. {s.x, s.y, s.z} \subseteq Held(c)
  BY <1>2 DEF Stmt1, Stmt3
<1>6. SetIn(s) = SetBy(Head(c.work)) /\ AimIn(s) = AimOf(Head(c.work))
  <2>1. CASE t.do = "SetLabel"
    BY <2>1 DEF Stmt1, Stmt3, SetIn, AimIn, SetBy, AimOf
  <2>2. CASE t.do = "Goto"
    BY <2>2 DEF Stmt1, Stmt3, SetIn, AimIn, SetBy, AimOf
  <2> QED BY <1>0, <2>1, <2>2
<1> HIDE DEF s
<1>8. CodeSets(out) = SetBy(Head(c.work)) /\ CodeAims(out) = AimOf(Head(c.work)) /\ CodeOnce(out)
  BY <1>6, OneStatement
<1>9. out = <<s>>
  OBVIOUS
<1> HIDE DEF out
<1>10. Finish(c, s).stop = "" => BuilderOK(Finish(c, s))
  BY <1>2, <1>4, <1>5, <1>8, <1>9, LabelFinish
<1> QED BY <1>10 DEF s

LEMMA RestOK ==
    ASSUME NEW c, Going(c, {"SetLabel", "Goto", "one", "result", "init", "Return", "else"}),
           NEW t, t = Head(c.work)
    PROVE  Rest(c, t).stop = "" => BuilderOK(Rest(c, t))
<1>1. CASE t.do \in {"SetLabel", "Goto"}
  <2>1. Rest(c, t) = Finish(c, Stmt1(t.do, t.x))
    BY <1>1 DEF Rest
  <2>2. Going(c, {"SetLabel", "Goto"})
    BY <1>1 DEF Going
  <2> QED BY <2>1, <2>2, PlaceOK
<1>2. CASE t.do = "else"
  <2>1. Rest(c, t) = ElseBranch(c, t.e, t.x)
    BY <1>2 DEF Rest
  <2>2. Going(c, {"else"})
    BY <1>2 DEF Going
  <2>3. TaskOK(t)
    BY <2>2, GoingIs DEF DoTasks, TreeTasks
  <2>4. t.e \in Trees /\ Len(t.e.kids) = 3
    BY <1>2, <2>3 DEF TaskOK, TreeTasks
  <2>5. ElseBranch(c, t.e, t.x).stop = "" => BuilderOK(ElseBranch(c, t.e, t.x))
    BY <2>2, <2>4, ElseBranchOK
  <2> QED BY <2>1, <2>5
<1>3. CASE t.do \in {"one", "result", "init", "Return"}
  <2> DEFINE whats == {"one", "result", "init", "Return"}
  <2>1. Going(c, whats) /\ whats \subseteq QuietTasks \ {"function"}
    BY <1>3, QuietKinds DEF Going
  <2> HIDE DEF whats
  <2>2. /\ BuilderTyped(c) /\ Prepared(c, c, {}) /\ Nullptr \in Held(c) /\ c.res \in Held(c)
        /\ \A x \in Held(c) \cup {} : x \in IRVars
        /\ t.x \in Held(c)
    BY <2>1, PlainGoing
  <2>3. t.x \in IRVars /\ c.res \in IRVars
    BY <2>2
  <2>4. CASE t.do = "one"
    <3> DEFINE one == Create(c, "Constant", NoName, Num(1))
               made == {} \cup {one.res}
               s == Stmt2("Assign", t.x, one.res)
    <3>1. Rest(c, t) = Finish(one, s)
      BY <2>4 DEF Rest
    <3>2. NoName \in VarNames /\ Num(1) \in Values
      BY NumTyped DEF VarNames
    <3>3. Prepared(c, one, made) /\ one.res \in IRVars
      BY <2>2, <3>2, PreparedNew
    <3> HIDE DEF one
    <3>4. s \in Statements
      BY <2>3, <3>3, StatementTyped
    <3>5. {s.x, s.y, s.z} \subseteq Held(c) \cup made /\ s.op \notin {"SetLabel", "Goto", "BranchIf"}
      BY <2>2 DEF Stmt2, Stmt3
    <3> HIDE DEF s, made
    <3>6. Finish(one, s).stop = "" => BuilderOK(Finish(one, s))
      BY <2>1, <3>3, <3>4, <3>5, GoPush
    <3> QED BY <3>1, <3>6
  <2>5. CASE t.do = "result"
    <3>1. Rest(c, t) = [Call(c, << >>) EXCEPT !.res = t.x]
      BY <2>5 DEF Rest
    <3> DEFINE x == t.x
    <3> HIDE DEF x
    <3>2. BuilderOK([Call(c, << >>) EXCEPT !.res = x])
      BY <2>1, <2>2, GoResult DEF x
    <3> QED BY <3>1, <3>2 DEF x
  <2>6. CASE t.do = "init"
    <3> DEFINE s == Stmt2("Assign", t.x, c.res)
    <3>1. Rest(c, t) = Finish(c, s)
      BY <2>6 DEF Rest
    <3>4. s \in Statements
      BY <2>3, StatementTyped
    <3>5. {s.x, s.y, s.z} \subseteq Held(c) \cup {} /\ s.op \notin {"SetLabel", "Goto", "BranchIf"}
      BY <2>2 DEF Stmt2, Stmt3
    <3> HIDE DEF s
    <3>6. Finish(c, s).stop = "" => BuilderOK(Finish(c, s))
      BY <2>1, <2>2, <3>4, <3>5, GoPush
    <3> QED BY <3>1, <3>6
  <2>7. CASE t.do = "Return"
    <3> DEFINE s == Stmt1("Return", c.res)
    <3>1. Rest(c, t) = Finish(c, s)
      BY <2>7 DEF Rest
    <3>4. s \in Statements
      BY <2>3, StatementTyped
    <3>5. {s.x, s.y, s.z} \subseteq Held(c) \cup {} /\ s.op \notin {"SetLabel", "Goto", "BranchIf"}
      BY <2>2 DEF Stmt1, Stmt3
    <3> HIDE DEF s
    <3>6. Finish(c, s).stop = "" => BuilderOK(Finish(c, s))
      BY <2>1, <2>2, <3>4, <3>5, GoPush
    <3> QED BY <3>1, <3>6
  <2> QED BY <1>3, <2>4, <2>5, <2>6, <2>7
<1> QED BY <1>1, <1>2, <1>3 DEF Going

\* A tree with children has a first one.
LEMMA FirstKid ==
    ASSUME NEW e \in Trees, e.kids # << >>
    PROVE  e.kids[1] \in Trees
<1>1. e.kids \in Seq(Trees)
  BY TreeTyped
<1>2. Len(e.kids) >= 1 /\ Len(e.kids) \in Nat
  BY <1>1
<1> QED BY <1>2, KidsAre

LEMMA PreparedVars ==
    ASSUME NEW c, NEW e, NEW made, BuilderTyped(c), Prepared(c, e, made), NEW n,
           NEW x \in made
    PROVE  Prepared(c, [e EXCEPT !.vars = Extend(c.vars, n, x)], made)
<1> DEFINE more == Extend(c.vars, n, x)
           d == [e EXCEPT !.vars = more]
<1>1. Shaped(e) /\ d = [e EXCEPT !.vars = more]
  BY DEF Prepared, BuilderTyped
<1>2. DOMAIN more = DOMAIN c.vars \cup {n} /\ \A m \in DOMAIN more : more[m] \in Held(c) \cup made
  <2>1. \A m \in DOMAIN c.vars : c.vars[m] \in Held(c)
    BY HeldParts
  <2> QED BY <2>1 DEF Extend
<1> HIDE DEF d, more
<1>3. /\ Shaped(d) /\ d.cnt = e.cnt /\ d.objs = e.objs /\ d.code = e.code /\ d.vars = more
      /\ d.res = e.res /\ d.funcs = e.funcs /\ d.funcVars = e.funcVars
      /\ d.work = e.work /\ d.stop = e.stop
  BY <1>1 DEF Shaped
<1>4. BuilderTyped(d)
  BY <1>3 DEF Prepared, BuilderTyped
<1>5. Prepared(c, d, made)
  BY <1>2, <1>3, <1>4 DEF Prepared
<1> QED BY <1>5 DEF d, more

LEMMA DeclareOK ==
    ASSUME NEW c, NEW s \in Trees, Going(c, {"stmt"})
    PROVE  BuilderOK(Declare(c, s))
<1> DEFINE var  == Create(c, "Variable", s.id, NoInt)
           made == {} \cup {var.res}
           decl == [var EXCEPT !.vars = Extend(c.vars, s.id, var.res)]
           t1   == Lower(s.kids[1])
           t2   == Emit("init", var.res)
           none == << >>
           two  == <<t1, t2>>
<1>1. {"stmt"} \subseteq QuietTasks \ {"function"}
  BY QuietKinds
<1>2. BuilderOK(c) /\ BuilderTyped(c) /\ Prepared(c, c, {}) /\ Nullptr \in Held(c)
  BY <1>1, PlainGoing
<1>3. Prepared(c, var, made)
  <2>1. s.id \in VarNames /\ NoInt \in Values
    BY TreeTyped DEF VarNames, NoInt, Values
  <2> QED BY <1>2, <2>1, PreparedNew
<1>4. Declare(c, s) = Call(decl, IF s.kids = << >> THEN none ELSE two)
  BY DEF Declare
<1>5. var.res \in made
  OBVIOUS
<1> HIDE DEF var, made
<1>6. Prepared(c, decl, made)
  BY <1>2, <1>3, <1>5, PreparedVars
<1> HIDE DEF decl
<1>7. \A x \in Held(c) \cup made : x \in IRVars
  BY <1>2, <1>6, MadeTyped
<1>8. CASE s.kids = << >>
  <2>1. Declare(c, s) = Call(decl, none)
    BY <1>4, <1>8
  <2>2. PlainCalls(c, none, made)
    BY PlainCallsOf
  <2> HIDE DEF none
  <2> QED BY <1>1, <1>6, <2>1, <2>2, GoOn
<1>9. CASE s.kids # << >>
  <2>1. Declare(c, s) = Call(decl, two)
    BY <1>4, <1>9
  <2>2. s.kids[1] \in Trees
    BY <1>9, FirstKid
  <2>3. PlainCall(c, t1, made)
    BY <1>2, <1>7, <2>2, PlainTasks
  <2>4. PlainCall(c, t2, made)
    BY <1>2, <1>5, <1>7, PlainTasks
  <2> HIDE DEF t1, t2
  <2>5. PlainCalls(c, two, made)
    BY <2>3, <2>4, PlainCallsOf
  <2> HIDE DEF two
  <2> QED BY <1>1, <1>6, <2>1, <2>5, GoOn
<1> QED BY <1>8, <1>9

\* As many calls as a block has statements.
LEMMA PlainList ==
    ASSUME NEW c, NEW made, NEW n \in Nat, NEW q, DOMAIN q = 1..n, q = [i \in 1..n |-> q[i]],
           \A i \in 1..n : PlainCall(c, q[i], made)
    PROVE  PlainCalls(c, q, made)
<1> HIDE DEF Tasks, TaskOK, Held, QuietTasks
<1>1. \A i \in 1..n : q[i] \in Tasks
  BY DEF PlainCall, NewCall
<1>2. q \in [1..n -> Tasks]
  BY <1>1
<1>3. q \in Seq(Tasks)
  BY <1>2, ListOf
<1>4. NewCalls(c, q, made)
  BY <1>3 DEF PlainCall, NewCall, NewCalls
<1>5. QuietWork(q)
  <2>1. \A i \in DOMAIN q : q[i].do \in QuietTasks
    BY DEF PlainCall
  <2> QED BY <2>1, QuietTask DEF QuietWork
<1> QED BY <1>4, <1>5 DEF PlainCalls

LEMMA BlockOK ==
    ASSUME NEW c, NEW s \in Trees, Going(c, {"stmt"})
    PROVE  BuilderOK(Call(c, [i \in DOMAIN s.kids |-> Perform(s.kids[i])]))
<1> DEFINE n == Len(s.kids)
           g(i) == Perform(s.kids[i])
           q == [i \in DOMAIN s.kids |-> g(i)]
<1>1. {"stmt"} \subseteq QuietTasks \ {"function"}
  BY QuietKinds
<1>2. /\ Prepared(c, c, {}) /\ Nullptr \in Held(c) /\ \A x \in Held(c) \cup {} : x \in IRVars
  BY <1>1, PlainGoing
<1>3. /\ n \in Nat /\ DOMAIN s.kids = 1..n /\ \A i \in 1..n : s.kids[i] \in Trees
  BY TreeTyped
<1>4. \A i \in 1..n : PlainCall(c, g(i), {})
  BY <1>2, <1>3, PlainTasks
<1>5. q = [i \in 1..n |-> g(i)]
  BY <1>3
<1> HIDE DEF g, n
<1>6. DOMAIN q = 1..n /\ q = [i \in 1..n |-> q[i]] /\ \A i \in 1..n : q[i] = g(i)
  BY <1>5
<1> HIDE DEF q
<1>7. \A i \in 1..n : PlainCall(c, q[i], {})
  BY <1>4, <1>6
<1>8. PlainCalls(c, q, {})
  BY <1>3, <1>6, <1>7, PlainList
<1>9. BuilderOK(Call(c, q))
  BY <1>1, <1>2, <1>8, GoOn
<1> QED BY <1>9 DEF q, g

LEMMA StmtsOK ==
    ASSUME NEW c, NEW s \in Trees, Going(c, {"stmt"})
    PROVE  Stmts(c, s).stop = "" => BuilderOK(Stmts(c, s))
<1>1. {"stmt"} \subseteq QuietTasks \ {"function"}
  BY QuietKinds
<1>2. /\ Shaped(c) /\ Prepared(c, c, {}) /\ Nullptr \in Held(c)
      /\ \A x \in Held(c) \cup {} : x \in IRVars
  BY <1>1, PlainGoing
<1>3. Halt(c, "unsupported").stop # "" /\ Halt(c, "redeclared").stop # ""
  <2>1. Halt(c, "unsupported").stop = "unsupported" /\ Halt(c, "redeclared").stop = "redeclared"
    BY <1>2, HaltStops
  <2> QED BY <2>1
<1>4. CASE s.op = "block"
  <2>1. Stmts(c, s) = Call(c, [i \in DOMAIN s.kids |-> Perform(s.kids[i])])
    BY <1>4 DEF Stmts
  <2> QED BY <2>1, BlockOK
<1>5. CASE s.op \in {"decl", "pointer"}
  <2>1. Stmts(c, s) = DeclVar(c, s)
    BY <1>5 DEF Stmts
  <2>2. \/ DeclVar(c, s) = Halt(c, "unsupported")
        \/ DeclVar(c, s) = Halt(c, "redeclared")
        \/ DeclVar(c, s) = Declare(c, s)
    BY DEF DeclVar
  <2>3. BuilderOK(Declare(c, s))
    BY DeclareOK
  <2> QED BY <1>3, <2>1, <2>2, <2>3
<1>6. CASE s.op = "empty"
  <2> DEFINE none == << >>
  <2>1. Stmts(c, s) = Call(c, none)
    BY <1>6 DEF Stmts
  <2>2. PlainCalls(c, none, {})
    BY PlainCallsOf
  <2> HIDE DEF none
  <2> QED BY <1>1, <1>2, <2>1, <2>2, GoOn
<1>7. CASE s.op = "expr"
  <2> DEFINE new == <<Lower(s.kids[1])>>
  <2>1. Stmts(c, s) = Call(c, new)
    BY <1>7 DEF Stmts
  <2>2. s.kids[1] \in Trees
    <3>1. Len(s.kids) >= 1
      BY <1>7, TreesAssumption
    <3> QED BY <3>1, KidsAre
  <2>3. PlainCall(c, Lower(s.kids[1]), {})
    BY <1>2, <2>2, PlainTasks
  <2>4. PlainCalls(c, new, {})
    BY <2>3, PlainCallsOf
  <2> HIDE DEF new
  <2> QED BY <1>1, <1>2, <2>1, <2>4, GoOn
<1>8. CASE s.op = "while"
  <2>1. Stmts(c, s) = IterStmt(c, s)
    BY <1>8 DEF Stmts
  <2> QED BY <1>8, <2>1, IterStmtOK
<1>9. CASE s.op = "if"
  <2>1. Stmts(c, s) = SelStmt(c, s)
    BY <1>9 DEF Stmts
  <2> QED BY <1>9, <2>1, SelStmtOK
<1>10. CASE s.op \in {"return", "break"}
  <2>1. Stmts(c, s) = JumpStmt(c, s)
    BY <1>10 DEF Stmts
  <2>2. CASE s.op = "return" /\ s.kids # << >>
    <3> DEFINE new == <<Lower(s.kids[1]), Then("Return", NoTree)>>
    <3>1. JumpStmt(c, s) = Call(c, new)
      BY <2>2 DEF JumpStmt
    <3>2. s.kids[1] \in Trees
      BY <2>2, FirstKid
    <3>3. PlainCall(c, Lower(s.kids[1]), {}) /\ PlainCall(c, Then("Return", NoTree), {})
      BY <1>2, <3>2, PlainTasks
    <3>4. PlainCalls(c, new, {})
      BY <3>3, PlainCallsOf
    <3> HIDE DEF new
    <3> QED BY <1>1, <1>2, <2>1, <3>1, <3>4, GoOn
  <2>3. CASE ~(s.op = "return" /\ s.kids # << >>)
    <3>1. JumpStmt(c, s) = Halt(c, "unsupported")
      BY <2>3 DEF JumpStmt
    <3> QED BY <1>3, <2>1, <3>1
  <2> QED BY <2>2, <2>3
<1>11. CASE s.op \notin {"block", "decl", "pointer", "empty", "expr", "while", "if", "return",
                         "break"}
  <2>1. Stmts(c, s) = Halt(c, "unsupported")
    BY <1>11 DEF Stmts
  <2> QED BY <1>3, <2>1
<1> QED BY <1>4, <1>5, <1>6, <1>7, <1>8, <1>9, <1>10, <1>11

-----------------------------------------------------------------------------
(* Functions: where the code of one begins and where it is complete.       *)

LEMMA SetInduction ==
    ASSUME NEW S, 0 \in S, \A n \in Nat : n \in S => n + 1 \in S
    PROVE  \A n \in Nat : n \in S
<1> SUFFICES ASSUME NEW k \in Nat, k \notin S PROVE FALSE
  OBVIOUS
<1> DEFINE less == OpToRel(<, Nat)
<1>1. PICK n \in Nat \ S : \A m \in Nat \ S : ~(<<m, n>> \in less)
  <2>1. Nat \ S \subseteq Nat /\ Nat \ S # {}
    OBVIOUS
  <2>2. IsWellFoundedOn(less, Nat)
    BY NatLessThanWellFounded
  <2> HIDE DEF less
  <2> QED BY <2>1, <2>2, WFMin
<1>2. n # 0 /\ n - 1 \in Nat
  <2> HIDE DEF less
  <2> QED BY <1>1
<1>3. <<n - 1, n>> \in less
  BY <1>2 DEF OpToRel
<1>4. n - 1 \in S
  <2> HIDE DEF less
  <2> QED BY <1>1, <1>2, <1>3
<1> HIDE DEF less
<1> QED BY <1>1, <1>2, <1>4

LEMMA LeastOne ==
    ASSUME NEW T, T \subseteq Nat, T # {}
    PROVE  \E n \in T : \A m \in T : n <= m
<1> DEFINE less == OpToRel(<, Nat)
<1>1. PICK n \in T : \A m \in T : ~(<<m, n>> \in less)
  <2>1. IsWellFoundedOn(less, Nat)
    BY NatLessThanWellFounded
  <2> HIDE DEF less
  <2> QED BY <2>1, WFMin
<1>2. ASSUME NEW m \in T PROVE n <= m
  <2>1. ~(m < n)
    <3>1. m < n => <<m, n>> \in less
      BY DEF OpToRel
    <3> HIDE DEF less
    <3> QED BY <1>1, <3>1
  <2> QED BY <2>1
<1> QED BY <1>2

\* The parameters of a function, and what it begins with.
Parameter(c, f, i)  == IRVar(c.objs + i, "Variable", f.params[i], NoInt)
ParameterSet(c, f)  == {Parameter(c, f, i) : i \in 1..Len(f.params)}

LEMMA ParametersMade ==
    ASSUME NEW c, BuilderTyped(c), NEW f \in Declarations
    PROVE  /\ Made(ParameterSet(c, f), c.objs, c.objs + Len(f.params))
           /\ c.objs + Len(f.params) \in Nat /\ Len(f.params) \in Nat
<1> DEFINE n == Len(f.params)
<1>1. f.params \in Seq(Names) /\ n \in Nat /\ c.objs \in Nat
  BY DEF Declarations, BuilderTyped
<1>2. \A i \in 1..n : f.params[i] \in VarNames
  BY <1>1 DEF VarNames
<1>3. ASSUME NEW i \in 1..n
      PROVE  /\ Parameter(c, f, i) \in IRVars /\ Parameter(c, f, i).p = c.objs + i
             /\ c.objs + i \in (c.objs + 1)..(c.objs + n)
  <2>1. c.objs + i \in Nat /\ f.params[i] \in VarNames /\ NoInt \in Values
    BY <1>1, <1>2 DEF NoInt, Values
  <2>2. Parameter(c, f, i) \in IRVars /\ Parameter(c, f, i).p = c.objs + i
    BY <2>1, IRVarTyped DEF Parameter
  <2> QED BY <1>1, <2>2
<1> HIDE DEF n
<1>4. \A x \in ParameterSet(c, f) : \E i \in 1..n : x = Parameter(c, f, i)
  BY DEF ParameterSet, n
<1> HIDE DEF ParameterSet, Parameter
<1>5. \A x \in ParameterSet(c, f) : x \in IRVars /\ x.p \in (c.objs + 1)..(c.objs + n)
  BY <1>3, <1>4
<1>6. ASSUME NEW x \in ParameterSet(c, f), NEW y \in ParameterSet(c, f), x.p = y.p PROVE x = y
  <2>1. PICK i \in 1..n : x = Parameter(c, f, i)
    BY <1>4
  <2>2. PICK j \in 1..n : y = Parameter(c, f, j)
    BY <1>4
  <2>3. c.objs + i = c.objs + j
    BY <1>3, <1>6, <2>1, <2>2
  <2>4. i = j
    BY <1>1, <2>3
  <2> QED BY <2>1, <2>2, <2>4
<1>7. c.objs <= c.objs + n /\ c.objs + n \in Nat
  BY <1>1
<1> QED BY <1>1, <1>5, <1>6, <1>7 DEF Made, n

\* The map has a parameter for each name, and the code pops them all.
LEMMA ParamsIs ==
    ASSUME NEW c, BuilderTyped(c), NEW f \in Declarations
    PROVE  LET d == Params(c, f)
           IN  /\ BuilderTyped(d) /\ d.cnt = c.cnt /\ d.objs = c.objs + Len(f.params)
               /\ d.funcs = c.funcs /\ d.funcVars = c.funcVars /\ d.stop = c.stop
               /\ \A m \in DOMAIN d.vars : d.vars[m] \in ParameterSet(c, f)
               /\ Objects(d.code) \subseteq ParameterSet(c, f) \cup {Nullptr}
               /\ QuietCode(d.code)
<1> DEFINE n     == Len(f.params)
           param == [i \in 1..n |-> IRVar(c.objs + i, "Variable", f.params[i], NoInt)]
           first == [m \in ToSet(f.params) |->
                        CHOOSE i \in 1..n : /\ f.params[i] = m
                                            /\ \A j \in 1..(i - 1) : f.params[j] # m]
           map   == [m \in ToSet(f.params) |-> param[first[m]]]
           pops  == [i \in 1..n |-> Stmt1("PopCallArg", param[PopOrder(n, i)])]
           d     == Params(c, f)
<1>1. /\ f.params \in Seq(Names) /\ n \in Nat /\ c.objs \in Nat /\ c.objs + n \in Nat
      /\ DOMAIN f.params = 1..n /\ Shaped(c)
  BY DEF Declarations, BuilderTyped
<1>2. d = [c EXCEPT !.objs = c.objs + n, !.vars = map, !.code = pops]
  BY DEF Params
<1>3. \A i \in 1..n : param[i] = Parameter(c, f, i) /\ param[i] \in ParameterSet(c, f)
  BY DEF Parameter, ParameterSet
<1>4. \A m \in ToSet(f.params) : first[m] \in 1..n
  <2> SUFFICES ASSUME NEW m \in ToSet(f.params)
               PROVE  \E i \in 1..n : f.params[i] = m /\ \A j \in 1..(i - 1) : f.params[j] # m
    OBVIOUS
  <2> DEFINE T == {i \in 1..n : f.params[i] = m}
  <2>1. T \subseteq Nat /\ T # {}
    BY <1>1 DEF ToSet
  <2>2. PICK i \in T : \A j \in T : i <= j
    BY <2>1, LeastOne
  <2>3. ASSUME NEW j \in 1..(i - 1) PROVE f.params[j] # m
    <3>1. j \in 1..n /\ ~(i <= j)
      BY <1>1, <2>2
    <3> QED BY <2>2, <3>1
  <2> QED BY <2>2, <2>3
<1>5. \A m \in DOMAIN map : map[m] \in ParameterSet(c, f)
  <2> HIDE DEF param, first
  <2> QED BY <1>3, <1>4
<1>6. \A i \in 1..n : PopOrder(n, i) \in 1..n
  BY <1>1 DEF PopOrder
<1>7. \A x \in ParameterSet(c, f) : x \in IRVars
  BY ParametersMade DEF Made
<1>8. \A i \in 1..n : /\ pops[i] \in Statements
                      /\ {pops[i].x, pops[i].y, pops[i].z} \subseteq ParameterSet(c, f) \cup {Nullptr}
                      /\ pops[i].op = "PopCallArg"
  <2> SUFFICES ASSUME NEW i \in 1..n
               PROVE  /\ pops[i] \in Statements
                      /\ {pops[i].x, pops[i].y, pops[i].z} \subseteq ParameterSet(c, f) \cup {Nullptr}
                      /\ pops[i].op = "PopCallArg"
    OBVIOUS
  <2> DEFINE x == param[PopOrder(n, i)]
  <2>1. x \in ParameterSet(c, f) /\ x \in IRVars
    BY <1>3, <1>6, <1>7
  <2>2. pops[i] = Stmt1("PopCallArg", x)
    OBVIOUS
  <2> HIDE DEF x, pops
  <2>3. Stmt1("PopCallArg", x) \in Statements
    BY <2>1, StatementTyped
  <2> DEFINE s == Stmt1("PopCallArg", x)
  <2>4. s.x = x /\ s.y = Nullptr /\ s.z = Nullptr /\ s.op = "PopCallArg"
    BY DEF Stmt1, Stmt3
  <2> HIDE DEF s
  <2>5. pops[i] = s /\ s \in Statements
    BY <2>2, <2>3 DEF s
  <2> QED BY <2>1, <2>4, <2>5
<1>9. pops \in Seq(Statements) /\ DOMAIN pops = 1..n
  <2>1. pops \in [1..n -> Statements]
    BY <1>8
  <2> HIDE DEF pops
  <2> QED BY <1>1, <2>1, ListOf
<1> HIDE DEF param, first, map, pops, d
<1>10. Objects(pops) \subseteq ParameterSet(c, f) \cup {Nullptr}
  BY <1>8, <1>9 DEF Objects
<1>11. QuietCode(pops)
  <2>1. \A i \in DOMAIN pops : pops[i].op = "PopCallArg"
    BY <1>8, <1>9
  <2> QED BY <2>1 DEF QuietCode, SetIn, AimIn
<1>12. /\ Shaped(d) /\ d.cnt = c.cnt /\ d.objs = c.objs + n /\ d.code = pops /\ d.vars = map
       /\ d.res = c.res /\ d.funcs = c.funcs /\ d.funcVars = c.funcVars /\ d.work = c.work
       /\ d.stop = c.stop
  BY <1>1, <1>2 DEF Shaped
<1>13. BuilderTyped(d)
  BY <1>1, <1>9, <1>12 DEF BuilderTyped
<1> QED BY <1>5, <1>10, <1>11, <1>12, <1>13 DEF d

LEMMA RegisterFunctionOK ==
    ASSUME NEW c, BuilderOK(c), c.work = << >>, NEW f \in Declarations,
           f.name \in ToSet(FuncOrder)
    PROVE  BuilderOK(RegisterFunction(c, f))
<1> DEFINE p    == Params(c, f)
           v    == Create(p, "Function", f.name, NoInt)
           t1   == Perform(f.body)
           t2   == Emit("function", v.res)
           work == <<t1, t2>>
           more == Insert(v.funcVars, f.name, v.res)
           made == ParameterSet(c, f) \cup {v.res}
           d    == RegisterFunction(c, f)
<1>1. BuilderTyped(c) /\ c.cnt \in Nat /\ c.objs \in Nat
  BY DEF BuilderOK, BuilderTyped
<1>2. /\ BuilderTyped(p) /\ p.cnt = c.cnt /\ p.objs = c.objs + Len(f.params)
      /\ p.funcs = c.funcs /\ p.funcVars = c.funcVars
      /\ \A m \in DOMAIN p.vars : p.vars[m] \in ParameterSet(c, f)
      /\ Objects(p.code) \subseteq ParameterSet(c, f) \cup {Nullptr}
      /\ QuietCode(p.code)
  BY <1>1, ParamsIs
<1>3. /\ Made(ParameterSet(c, f), c.objs, p.objs) /\ p.objs \in Nat
  BY <1>1, <1>2, ParametersMade
<1>4. f.name \in VarNames /\ NoInt \in Values /\ f.body \in Trees
  BY DEF Declarations, VarNames, NoInt, Values
<1> HIDE DEF p
<1>5. /\ BuilderTyped(v) /\ Alike(p, v) /\ v.cnt = p.cnt /\ v.objs = p.objs + 1
      /\ v.res \in IRVars /\ v.res.p = p.objs + 1
      /\ v.res = IRVar(p.objs + 1, "Function", f.name, NoInt)
  BY <1>2, <1>4, CreateIs
<1>6. d = [v EXCEPT !.funcVars = more, !.work = work]
  BY DEF RegisterFunction, p
<1>7. v.res.n = f.name
  BY <1>5 DEF IRVar
<1> HIDE DEF v
<1>8. Made(made, c.objs, v.objs)
  <2>1. \A x \in ParameterSet(c, f) : x \in IRVars /\ x.p \in (c.objs + 1)..p.objs
    BY <1>3 DEF Made
  <2>2. c.objs <= p.objs
    BY <1>3 DEF Made
  <2>3. ASSUME NEW x \in made PROVE x \in IRVars /\ x.p \in (c.objs + 1)..v.objs
    BY <1>1, <1>3, <1>5, <2>1, <2>2
  <2>4. ASSUME NEW x \in made, NEW y \in made, x.p = y.p PROVE x = y
    <3>1. CASE x \in ParameterSet(c, f) /\ y \in ParameterSet(c, f)
      BY <1>3, <2>4, <3>1 DEF Made
    <3>2. CASE x = v.res /\ y \in ParameterSet(c, f)
      BY <1>1, <1>3, <1>5, <2>1, <2>4, <3>2
    <3>3. CASE y = v.res /\ x \in ParameterSet(c, f)
      BY <1>1, <1>3, <1>5, <2>1, <2>4, <3>3
    <3> QED BY <2>4, <3>1, <3>2, <3>3
  <2>5. c.objs <= v.objs
    BY <1>1, <1>3, <1>5, <2>2
  <2> QED BY <2>3, <2>4, <2>5 DEF Made
<1>9. /\ DOMAIN work = {1, 2} /\ Len(work) = 2 /\ work[1] = t1 /\ work[2] = t2
  OBVIOUS
<1>10. /\ t1 \in Tasks /\ t2 \in Tasks
       /\ TaskOK(t1) /\ t1.do = "stmt" /\ TaskOK(t2) /\ t2.do = "function"
       /\ t1.x = Nullptr /\ t1.y = Nullptr /\ t2.x = v.res /\ t2.y = Nullptr
  <2>1. t1 \in Tasks
    BY <1>4, NullIs, TaskTyped DEF Perform, DoTasks, TreeTasks
  <2>2. t2 \in Tasks
    BY <1>5, NullIs, TaskTyped DEF Emit, DoTasks
  <2>3. t1.do = "stmt" /\ t1.x = Nullptr /\ t1.y = Nullptr /\ t1.e = f.body
    BY DEF Perform, Task
  <2>4. t2.do = "function" /\ t2.x = v.res /\ t2.y = Nullptr
    BY DEF Emit, Task
  <2>5. TaskOK(t1)
    BY <1>4, <2>3 DEF TaskOK
  <2>6. TaskOK(t2)
    BY <1>7, <2>4 DEF TaskOK, TreeTasks
  <2> QED BY <2>1, <2>2, <2>3, <2>4, <2>5, <2>6
<1>11. work \in Seq(Tasks)
  BY <1>10
<1> HIDE DEF t1, t2, work
<1>12. \A n \in DOMAIN more : (n \in DOMAIN v.funcVars /\ more[n] = v.funcVars[n]) \/ more[n] = v.res
  <2>1. CASE f.name \in DOMAIN v.funcVars
    BY <2>1 DEF Insert
  <2>2. CASE f.name \notin DOMAIN v.funcVars
    <3>1. more = Extend(v.funcVars, f.name, v.res)
      BY <2>2 DEF Insert
    <3> QED BY <3>1 DEF Extend
  <2> QED BY <2>1, <2>2
<1> HIDE DEF more, d
<1>13. /\ Shaped(d) /\ d.cnt = c.cnt /\ d.objs = v.objs /\ d.code = p.code /\ d.vars = p.vars
       /\ d.res = v.res /\ d.funcs = c.funcs /\ d.funcVars = more /\ d.work = work
  <2>1. Shaped(v)
    BY <1>5 DEF BuilderTyped
  <2>2. /\ Shaped(d) /\ d.cnt = v.cnt /\ d.objs = v.objs /\ d.code = v.code /\ d.vars = v.vars
        /\ d.res = v.res /\ d.funcs = v.funcs /\ d.funcVars = more /\ d.work = work
    BY <1>6, <2>1 DEF Shaped
  <2> QED BY <1>2, <1>5, <2>2 DEF Alike
<1>14. BuilderTyped(d)
  <2>1. d.objs \in Nat /\ d.cnt \in Nat /\ d.code \in Seq(Statements)
    BY <1>1, <1>2, <1>5, <1>13 DEF BuilderTyped
  <2> QED BY <1>1, <1>11, <1>13, <2>1 DEF BuilderTyped
<1>15. StackOK(d.work)
  <2> SUFFICES ASSUME NEW i \in DOMAIN work
               PROVE  TaskOK(work[i]) /\ (work[i].do = "function" <=> i = 2)
    BY <1>9, <1>13 DEF StackOK
  <2>1. CASE i = 1
    BY <1>9, <1>10, <2>1
  <2>2. CASE i = 2
    BY <1>9, <1>10, <2>2
  <2> QED BY <1>9, <2>1, <2>2
<1>16. Told(Held(d), d.objs)
  <2>1. Told(Held(c) \cup made, d.objs)
    <3>1. v.objs \in Nat
      BY <1>5 DEF BuilderTyped
    <3>2. Told(Held(c), c.objs)
      BY DEF BuilderOK
    <3> QED BY <1>1, <1>8, <1>13, <3>1, <3>2, ToldMore
  <2>2. \A n \in DOMAIN c.funcVars : c.funcVars[n] \in Held(c)
    BY HeldParts
  <2>3. \A x : (\E g \in DOMAIN c.funcs : x \in Objects(c.funcs[g])) => x \in Held(c)
    BY HeldParts
  <2>4. Nullptr \in Held(c) /\ v.funcVars = c.funcVars
    BY <1>2, <1>5, HeldParts DEF Alike
  <2>5. ASSUME NEW x \in Held(d) PROVE x \in Held(c) \cup made
    <3>1. \/ x \in {Nullptr, d.res} \/ x \in Objects(d.code)
          \/ \E n \in DOMAIN d.vars : x = d.vars[n]
          \/ \E n \in DOMAIN d.funcVars : x = d.funcVars[n]
          \/ \E i \in DOMAIN d.work : x \in {d.work[i].x, d.work[i].y}
          \/ \E g \in DOMAIN d.funcs : x \in Objects(d.funcs[g])
      BY <2>5, HeldParts
    <3>2. CASE \E i \in DOMAIN d.work : x \in {d.work[i].x, d.work[i].y}
      BY <1>9, <1>10, <1>13, <2>4, <3>2
    <3>3. CASE \E n \in DOMAIN d.funcVars : x = d.funcVars[n]
      BY <1>12, <1>13, <2>2, <2>4, <3>3
    <3>4. CASE \E n \in DOMAIN d.vars : x = d.vars[n]
      BY <1>2, <1>13, <3>4
    <3>5. CASE x \in {Nullptr, d.res} \/ x \in Objects(d.code)
      BY <1>2, <1>13, <2>4, <3>5
    <3>6. CASE \E g \in DOMAIN d.funcs : x \in Objects(d.funcs[g])
      BY <1>13, <2>3, <3>6
    <3> QED BY <3>1, <3>2, <3>3, <3>4, <3>5, <3>6
  <2> HIDE DEF Held, made
  <2>6. Held(d) \subseteq Held(c) \cup made
    BY <2>5
  <2> QED BY <2>1, <2>6, ToldFewer
<1>17. FuncLabels(d.funcs, d.cnt)
  BY <1>13 DEF BuilderOK
<1>18. CurrentLabels(d)
  <2>1. CodeSets(d.code) = {} /\ CodeAims(d.code) = {} /\ CodeOnce(d.code)
    BY <1>2, <1>13 DEF QuietCode, CodeSets, CodeAims, CodeOnce
  <2>2. QuietWork(d.work)
    <3>1. t1.do \in QuietTasks /\ t2.do \in QuietTasks
      BY <1>10 DEF QuietTasks, DoTasks, TreeTasks
    <3>2. QuietWork(work)
      BY <3>1, QuietOf DEF work
    <3> QED BY <1>13, <3>2
  <2>3. WorkSets(d.work) = {} /\ WorkAims(d.work) = {} /\ WorkOnce(d.work)
    BY <2>2 DEF QuietWork, WorkSets, WorkAims, WorkOnce
  <2> QED BY <2>1, <2>3 DEF CurrentLabels, Apart, Among
<1> QED BY <1>14, <1>15, <1>16, <1>17, <1>18 DEF BuilderOK, d

LEMMA FinishFunctionOK ==
    ASSUME NEW c, Going(c, {"function"}), NEW t, t = Head(c.work)
    PROVE  /\ BuilderOK(FinishFunction(c, t)) /\ FinishFunction(c, t).stop = c.stop
           /\ FinishFunction(c, t).work = << >>
<1> DEFINE none == << >>
           g    == Call(c, none)
           more == Insert(c.funcs, t.x.n, c.code)
           d    == FinishFunction(c, t)
<1>1. /\ BuilderOK(c) /\ c.work # << >> /\ t.do = "function" /\ Shaped(c) /\ BuilderTyped(c)
      /\ c.work \in Seq(Tasks) /\ c.code \in Seq(Statements) /\ StackOK(c.work)
      /\ TaskOK(t) /\ CurrentLabels(c) /\ FuncLabels(c.funcs, c.cnt)
  BY HeadIs DEF Going, BuilderOK, BuilderTyped
<1>2. /\ Len(c.work) = 1 /\ DOMAIN c.work = {1} /\ c.work[1] = t /\ Tail(c.work) = none
  <2>1. /\ Tail(c.work) \in Seq(Tasks) /\ Len(c.work) \in Nat \ {0} /\ DOMAIN c.work = 1..Len(c.work)
        /\ Len(Tail(c.work)) = Len(c.work) - 1 /\ t = c.work[1]
    BY <1>1, TailIs
  <2>2. 1 \in DOMAIN c.work
    BY <2>1
  <2>3. 1 = Len(c.work)
    BY <1>1, <2>1, <2>2 DEF StackOK
  <2>4. Tail(c.work) = none
    <3> DEFINE tail == Tail(c.work)
    <3>1. tail \in Seq(Tasks) /\ Len(tail) = 0
      BY <2>1, <2>3
    <3> HIDE DEF tail
    <3>2. tail = << >>
      BY <3>1
    <3> QED BY <3>2 DEF tail
  <2> QED BY <2>1, <2>3, <2>4
<1>3. g = [c EXCEPT !.work = none]
  <2>1. none \o none = none
    OBVIOUS
  <2>2. g = [c EXCEPT !.work = none \o Tail(c.work)]
    BY DEF Call
  <2> HIDE DEF none, g
  <2> QED BY <1>2, <2>1, <2>2
<1>4. d = [g EXCEPT !.funcs = Insert(g.funcs, t.x.n, c.code)]
  BY DEF FinishFunction
<1> HIDE DEF d, g
<1>5. /\ Shaped(d) /\ d.cnt = c.cnt /\ d.objs = c.objs /\ d.code = c.code /\ d.vars = c.vars
      /\ d.res = c.res /\ d.funcs = more /\ d.funcVars = c.funcVars /\ d.work = none
      /\ d.stop = c.stop
  BY <1>1, <1>3, <1>4 DEF Shaped
<1>6. \/ more = c.funcs
      \/ /\ t.x.n \notin DOMAIN c.funcs
         /\ DOMAIN more = DOMAIN c.funcs \cup {t.x.n} /\ more[t.x.n] = c.code
         /\ \A f \in DOMAIN c.funcs : more[f] = c.funcs[f]
  <2>1. CASE t.x.n \in DOMAIN c.funcs
    BY <2>1 DEF Insert
  <2>2. CASE t.x.n \notin DOMAIN c.funcs
    <3>1. more = Extend(c.funcs, t.x.n, c.code)
      BY <2>2 DEF Insert
    <3> QED BY <2>2, <3>1 DEF Extend
  <2> QED BY <2>1, <2>2
<1>7. \A f \in DOMAIN more : (f \in DOMAIN c.funcs /\ more[f] = c.funcs[f]) \/ more[f] = c.code
  BY <1>6
<1>8. BuilderTyped(d)
  <2>1. t.x.n \in ToSet(FuncOrder)
    BY <1>1 DEF TaskOK
  <2>2. DOMAIN c.funcs \subseteq ToSet(FuncOrder) /\ \A f \in DOMAIN c.funcs : c.funcs[f] \in Seq(Statements)
    BY <1>1 DEF BuilderTyped
  <2>3. DOMAIN more \subseteq ToSet(FuncOrder)
    BY <1>6, <2>1, <2>2
  <2>4. \A f \in DOMAIN more : more[f] \in Seq(Statements)
    BY <1>1, <1>7, <2>2
  <2>5. none \in Seq(Tasks)
    OBVIOUS
  <2> HIDE DEF more, none
  <2> QED BY <1>1, <1>5, <2>3, <2>4, <2>5 DEF BuilderTyped
<1>9. StackOK(d.work)
  BY <1>5 DEF StackOK
<1>10. Told(Held(d), d.objs)
  <2>1. \A x : (\E n \in DOMAIN c.funcVars : x = c.funcVars[n]) => x \in Held(c)
    BY HeldParts
  <2>2. \A x : (\E f \in DOMAIN c.funcs : x \in Objects(c.funcs[f])) => x \in Held(c)
    BY HeldParts
  <2>3. \A x : (\E n \in DOMAIN c.vars : x = c.vars[n]) => x \in Held(c)
    BY HeldParts
  <2>4. \A x : x \in {Nullptr, c.res} \/ x \in Objects(c.code) => x \in Held(c)
    BY HeldParts
  <2>5. ASSUME NEW x \in Held(d) PROVE x \in Held(c)
    <3>1. \/ x \in {Nullptr, d.res} \/ x \in Objects(d.code)
          \/ \E n \in DOMAIN d.vars : x = d.vars[n]
          \/ \E n \in DOMAIN d.funcVars : x = d.funcVars[n]
          \/ \E i \in DOMAIN d.work : x \in {d.work[i].x, d.work[i].y}
          \/ \E f \in DOMAIN d.funcs : x \in Objects(d.funcs[f])
      BY <2>5, HeldParts
    <3>2. CASE \E f \in DOMAIN d.funcs : x \in Objects(d.funcs[f])
      <4>1. PICK f \in DOMAIN more : x \in Objects(more[f])
        BY <1>5, <3>2
      <4> HIDE DEF Objects, Held
      <4> QED BY <1>7, <2>2, <2>4, <4>1
    <3>3. DOMAIN d.work = {}
      BY <1>5
    <3> HIDE DEF Objects, Held
    <3> QED BY <1>5, <2>1, <2>3, <2>4, <3>1, <3>2, <3>3
  <2>6. Told(Held(c), c.objs)
    BY <1>1 DEF BuilderOK
  <2> HIDE DEF Held
  <2>7. Held(d) \subseteq Held(c)
    BY <2>5
  <2> QED BY <1>5, <2>6, <2>7, ToldFewer
<1>11. FuncLabels(d.funcs, d.cnt)
  <2>1. CASE more = c.funcs
    BY <1>1, <1>5, <2>1
  <2>2. CASE more # c.funcs
    <3> DEFINE F == t.x.n
    <3>1. /\ F \notin DOMAIN c.funcs
          /\ DOMAIN more = DOMAIN c.funcs \cup {F} /\ more[F] = c.code
          /\ \A f \in DOMAIN c.funcs : more[f] = c.funcs[f]
      BY <1>6, <2>2
    <3>2. WorkSets(c.work) = {} /\ WorkAims(c.work) = {}
      <4>1. t.do \in QuietTasks
        BY <1>1 DEF QuietTasks, DoTasks
      <4>2. SetBy(t) = {} /\ AimOf(t) = {}
        BY <4>1, QuietTask
      <4> QED BY <1>2, <4>2 DEF WorkSets, WorkAims
    <3>3. /\ \A x \in CodeSets(c.code) \cup CodeAims(c.code) : IsLabel(x, c.cnt)
          /\ CodeOnce(c.code)
          /\ Among(CodeAims(c.code), CodeSets(c.code))
          /\ \A f \in DOMAIN c.funcs : Apart(CodeSets(c.funcs[f]), CodeSets(c.code))
      <4> DEFINE cs == CodeSets(c.code)
                 ca == CodeAims(c.code)
                 ws == WorkSets(c.work)
                 wa == WorkAims(c.work)
      <4>1. /\ \A x \in cs \cup ca \cup ws \cup wa : IsLabel(x, c.cnt)
            /\ CodeOnce(c.code) /\ Among(ca \cup wa, cs \cup ws)
            /\ \A f \in DOMAIN c.funcs : Apart(CodeSets(c.funcs[f]), cs \cup ws)
        BY <1>1 DEF CurrentLabels
      <4>2. ws = {} /\ wa = {}
        BY <3>2
      <4> HIDE DEF cs, ca, ws, wa
      <4>3. cs \cup ws = cs /\ ca \cup wa = ca /\ cs \cup ca \cup ws \cup wa = cs \cup ca
        BY <4>2
      <4> QED BY <4>1, <4>3 DEF cs, ca
    <3> HIDE DEF F, more
    <3>4. ASSUME NEW f \in DOMAIN more
          PROVE  /\ \A x \in CodeSets(more[f]) \cup CodeAims(more[f]) : IsLabel(x, c.cnt)
                 /\ CodeOnce(more[f])
                 /\ Among(CodeAims(more[f]), CodeSets(more[f]))
                 /\ \A h \in DOMAIN more : h # f => Apart(CodeSets(more[f]), CodeSets(more[h]))
      <4> HIDE DEF IsLabel, CodeOnce, Among, CodeSets, CodeAims
      <4>1. CASE f = F
        <5>1. \A h \in DOMAIN more : h # f => Apart(CodeSets(c.code), CodeSets(c.funcs[h]))
          BY <3>1, <3>3, <4>1 DEF Apart
        <5>2. \A h \in DOMAIN more : h # f => more[h] = c.funcs[h]
          BY <3>1, <4>1
        <5>3. \A h \in DOMAIN more : h # f => Apart(CodeSets(c.code), CodeSets(more[h]))
          BY <5>1, <5>2
        <5>4. more[f] = c.code
          BY <3>1, <4>1
        <5> QED BY <3>3, <5>3, <5>4
      <4>2. CASE f \in DOMAIN c.funcs
        <5>1. more[f] = c.funcs[f]
          BY <3>1, <4>2
        <5>2. /\ \A x \in CodeSets(c.funcs[f]) \cup CodeAims(c.funcs[f]) : IsLabel(x, c.cnt)
              /\ CodeOnce(c.funcs[f])
              /\ Among(CodeAims(c.funcs[f]), CodeSets(c.funcs[f]))
              /\ \A h \in DOMAIN c.funcs : h # f => Apart(CodeSets(c.funcs[f]), CodeSets(c.funcs[h]))
          BY <1>1, <4>2 DEF FuncLabels
        <5>3. ASSUME NEW h \in DOMAIN more, h # f PROVE Apart(CodeSets(c.funcs[f]), CodeSets(more[h]))
          <6>1. CASE h = F
            BY <3>1, <3>3, <4>2, <6>1
          <6>2. CASE h \in DOMAIN c.funcs
            BY <3>1, <5>2, <5>3, <6>2
          <6> QED BY <3>1, <6>1, <6>2
        <5> QED BY <5>1, <5>2, <5>3
      <4> QED BY <3>1, <4>1, <4>2
    <3>5. FuncLabels(more, c.cnt)
      BY <3>4 DEF FuncLabels
    <3> QED BY <1>5, <3>5 DEF more
  <2> QED BY <2>1, <2>2
<1>12. d.work = << >>
  BY <1>5
<1> QED BY <1>5, <1>8, <1>9, <1>10, <1>11, <1>12 DEF BuilderOK, d

-----------------------------------------------------------------------------
(* The dependences of a function (buildDependency).                        *)

\* The statements that the optimizer changes, moves and removes.
Moves == Arith \cup {"Assign"}

\* After i statements: the statement of a node is one of those, parents are
\* nodes, and a statement that is changed has one node at most.
DepOK(code, d, i) ==
    /\ d = [nodes |-> d.nodes, map |-> d.map, ins |-> d.ins, outs |-> d.outs]
    /\ Len(d.nodes) \in Nat /\ DOMAIN d.nodes = 1..Len(d.nodes)
    /\ \E S : d.nodes \in Seq(S)
    /\ \A n \in 1..Len(d.nodes) :
          /\ d.nodes[n] = [v |-> d.nodes[n].v, s |-> d.nodes[n].s, up |-> d.nodes[n].up]
          /\ d.nodes[n].s \in 0..i /\ d.nodes[n].up \subseteq 1..Len(d.nodes)
    /\ \A k \in DOMAIN d.map : d.map[k] \in 1..Len(d.nodes)
    /\ \A m, n \in 1..Len(d.nodes) :
          d.nodes[m].s = d.nodes[n].s /\ d.nodes[m].s # 0 /\ code[d.nodes[m].s].op \in Moves
              => m = n

LEMMA DepLater ==
    ASSUME NEW code, NEW d, NEW i \in Nat, NEW j \in Nat, i <= j, DepOK(code, d, i)
    PROVE  DepOK(code, d, j)
<1>1. \A n \in 1..Len(d.nodes) : d.nodes[n].s \in 0..j
  <2>1. \A k \in 0..i : k \in 0..j
    OBVIOUS
  <2> QED BY <2>1 DEF DepOK
<1> QED BY <1>1 DEF DepOK

LEMMA NoDepOK == ASSUME NEW code PROVE DepOK(code, NoDep, 0)
<1>1. << >> \in Seq({}) /\ Len(<< >>) = 0 /\ DOMAIN << >> = 1..0
  OBVIOUS
<1>2. 1..0 = {}
  OBVIOUS
<1>3. NoDep.nodes = << >> /\ NoDep.map = << >>
      /\ NoDep = [nodes |-> NoDep.nodes, map |-> NoDep.map, ins |-> NoDep.ins, outs |-> NoDep.outs]
  BY DEF NoDep
<1> DEFINE d == NoDep
<1> HIDE DEF d
<1>4. /\ d.nodes = << >> /\ d.map = << >>
      /\ d = [nodes |-> d.nodes, map |-> d.map, ins |-> d.ins, outs |-> d.outs]
  BY <1>3 DEF d
<1>5. DepOK(code, d, 0)
  BY <1>1, <1>2, <1>4 DEF DepOK
<1> QED BY <1>5 DEF d

\* The nodes that a step leaves where they are.
More(d, e) == Len(d.nodes) <= Len(e.nodes)

LEMMA ReplaceOK ==
    ASSUME NEW code, NEW d, NEW i \in Nat, DepOK(code, d, i), NEW x, NEW s \in 0..i,
           s # 0 /\ code[s].op \in Moves => \A n \in 1..Len(d.nodes) : d.nodes[n].s # s
    PROVE  LET e == Replace(d, x, s)
           IN  /\ DepOK(code, e, i) /\ More(d, e)
               /\ x.p \in DOMAIN e.map /\ \A k \in DOMAIN d.map : k \in DOMAIN e.map
<1> DEFINE new == [v |-> x.p, s |-> s, up |-> {}]
           nodes == Append(d.nodes, new)
           map == Extend(d.map, x.p, Len(d.nodes) + 1)
           e == Replace(d, x, s)
           n == Len(d.nodes)
<1>1. /\ d = [nodes |-> d.nodes, map |-> d.map, ins |-> d.ins, outs |-> d.outs]
      /\ n \in Nat /\ DOMAIN d.nodes = 1..n
      /\ \A k \in DOMAIN d.map : d.map[k] \in 1..n
  BY DEF DepOK
<1>2. e = [d EXCEPT !.nodes = nodes, !.map = map]
  BY DEF Replace
<1>3. PICK S : d.nodes \in Seq(S)
  BY DEF DepOK
<1>4. nodes \in Seq(S \cup {new}) /\ Len(nodes) = n + 1 /\ DOMAIN nodes = 1..(n + 1)
      /\ nodes[n + 1] = new /\ \A m \in 1..n : nodes[m] = d.nodes[m]
  <2> DEFINE T == S \cup {new}
             q == d.nodes
  <2>1. q \in Seq(T) /\ new \in T
    BY <1>3
  <2> HIDE DEF new, q, T
  <2>2. /\ Append(q, new) \in Seq(T) /\ Len(Append(q, new)) = Len(q) + 1
        /\ DOMAIN Append(q, new) = 1..(Len(q) + 1)
        /\ Append(q, new)[Len(q) + 1] = new
        /\ \A m \in 1..Len(q) : Append(q, new)[m] = q[m]
    BY <2>1
  <2> QED BY <2>2 DEF q, T
<1>5. /\ DOMAIN map = DOMAIN d.map \cup {x.p}
      /\ \A k \in DOMAIN map : map[k] \in 1..(n + 1)
  <2>1. \A k \in 1..n : k \in 1..(n + 1)
    BY <1>1
  <2>2. n + 1 \in 1..(n + 1)
    BY <1>1
  <2> QED BY <1>1, <2>1, <2>2 DEF Extend
<1>6. new = [v |-> new.v, s |-> new.s, up |-> new.up] /\ new.s = s /\ new.up = {}
  OBVIOUS
<1> HIDE DEF new, nodes, map, e
<1>7. /\ e = [nodes |-> e.nodes, map |-> e.map, ins |-> e.ins, outs |-> e.outs]
      /\ e.nodes = nodes /\ e.map = map
  BY <1>1, <1>2
<1>8. \A m \in 1..(n + 1) : m \in 1..n \/ m = n + 1
  BY <1>1
<1>9. \A m \in 1..n : /\ nodes[m] = [v |-> nodes[m].v, s |-> nodes[m].s, up |-> nodes[m].up]
                      /\ nodes[m].s \in 0..i /\ nodes[m].up \subseteq 1..n
  BY <1>4 DEF DepOK
<1>10. \A m \in 1..(n + 1) :
          /\ nodes[m] = [v |-> nodes[m].v, s |-> nodes[m].s, up |-> nodes[m].up]
          /\ nodes[m].s \in 0..i /\ nodes[m].up \subseteq 1..(n + 1)
  <2>1. 1..n \subseteq 1..(n + 1)
    BY <1>1
  <2>2. /\ nodes[n + 1] = [v |-> nodes[n + 1].v, s |-> nodes[n + 1].s, up |-> nodes[n + 1].up]
        /\ nodes[n + 1].s \in 0..i /\ nodes[n + 1].up = {}
    BY <1>4, <1>6
  <2> QED BY <1>8, <1>9, <2>1, <2>2
<1>11. \A k, m \in 1..(n + 1) :
          nodes[k].s = nodes[m].s /\ nodes[k].s # 0 /\ code[nodes[k].s].op \in Moves => k = m
  <2>1. \A k, m \in 1..n :
           nodes[k].s = nodes[m].s /\ nodes[k].s # 0 /\ code[nodes[k].s].op \in Moves => k = m
    BY <1>4 DEF DepOK
  <2>2. nodes[n + 1].s = s
    BY <1>4, <1>6
  <2>3. s # 0 /\ code[s].op \in Moves => \A m \in 1..n : nodes[m].s # s
    BY <1>4
  <2> QED BY <1>8, <2>1, <2>2, <2>3
<1>12. n + 1 \in Nat /\ n <= n + 1
  BY <1>1
<1>13. DepOK(code, e, i)
  BY <1>4, <1>5, <1>7, <1>10, <1>11, <1>12 DEF DepOK
<1>14. More(d, e)
  BY <1>4, <1>7, <1>12 DEF More
<1> QED BY <1>5, <1>7, <1>13, <1>14 DEF e

LEMMA FindOrMakeOK ==
    ASSUME NEW code, NEW d, NEW i \in Nat, DepOK(code, d, i), NEW x, NEW s \in 0..i,
           s # 0 => code[s].op \notin Moves
    PROVE  LET e == FindOrMake(d, x, s)
           IN  /\ DepOK(code, e, i) /\ More(d, e)
               /\ x.p \in DOMAIN e.map /\ \A k \in DOMAIN d.map : k \in DOMAIN e.map
<1>1. CASE x.p \in DOMAIN d.map
  <2>1. FindOrMake(d, x, s) = d
    BY <1>1 DEF FindOrMake
  <2>2. More(d, d)
    BY DEF More, DepOK
  <2> QED BY <1>1, <2>1, <2>2
<1>2. CASE x.p \notin DOMAIN d.map
  <2>1. FindOrMake(d, x, s) = Replace(d, x, s)
    BY <1>2 DEF FindOrMake
  <2> QED BY <2>1, ReplaceOK
<1> QED BY <1>1, <1>2

LEMMA ConnectOK ==
    ASSUME NEW code, NEW d, NEW i \in Nat, DepOK(code, d, i),
           NEW u \in 1..Len(d.nodes), NEW n \in 1..Len(d.nodes)
    PROVE  LET e == Connect(d, u, n)
           IN  DepOK(code, e, i) /\ Len(e.nodes) = Len(d.nodes) /\ e.map = d.map
<1> DEFINE e == Connect(d, u, n)
           new == [d.nodes[n] EXCEPT !.up = @ \cup {u}]
           nodes == [d.nodes EXCEPT ![n] = new]
           k == Len(d.nodes)
<1>1. /\ d = [nodes |-> d.nodes, map |-> d.map, ins |-> d.ins, outs |-> d.outs]
      /\ k \in Nat /\ DOMAIN d.nodes = 1..k
  BY DEF DepOK
<1>2. e = [d EXCEPT !.nodes = nodes]
  BY DEF Connect
<1>3. PICK S : d.nodes \in Seq(S)
  BY DEF DepOK
<1>4. nodes \in Seq(S \cup {new}) /\ Len(nodes) = k /\ DOMAIN nodes = 1..k
      /\ nodes[n] = new /\ \A m \in 1..k : m # n => nodes[m] = d.nodes[m]
  <2> DEFINE T == S \cup {new}
             q == d.nodes
             r == [q EXCEPT ![n] = new]
  <2>1. q \in [1..k -> T] /\ new \in T
    BY <1>1, <1>3
  <2> HIDE DEF new, q, T, k
  <2>2. r \in [1..k -> T]
    BY <2>1
  <2>3. r \in Seq(T) /\ Len(r) = k
    BY <1>1, <2>2, ListOf
  <2>4. r[n] = new /\ \A m \in 1..k : m # n => r[m] = q[m]
    BY <2>1 DEF k
  <2>5. DOMAIN r = 1..k
    BY <2>2
  <2> QED BY <2>3, <2>4, <2>5 DEF q, T
<1>5. /\ d.nodes[n] = [v |-> d.nodes[n].v, s |-> d.nodes[n].s, up |-> d.nodes[n].up]
      /\ d.nodes[n].s \in 0..i /\ d.nodes[n].up \subseteq 1..k
  BY DEF DepOK
<1>6. /\ new = [v |-> new.v, s |-> new.s, up |-> new.up] /\ new.s = d.nodes[n].s
      /\ new.up \subseteq 1..k
  <2> DEFINE a == d.nodes[n]
  <2>1. a = [v |-> a.v, s |-> a.s, up |-> a.up] /\ a.up \subseteq 1..k /\ u \in 1..k
    BY <1>5
  <2>2. new = [a EXCEPT !.up = @ \cup {u}]
    OBVIOUS
  <2> HIDE DEF a, new
  <2>3. new = [v |-> a.v, s |-> a.s, up |-> a.up \cup {u}]
    BY <2>1, <2>2
  <2>4. new.v = a.v /\ new.s = a.s /\ new.up = a.up \cup {u}
    BY <2>3
  <2> QED BY <2>1, <2>3, <2>4 DEF a
<1> HIDE DEF new, nodes, e
<1>7. /\ e = [nodes |-> e.nodes, map |-> e.map, ins |-> e.ins, outs |-> e.outs]
      /\ e.nodes = nodes /\ e.map = d.map
  BY <1>1, <1>2
<1>8. \A m \in 1..k : nodes[m].s = d.nodes[m].s
  BY <1>4, <1>6
<1>9. \A m \in 1..k : /\ nodes[m] = [v |-> nodes[m].v, s |-> nodes[m].s, up |-> nodes[m].up]
                      /\ nodes[m].s \in 0..i /\ nodes[m].up \subseteq 1..k
  <2> SUFFICES ASSUME NEW m \in 1..k
               PROVE  /\ nodes[m] = [v |-> nodes[m].v, s |-> nodes[m].s, up |-> nodes[m].up]
                      /\ nodes[m].s \in 0..i /\ nodes[m].up \subseteq 1..k
    OBVIOUS
  <2>1. CASE m = n
    BY <1>4, <1>5, <1>6, <2>1
  <2>2. CASE m # n
    BY <1>4, <2>2 DEF DepOK
  <2> QED BY <2>1, <2>2
<1>10. DepOK(code, e, i)
  BY <1>1, <1>4, <1>7, <1>8, <1>9 DEF DepOK
<1> QED BY <1>4, <1>7, <1>10 DEF e

\* Outputs and inputs do not matter here.
LEMMA MarkOK ==
    ASSUME NEW code, NEW d, NEW i \in Nat, DepOK(code, d, i), NEW some
    PROVE  DepOK(code, [d EXCEPT !.outs = some], i) /\ DepOK(code, [d EXCEPT !.ins = some], i)
<1> DEFINE e == [d EXCEPT !.outs = some]
           f == [d EXCEPT !.ins = some]
<1>1. /\ d = [nodes |-> d.nodes, map |-> d.map, ins |-> d.ins, outs |-> d.outs]
  BY DEF DepOK
<1>2. /\ e = [nodes |-> e.nodes, map |-> e.map, ins |-> e.ins, outs |-> e.outs]
      /\ e.nodes = d.nodes /\ e.map = d.map
  BY <1>1
<1>3. /\ f = [nodes |-> f.nodes, map |-> f.map, ins |-> f.ins, outs |-> f.outs]
      /\ f.nodes = d.nodes /\ f.map = d.map
  BY <1>1
<1> HIDE DEF e, f
<1>4. DepOK(code, e, i)
  BY <1>2 DEF DepOK
<1>5. DepOK(code, f, i)
  BY <1>3 DEF DepOK
<1> QED BY <1>4, <1>5 DEF e, f

\* The node of a variable is a node, and stays one.
LEMMA AtIs ==
    ASSUME NEW code, NEW d, NEW i, DepOK(code, d, i), NEW x, x.p \in DOMAIN d.map
    PROVE  /\ At(d, x) \in 1..Len(d.nodes)
           /\ \A e, j : DepOK(code, e, j) /\ More(d, e) => At(d, x) \in 1..Len(e.nodes)
<1>1. At(d, x) \in 1..Len(d.nodes) /\ Len(d.nodes) \in Nat
  BY DEF DepOK, At
<1>2. ASSUME NEW e, NEW j, DepOK(code, e, j), More(d, e) PROVE At(d, x) \in 1..Len(e.nodes)
  <2>1. Len(d.nodes) <= Len(e.nodes) /\ Len(e.nodes) \in Nat
    BY <1>2 DEF DepOK, More
  <2> QED BY <1>1, <2>1
<1> QED BY <1>1, <1>2

LEMMA MoreStill ==
    ASSUME NEW code, NEW i, NEW d, NEW e, NEW f, DepOK(code, d, i), DepOK(code, e, i),
           DepOK(code, f, i), More(d, e), More(e, f)
    PROVE  More(d, f)
BY DEF DepOK, More

\* No statement that is still to come has a node.
LEMMA NotYet ==
    ASSUME NEW code, NEW d, NEW i \in Nat \ {0}, DepOK(code, d, i - 1)
    PROVE  DepOK(code, d, i) /\ \A n \in 1..Len(d.nodes) : d.nodes[n].s # i
<1>1. i - 1 \in Nat /\ i - 1 <= i
  OBVIOUS
<1>2. DepOK(code, d, i)
  BY <1>1, DepLater
<1>3. \A n \in 1..Len(d.nodes) : d.nodes[n].s \in 0..(i - 1)
  BY DEF DepOK
<1>4. \A k \in 0..(i - 1) : k # i
  OBVIOUS
<1> QED BY <1>2, <1>3, <1>4

LEMMA ExamineAssignOK ==
    ASSUME NEW code, NEW d, NEW i \in Nat \ {0}, DepOK(code, d, i - 1), NEW s
    PROVE  DepOK(code, ExamineAssign(d, s, i), i)
<1> DEFINE r == FindOrMake(d, s.y, 0)
           l == Replace(r, s.x, i)
<1>1. DepOK(code, r, i - 1) /\ s.y.p \in DOMAIN r.map
  <2>1. i - 1 \in Nat /\ 0 \in 0..(i - 1)
    OBVIOUS
  <2> QED BY <2>1, FindOrMakeOK
<1>2. ExamineAssign(d, s, i) = Connect(l, At(r, s.y), At(l, s.x))
  BY DEF ExamineAssign
<1> HIDE DEF r
<1>3. DepOK(code, r, i) /\ \A n \in 1..Len(r.nodes) : r.nodes[n].s # i
  BY <1>1, NotYet
<1>4. DepOK(code, l, i) /\ More(r, l) /\ s.x.p \in DOMAIN l.map
  <2>1. i \in 0..i
    OBVIOUS
  <2> QED BY <1>3, <2>1, ReplaceOK
<1> HIDE DEF l
<1>5. At(l, s.x) \in 1..Len(l.nodes) /\ At(r, s.y) \in 1..Len(l.nodes)
  BY <1>1, <1>3, <1>4, AtIs
<1>6. DepOK(code, Connect(l, At(r, s.y), At(l, s.x)), i)
  BY <1>4, <1>5, ConnectOK
<1> QED BY <1>2, <1>6

LEMMA ExamineArithOK ==
    ASSUME NEW code, NEW d, NEW i \in Nat \ {0}, DepOK(code, d, i - 1), NEW s
    PROVE  DepOK(code, ExamineArith(d, s, i), i)
<1> DEFINE q == FindOrMake(d, s.y, 0)
           r == FindOrMake(q, s.z, 0)
           l == Replace(r, s.x, i)
           n == At(l, s.x)
           c == Connect(l, At(r, s.y), n)
<1>1. DepOK(code, q, i - 1) /\ s.y.p \in DOMAIN q.map
  <2>1. i - 1 \in Nat /\ 0 \in 0..(i - 1)
    OBVIOUS
  <2> QED BY <2>1, FindOrMakeOK
<1>2. ExamineArith(d, s, i) = Connect(c, At(r, s.z), n)
  BY DEF ExamineArith
<1> HIDE DEF q
<1>3. DepOK(code, r, i - 1) /\ s.y.p \in DOMAIN r.map /\ s.z.p \in DOMAIN r.map
  <2>1. i - 1 \in Nat /\ 0 \in 0..(i - 1)
    OBVIOUS
  <2> QED BY <1>1, <2>1, FindOrMakeOK
<1> HIDE DEF r
<1>4. DepOK(code, r, i) /\ \A m \in 1..Len(r.nodes) : r.nodes[m].s # i
  BY <1>3, NotYet
<1>5. DepOK(code, l, i) /\ More(r, l) /\ s.x.p \in DOMAIN l.map
  <2>1. i \in 0..i
    OBVIOUS
  <2> QED BY <1>4, <2>1, ReplaceOK
<1> HIDE DEF l
<1>6. n \in 1..Len(l.nodes) /\ At(r, s.y) \in 1..Len(l.nodes) /\ At(r, s.z) \in 1..Len(l.nodes)
  BY <1>3, <1>4, <1>5, AtIs
<1> HIDE DEF n
<1>7. DepOK(code, c, i) /\ Len(c.nodes) = Len(l.nodes)
  BY <1>5, <1>6, ConnectOK
<1> HIDE DEF c
<1>8. n \in 1..Len(c.nodes) /\ At(r, s.z) \in 1..Len(c.nodes)
  BY <1>6, <1>7
<1>9. DepOK(code, Connect(c, At(r, s.z), n), i)
  BY <1>7, <1>8, ConnectOK
<1> QED BY <1>2, <1>9

LEMMA ExamineBranchOK ==
    ASSUME NEW code, NEW d, NEW i \in Nat \ {0}, DepOK(code, d, i - 1),
           code[i].op \notin Moves, NEW s
    PROVE  DepOK(code, ExamineBranch(d, s, i), i)
<1> DEFINE q  == FindOrMake(d, s.y, 0)
           r  == FindOrMake(q, s.x, 0)
           ry == Replace(r, s.y, i)
           rx == Replace(ry, s.x, i)
           c1 == Connect(rx, At(r, s.x), At(rx, s.x))
           c2 == Connect(c1, At(r, s.y), At(ry, s.y))
           outs == c2.outs \cup {At(rx, s.x), At(ry, s.y)}
<1>0. DepOK(code, d, i) /\ 0 \in 0..i /\ i \in 0..i /\ i \in Nat
  BY NotYet
<1>1. DepOK(code, q, i) /\ s.y.p \in DOMAIN q.map
  BY <1>0, FindOrMakeOK
<1>2. ExamineBranch(d, s, i) = [c2 EXCEPT !.outs = outs]
  BY DEF ExamineBranch
<1> HIDE DEF q
<1>3. DepOK(code, r, i) /\ s.y.p \in DOMAIN r.map /\ s.x.p \in DOMAIN r.map
  BY <1>0, <1>1, FindOrMakeOK
<1> HIDE DEF r
<1>4. DepOK(code, ry, i) /\ More(r, ry) /\ s.y.p \in DOMAIN ry.map
  BY <1>0, <1>3, ReplaceOK
<1> HIDE DEF ry
<1>5. DepOK(code, rx, i) /\ More(ry, rx) /\ s.x.p \in DOMAIN rx.map
  BY <1>0, <1>4, ReplaceOK
<1> HIDE DEF rx
<1>6. More(r, rx)
  BY <1>3, <1>4, <1>5, MoreStill
<1>7. /\ At(r, s.x) \in 1..Len(rx.nodes) /\ At(rx, s.x) \in 1..Len(rx.nodes)
      /\ At(r, s.y) \in 1..Len(rx.nodes) /\ At(ry, s.y) \in 1..Len(rx.nodes)
  <2>1. At(r, s.x) \in 1..Len(rx.nodes) /\ At(r, s.y) \in 1..Len(rx.nodes)
    BY <1>3, <1>5, <1>6, AtIs
  <2>2. At(ry, s.y) \in 1..Len(rx.nodes)
    BY <1>4, <1>5, AtIs
  <2>3. At(rx, s.x) \in 1..Len(rx.nodes)
    BY <1>5, AtIs
  <2> QED BY <2>1, <2>2, <2>3
<1>8. DepOK(code, c1, i) /\ Len(c1.nodes) = Len(rx.nodes)
  BY <1>0, <1>5, <1>7, ConnectOK
<1> HIDE DEF c1
<1>9. DepOK(code, c2, i)
  <2>1. At(r, s.y) \in 1..Len(c1.nodes) /\ At(ry, s.y) \in 1..Len(c1.nodes)
    BY <1>7, <1>8
  <2> QED BY <1>0, <1>8, <2>1, ConnectOK
<1> HIDE DEF c2, outs
<1>10. DepOK(code, [c2 EXCEPT !.outs = outs], i)
  BY <1>0, <1>9, MarkOK
<1> QED BY <1>2, <1>10

LEMMA ExamineStmtOK ==
    ASSUME NEW code, NEW d, NEW i \in Nat \ {0}, DepOK(code, d, i - 1),
           code[i] \in Statements
    PROVE  DepOK(code, ExamineStmt(d, code[i], i), i)
<1> DEFINE s == code[i]
<1>0. DepOK(code, d, i) /\ i \in 0..i /\ i \in Nat
  BY NotYet
<1>1. CASE s.op \in {"SetLabel", "Goto", "InvokeFunc"}
  <2>1. ExamineStmt(d, s, i) = d
    BY <1>1 DEF ExamineStmt, Arith
  <2> QED BY <1>0, <2>1
<1>2. CASE s.op = "Assign"
  <2>1. ExamineStmt(d, s, i) = ExamineAssign(d, s, i)
    BY <1>2 DEF ExamineStmt, Arith
  <2> QED BY <2>1, ExamineAssignOK
<1>3. CASE s.op \in Arith
  <2>1. ExamineStmt(d, s, i) = ExamineArith(d, s, i)
    BY <1>3 DEF ExamineStmt, Arith
  <2> QED BY <2>1, ExamineArithOK
<1>4. CASE s.op = "BranchIf"
  <2>1. ExamineStmt(d, s, i) = ExamineBranch(d, s, i)
    BY <1>4 DEF ExamineStmt, Arith
  <2>2. s.op \notin Moves
    BY <1>4 DEF Moves, Arith
  <2> QED BY <2>1, <2>2, ExamineBranchOK
<1>5. CASE s.op = "Read"
  <2> DEFINE l == Replace(d, s.x, i)
             ins == l.ins \cup {At(l, s.x)}
  <2>1. ExamineStmt(d, s, i) = [l EXCEPT !.ins = ins]
    BY <1>5 DEF ExamineStmt, Arith
  <2>2. s.op \notin Moves
    BY <1>5 DEF Moves, Arith
  <2>3. DepOK(code, l, i)
    BY <1>0, <2>2, ReplaceOK
  <2> HIDE DEF l, ins
  <2>4. DepOK(code, [l EXCEPT !.ins = ins], i)
    BY <1>0, <2>3, MarkOK
  <2> QED BY <2>1, <2>4
<1>6. CASE s.op \in {"Return", "PopCallArg", "PushCallArg", "Write"}
  <2> DEFINE l == FindOrMake(d, s.x, i)
             outs == l.outs \cup {At(l, s.x)}
  <2>1. ExamineStmt(d, s, i) = [l EXCEPT !.outs = outs]
    BY <1>6 DEF ExamineStmt, Arith, Output
  <2>2. s.op \notin Moves
    BY <1>6 DEF Moves, Arith
  <2>3. DepOK(code, l, i)
    BY <1>0, <2>2, FindOrMakeOK
  <2> HIDE DEF l, outs
  <2>4. DepOK(code, [l EXCEPT !.outs = outs], i)
    BY <1>0, <2>3, MarkOK
  <2> QED BY <2>1, <2>4
<1>7. s.op \in Defines \cup {"Goto", "SetLabel", "BranchIf", "Return", "PushCallArg", "Write"}
  BY DEF Statements
<1> QED BY <1>1, <1>2, <1>3, <1>4, <1>5, <1>6, <1>7 DEF Defines

\* One node more, in front of the older ones of its variable.
LEMMA ReplaceIs ==
    ASSUME NEW code, NEW d, NEW i, DepOK(code, d, i), NEW x, NEW s
    PROVE  LET e == Replace(d, x, s)
               n == Len(d.nodes)
           IN  /\ n \in Nat /\ Len(e.nodes) = n + 1
               /\ e.nodes[n + 1].v = x.p /\ e.nodes[n + 1].s = s /\ e.nodes[n + 1].up = {}
               /\ \A m \in 1..n : e.nodes[m] = d.nodes[m]
               /\ DOMAIN e.map = DOMAIN d.map \cup {x.p} /\ e.map[x.p] = n + 1
               /\ \A k \in DOMAIN d.map : k # x.p => e.map[k] = d.map[k]
<1> DEFINE new == [v |-> x.p, s |-> s, up |-> {}]
           nodes == Append(d.nodes, new)
           map == Extend(d.map, x.p, Len(d.nodes) + 1)
           e == Replace(d, x, s)
           n == Len(d.nodes)
<1>1. /\ d = [nodes |-> d.nodes, map |-> d.map, ins |-> d.ins, outs |-> d.outs]
      /\ n \in Nat /\ DOMAIN d.nodes = 1..n
  BY DEF DepOK
<1>2. e = [d EXCEPT !.nodes = nodes, !.map = map]
  BY DEF Replace
<1>3. PICK S : d.nodes \in Seq(S)
  BY DEF DepOK
<1>4. Len(nodes) = n + 1 /\ nodes[n + 1] = new /\ \A m \in 1..n : nodes[m] = d.nodes[m]
  <2> DEFINE T == S \cup {new}
             q == d.nodes
  <2>1. q \in Seq(T) /\ new \in T
    BY <1>3
  <2> HIDE DEF new, q, T
  <2>2. /\ Len(Append(q, new)) = Len(q) + 1 /\ Append(q, new)[Len(q) + 1] = new
        /\ \A m \in 1..Len(q) : Append(q, new)[m] = q[m]
    BY <2>1
  <2> QED BY <2>2 DEF q, T
<1>5. /\ DOMAIN map = DOMAIN d.map \cup {x.p} /\ map[x.p] = n + 1
      /\ \A k \in DOMAIN d.map : k # x.p => map[k] = d.map[k]
  BY DEF Extend
<1>6. new.v = x.p /\ new.s = s /\ new.up = {}
  OBVIOUS
<1> HIDE DEF new, nodes, map, e
<1>7. e.nodes = nodes /\ e.map = map
  BY <1>1, <1>2
<1> QED BY <1>1, <1>4, <1>5, <1>6, <1>7 DEF e

LEMMA ConnectIs ==
    ASSUME NEW code, NEW d, NEW i, DepOK(code, d, i), NEW u, NEW n \in 1..Len(d.nodes)
    PROVE  LET e == Connect(d, u, n)
           IN  /\ Len(e.nodes) = Len(d.nodes) /\ e.map = d.map
               /\ e.nodes[n].v = d.nodes[n].v /\ e.nodes[n].s = d.nodes[n].s
               /\ e.nodes[n].up = d.nodes[n].up \cup {u}
               /\ \A m \in 1..Len(d.nodes) : m # n => e.nodes[m] = d.nodes[m]
<1> DEFINE e == Connect(d, u, n)
           a == d.nodes[n]
           new == [a EXCEPT !.up = @ \cup {u}]
           nodes == [d.nodes EXCEPT ![n] = new]
           k == Len(d.nodes)
<1>1. /\ d = [nodes |-> d.nodes, map |-> d.map, ins |-> d.ins, outs |-> d.outs]
      /\ k \in Nat /\ DOMAIN d.nodes = 1..k
  BY DEF DepOK
<1>2. e = [d EXCEPT !.nodes = nodes]
  BY DEF Connect
<1>3. PICK S : d.nodes \in Seq(S)
  BY DEF DepOK
<1>4. Len(nodes) = k /\ nodes[n] = new /\ \A m \in 1..k : m # n => nodes[m] = d.nodes[m]
  <2> DEFINE T == S \cup {new}
             q == d.nodes
             r == [q EXCEPT ![n] = new]
  <2>1. q \in [1..k -> T] /\ new \in T
    BY <1>1, <1>3
  <2> HIDE DEF new, q, T, k
  <2>2. r \in [1..k -> T]
    BY <2>1
  <2>3. r \in Seq(T) /\ Len(r) = k
    BY <1>1, <2>2, ListOf
  <2>4. r[n] = new /\ \A m \in 1..k : m # n => r[m] = q[m]
    BY <2>1 DEF k
  <2> QED BY <2>3, <2>4 DEF q, T
<1>5. a = [v |-> a.v, s |-> a.s, up |-> a.up]
  BY DEF DepOK
<1>6. new.v = a.v /\ new.s = a.s /\ new.up = a.up \cup {u}
  <2>1. new = [a EXCEPT !.up = @ \cup {u}]
    OBVIOUS
  <2> HIDE DEF a, new
  <2>2. new = [v |-> a.v, s |-> a.s, up |-> a.up \cup {u}]
    BY <1>5, <2>1
  <2> QED BY <2>2
<1> HIDE DEF new, nodes, e
<1>7. e.nodes = nodes /\ e.map = d.map
  BY <1>1, <1>2
<1> QED BY <1>4, <1>6, <1>7 DEF e

\* The map leads from a variable to a node of it.
Mapped(d) == \A k \in DOMAIN d.map : d.map[k] \in 1..Len(d.nodes) /\ d.nodes[d.map[k]].v = k

\* An arithmetic statement among the first i has a node, and that node has two
\* parents if the statement has two operands.
Paired(code, d, i) ==
    /\ Mapped(d)
    /\ \A m \in 1..Len(d.nodes) : d.nodes[m].s # 0 /\ code[d.nodes[m].s].op \in Arith =>
          (Cardinality(d.nodes[m].up) = 2 <=> code[d.nodes[m].s].y.p # code[d.nodes[m].s].z.p)
    /\ \A j \in 1..i : code[j].op \in Arith => \E m \in 1..Len(d.nodes) : d.nodes[m].s = j

\* The nodes of e that are not in d belong to no arithmetic statement.
Harmless(code, d, e) ==
    /\ Len(d.nodes) \in Nat /\ Len(e.nodes) \in Nat /\ Len(d.nodes) <= Len(e.nodes)
    /\ \A m \in 1..Len(d.nodes) : e.nodes[m] = d.nodes[m]
    /\ \A m \in 1..Len(e.nodes) : \/ m \in 1..Len(d.nodes) \/ e.nodes[m].s = 0
                                  \/ code[e.nodes[m].s].op \notin Arith
    /\ Mapped(e)

LEMMA HarmlessPaired ==
    ASSUME NEW code, NEW d, NEW e, NEW i, Paired(code, d, i), Harmless(code, d, e)
    PROVE  Paired(code, e, i)
<1>1. \A m \in 1..Len(d.nodes) : m \in 1..Len(e.nodes) /\ e.nodes[m] = d.nodes[m]
  BY DEF Harmless
<1>2. ASSUME NEW m \in 1..Len(e.nodes), e.nodes[m].s # 0, code[e.nodes[m].s].op \in Arith
      PROVE  Cardinality(e.nodes[m].up) = 2 <=> code[e.nodes[m].s].y.p # code[e.nodes[m].s].z.p
  <2>1. m \in 1..Len(d.nodes)
    BY <1>2 DEF Harmless
  <2>2. e.nodes[m] = d.nodes[m]
    BY <1>1, <2>1
  <2> QED BY <1>2, <2>1, <2>2 DEF Paired
<1>3. ASSUME NEW j \in 1..i, code[j].op \in Arith PROVE \E m \in 1..Len(e.nodes) : e.nodes[m].s = j
  <2>1. PICK m \in 1..Len(d.nodes) : d.nodes[m].s = j
    BY <1>3 DEF Paired
  <2> QED BY <1>1, <2>1
<1>4. Mapped(e)
  BY DEF Harmless
<1> QED BY <1>2, <1>3, <1>4 DEF Paired

LEMMA HarmlessSelf ==
    ASSUME NEW code, NEW d, NEW i, DepOK(code, d, i), Mapped(d)
    PROVE  Harmless(code, d, d)
BY DEF Harmless, DepOK

LEMMA HarmlessThen ==
    ASSUME NEW code, NEW d, NEW e, NEW f, Harmless(code, d, e), Harmless(code, e, f)
    PROVE  Harmless(code, d, f)
<1> DEFINE k == Len(d.nodes)
           m == Len(e.nodes)
           n == Len(f.nodes)
<1>1. /\ k \in Nat /\ m \in Nat /\ n \in Nat /\ k <= m /\ m <= n /\ Mapped(f)
      /\ \A j \in 1..k : e.nodes[j] = d.nodes[j]
      /\ \A j \in 1..m : f.nodes[j] = e.nodes[j]
      /\ \A j \in 1..m : j \in 1..k \/ e.nodes[j].s = 0 \/ code[e.nodes[j].s].op \notin Arith
      /\ \A j \in 1..n : j \in 1..m \/ f.nodes[j].s = 0 \/ code[f.nodes[j].s].op \notin Arith
  BY DEF Harmless
<1> HIDE DEF k, m, n
<1>2. k <= n /\ \A j \in 1..k : j \in 1..m
  BY <1>1
<1>3. \A j \in 1..k : f.nodes[j] = d.nodes[j]
  BY <1>1, <1>2
<1>4. \A j \in 1..n : j \in 1..k \/ f.nodes[j].s = 0 \/ code[f.nodes[j].s].op \notin Arith
  BY <1>1
<1> QED BY <1>1, <1>2, <1>3, <1>4 DEF Harmless, k, m, n

LEMMA ReplaceMapped ==
    ASSUME NEW code, NEW d, NEW i, DepOK(code, d, i), Mapped(d), NEW x, NEW s
    PROVE  Mapped(Replace(d, x, s))
<1> DEFINE e == Replace(d, x, s)
           n == Len(d.nodes)
<1>1. /\ n \in Nat /\ Len(e.nodes) = n + 1
      /\ e.nodes[n + 1].v = x.p
      /\ \A m \in 1..n : e.nodes[m] = d.nodes[m]
      /\ DOMAIN e.map = DOMAIN d.map \cup {x.p} /\ e.map[x.p] = n + 1
      /\ \A k \in DOMAIN d.map : k # x.p => e.map[k] = d.map[k]
  BY ReplaceIs
<1>2. \A k \in DOMAIN d.map : d.map[k] \in 1..n /\ d.nodes[d.map[k]].v = k
  BY DEF Mapped
<1> HIDE DEF e, n
<1>3. n + 1 \in 1..(n + 1) /\ \A m \in 1..n : m \in 1..(n + 1)
  BY <1>1
<1>4. ASSUME NEW k \in DOMAIN e.map PROVE e.map[k] \in 1..(n + 1) /\ e.nodes[e.map[k]].v = k
  <2>1. CASE k = x.p
    BY <1>1, <1>3, <2>1
  <2>2. CASE k # x.p
    BY <1>1, <1>2, <1>3, <2>2
  <2> QED BY <2>1, <2>2
<1> QED BY <1>1, <1>4 DEF Mapped, e

\* A node for a statement that is no arithmetic.
LEMMA ReplaceHarmless ==
    ASSUME NEW code, NEW d, NEW i, DepOK(code, d, i), Mapped(d), NEW x, NEW s,
           s = 0 \/ code[s].op \notin Arith
    PROVE  Harmless(code, d, Replace(d, x, s))
<1> DEFINE e == Replace(d, x, s)
           n == Len(d.nodes)
<1>1. /\ n \in Nat /\ Len(e.nodes) = n + 1 /\ e.nodes[n + 1].s = s
      /\ \A m \in 1..n : e.nodes[m] = d.nodes[m]
  BY ReplaceIs
<1>2. Mapped(e)
  BY ReplaceMapped
<1> HIDE DEF e, n
<1>3. \A m \in 1..(n + 1) : m \in 1..n \/ m = n + 1
  BY <1>1
<1>4. n + 1 \in Nat /\ n <= n + 1
  BY <1>1
<1> QED BY <1>1, <1>2, <1>3, <1>4 DEF Harmless, e, n

LEMMA FindOrMakeHarmless ==
    ASSUME NEW code, NEW d, NEW i, DepOK(code, d, i), Mapped(d), NEW x, NEW s,
           s = 0 \/ code[s].op \notin Arith
    PROVE  Harmless(code, d, FindOrMake(d, x, s))
<1>1. CASE x.p \in DOMAIN d.map
  BY <1>1, HarmlessSelf DEF FindOrMake
<1>2. CASE x.p \notin DOMAIN d.map
  BY <1>2, ReplaceHarmless DEF FindOrMake
<1> QED BY <1>1, <1>2

LEMMA ConnectMapped ==
    ASSUME NEW code, NEW d, NEW i, DepOK(code, d, i), Mapped(d), NEW u, NEW n \in 1..Len(d.nodes)
    PROVE  Mapped(Connect(d, u, n))
<1> DEFINE e == Connect(d, u, n)
<1>1. /\ Len(e.nodes) = Len(d.nodes) /\ e.map = d.map
      /\ e.nodes[n].v = d.nodes[n].v
      /\ \A m \in 1..Len(d.nodes) : m # n => e.nodes[m] = d.nodes[m]
  BY ConnectIs
<1> HIDE DEF e
<1>2. \A m \in 1..Len(d.nodes) : e.nodes[m].v = d.nodes[m].v
  BY <1>1
<1> QED BY <1>1, <1>2 DEF Mapped, e

\* A node that is new gets a parent.
LEMMA ConnectHarmless ==
    ASSUME NEW code, NEW d, NEW e, NEW i, DepOK(code, e, i), Harmless(code, d, e),
           NEW u, NEW n \in 1..Len(e.nodes), n > Len(d.nodes)
    PROVE  Harmless(code, d, Connect(e, u, n))
<1> DEFINE f == Connect(e, u, n)
<1>1. /\ Len(f.nodes) = Len(e.nodes) /\ f.nodes[n].s = e.nodes[n].s
      /\ \A m \in 1..Len(e.nodes) : m # n => f.nodes[m] = e.nodes[m]
  BY ConnectIs
<1>2. Mapped(f)
  BY ConnectMapped DEF Harmless
<1> HIDE DEF f
<1>3. \A m \in 1..Len(d.nodes) : m \in 1..Len(e.nodes) /\ m # n
  BY DEF Harmless
<1>4. \A m \in 1..Len(e.nodes) : f.nodes[m].s = e.nodes[m].s
  BY <1>1
<1> QED BY <1>1, <1>2, <1>3, <1>4 DEF Harmless, f

\* Outputs and inputs do not matter here either.
LEMMA MarkHarmless ==
    ASSUME NEW code, NEW d, NEW e, NEW i, DepOK(code, e, i), Harmless(code, d, e), NEW some
    PROVE  Harmless(code, d, [e EXCEPT !.outs = some]) /\ Harmless(code, d, [e EXCEPT !.ins = some])
<1> DEFINE f == [e EXCEPT !.outs = some]
           g == [e EXCEPT !.ins = some]
<1>1. e = [nodes |-> e.nodes, map |-> e.map, ins |-> e.ins, outs |-> e.outs]
  BY DEF DepOK
<1>2. f.nodes = e.nodes /\ f.map = e.map /\ g.nodes = e.nodes /\ g.map = e.map
  BY <1>1
<1> HIDE DEF f, g
<1>3. Mapped(f) /\ Mapped(g)
  BY <1>2 DEF Mapped, Harmless
<1> QED BY <1>2, <1>3 DEF Harmless, f, g

LEMMA NewestNode ==
    ASSUME NEW code, NEW d, NEW i, DepOK(code, d, i), NEW x, NEW s
    PROVE  /\ At(Replace(d, x, s), x) = Len(d.nodes) + 1 /\ Len(d.nodes) \in Nat
           /\ At(Replace(d, x, s), x) \in 1..Len(Replace(d, x, s).nodes)
<1> DEFINE e == Replace(d, x, s)
           n == Len(d.nodes)
<1>1. n \in Nat /\ Len(e.nodes) = n + 1 /\ e.map[x.p] = n + 1
  BY ReplaceIs
<1> HIDE DEF e, n
<1>2. n + 1 \in 1..(n + 1)
  BY <1>1
<1> QED BY <1>1, <1>2 DEF At, e, n

LEMMA AssignHarmless ==
    ASSUME NEW code, NEW d, NEW i \in Nat \ {0}, DepOK(code, d, i - 1), Mapped(d),
           code[i].op \notin Arith, NEW s
    PROVE  Harmless(code, d, ExamineAssign(d, s, i))
<1> DEFINE r == FindOrMake(d, s.y, 0)
           l == Replace(r, s.x, i)
           n == At(l, s.x)
<1>1. DepOK(code, r, i - 1)
  <2>1. i - 1 \in Nat /\ 0 \in 0..(i - 1)
    OBVIOUS
  <2> QED BY <2>1, FindOrMakeOK
<1>2. Harmless(code, d, r)
  BY FindOrMakeHarmless
<1>3. ExamineAssign(d, s, i) = Connect(l, At(r, s.y), n)
  BY DEF ExamineAssign
<1> HIDE DEF r
<1>4. DepOK(code, r, i) /\ \A m \in 1..Len(r.nodes) : r.nodes[m].s # i
  BY <1>1, NotYet
<1>5. DepOK(code, l, i)
  <2>1. i \in 0..i
    OBVIOUS
  <2> QED BY <1>4, <2>1, ReplaceOK
<1>6. Harmless(code, r, l)
  <2>1. Mapped(r)
    BY <1>2 DEF Harmless
  <2> QED BY <1>4, <2>1, ReplaceHarmless
<1>7. n = Len(r.nodes) + 1 /\ n \in 1..Len(l.nodes)
  BY <1>4, NewestNode
<1> HIDE DEF l, n
<1>8. n > Len(d.nodes)
  BY <1>2, <1>7 DEF Harmless
<1>9. Harmless(code, d, l)
  BY <1>2, <1>6, HarmlessThen
<1> DEFINE u == At(r, s.y)
<1> HIDE DEF u
<1>10. Harmless(code, d, Connect(l, u, n))
  BY <1>5, <1>7, <1>8, <1>9, ConnectHarmless
<1> QED BY <1>3, <1>10 DEF u

LEMMA BranchHarmless ==
    ASSUME NEW code, NEW d, NEW i \in Nat \ {0}, DepOK(code, d, i - 1), Mapped(d),
           code[i].op \notin Moves, NEW s
    PROVE  Harmless(code, d, ExamineBranch(d, s, i))
<1> DEFINE q  == FindOrMake(d, s.y, 0)
           r  == FindOrMake(q, s.x, 0)
           ry == Replace(r, s.y, i)
           rx == Replace(ry, s.x, i)
           ny == At(ry, s.y)
           nx == At(rx, s.x)
           c1 == Connect(rx, At(r, s.x), nx)
           c2 == Connect(c1, At(r, s.y), ny)
           outs == c2.outs \cup {nx, ny}
<1>0. /\ DepOK(code, d, i) /\ 0 \in 0..i /\ i \in 0..i /\ i \in Nat
      /\ code[i].op \notin Arith
  BY NotYet DEF Moves
<1>1. DepOK(code, q, i) /\ Harmless(code, d, q) /\ s.y.p \in DOMAIN q.map
  BY <1>0, FindOrMakeOK, FindOrMakeHarmless
<1>2. ExamineBranch(d, s, i) = [c2 EXCEPT !.outs = outs]
  BY DEF ExamineBranch
<1> HIDE DEF q
<1>3. Mapped(q)
  BY <1>1 DEF Harmless
<1>4. DepOK(code, r, i) /\ Harmless(code, q, r) /\ s.y.p \in DOMAIN r.map /\ s.x.p \in DOMAIN r.map
  BY <1>0, <1>1, <1>3, FindOrMakeOK, FindOrMakeHarmless
<1> HIDE DEF r
<1>5. Harmless(code, d, r) /\ Mapped(r)
  BY <1>1, <1>4, HarmlessThen DEF Harmless
<1>6. DepOK(code, ry, i) /\ More(r, ry) /\ Harmless(code, r, ry)
  BY <1>0, <1>4, <1>5, ReplaceOK, ReplaceHarmless
<1>7. ny = Len(r.nodes) + 1 /\ ny \in 1..Len(ry.nodes)
  BY <1>4, NewestNode
<1> HIDE DEF ry, ny
<1>8. Harmless(code, d, ry) /\ Mapped(ry)
  BY <1>5, <1>6, HarmlessThen DEF Harmless
<1>9. DepOK(code, rx, i) /\ More(ry, rx) /\ Harmless(code, ry, rx)
  BY <1>0, <1>6, <1>8, ReplaceOK, ReplaceHarmless
<1>10. nx = Len(ry.nodes) + 1 /\ nx \in 1..Len(rx.nodes)
  BY <1>6, NewestNode
<1> HIDE DEF rx, nx
<1>11. Harmless(code, d, rx)
  BY <1>8, <1>9, HarmlessThen
<1>12. More(r, rx)
  BY <1>4, <1>6, <1>9, MoreStill
<1>13. /\ At(r, s.x) \in 1..Len(rx.nodes) /\ At(r, s.y) \in 1..Len(rx.nodes)
       /\ ny \in 1..Len(rx.nodes) /\ nx > Len(d.nodes) /\ ny > Len(d.nodes)
  <2>1. At(r, s.x) \in 1..Len(rx.nodes) /\ At(r, s.y) \in 1..Len(rx.nodes)
    BY <1>4, <1>9, <1>12, AtIs
  <2>2. Len(d.nodes) <= Len(r.nodes) /\ Len(d.nodes) <= Len(ry.nodes) /\ Len(ry.nodes) <= Len(rx.nodes)
        /\ Len(d.nodes) \in Nat /\ Len(r.nodes) \in Nat /\ Len(ry.nodes) \in Nat /\ Len(rx.nodes) \in Nat
    BY <1>5, <1>8, <1>9 DEF Harmless
  <2>3. ny \in 1..Len(rx.nodes) /\ nx > Len(d.nodes) /\ ny > Len(d.nodes)
    BY <1>7, <1>10, <2>2
  <2> QED BY <2>1, <2>3
<1> DEFINE ux == At(r, s.x)
           uy == At(r, s.y)
<1>14. ux \in 1..Len(rx.nodes) /\ uy \in 1..Len(rx.nodes) /\ c1 = Connect(rx, ux, nx)
       /\ c2 = Connect(c1, uy, ny)
  BY <1>13
<1> HIDE DEF ux, uy, c1, c2, outs
<1>15. DepOK(code, c1, i) /\ Len(c1.nodes) = Len(rx.nodes)
  BY <1>0, <1>9, <1>10, <1>14, ConnectOK
<1>16. Harmless(code, d, c1)
  BY <1>9, <1>10, <1>11, <1>13, <1>14, ConnectHarmless
<1>17. ny \in 1..Len(c1.nodes) /\ uy \in 1..Len(c1.nodes)
  BY <1>13, <1>14, <1>15
<1>18. DepOK(code, c2, i)
  BY <1>0, <1>14, <1>15, <1>17, ConnectOK
<1>19. Harmless(code, d, c2)
  BY <1>13, <1>14, <1>15, <1>16, <1>17, ConnectHarmless
<1>20. Harmless(code, d, [c2 EXCEPT !.outs = outs])
  BY <1>18, <1>19, MarkHarmless
<1> QED BY <1>2, <1>20

LEMMA TwoOrOne ==
    ASSUME NEW u, NEW v
    PROVE  Cardinality({u} \cup {v}) = 2 <=> u # v
<1>1. CASE u = v
  <2>1. Cardinality({u}) = 1
    BY FS_Singleton
  <2> QED BY <1>1, <2>1
<1>2. CASE u # v
  <2>1. IsFiniteSet({u}) /\ Cardinality({u}) = 1
    BY FS_Singleton
  <2>2. Cardinality({u} \cup {v}) = Cardinality({u}) + 1
    BY <1>2, <2>1, FS_AddElement
  <2> QED BY <1>2, <2>1, <2>2
<1> QED BY <1>1, <1>2

\* The node of an arithmetic statement.
LEMMA ArithPaired ==
    ASSUME NEW code, NEW d, NEW i \in Nat \ {0}, DepOK(code, d, i - 1), Paired(code, d, i - 1),
           code[i].op \in Arith
    PROVE  Paired(code, ExamineArith(d, code[i], i), i)
<1> DEFINE s == code[i]
           q == FindOrMake(d, s.y, 0)
           r == FindOrMake(q, s.z, 0)
           k == Len(r.nodes)
           l == Replace(r, s.x, i)
           n == At(l, s.x)
           u == At(r, s.y)
           v == At(r, s.z)
           c == Connect(l, u, n)
           e == Connect(c, v, n)
<1>0. i - 1 \in Nat /\ 0 \in 0..(i - 1) /\ i \in 0..i /\ i \in Nat /\ Mapped(d)
  BY DEF Paired
<1>1. DepOK(code, q, i - 1) /\ s.y.p \in DOMAIN q.map /\ Harmless(code, d, q)
  BY <1>0, FindOrMakeOK, FindOrMakeHarmless
<1>2. ExamineArith(d, s, i) = e
  BY DEF ExamineArith
<1> HIDE DEF q
<1>3. Mapped(q)
  BY <1>1 DEF Harmless
<1>4. /\ DepOK(code, r, i - 1) /\ s.y.p \in DOMAIN r.map /\ s.z.p \in DOMAIN r.map
      /\ Harmless(code, q, r)
  BY <1>0, <1>1, <1>3, FindOrMakeOK, FindOrMakeHarmless
<1> HIDE DEF r
<1>5. DepOK(code, r, i) /\ \A m \in 1..k : r.nodes[m].s # i
  BY <1>4, NotYet
<1>6. Paired(code, r, i - 1) /\ Mapped(r)
  <2>1. Harmless(code, d, r)
    BY <1>1, <1>4, HarmlessThen
  <2> QED BY <2>1, HarmlessPaired DEF Harmless
<1>7. u = v <=> s.y.p = s.z.p
  BY <1>4, <1>6 DEF Mapped, At
<1>8. DepOK(code, l, i) /\ More(r, l) /\ Mapped(l)
  BY <1>0, <1>5, <1>6, ReplaceOK, ReplaceMapped
<1>9. /\ k \in Nat /\ Len(l.nodes) = k + 1 /\ n = k + 1
      /\ l.nodes[k + 1].s = i /\ l.nodes[k + 1].up = {}
      /\ \A m \in 1..k : l.nodes[m] = r.nodes[m]
  BY <1>5, ReplaceIs, NewestNode
<1>10. u \in 1..Len(l.nodes) /\ v \in 1..Len(l.nodes)
  BY <1>4, <1>5, <1>8, AtIs
<1> HIDE DEF l, n, u, v, k
<1>11. n \in 1..Len(l.nodes) /\ \A m \in 1..k : m \in 1..Len(l.nodes) /\ m # n
  BY <1>9
<1>12. DepOK(code, c, i) /\ Mapped(c)
  BY <1>0, <1>8, <1>10, <1>11, ConnectOK, ConnectMapped
<1>13. /\ Len(c.nodes) = Len(l.nodes) /\ c.nodes[n].s = l.nodes[n].s
       /\ c.nodes[n].up = l.nodes[n].up \cup {u}
       /\ \A m \in 1..Len(l.nodes) : m # n => c.nodes[m] = l.nodes[m]
  BY <1>8, <1>11, ConnectIs
<1> HIDE DEF c
<1>14. n \in 1..Len(c.nodes)
  BY <1>11, <1>13
<1>15. /\ Len(e.nodes) = Len(c.nodes) /\ e.nodes[n].s = c.nodes[n].s
       /\ e.nodes[n].up = c.nodes[n].up \cup {v} /\ Mapped(e)
       /\ \A m \in 1..Len(c.nodes) : m # n => e.nodes[m] = c.nodes[m]
  BY <1>12, <1>14, ConnectIs, ConnectMapped
<1> HIDE DEF e
<1>16. Len(e.nodes) = k + 1 /\ e.nodes[n].s = i /\ e.nodes[n].up = {u} \cup {v}
  BY <1>9, <1>13, <1>15
<1>17. \A m \in 1..k : e.nodes[m] = r.nodes[m]
  BY <1>9, <1>11, <1>13, <1>15
<1>18. \A m \in 1..(k + 1) : m \in 1..k \/ m = n
  BY <1>9
<1>19. Cardinality(e.nodes[n].up) = 2 <=> s.y.p # s.z.p
  <2> DEFINE ups == e.nodes[n].up
  <2>1. ups = {u} \cup {v}
    BY <1>16
  <2> HIDE DEF ups
  <2>2. Cardinality(ups) = 2 <=> u # v
    BY <2>1, TwoOrOne
  <2> QED BY <1>7, <2>2 DEF ups
<1>20. ASSUME NEW m \in 1..Len(e.nodes), e.nodes[m].s # 0, code[e.nodes[m].s].op \in Arith
       PROVE  Cardinality(e.nodes[m].up) = 2 <=> code[e.nodes[m].s].y.p # code[e.nodes[m].s].z.p
  <2>1. CASE m = n
    BY <1>16, <1>19, <2>1
  <2>2. CASE m \in 1..k
    BY <1>6, <1>17, <1>20, <2>2 DEF Paired, k
  <2> QED BY <1>16, <1>18, <2>1, <2>2
<1>21. ASSUME NEW j \in 1..i, code[j].op \in Arith PROVE \E m \in 1..Len(e.nodes) : e.nodes[m].s = j
  <2>1. CASE j = i
    BY <1>14, <1>15, <1>16, <2>1
  <2>2. CASE j # i
    <3>1. j \in 1..(i - 1)
      BY <2>2
    <3>2. PICK m \in 1..k : r.nodes[m].s = j
      BY <1>6, <1>21, <3>1 DEF Paired, k
    <3>3. m \in 1..Len(e.nodes)
      BY <1>9, <1>16
    <3> QED BY <1>17, <3>2, <3>3
  <2> QED BY <2>1, <2>2
<1> HIDE DEF s
<1>22. Paired(code, e, i)
  BY <1>15, <1>20, <1>21 DEF Paired
<1> QED BY <1>2, <1>22 DEF s

\* Any other statement.
LEMMA OtherHarmless ==
    ASSUME NEW code, NEW d, NEW i \in Nat \ {0}, DepOK(code, d, i - 1), Mapped(d),
           code[i] \in Statements, code[i].op \notin Arith
    PROVE  Harmless(code, d, ExamineStmt(d, code[i], i))
<1> DEFINE s == code[i]
<1>0. DepOK(code, d, i) /\ i \in 0..i /\ i \in Nat
  BY NotYet
<1>1. CASE s.op \in {"SetLabel", "Goto", "InvokeFunc"}
  <2>1. ExamineStmt(d, s, i) = d
    BY <1>1 DEF ExamineStmt, Arith
  <2> QED BY <1>0, <2>1, HarmlessSelf
<1>2. CASE s.op = "Assign"
  <2>1. ExamineStmt(d, s, i) = ExamineAssign(d, s, i)
    BY <1>2 DEF ExamineStmt, Arith
  <2> QED BY <2>1, AssignHarmless
<1>3. CASE s.op = "BranchIf"
  <2>1. ExamineStmt(d, s, i) = ExamineBranch(d, s, i)
    BY <1>3 DEF ExamineStmt, Arith
  <2>2. s.op \notin Moves
    BY <1>3 DEF Moves, Arith
  <2> QED BY <2>1, <2>2, BranchHarmless
<1>4. CASE s.op = "Read"
  <2> DEFINE l == Replace(d, s.x, i)
             ins == l.ins \cup {At(l, s.x)}
  <2>1. ExamineStmt(d, s, i) = [l EXCEPT !.ins = ins]
    BY <1>4 DEF ExamineStmt, Arith
  <2>2. s.op \notin Moves
    BY <1>4 DEF Moves, Arith
  <2>3. DepOK(code, l, i) /\ Harmless(code, d, l)
    BY <1>0, <2>2, ReplaceOK, ReplaceHarmless
  <2> HIDE DEF l, ins
  <2>4. Harmless(code, d, [l EXCEPT !.ins = ins])
    BY <2>3, MarkHarmless
  <2> QED BY <2>1, <2>4
<1>5. CASE s.op \in {"Return", "PopCallArg", "PushCallArg", "Write"}
  <2> DEFINE l == FindOrMake(d, s.x, i)
             outs == l.outs \cup {At(l, s.x)}
  <2>1. ExamineStmt(d, s, i) = [l EXCEPT !.outs = outs]
    BY <1>5 DEF ExamineStmt, Arith, Output
  <2>2. s.op \notin Moves
    BY <1>5 DEF Moves, Arith
  <2>3. DepOK(code, l, i) /\ Harmless(code, d, l)
    BY <1>0, <2>2, FindOrMakeOK, FindOrMakeHarmless
  <2> HIDE DEF l, outs
  <2>4. Harmless(code, d, [l EXCEPT !.outs = outs])
    BY <2>3, MarkHarmless
  <2> QED BY <2>1, <2>4
<1>6. s.op \in Defines \cup {"Goto", "SetLabel", "BranchIf", "Return", "PushCallArg", "Write"}
  BY DEF Statements
<1> QED BY <1>1, <1>2, <1>3, <1>4, <1>5, <1>6 DEF Defines

LEMMA ExaminePaired ==
    ASSUME NEW code, NEW d, NEW i \in Nat \ {0}, DepOK(code, d, i - 1), Paired(code, d, i - 1),
           code[i] \in Statements
    PROVE  Paired(code, ExamineStmt(d, code[i], i), i)
<1> DEFINE e == ExamineStmt(d, code[i], i)
<1>1. CASE code[i].op \in Arith
  <2>1. e = ExamineArith(d, code[i], i)
    BY <1>1 DEF ExamineStmt, Arith
  <2> QED BY <1>1, <2>1, ArithPaired
<1>2. CASE code[i].op \notin Arith
  <2>1. Harmless(code, d, e)
    BY <1>2, OtherHarmless DEF Paired
  <2> HIDE DEF e
  <2>2. Paired(code, e, i - 1)
    BY <2>1, HarmlessPaired
  <2>3. \A j \in 1..i : j \in 1..(i - 1) \/ j = i
    OBVIOUS
  <2>4. Paired(code, e, i)
    BY <1>2, <2>2, <2>3 DEF Paired
  <2> QED BY <2>4 DEF e
<1> QED BY <1>1, <1>2

LEMMA NoDepPaired == ASSUME NEW code PROVE Paired(code, NoDep, 0)
<1> DEFINE d == NoDep
<1>1. d.nodes = << >> /\ d.map = << >> /\ Len(d.nodes) = 0 /\ DOMAIN d.map = {}
  BY DEF NoDep
<1> HIDE DEF d
<1>2. 1..Len(d.nodes) = {} /\ 1..0 = {}
  BY <1>1
<1>3. Paired(code, d, 0)
  BY <1>1, <1>2 DEF Paired, Mapped
<1> QED BY <1>3 DEF d

\* What a recursion over the statements defines, statement by statement.
LEMMA BuildDependencyOK ==
    ASSUME NEW code \in Seq(Statements)
    PROVE  /\ DepOK(code, BuildDependency(code), Len(code))
           /\ Paired(code, BuildDependency(code), Len(code))
<1> DEFINE n == Len(code)
           Step(prev, i) == IF i = 0 THEN NoDep ELSE ExamineStmt(prev, code[i], i)
           Defines_(g, k) == g = [i \in 0..k |-> Step(g[i - 1], i)]
           Good == {k \in Nat : k <= n => \E g : Defines_(g, k)}
<1>1. n \in Nat /\ \A i \in 1..n : code[i] \in Statements
  OBVIOUS
<1> HIDE DEF Step
<1>2. \A k \in Nat : k \in Good
  <2>1. 0 \in Good
    <3>1. Defines_([i \in 0..0 |-> NoDep], 0)
      <4>1. \A a : Step(a, 0) = NoDep
        BY DEF Step
      <4> QED BY <4>1
    <3> QED BY <3>1
  <2>2. ASSUME NEW k \in Nat, k \in Good PROVE k + 1 \in Good
    <3> SUFFICES ASSUME k + 1 <= n PROVE \E g : Defines_(g, k + 1)
      OBVIOUS
    <3>0. k <= n
      BY <1>1
    <3>1. PICK g : Defines_(g, k)
      BY <2>2, <3>0
    <3> DEFINE h == [i \in 0..(k + 1) |-> IF i = k + 1 THEN Step(g[k], k + 1) ELSE g[i]]
    <3>2. ASSUME NEW i \in 0..(k + 1) PROVE h[i] = Step(h[i - 1], i)
      <4>1. CASE i = k + 1
        <5>1. h[i - 1] = g[k] /\ h[i] = Step(g[k], k + 1)
          BY <4>1
        <5> QED BY <4>1, <5>1
      <4>2. CASE i = 0
        <5>1. \A a : Step(a, 0) = NoDep
          BY DEF Step
        <5>2. h[0] = g[0] /\ g[0] = Step(g[0 - 1], 0)
          BY <3>1
        <5> HIDE DEF h
        <5> QED BY <4>2, <5>1, <5>2
      <4>3. CASE i \in 1..k
        <5>1. h[i] = g[i] /\ h[i - 1] = g[i - 1]
          BY <4>3
        <5>2. g[i] = Step(g[i - 1], i)
          BY <3>1, <4>3
        <5> QED BY <5>1, <5>2
      <4> QED BY <4>1, <4>2, <4>3
    <3>3. h = [i \in 0..(k + 1) |-> h[i]]
      OBVIOUS
    <3> HIDE DEF h
    <3>4. Defines_(h, k + 1)
      BY <3>2, <3>3
    <3> QED BY <3>4
  <2> HIDE DEF Good
  <2> QED BY <2>1, <2>2, SetInduction
<1>3. \E g : Defines_(g, n)
  BY <1>1, <1>2
<1> DEFINE dep == CHOOSE g : Defines_(g, n)
<1>4. Defines_(dep, n)
  BY <1>3
<1>5. BuildDependency(code) = dep[n]
  BY DEF BuildDependency, Step
<1> HIDE DEF dep
<1>6. dep[0] = NoDep
  BY <1>1, <1>4 DEF Step
<1>7. \A i \in 1..n : dep[i] = ExamineStmt(dep[i - 1], code[i], i)
  <2>1. \A i \in 1..n : dep[i] = Step(dep[i - 1], i)
    BY <1>1, <1>4
  <2> QED BY <2>1 DEF Step
<1> DEFINE Fine == {k \in Nat : k <= n => DepOK(code, dep[k], k) /\ Paired(code, dep[k], k)}
<1>8. \A k \in Nat : k \in Fine
  <2>1. 0 \in Fine
    BY <1>6, NoDepOK, NoDepPaired
  <2>2. ASSUME NEW k \in Nat, k \in Fine PROVE k + 1 \in Fine
    <3> SUFFICES ASSUME k + 1 <= n
                 PROVE  DepOK(code, dep[k + 1], k + 1) /\ Paired(code, dep[k + 1], k + 1)
      OBVIOUS
    <3>1. k <= n /\ k + 1 \in 1..n /\ (k + 1) - 1 = k /\ k + 1 \in Nat \ {0}
      BY <1>1
    <3>2. DepOK(code, dep[k], (k + 1) - 1) /\ Paired(code, dep[k], (k + 1) - 1)
      BY <2>2, <3>1
    <3>3. dep[k + 1] = ExamineStmt(dep[k], code[k + 1], k + 1)
      BY <1>7, <3>1
    <3>4. code[k + 1] \in Statements
      BY <1>1, <3>1
    <3> QED BY <3>1, <3>2, <3>3, <3>4, ExamineStmtOK, ExaminePaired
  <2> HIDE DEF Fine
  <2> QED BY <2>1, <2>2, SetInduction
<1> QED BY <1>1, <1>5, <1>8

-----------------------------------------------------------------------------
(* The first half of the optimizer (constantPropagate).                    *)

\* Only statements that may be changed are changed.
Rewritten(code, w) ==
    /\ w = [code |-> w.code, stop |-> w.stop]
    /\ w.code \in Seq(Statements) /\ Len(w.code) = Len(code)
    /\ \A i \in 1..Len(code) : /\ w.code[i].op \in Moves <=> code[i].op \in Moves
                               /\ code[i].op \notin Moves => w.code[i] = code[i]

\* After n nodes: the objects that are new are constants for their statements.
Renewed(code, d, base, w, n, made) ==
    /\ Made(made, base, base + Len(code))
    /\ Objects(w.code) \subseteq Objects(code) \cup {Nullptr} \cup made
    /\ \A x \in made : \E m \in 1..n : /\ d.nodes[m].s \in 1..Len(code)
                                       /\ code[d.nodes[m].s].op \in Moves
                                       /\ x.p = base + d.nodes[m].s

PropagateOK(code, d, base, w, n) ==
    Rewritten(code, w) /\ \E made : Renewed(code, d, base, w, n, made)

LEMMA StatementParts ==
    ASSUME NEW s \in Statements
    PROVE  /\ s.x \in IRVars /\ s.y \in IRVars /\ s.z \in IRVars
           /\ \A x \in IRVars : /\ [s EXCEPT !.x = x] \in Statements
                                /\ [s EXCEPT !.x = x].op = s.op /\ [s EXCEPT !.x = x].x = x
                                /\ [s EXCEPT !.x = x].y = s.y /\ [s EXCEPT !.x = x].z = s.z
BY DEF Statements

LEMMA ObjectsAt ==
    ASSUME NEW code \in Seq(Statements), NEW i \in 1..Len(code)
    PROVE  {code[i].x, code[i].y, code[i].z} \subseteq Objects(code)
<1>1. i \in DOMAIN code
  OBVIOUS
<1> QED BY <1>1 DEF Objects

\* One statement is rewritten.
LEMMA RewriteOne ==
    ASSUME NEW code \in Seq(Statements), NEW w, Rewritten(code, w),
           NEW i \in 1..Len(code), code[i].op \in Moves, NEW s \in Statements, s.op \in Moves
    PROVE  LET e == [w EXCEPT !.code[i] = s]
           IN  /\ Rewritten(code, e) /\ e.stop = w.stop
               /\ Objects(e.code) \subseteq Objects(w.code) \cup {s.x, s.y, s.z}
<1> DEFINE e == [w EXCEPT !.code[i] = s]
           q == [w.code EXCEPT ![i] = s]
           n == Len(code)
<1>1. /\ w = [code |-> w.code, stop |-> w.stop] /\ w.code \in Seq(Statements) /\ Len(w.code) = n
      /\ n \in Nat
  BY DEF Rewritten
<1>2. e = [w EXCEPT !.code = q]
  OBVIOUS
<1>3. /\ q \in Seq(Statements) /\ Len(q) = n /\ q[i] = s /\ DOMAIN q = 1..n
      /\ \A j \in 1..n : j # i => q[j] = w.code[j]
  <2> DEFINE p == w.code
             r == [p EXCEPT ![i] = s]
  <2>1. p \in [1..n -> Statements]
    BY <1>1
  <2> HIDE DEF p, n
  <2>2. r \in [1..n -> Statements]
    BY <2>1
  <2>3. r \in Seq(Statements) /\ Len(r) = n /\ DOMAIN r = 1..n
    BY <1>1, <2>2, ListOf
  <2>4. r[i] = s /\ \A j \in 1..n : j # i => r[j] = p[j]
    BY <2>1 DEF n
  <2> QED BY <2>3, <2>4 DEF p
<1> HIDE DEF e, q
<1>4. e = [code |-> e.code, stop |-> e.stop] /\ e.code = q /\ e.stop = w.stop
  BY <1>1, <1>2
<1>5. \A j \in 1..n : /\ q[j].op \in Moves <=> code[j].op \in Moves
                      /\ code[j].op \notin Moves => q[j] = code[j]
  <2> SUFFICES ASSUME NEW j \in 1..n
               PROVE  /\ q[j].op \in Moves <=> code[j].op \in Moves
                      /\ code[j].op \notin Moves => q[j] = code[j]
    OBVIOUS
  <2>1. CASE j = i
    BY <1>3, <2>1
  <2>2. CASE j # i
    BY <1>3, <2>2 DEF Rewritten
  <2> QED BY <2>1, <2>2
<1>6. Rewritten(code, e)
  BY <1>3, <1>4, <1>5 DEF Rewritten
<1>7. Objects(q) \subseteq Objects(w.code) \cup {s.x, s.y, s.z}
  <2> SUFFICES ASSUME NEW x \in Objects(q) PROVE x \in Objects(w.code) \cup {s.x, s.y, s.z}
    OBVIOUS
  <2>1. PICK j \in DOMAIN q : x \in {q[j].x, q[j].y, q[j].z}
    BY DEF Objects
  <2>2. CASE j = i
    BY <1>3, <2>1, <2>2
  <2>3. CASE j # i
    <3>1. q[j] = w.code[j] /\ j \in 1..Len(w.code)
      BY <1>1, <1>3, <2>1, <2>3
    <3> QED BY <1>1, <2>1, <3>1, ObjectsAt
  <2> QED BY <2>2, <2>3
<1> QED BY <1>4, <1>6, <1>7 DEF e

\* A node that changes nothing.
LEMMA PropagateMore ==
    ASSUME NEW code \in Seq(Statements), NEW d, NEW base, NEW w, NEW n \in Nat,
           PropagateOK(code, d, base, w, n)
    PROVE  PropagateOK(code, d, base, w, n + 1)
<1>1. PICK made : Renewed(code, d, base, w, n, made)
  BY DEF PropagateOK
<1>2. 1..n \subseteq 1..(n + 1)
  OBVIOUS
<1>3. Renewed(code, d, base, w, n + 1, made)
  BY <1>1, <1>2 DEF Renewed
<1> QED BY <1>3 DEF PropagateOK

LEMMA PropagateAssignOK ==
    ASSUME NEW code \in Seq(Statements), NEW d, DepOK(code, d, Len(code)),
           NEW base \in Nat, NEW w, NEW n \in Nat, n + 1 \in 1..Len(d.nodes),
           PropagateOK(code, d, base, w, n),
           d.nodes[n + 1].s \in 1..Len(code), code[d.nodes[n + 1].s].op \in Moves
    PROVE  PropagateOK(code, d, base, PropagateAssign(w, d, n + 1), n + 1)
<1> DEFINE i    == d.nodes[n + 1].s
           from == Copied(w.code, d, n + 1)
           j    == CHOOSE k \in from : TRUE
           s    == [w.code[j] EXCEPT !.x = w.code[i].x]
           e    == [w EXCEPT !.code[i] = s]
<1>1. CASE from = {}
  BY <1>1, PropagateMore DEF PropagateAssign
<1>2. CASE from # {}
  <2>1. PropagateAssign(w, d, n + 1) = e
    BY <1>2 DEF PropagateAssign
  <2>2. j \in from
    BY <1>2
  <2>3. PICK u \in d.nodes[n + 1].up : /\ j = d.nodes[u].s /\ d.nodes[u].s # 0
                                       /\ w.code[d.nodes[u].s].op \in Arith \cup {"Assign"}
    BY <2>2 DEF Copied
  <2> HIDE DEF j, i
  <2>4. j \in 1..Len(code) /\ w.code[j].op \in Moves
    <3>1. u \in 1..Len(d.nodes)
      BY DEF DepOK
    <3>2. d.nodes[u].s \in 0..Len(code)
      BY <3>1 DEF DepOK
    <3> QED BY <2>3, <3>2 DEF Moves
  <2>5. w.code \in Seq(Statements) /\ Len(w.code) = Len(code) /\ Rewritten(code, w)
    BY DEF PropagateOK, Rewritten
  <2>6. w.code[j] \in Statements /\ w.code[i] \in Statements /\ i \in 1..Len(code)
    BY <2>4, <2>5 DEF i
  <2>7. w.code[i].x \in IRVars
    BY <2>6, StatementParts
  <2>8. /\ s \in Statements /\ s.op = w.code[j].op /\ s.x = w.code[i].x
        /\ s.y = w.code[j].y /\ s.z = w.code[j].z
    BY <2>6, <2>7, StatementParts
  <2>9. {s.x, s.y, s.z} \subseteq Objects(w.code)
    <3>1. {w.code[i].x, w.code[j].y, w.code[j].z} \subseteq Objects(w.code)
      BY <2>4, <2>5, <2>6, ObjectsAt
    <3> QED BY <2>8, <3>1
  <2> HIDE DEF s
  <2>10. Rewritten(code, e) /\ Objects(e.code) \subseteq Objects(w.code) \cup {s.x, s.y, s.z}
    <3>1. s.op \in Moves /\ code[i].op \in Moves
      BY <2>4, <2>8 DEF i
    <3> QED BY <2>5, <2>6, <2>8, <3>1, RewriteOne
  <2> HIDE DEF e
  <2>11. PICK made : Renewed(code, d, base, w, n, made)
    BY DEF PropagateOK
  <2>12. Renewed(code, d, base, e, n, made)
    BY <2>9, <2>10, <2>11 DEF Renewed
  <2>13. PropagateOK(code, d, base, e, n)
    BY <2>10, <2>12 DEF PropagateOK
  <2> QED BY <2>1, <2>13, PropagateMore
<1> QED BY <1>1, <1>2

LEMMA ComputeTyped ==
    ASSUME NEW op \in Arith, NEW n \in Int, NEW k \in Int, op = "Div" => k # 0
    PROVE  Compute(op, n, k) \in Int
<1>1. CASE op = "Plus"
  BY <1>1 DEF Compute
<1>2. CASE op = "Minus"
  BY <1>2 DEF Compute
<1>3. CASE op = "Mul"
  BY <1>3 DEF Compute
<1>4. CASE op = "Div"
  <2>1. Compute(op, n, k) = Quotient(n, k)
    BY <1>4 DEF Compute
  <2> DEFINE abs(m) == IF m < 0 THEN -m ELSE m
             q == abs(n) \div abs(k)
  <2>2. Quotient(n, k) = IF (n < 0) = (k < 0) THEN q ELSE -q
    BY DEF Quotient
  <2>3. q \in Int
    <3>1. abs(n) \in Int /\ abs(k) \in Int /\ abs(k) > 0
      BY <1>4
    <3> HIDE DEF abs
    <3> QED BY <3>1
  <2> HIDE DEF q
  <2>4. Quotient(n, k) \in Int
    BY <2>2, <2>3
  <2> QED BY <2>1, <2>4
<1> QED BY <1>1, <1>2, <1>3, <1>4 DEF Arith

\* The value of a constant that is an integer.
LEMMA ValueIs ==
    ASSUME NEW v \in Values, v # NoInt
    PROVE  v[1] \in Int /\ v = Num(v[1])
<1>1. v \in Seq(Int) /\ Len(v) <= 1 /\ v # << >>
  BY DEF Values, NoInt
<1>2. Len(v) = 1
  <2>1. Len(v) \in Nat /\ Len(v) # 0
    BY <1>1
  <2> QED BY <1>1, <2>1
<1>3. v[1] \in Int
  BY <1>1, <1>2
<1>4. v = <<v[1]>>
  BY <1>1, <1>2
<1> QED BY <1>3, <1>4 DEF Num

LEMMA PropagateArithOK ==
    ASSUME NEW code \in Seq(Statements), NEW d, DepOK(code, d, Len(code)),
           NEW base \in Nat, NEW w, NEW n \in Nat, n + 1 \in 1..Len(d.nodes),
           PropagateOK(code, d, base, w, n),
           d.nodes[n + 1].s \in 1..Len(code), code[d.nodes[n + 1].s].op \in Moves,
           w.code[d.nodes[n + 1].s].op \in Arith
    PROVE  PropagateOK(code, d, base, PropagateArith(w, d, n + 1, base), n + 1)
<1> DEFINE i == d.nodes[n + 1].s
           s == w.code[i]
           const == IRVar(base + i, "Constant", NoName,
                          Num(Compute(s.op, s.y.v[1], s.z.v[1])))
           new == Stmt2("Assign", s.x, const)
           e == [w EXCEPT !.code[i] = new]
           p == PropagateArith(w, d, n + 1, base)
<1>1. /\ w.code \in Seq(Statements) /\ Len(w.code) = Len(code) /\ Rewritten(code, w)
      /\ w = [code |-> w.code, stop |-> w.stop]
  BY DEF PropagateOK, Rewritten
<1>2. \/ p = w \/ \E why : p = [w EXCEPT !.stop = why]
      \/ /\ p = e /\ NoInt \notin {s.y.v, s.z.v} /\ ~(s.op = "Div" /\ s.z.v = Num(0))
  BY DEF PropagateArith
<1>3. CASE p = w
  BY <1>3, PropagateMore
<1>4. CASE \E why : p = [w EXCEPT !.stop = why]
  <2>1. PICK why : p = [w EXCEPT !.stop = why]
    BY <1>4
  <2> HIDE DEF p
  <2>2. p.code = w.code /\ p = [code |-> p.code, stop |-> p.stop]
    BY <1>1, <2>1
  <2>3. Rewritten(code, p)
    BY <1>1, <2>2 DEF Rewritten
  <2>4. PICK made : Renewed(code, d, base, w, n, made)
    BY DEF PropagateOK
  <2>5. Renewed(code, d, base, p, n, made)
    BY <2>2, <2>4 DEF Renewed
  <2>6. PropagateOK(code, d, base, p, n)
    BY <2>3, <2>5 DEF PropagateOK
  <2> QED BY <2>6, PropagateMore DEF p
<1>5. CASE p = e /\ NoInt \notin {s.y.v, s.z.v} /\ ~(s.op = "Div" /\ s.z.v = Num(0))
  <2>1. s \in Statements /\ i \in 1..Len(code) /\ i \in Nat /\ Len(code) \in Nat
    BY <1>1
  <2>2. s.x \in IRVars /\ s.y.v \in Values /\ s.z.v \in Values
    BY <2>1, StatementParts DEF IRVars
  <2>3. s.y.v[1] \in Int /\ s.z.v[1] \in Int /\ s.z.v = Num(s.z.v[1])
    BY <1>5, <2>2, ValueIs
  <2>4. Compute(s.op, s.y.v[1], s.z.v[1]) \in Int
    BY <1>5, <2>3, ComputeTyped
  <2>5. const \in IRVars /\ const.p = base + i
    <3>1. base + i \in Nat /\ NoName \in VarNames
      BY <2>1 DEF VarNames
    <3>2. Num(Compute(s.op, s.y.v[1], s.z.v[1])) \in Values
      BY <2>4, NumTyped
    <3> QED BY <3>1, <3>2, IRVarTyped
  <2> HIDE DEF const
  <2>6. new \in Statements
    BY <2>2, <2>5, StatementTyped
  <2>7. new.op = "Assign" /\ new.x = s.x /\ new.y = const /\ new.z = Nullptr
    BY DEF Stmt2, Stmt3
  <2>8. s.x \in Objects(w.code)
    BY <1>1, <2>1, ObjectsAt
  <2> HIDE DEF new, p
  <2>9. Rewritten(code, e) /\ Objects(e.code) \subseteq Objects(w.code) \cup {new.x, new.y, new.z}
    <3>1. new.op \in Moves /\ code[i].op \in Moves
      BY <2>7 DEF Moves
    <3> QED BY <1>1, <2>1, <2>6, <3>1, RewriteOne
  <2> HIDE DEF e, s
  <2>10. PICK made : Renewed(code, d, base, w, n, made)
    BY DEF PropagateOK
  <2> DEFINE more == made \cup {const}
             S == d.nodes
  <2>11. \A x \in made : x.p # base + i
    <3> SUFFICES ASSUME NEW x \in made, x.p = base + i PROVE FALSE
      OBVIOUS
    <3>1. PICK m \in 1..n : /\ S[m].s \in 1..Len(code) /\ code[S[m].s].op \in Moves
                            /\ x.p = base + S[m].s
      BY <2>10 DEF Renewed
    <3>2. S[m].s = i /\ S[m].s # 0
      <4> DEFINE k == S[m].s
      <4>1. k \in Nat /\ k # 0
        BY <2>1, <3>1
      <4> HIDE DEF k, i
      <4>2. base + k = base + i
        BY <3>1 DEF k
      <4>3. k = i
        BY <2>1, <4>1, <4>2
      <4> QED BY <4>1, <4>3 DEF k
    <3>3. m \in 1..Len(S) /\ m # n + 1
      BY DEF DepOK
    <3> QED BY <3>1, <3>2, <3>3 DEF DepOK
  <2>12. Made(more, base, base + Len(code))
    <3>1. Made(made, base, base + Len(code))
      BY <2>10 DEF Renewed
    <3>2. base + i \in (base + 1)..(base + Len(code))
      BY <2>1
    <3> HIDE DEF i
    <3>3. \A x \in more : x \in IRVars /\ x.p \in (base + 1)..(base + Len(code))
      BY <2>5, <3>1, <3>2 DEF Made
    <3>4. ASSUME NEW x \in more, NEW y \in more, x.p = y.p PROVE x = y
      <4>1. CASE x \in made /\ y \in made
        BY <3>1, <3>4, <4>1 DEF Made
      <4>2. CASE x = const \/ y = const
        BY <2>5, <2>11, <3>4, <4>2
      <4> QED BY <3>4, <4>1, <4>2
    <3> QED BY <3>1, <3>3, <3>4 DEF Made
  <2>13. Objects(e.code) \subseteq Objects(code) \cup {Nullptr} \cup more
    <3>1. Objects(w.code) \subseteq Objects(code) \cup {Nullptr} \cup made
      BY <2>10 DEF Renewed
    <3> QED BY <2>7, <2>8, <2>9, <3>1
  <2>14. \A x \in more : \E m \in 1..(n + 1) : /\ d.nodes[m].s \in 1..Len(code)
                                               /\ code[d.nodes[m].s].op \in Moves
                                               /\ x.p = base + d.nodes[m].s
    <3>1. \A x \in made : \E m \in 1..n : /\ d.nodes[m].s \in 1..Len(code)
                                          /\ code[d.nodes[m].s].op \in Moves
                                          /\ x.p = base + d.nodes[m].s
      BY <2>10 DEF Renewed
    <3>2. 1..n \subseteq 1..(n + 1) /\ n + 1 \in 1..(n + 1)
      OBVIOUS
    <3> QED BY <2>5, <3>1, <3>2
  <2>15. Renewed(code, d, base, e, n + 1, more)
    BY <2>12, <2>13, <2>14 DEF Renewed
  <2> HIDE DEF more
  <2>16. PropagateOK(code, d, base, e, n + 1)
    BY <2>9, <2>15 DEF PropagateOK
  <2> QED BY <1>5, <2>16 DEF p
<1> QED BY <1>2, <1>3, <1>4, <1>5

LEMMA PropagateNodeOK ==
    ASSUME NEW code \in Seq(Statements), NEW d, DepOK(code, d, Len(code)),
           NEW base \in Nat, NEW w, NEW n \in Nat, n + 1 \in 1..Len(d.nodes),
           PropagateOK(code, d, base, w, n)
    PROVE  PropagateOK(code, d, base, PropagateNode(w, d, n + 1, base), n + 1)
<1> DEFINE i == d.nodes[n + 1].s
           p == PropagateNode(w, d, n + 1, base)
<1>1. CASE w.stop # "" \/ i = 0
  BY <1>1, PropagateMore DEF PropagateNode
<1>2. CASE ~(w.stop # "" \/ i = 0)
  <2>1. i \in 1..Len(code)
    <3> DEFINE most == Len(code)
    <3>1. i \in 0..most
      BY DEF DepOK
    <3>2. i # 0
      BY <1>2
    <3>3. most \in Nat
      OBVIOUS
    <3> HIDE DEF i, most
    <3>4. i \in 1..most
      BY <3>1, <3>2, <3>3
    <3> QED BY <3>4 DEF most
  <2>2. w.code[i].op \in Moves <=> code[i].op \in Moves
    BY <2>1 DEF PropagateOK, Rewritten
  <2>3. CASE w.code[i].op = "Assign"
    <3>1. p = PropagateAssign(w, d, n + 1)
      BY <1>2, <2>3 DEF PropagateNode, Arith
    <3>2. code[i].op \in Moves
      BY <2>2, <2>3 DEF Moves
    <3> QED BY <2>1, <3>1, <3>2, PropagateAssignOK
  <2>4. CASE w.code[i].op \in Arith
    <3>1. p = PropagateArith(w, d, n + 1, base)
      BY <1>2, <2>4 DEF PropagateNode, Arith
    <3>2. code[i].op \in Moves
      BY <2>2, <2>4 DEF Moves
    <3> QED BY <2>1, <2>4, <3>1, <3>2, PropagateArithOK
  <2>5. CASE w.code[i].op \notin Arith \cup {"Assign"}
    <3>1. p = w
      BY <1>2, <2>5 DEF PropagateNode
    <3> QED BY <3>1, PropagateMore
  <2> QED BY <2>3, <2>4, <2>5
<1> QED BY <1>1, <1>2

-----------------------------------------------------------------------------
(* When the optimizer ends the compiler.                                   *)

\* An operator that has one object on both sides, or two constants that it
\* cannot be computed for.
Refusals == {"same operand", "no integer", "division by zero"}
RefusedFor(s, why) ==
    /\ s.op \in Arith
    /\ \/ why = "same operand" /\ s.y.p = s.z.p
       \/ /\ IsConst(s.y) /\ IsConst(s.z)
          /\ \/ why = "no integer" /\ NoInt \in {s.y.v, s.z.v}
             \/ why = "division by zero" /\ s.op = "Div" /\ s.z.v = Num(0)

\* The optimizer ends the compiler at a function that has a statement it
\* refuses, for a reason it is refused for, and at no other: whatever is copied
\* over assignments before such a statement's turn comes neither hides it nor
\* makes another one (constantPropagate).
OptimizerStops ==
    [][\A f \in todo : PropagateConstants(f) =>
          \/ /\ stop' # ""
             /\ \E s \in ToSet(funcs[f]) : RefusedFor(s, stop')
          \/ /\ stop' = ""
             /\ \A s \in ToSet(funcs[f]), why \in Refusals : ~RefusedFor(s, why)]_vars

\* After n nodes: those statements are judged, and the statements of the nodes
\* that are still to come are as they were.
Judged(code, d, w, n) ==
    /\ w.stop # "" => \E i \in 1..Len(code) : RefusedFor(code[i], w.stop)
    /\ w.stop = "" => \A m \in 1..n : d.nodes[m].s # 0 =>
          \A why \in Refusals : ~RefusedFor(code[d.nodes[m].s], why)
    /\ \A m \in (n + 1)..Len(d.nodes) :
          d.nodes[m].s # 0 /\ code[d.nodes[m].s].op \in Moves =>
              w.code[d.nodes[m].s] = code[d.nodes[m].s]

LEMMA WriteOne ==
    ASSUME NEW code \in Seq(Statements), NEW w, Rewritten(code, w), NEW i \in 1..Len(code),
           NEW s, NEW p, p = [w EXCEPT !.code[i] = s]
    PROVE  p.stop = w.stop /\ \A j \in 1..Len(code) : j # i => p.code[j] = w.code[j]
<1> DEFINE q == [w.code EXCEPT ![i] = s]
<1>1. w = [code |-> w.code, stop |-> w.stop] /\ p = [w EXCEPT !.code = q]
  BY DEF Rewritten
<1>2. DOMAIN w.code = 1..Len(code)
  BY DEF Rewritten
<1>3. \A j \in 1..Len(code) : j # i => q[j] = w.code[j]
  BY <1>2
<1> HIDE DEF q
<1>4. p.code = q /\ p.stop = w.stop
  BY <1>1
<1> QED BY <1>3, <1>4

\* A node changes its own statement only.
LEMMA OwnStatement ==
    ASSUME NEW code \in Seq(Statements), NEW d, DepOK(code, d, Len(code)),
           NEW base, NEW w, Rewritten(code, w), NEW n \in 1..Len(d.nodes)
    PROVE  LET p == PropagateNode(w, d, n, base)
           IN  \/ p = w
               \/ /\ d.nodes[n].s \in 1..Len(code) /\ code[d.nodes[n].s].op \in Moves
                  /\ \A j \in 1..Len(code) : j # d.nodes[n].s => p.code[j] = w.code[j]
<1> DEFINE i == d.nodes[n].s
           p == PropagateNode(w, d, n, base)
<1>1. CASE w.stop # "" \/ i = 0
  BY <1>1 DEF PropagateNode
<1>2. CASE ~(w.stop # "" \/ i = 0)
  <2>1. i \in 1..Len(code)
    <3> DEFINE most == Len(code)
    <3>1. i \in 0..most
      BY DEF DepOK
    <3>2. i # 0
      BY <1>2
    <3>3. most \in Nat
      OBVIOUS
    <3> HIDE DEF i, most
    <3>4. i \in 1..most
      BY <3>1, <3>2, <3>3
    <3> QED BY <3>4 DEF most
  <2>2. w.code[i].op \in Moves <=> code[i].op \in Moves
    BY <2>1 DEF Rewritten
  <2>3. CASE w.code[i].op = "Assign"
    <3>1. p = PropagateAssign(w, d, n)
      BY <1>2, <2>3 DEF PropagateNode, Arith
    <3>2. code[i].op \in Moves
      BY <2>2, <2>3 DEF Moves
    <3>3. p = w \/ \E s : p = [w EXCEPT !.code[i] = s]
      BY <3>1 DEF PropagateAssign
    <3> HIDE DEF p, i
    <3>4. CASE \E s : p = [w EXCEPT !.code[i] = s]
      <4>1. PICK s : p = [w EXCEPT !.code[i] = s]
        BY <3>4
      <4>2. \A j \in 1..Len(code) : j # i => p.code[j] = w.code[j]
        BY <2>1, <4>1, WriteOne
      <4> QED BY <2>1, <3>2, <4>2 DEF p, i
    <3> QED BY <3>3, <3>4 DEF p, i
  <2>4. CASE w.code[i].op \in Arith
    <3>1. p = PropagateArith(w, d, n, base)
      BY <1>2, <2>4 DEF PropagateNode, Arith
    <3>2. code[i].op \in Moves
      BY <2>2, <2>4 DEF Moves
    <3>3. p = w \/ (\E why : p = [w EXCEPT !.stop = why]) \/ \E s : p = [w EXCEPT !.code[i] = s]
      BY <3>1 DEF PropagateArith
    <3>4. CASE \E why : p = [w EXCEPT !.stop = why]
      <4>1. PICK why : p = [w EXCEPT !.stop = why]
        BY <3>4
      <4>2. w = [code |-> w.code, stop |-> w.stop]
        BY DEF Rewritten
      <4> HIDE DEF p
      <4>3. p.code = w.code
        BY <4>1, <4>2
      <4> QED BY <2>1, <3>2, <4>3 DEF p
    <3>5. CASE \E s : p = [w EXCEPT !.code[i] = s]
      <4> HIDE DEF p, i
      <4>1. PICK s : p = [w EXCEPT !.code[i] = s]
        BY <3>5
      <4>2. \A j \in 1..Len(code) : j # i => p.code[j] = w.code[j]
        BY <2>1, <4>1, WriteOne
      <4> QED BY <2>1, <3>2, <4>2 DEF p, i
    <3> QED BY <3>3, <3>4, <3>5
  <2>5. CASE w.code[i].op \notin Arith \cup {"Assign"}
    BY <1>2, <2>5 DEF PropagateNode
  <2> QED BY <2>3, <2>4, <2>5
<1> QED BY <1>1, <1>2

\* The test of one arithmetic statement.
LEMMA PropagateArithJudges ==
    ASSUME NEW code, NEW d, NEW k, Paired(code, d, k), NEW base, NEW w,
           NEW n \in 1..Len(d.nodes), Rewritten(code, w), w.stop = "",
           d.nodes[n].s # 0, code[d.nodes[n].s].op \in Arith, code \in Seq(Statements),
           d.nodes[n].s \in 1..Len(code), w.code[d.nodes[n].s] = code[d.nodes[n].s]
    PROVE  LET p == PropagateArith(w, d, n, base)
               s == code[d.nodes[n].s]
           IN  \/ p.stop # "" /\ RefusedFor(s, p.stop)
               \/ p.stop = "" /\ \A why \in Refusals : ~RefusedFor(s, why)
<1> DEFINE i == d.nodes[n].s
           s == code[i]
           p == PropagateArith(w, d, n, base)
           two == Cardinality(d.nodes[n].up) = 2
           both == IsConst(s.y) /\ IsConst(s.z)
<1>1. two <=> s.y.p # s.z.p
  BY DEF Paired
<1>2. \A why : [w EXCEPT !.stop = why].stop = why
  <2>1. w = [code |-> w.code, stop |-> w.stop]
    BY DEF Rewritten
  <2> QED BY <2>1
<1> HIDE DEF i
<1>3. w.code[i] = s /\ s.op \in Arith
  BY DEF i
<1>4. CASE ~two
  <2>1. p = [w EXCEPT !.stop = "same operand"]
    BY <1>4 DEF PropagateArith
  <2>2. RefusedFor(s, "same operand")
    BY <1>1, <1>3, <1>4 DEF RefusedFor
  <2> QED BY <1>2, <2>1, <2>2 DEF i
<1>5. CASE two /\ ~both
  <2>1. p = w
    BY <1>3, <1>5 DEF PropagateArith, i
  <2>2. \A why \in Refusals : ~RefusedFor(s, why)
    BY <1>1, <1>5 DEF Refusals, RefusedFor
  <2> QED BY <2>1, <2>2 DEF i
<1>6. CASE two /\ both /\ NoInt \in {s.y.v, s.z.v}
  <2>1. p = [w EXCEPT !.stop = "no integer"]
    BY <1>3, <1>6 DEF PropagateArith, i
  <2>2. RefusedFor(s, "no integer")
    BY <1>3, <1>6 DEF RefusedFor
  <2> QED BY <1>2, <2>1, <2>2 DEF i
<1>7. CASE two /\ both /\ NoInt \notin {s.y.v, s.z.v} /\ s.op = "Div" /\ s.z.v = Num(0)
  <2>1. p = [w EXCEPT !.stop = "division by zero"]
    BY <1>3, <1>7 DEF PropagateArith, i
  <2>2. RefusedFor(s, "division by zero")
    BY <1>3, <1>7 DEF RefusedFor
  <2> QED BY <1>2, <2>1, <2>2 DEF i
<1>8. CASE two /\ both /\ NoInt \notin {s.y.v, s.z.v} /\ ~(s.op = "Div" /\ s.z.v = Num(0))
  <2>1. \E new : p = [w EXCEPT !.code[i] = new]
    BY <1>3, <1>8 DEF PropagateArith, i
  <2>2. p.stop = w.stop
    <3> HIDE DEF p
    <3>1. PICK new : p = [w EXCEPT !.code[i] = new]
      BY <2>1
    <3>2. w = [code |-> w.code, stop |-> w.stop]
      BY DEF Rewritten
    <3> QED BY <3>1, <3>2
  <2>3. \A why \in Refusals : ~RefusedFor(s, why)
    BY <1>1, <1>8 DEF Refusals, RefusedFor
  <2> QED BY <2>2, <2>3 DEF i
<1> QED BY <1>4, <1>5, <1>6, <1>7, <1>8

LEMMA PropagateNodeJudges ==
    ASSUME NEW code \in Seq(Statements), NEW d, DepOK(code, d, Len(code)),
           Paired(code, d, Len(code)), NEW base, NEW w, NEW n \in Nat,
           n + 1 \in 1..Len(d.nodes), Rewritten(code, w), Judged(code, d, w, n)
    PROVE  Judged(code, d, PropagateNode(w, d, n + 1, base), n + 1)
<1> DEFINE i == d.nodes[n + 1].s
           p == PropagateNode(w, d, n + 1, base)
           k == Len(d.nodes)
<1>0. k \in Nat /\ i \in 0..Len(code) /\ Len(code) \in Nat
  <2>1. k \in Nat /\ i \in 0..Len(code)
    BY DEF DepOK
  <2> QED BY <2>1
<1>1. ASSUME NEW m \in (n + 2)..k, d.nodes[m].s # 0, code[d.nodes[m].s].op \in Moves
      PROVE  p.code[d.nodes[m].s] = code[d.nodes[m].s]
  <2> DEFINE j == d.nodes[m].s
  <2>1. m \in (n + 1)..k /\ m \in 1..k /\ m # n + 1
    BY <1>0
  <2>2. w.code[j] = code[j]
    BY <1>1, <2>1 DEF Judged
  <2>3. i # j
    BY <1>1, <2>1 DEF DepOK
  <2>4. j \in 1..Len(code)
    <3> DEFINE most == Len(code)
    <3>1. j \in 0..most
      BY <2>1 DEF DepOK
    <3>2. j # 0 /\ most \in Nat
      BY <1>1
    <3> HIDE DEF j, most
    <3>3. j \in 1..most
      BY <3>1, <3>2
    <3> QED BY <3>3 DEF most
  <2>5. p = w \/ \A l \in 1..Len(code) : l # i => p.code[l] = w.code[l]
    BY OwnStatement
  <2> HIDE DEF p, i, j
  <2>6. p.code[j] = code[j]
    BY <2>2, <2>3, <2>4, <2>5
  <2> QED BY <2>6 DEF j
<1>2. \A m \in 1..(n + 1) : m \in 1..n \/ m = n + 1
  OBVIOUS
<1>3. /\ p.stop # "" => \E l \in 1..Len(code) : RefusedFor(code[l], p.stop)
      /\ p.stop = "" => w.stop = "" /\ (i # 0 => \A why \in Refusals : ~RefusedFor(code[i], why))
  <2>1. CASE w.stop # ""
    <3>1. p = w
      BY <2>1 DEF PropagateNode
    <3> QED BY <2>1, <3>1 DEF Judged
  <2>2. CASE w.stop = "" /\ i = 0
    <3>1. p = w
      BY <2>2 DEF PropagateNode
    <3> QED BY <2>2, <3>1
  <2>3. CASE w.stop = "" /\ i # 0
    <3> DEFINE most == Len(code)
    <3>0. i \in 1..most
      <4>1. i \in 0..most /\ most \in Nat /\ i # 0
        BY <1>0, <2>3
      <4> HIDE DEF i, most
      <4> QED BY <4>1
    <3>1. CASE code[i].op \notin Moves
      <4>1. w.code[i] = code[i]
        BY <3>0, <3>1 DEF Rewritten
      <4>2. p = w
        BY <2>3, <3>1, <4>1 DEF PropagateNode, Moves
      <4>3. \A why \in Refusals : ~RefusedFor(code[i], why)
        BY <3>1 DEF RefusedFor, Moves
      <4> QED BY <2>3, <4>2, <4>3
    <3>2. CASE code[i].op \in Moves
      <4>1. w.code[i] = code[i]
        <5>1. n + 1 \in (n + 1)..k
          BY <1>0
        <5> QED BY <2>3, <3>2, <5>1 DEF Judged
      <4>2. CASE code[i].op = "Assign"
        <5>1. p = PropagateAssign(w, d, n + 1)
          BY <2>3, <4>1, <4>2 DEF PropagateNode, Arith
        <5>2. p = w \/ \E s : p = [w EXCEPT !.code[i] = s]
          BY <5>1 DEF PropagateAssign
        <5>3. p.stop = w.stop
          <6>1. i \in 1..Len(code)
            BY <3>0
          <6> HIDE DEF p, i
          <6>2. CASE \E s : p = [w EXCEPT !.code[i] = s]
            <7>1. PICK s : p = [w EXCEPT !.code[i] = s]
              BY <6>2
            <7> QED BY <6>1, <7>1, WriteOne
          <6> QED BY <5>2, <6>2
        <5>4. \A why \in Refusals : ~RefusedFor(code[i], why)
          BY <4>2 DEF RefusedFor, Arith
        <5> QED BY <2>3, <5>3, <5>4
      <4>3. CASE code[i].op \in Arith
        <5>1. p = PropagateArith(w, d, n + 1, base)
          BY <2>3, <4>1, <4>3 DEF PropagateNode, Arith
        <5> DEFINE a == PropagateArith(w, d, n + 1, base)
        <5>2. \/ a.stop # "" /\ RefusedFor(code[i], a.stop)
              \/ a.stop = "" /\ \A why \in Refusals : ~RefusedFor(code[i], why)
          BY <2>3, <3>0, <4>1, <4>3, PropagateArithJudges
        <5> HIDE DEF a
        <5> QED BY <2>3, <3>0, <5>1, <5>2 DEF a
      <4> QED BY <3>2, <4>2, <4>3 DEF Moves
    <3> QED BY <3>1, <3>2
  <2> QED BY <2>1, <2>2, <2>3
<1>4. p.stop = "" => \A m \in 1..(n + 1) : d.nodes[m].s # 0 =>
          \A why \in Refusals : ~RefusedFor(code[d.nodes[m].s], why)
  BY <1>2, <1>3 DEF Judged
<1>5. (n + 1) + 1 = n + 2
  OBVIOUS
<1> HIDE DEF p
<1>6. Judged(code, d, p, n + 1)
  BY <1>1, <1>3, <1>4, <1>5 DEF Judged, k
<1> QED BY <1>6 DEF p

\* Every node in its turn.
LEMMA ConstantPropagateOK ==
    ASSUME NEW code \in Seq(Statements), NEW base \in Nat
    PROVE  LET d == BuildDependency(code)
               w == ConstantPropagate(code, base)
           IN  PropagateOK(code, d, base, w, Len(d.nodes)) /\ Judged(code, d, w, Len(d.nodes))
<1> DEFINE d == BuildDependency(code)
           n == Len(d.nodes)
           begun == [code |-> code, stop |-> ""]
           Step(prev, i) == IF i = 0 THEN begun ELSE PropagateNode(prev, d, i, base)
           Defines_(g, k) == g = [i \in 0..k |-> Step(g[i - 1], i)]
           Good == {k \in Nat : k <= n => \E g : Defines_(g, k)}
<1>0. DepOK(code, d, Len(code)) /\ Paired(code, d, Len(code))
  BY BuildDependencyOK
<1>1. n \in Nat
  BY <1>0 DEF DepOK
<1> HIDE DEF Step, begun, d
<1>2. \A k \in Nat : k \in Good
  <2>1. 0 \in Good
    <3>1. Defines_([i \in 0..0 |-> begun], 0)
      <4>1. \A a : Step(a, 0) = begun
        BY DEF Step
      <4> QED BY <4>1
    <3> QED BY <3>1
  <2>2. ASSUME NEW k \in Nat, k \in Good PROVE k + 1 \in Good
    <3> SUFFICES ASSUME k + 1 <= n PROVE \E g : Defines_(g, k + 1)
      OBVIOUS
    <3>0. k <= n
      BY <1>1
    <3>1. PICK g : Defines_(g, k)
      BY <2>2, <3>0
    <3> DEFINE h == [i \in 0..(k + 1) |-> IF i = k + 1 THEN Step(g[k], k + 1) ELSE g[i]]
    <3>2. ASSUME NEW i \in 0..(k + 1) PROVE h[i] = Step(h[i - 1], i)
      <4>1. CASE i = k + 1
        <5>1. h[i - 1] = g[k] /\ h[i] = Step(g[k], k + 1)
          BY <4>1
        <5> QED BY <4>1, <5>1
      <4>2. CASE i = 0
        <5>1. \A a : Step(a, 0) = begun
          BY DEF Step
        <5>2. h[0] = g[0] /\ g[0] = Step(g[0 - 1], 0)
          BY <3>1
        <5> HIDE DEF h
        <5> QED BY <4>2, <5>1, <5>2
      <4>3. CASE i \in 1..k
        <5>1. h[i] = g[i] /\ h[i - 1] = g[i - 1]
          BY <4>3
        <5>2. g[i] = Step(g[i - 1], i)
          BY <3>1, <4>3
        <5> QED BY <5>1, <5>2
      <4> QED BY <4>1, <4>2, <4>3
    <3>3. h = [i \in 0..(k + 1) |-> h[i]]
      OBVIOUS
    <3> HIDE DEF h
    <3>4. Defines_(h, k + 1)
      BY <3>2, <3>3
    <3> QED BY <3>4
  <2> HIDE DEF Good
  <2> QED BY <2>1, <2>2, SetInduction
<1>3. \E g : Defines_(g, n)
  BY <1>1, <1>2
<1> DEFINE work == CHOOSE g : Defines_(g, n)
<1>4. Defines_(work, n)
  BY <1>3
<1>5. ConstantPropagate(code, base) = work[n]
  BY DEF ConstantPropagate, Step, begun, d
<1> HIDE DEF work
<1>6. work[0] = begun
  BY <1>1, <1>4 DEF Step
<1>7. \A i \in 1..n : work[i] = PropagateNode(work[i - 1], d, i, base)
  <2>1. \A i \in 1..n : work[i] = Step(work[i - 1], i)
    BY <1>1, <1>4
  <2> QED BY <2>1 DEF Step
<1> DEFINE Fine == {k \in Nat : k <= n => /\ PropagateOK(code, d, base, work[k], k)
                                       /\ Judged(code, d, work[k], k)}
<1>8. \A k \in Nat : k \in Fine
  <2>1. 0 \in Fine
    <3>1. begun.code = code /\ begun = [code |-> begun.code, stop |-> begun.stop]
      BY DEF begun
    <3>2. Rewritten(code, begun)
      BY <3>1 DEF Rewritten
    <3>3. Made({}, base, base + Len(code))
      <4>1. base <= base + Len(code)
        OBVIOUS
      <4> QED BY <4>1 DEF Made
    <3>4. Renewed(code, d, base, begun, 0, {})
      BY <3>1, <3>3 DEF Renewed
    <3>5. Judged(code, d, begun, 0)
      <4>1. begun.stop = "" /\ 1..0 = {}
        BY DEF begun
      <4> QED BY <3>1, <4>1 DEF Judged
    <3> QED BY <1>6, <3>2, <3>4, <3>5 DEF PropagateOK
  <2>2. ASSUME NEW k \in Nat, k \in Fine PROVE k + 1 \in Fine
    <3> SUFFICES ASSUME k + 1 <= n
                 PROVE  /\ PropagateOK(code, d, base, work[k + 1], k + 1)
                        /\ Judged(code, d, work[k + 1], k + 1)
      OBVIOUS
    <3>1. k <= n /\ k + 1 \in 1..n /\ (k + 1) - 1 = k
      BY <1>1
    <3>2. PropagateOK(code, d, base, work[k], k) /\ Judged(code, d, work[k], k)
      BY <2>2, <3>1
    <3>3. work[k + 1] = PropagateNode(work[k], d, k + 1, base)
      BY <1>7, <3>1
    <3>4. PropagateOK(code, d, base, work[k + 1], k + 1)
      BY <1>0, <3>1, <3>2, <3>3, PropagateNodeOK
    <3>5. Rewritten(code, work[k])
      BY <3>2 DEF PropagateOK
    <3>6. Judged(code, d, work[k + 1], k + 1)
      BY <1>0, <3>1, <3>2, <3>3, <3>5, PropagateNodeJudges
    <3> QED BY <3>4, <3>6
  <2> HIDE DEF Fine
  <2> QED BY <2>1, <2>2, SetInduction
<1> QED BY <1>1, <1>5, <1>8 DEF d

\* Statements that may be changed neither set a label nor jump.
LEMMA MovesStay ==
    ASSUME NEW s, s.op \in Moves
    PROVE  SetIn(s) = {} /\ AimIn(s) = {}
BY DEF Moves, Arith, SetIn, AimIn

LEMMA PropagatedLabels ==
    ASSUME NEW code \in Seq(Statements), NEW w, Rewritten(code, w)
    PROVE  /\ CodeSets(w.code) = CodeSets(code) /\ CodeAims(w.code) = CodeAims(code)
           /\ CodeOnce(code) => CodeOnce(w.code)
<1>1. DOMAIN code = 1..Len(code) /\ DOMAIN w.code = 1..Len(code)
  BY DEF Rewritten
<1>2. ASSUME NEW i \in DOMAIN code
      PROVE  SetIn(w.code[i]) = SetIn(code[i]) /\ AimIn(w.code[i]) = AimIn(code[i])
  <2>1. CASE code[i].op \in Moves
    <3>1. w.code[i].op \in Moves
      BY <1>1, <1>2, <2>1 DEF Rewritten
    <3> QED BY <2>1, <3>1, MovesStay
  <2>2. CASE code[i].op \notin Moves
    BY <1>1, <1>2, <2>2 DEF Rewritten
  <2> QED BY <2>1, <2>2
<1> HIDE DEF SetIn, AimIn
<1>3. CodeSets(w.code) = CodeSets(code)
  BY <1>1, <1>2 DEF CodeSets
<1>4. CodeAims(w.code) = CodeAims(code)
  BY <1>1, <1>2 DEF CodeAims
<1>5. CodeOnce(code) => CodeOnce(w.code)
  BY <1>1, <1>2 DEF CodeOnce
<1> QED BY <1>3, <1>4, <1>5

-----------------------------------------------------------------------------
(* What the optimizer leaves alone.                                        *)

\* All statements of a function but assignments and arithmetic, in their order:
\* what it reads, writes, calls and returns, its labels and its jumps.
EffectsIn(code) ==
    LET kept[i \in 0..Len(code)] ==
            IF i = 0 THEN << >>
            ELSE IF code[i].op \in Moves THEN kept[i - 1]
            ELSE Append(kept[i - 1], code[i])
    IN  kept[Len(code)]

\* Neither half of the optimizer adds, drops, changes or moves one of them
\* (constantPropagate, removeUnusedStmts).
OptimizerKeepsEffects ==
    [][phase = "optimize" =>
          \A f \in DOMAIN funcs : EffectsIn(funcs'[f]) = EffectsIn(funcs[f])]_vars

\* g lists the effects of the first i statements of code, for each i.
EffectsBy(code, g) ==
    /\ g[0] = << >>
    /\ \A i \in 1..Len(code) : g[i] = IF code[i].op \in Moves THEN g[i - 1]
                                     ELSE Append(g[i - 1], code[i])

LEMMA EffectsListed ==
    ASSUME NEW code \in Seq(Statements)
    PROVE  \E g : EffectsBy(code, g) /\ EffectsIn(code) = g[Len(code)]
<1> DEFINE n == Len(code)
           none == << >>
           Step(prev, i) == IF i = 0 THEN none
                            ELSE IF code[i].op \in Moves THEN prev ELSE Append(prev, code[i])
           Defines_(g, k) == g = [i \in 0..k |-> Step(g[i - 1], i)]
           Good == {k \in Nat : k <= n => \E g : Defines_(g, k)}
<1>1. n \in Nat
  OBVIOUS
<1> HIDE DEF Step, none
<1>2. \A k \in Nat : k \in Good
  <2>1. 0 \in Good
    <3>1. Defines_([i \in 0..0 |-> none], 0)
      <4>1. \A a : Step(a, 0) = none
        BY DEF Step
      <4> QED BY <4>1
    <3> QED BY <3>1
  <2>2. ASSUME NEW k \in Nat, k \in Good PROVE k + 1 \in Good
    <3> SUFFICES ASSUME k + 1 <= n PROVE \E g : Defines_(g, k + 1)
      OBVIOUS
    <3>0. k <= n
      BY <1>1
    <3>1. PICK g : Defines_(g, k)
      BY <2>2, <3>0
    <3> DEFINE h == [i \in 0..(k + 1) |-> IF i = k + 1 THEN Step(g[k], k + 1) ELSE g[i]]
    <3>2. ASSUME NEW i \in 0..(k + 1) PROVE h[i] = Step(h[i - 1], i)
      <4>1. CASE i = k + 1
        <5>1. h[i - 1] = g[k] /\ h[i] = Step(g[k], k + 1)
          BY <4>1
        <5> QED BY <4>1, <5>1
      <4>2. CASE i = 0
        <5>1. \A a : Step(a, 0) = none
          BY DEF Step
        <5>2. h[0] = g[0] /\ g[0] = Step(g[0 - 1], 0)
          BY <3>1
        <5> HIDE DEF h
        <5> QED BY <4>2, <5>1, <5>2
      <4>3. CASE i \in 1..k
        <5>1. h[i] = g[i] /\ h[i - 1] = g[i - 1]
          BY <4>3
        <5>2. g[i] = Step(g[i - 1], i)
          BY <3>1, <4>3
        <5> QED BY <5>1, <5>2
      <4> QED BY <4>1, <4>2, <4>3
    <3>3. h = [i \in 0..(k + 1) |-> h[i]]
      OBVIOUS
    <3> HIDE DEF h
    <3>4. Defines_(h, k + 1)
      BY <3>2, <3>3
    <3> QED BY <3>4
  <2> HIDE DEF Good
  <2> QED BY <2>1, <2>2, SetInduction
<1>3. \E g : Defines_(g, n)
  BY <1>1, <1>2
<1> DEFINE kept == CHOOSE g : Defines_(g, n)
<1>4. Defines_(kept, n)
  BY <1>3
<1>5. EffectsIn(code) = kept[n]
  BY DEF EffectsIn, Step, none
<1> HIDE DEF kept
<1>6. kept[0] = none
  BY <1>1, <1>4 DEF Step
<1>7. \A i \in 1..n : kept[i] = IF code[i].op \in Moves THEN kept[i - 1]
                               ELSE Append(kept[i - 1], code[i])
  <2>1. \A i \in 1..n : kept[i] = Step(kept[i - 1], i)
    BY <1>1, <1>4
  <2> QED BY <2>1 DEF Step
<1>8. EffectsBy(code, kept)
  BY <1>6, <1>7 DEF EffectsBy, none
<1> QED BY <1>5, <1>8

\* The first n statements of two pieces of code differ in what may be changed only.
SameUpTo(p, q, n) ==
    /\ 1..n \subseteq 1..Len(p) /\ 1..n \subseteq 1..Len(q)
    /\ \A i \in 1..n : /\ q[i].op \in Moves <=> p[i].op \in Moves
                       /\ p[i].op \notin Moves => q[i] = p[i]

LEMMA EffectsSame ==
    ASSUME NEW p, NEW q, NEW g, NEW h, NEW n \in Nat, EffectsBy(p, g), EffectsBy(q, h),
           SameUpTo(p, q, n)
    PROVE  g[n] = h[n]
<1>0. /\ 1..n \subseteq 1..Len(p) /\ 1..n \subseteq 1..Len(q)
      /\ \A i \in 1..n : /\ q[i].op \in Moves <=> p[i].op \in Moves
                         /\ p[i].op \notin Moves => q[i] = p[i]
  BY DEF SameUpTo
<1> DEFINE Good == {k \in Nat : k <= n => g[k] = h[k]}
<1>1. 0 \in Good
  BY DEF EffectsBy
<1>2. ASSUME NEW k \in Nat, k \in Good PROVE k + 1 \in Good
  <2> SUFFICES ASSUME k + 1 <= n PROVE g[k + 1] = h[k + 1]
    OBVIOUS
  <2>1. k <= n /\ k + 1 \in 1..n /\ (k + 1) - 1 = k
    OBVIOUS
  <2>2. g[k] = h[k]
    BY <1>2, <2>1
  <2>3. k + 1 \in 1..Len(p) /\ k + 1 \in 1..Len(q)
    BY <1>0, <2>1
  <2>4. /\ g[k + 1] = IF p[k + 1].op \in Moves THEN g[k] ELSE Append(g[k], p[k + 1])
        /\ h[k + 1] = IF q[k + 1].op \in Moves THEN h[k] ELSE Append(h[k], q[k + 1])
    BY <2>1, <2>3 DEF EffectsBy
  <2>5. /\ q[k + 1].op \in Moves <=> p[k + 1].op \in Moves
        /\ p[k + 1].op \notin Moves => q[k + 1] = p[k + 1]
    BY <1>0, <2>1
  <2> QED BY <2>2, <2>4, <2>5
<1> HIDE DEF Good
<1>3. n \in Good
  BY <1>1, <1>2, SetInduction
<1> QED BY <1>3 DEF Good

LEMMA EffectsRewritten ==
    ASSUME NEW code \in Seq(Statements), NEW w, Rewritten(code, w)
    PROVE  EffectsIn(w.code) = EffectsIn(code)
<1> DEFINE q == w.code
<1>1. /\ q \in Seq(Statements) /\ Len(q) = Len(code)
      /\ \A i \in 1..Len(code) : /\ q[i].op \in Moves <=> code[i].op \in Moves
                                 /\ code[i].op \notin Moves => q[i] = code[i]
  BY DEF Rewritten
<1> HIDE DEF q
<1>2. PICK g : EffectsBy(code, g) /\ EffectsIn(code) = g[Len(code)]
  BY EffectsListed
<1>3. PICK h : EffectsBy(q, h) /\ EffectsIn(q) = h[Len(q)]
  BY <1>1, EffectsListed
<1> DEFINE n == Len(code)
<1>4. n \in Nat
  OBVIOUS
<1>5. 1..n \subseteq 1..Len(code) /\ 1..n \subseteq 1..Len(q)
  BY <1>1
<1> HIDE DEF n
<1>6. SameUpTo(code, q, n)
  BY <1>1, <1>5 DEF SameUpTo, n
<1>7. g[n] = h[n]
  BY <1>2, <1>3, <1>4, <1>6, EffectsSame
<1> QED BY <1>1, <1>2, <1>3, <1>7 DEF q, n

LEMMA EffectsAppend ==
    ASSUME NEW q \in Seq(Statements), NEW s \in Statements
    PROVE  EffectsIn(Append(q, s)) = IF s.op \in Moves THEN EffectsIn(q) ELSE Append(EffectsIn(q), s)
<1> DEFINE r == Append(q, s)
           n == Len(q)
<1>1. /\ r \in Seq(Statements) /\ Len(r) = n + 1 /\ r[n + 1] = s /\ n \in Nat
      /\ \A i \in 1..n : r[i] = q[i]
  OBVIOUS
<1>2. 1..n \subseteq 1..(n + 1) /\ n + 1 \in 1..(n + 1) /\ (n + 1) - 1 = n
  BY <1>1
<1> HIDE DEF r, n
<1>3. PICK g : EffectsBy(q, g) /\ EffectsIn(q) = g[n]
  BY EffectsListed DEF n
<1>4. PICK h : EffectsBy(r, h) /\ EffectsIn(r) = h[n + 1]
  BY <1>1, EffectsListed
<1>5. g[n] = h[n]
  <2>1. 1..n \subseteq 1..Len(q) /\ 1..n \subseteq 1..Len(r)
    BY <1>1, <1>2 DEF n
  <2>2. SameUpTo(q, r, n)
    BY <1>1, <2>1 DEF SameUpTo
  <2> QED BY <1>1, <1>3, <1>4, <2>2, EffectsSame
<1>6. h[n + 1] = IF s.op \in Moves THEN h[n] ELSE Append(h[n], s)
  BY <1>1, <1>2, <1>4 DEF EffectsBy
<1> QED BY <1>3, <1>4, <1>5, <1>6 DEF r

LEMMA EffectsOfNone == EffectsIn(<< >>) = << >>
<1> DEFINE none == << >>
<1>1. none \in Seq(Statements) /\ Len(none) = 0
  OBVIOUS
<1> HIDE DEF none
<1>2. PICK g : EffectsBy(none, g) /\ EffectsIn(none) = g[0]
  BY <1>1, EffectsListed
<1> QED BY <1>2 DEF EffectsBy, none

-----------------------------------------------------------------------------
(* The second half of the optimizer (removeUnusedStmts).                   *)

\* Of the first i statements q keeps some, and all that may not be changed.
Keeps(code, q, i) ==
    /\ q \in Seq(Statements)
    /\ \A j \in 1..Len(q) : \E k \in 1..i : q[j] = code[k]
    /\ \A k \in 1..i : code[k].op \notin Moves => \E j \in 1..Len(q) : q[j] = code[k]
    /\ CodeOnce(code) => CodeOnce(q)
    /\ \A g : EffectsBy(code, g) => EffectsIn(q) = g[i]

LEMMA KeepOne ==
    ASSUME NEW code \in Seq(Statements), NEW i \in Nat, i + 1 \in 1..Len(code),
           NEW q, Keeps(code, q, i)
    PROVE  Keeps(code, Append(q, code[i + 1]), i + 1)
<1> DEFINE s == code[i + 1]
           r == Append(q, s)
           n == Len(q)
<1>1. /\ q \in Seq(Statements) /\ n \in Nat /\ s \in Statements
      /\ \A j \in 1..n : \E k \in 1..i : q[j] = code[k]
      /\ \A k \in 1..i : code[k].op \notin Moves => \E j \in 1..n : q[j] = code[k]
      /\ CodeOnce(code) => CodeOnce(q)
      /\ \A g : EffectsBy(code, g) => EffectsIn(q) = g[i]
  BY DEF Keeps
<1>2. /\ r \in Seq(Statements) /\ Len(r) = n + 1 /\ r[n + 1] = s
      /\ DOMAIN r = 1..(n + 1) /\ DOMAIN q = 1..n /\ DOMAIN code = 1..Len(code)
      /\ \A j \in 1..n : r[j] = q[j]
  BY <1>1
<1>3. /\ \A j \in 1..(n + 1) : j \in 1..n \/ j = n + 1
      /\ \A k \in 1..(i + 1) : k \in 1..i \/ k = i + 1
      /\ \A j \in 1..n : j \in 1..(n + 1) /\ j # n + 1
      /\ \A k \in 1..i : k \in 1..(i + 1) /\ k # i + 1 /\ k \in 1..Len(code)
      /\ i + 1 \in 1..(i + 1) /\ n + 1 \in 1..(n + 1)
  BY <1>1
<1> HIDE DEF r, s, n
<1>4. \A j \in 1..Len(r) : \E k \in 1..(i + 1) : r[j] = code[k]
  <2> SUFFICES ASSUME NEW j \in 1..(n + 1) PROVE \E k \in 1..(i + 1) : r[j] = code[k]
    BY <1>2
  <2>1. CASE j \in 1..n
    BY <1>1, <1>2, <1>3, <2>1
  <2>2. CASE j = n + 1
    BY <1>2, <1>3, <2>2 DEF s
  <2> QED BY <1>3, <2>1, <2>2
<1>5. \A k \in 1..(i + 1) : code[k].op \notin Moves => \E j \in 1..Len(r) : r[j] = code[k]
  <2> SUFFICES ASSUME NEW k \in 1..(i + 1), code[k].op \notin Moves
               PROVE  \E j \in 1..(n + 1) : r[j] = code[k]
    BY <1>2
  <2>1. CASE k \in 1..i
    BY <1>1, <1>2, <1>3, <2>1
  <2>2. CASE k = i + 1
    BY <1>2, <1>3, <2>2 DEF s
  <2> QED BY <1>3, <2>1, <2>2
<1>6. ASSUME CodeOnce(code) PROVE CodeOnce(r)
  <2> SUFFICES ASSUME NEW j \in 1..(n + 1), NEW m \in 1..(n + 1),
                      NEW x \in SetIn(r[j]), NEW y \in SetIn(r[m]), x.n = y.n
               PROVE  j = m
    BY <1>2 DEF CodeOnce
  <2> HIDE DEF SetIn
  <2>1. \A k, l \in 1..Len(code) : \A u \in SetIn(code[k]), v \in SetIn(code[l]) :
            u.n = v.n => k = l
    BY <1>2, <1>6 DEF CodeOnce
  <2>2. CASE j \in 1..n /\ m \in 1..n
    <3>1. CodeOnce(q) /\ r[j] = q[j] /\ r[m] = q[m]
      BY <1>1, <1>2, <1>6, <2>2
    <3> QED BY <1>2, <2>2, <3>1 DEF CodeOnce
  <2>3. CASE j \in 1..n /\ m = n + 1
    <3>1. PICK k \in 1..i : q[j] = code[k]
      BY <1>1, <2>3
    <3>2. k \in 1..Len(code) /\ k # i + 1 /\ r[j] = code[k] /\ r[m] = code[i + 1]
      BY <1>2, <1>3, <2>3, <3>1 DEF s
    <3> QED BY <2>1, <3>2
  <2>4. CASE m \in 1..n /\ j = n + 1
    <3>1. PICK k \in 1..i : q[m] = code[k]
      BY <1>1, <2>4
    <3>2. k \in 1..Len(code) /\ k # i + 1 /\ r[m] = code[k] /\ r[j] = code[i + 1]
      BY <1>2, <1>3, <2>4, <3>1 DEF s
    <3> QED BY <2>1, <3>2
  <2> QED BY <1>3, <2>2, <2>3, <2>4
<1>7. ASSUME NEW g, EffectsBy(code, g) PROVE EffectsIn(r) = g[i + 1]
  <2>1. i + 1 \in 1..Len(code) /\ (i + 1) - 1 = i
    OBVIOUS
  <2>2. g[i + 1] = IF s.op \in Moves THEN g[i] ELSE Append(g[i], s)
    BY <1>7, <2>1 DEF EffectsBy, s
  <2>3. EffectsIn(r) = IF s.op \in Moves THEN EffectsIn(q) ELSE Append(EffectsIn(q), s)
    BY <1>1, EffectsAppend DEF r
  <2>4. EffectsIn(q) = g[i]
    BY <1>1, <1>7
  <2> QED BY <2>2, <2>3, <2>4
<1> QED BY <1>2, <1>4, <1>5, <1>6, <1>7 DEF Keeps, r, s

\* A statement that is left out may be changed.
LEMMA KeepNone ==
    ASSUME NEW code \in Seq(Statements), NEW i \in Nat, i + 1 \in 1..Len(code),
           NEW q, Keeps(code, q, i), code[i + 1].op \in Moves
    PROVE  Keeps(code, q, i + 1)
<1>1. \A k \in 1..(i + 1) : k \in 1..i \/ k = i + 1
  OBVIOUS
<1>2. \A k \in 1..i : k \in 1..(i + 1)
  OBVIOUS
<1>3. ASSUME NEW g, EffectsBy(code, g) PROVE EffectsIn(q) = g[i + 1]
  <2>1. i + 1 \in 1..Len(code) /\ (i + 1) - 1 = i
    OBVIOUS
  <2>2. g[i + 1] = g[i]
    BY <1>3, <2>1 DEF EffectsBy
  <2>3. EffectsIn(q) = g[i]
    BY <1>3 DEF Keeps
  <2> QED BY <2>2, <2>3
<1> QED BY <1>1, <1>2, <1>3 DEF Keeps

LEMMA RemoveUnusedOK ==
    ASSUME NEW code \in Seq(Statements)
    PROVE  Keeps(code, RemoveUnusedStmts(code), Len(code))
<1> DEFINE n == Len(code)
           used == UsedStmts(BuildDependency(code))
           keep == {i \in DOMAIN code : i \in used \/ code[i].op \notin Arith \cup {"Assign"}}
           none == << >>
           Step(prev, i) == IF i = 0 THEN none
                            ELSE IF i \in keep THEN Append(prev, code[i]) ELSE prev
           Defines_(g, k) == g = [i \in 0..k |-> Step(g[i - 1], i)]
           Good == {k \in Nat : k <= n => \E g : Defines_(g, k)}
<1>1. n \in Nat /\ DOMAIN code = 1..n
  OBVIOUS
<1>0. \A i \in 1..n : i \in keep \/ code[i].op \in Moves
  BY <1>1 DEF Moves
<1> HIDE DEF Step, none, keep
<1>2. \A k \in Nat : k \in Good
  <2>1. 0 \in Good
    <3>1. Defines_([i \in 0..0 |-> none], 0)
      <4>1. \A a : Step(a, 0) = none
        BY DEF Step
      <4> QED BY <4>1
    <3> QED BY <3>1
  <2>2. ASSUME NEW k \in Nat, k \in Good PROVE k + 1 \in Good
    <3> SUFFICES ASSUME k + 1 <= n PROVE \E g : Defines_(g, k + 1)
      OBVIOUS
    <3>0. k <= n
      BY <1>1
    <3>1. PICK g : Defines_(g, k)
      BY <2>2, <3>0
    <3> DEFINE h == [i \in 0..(k + 1) |-> IF i = k + 1 THEN Step(g[k], k + 1) ELSE g[i]]
    <3>2. ASSUME NEW i \in 0..(k + 1) PROVE h[i] = Step(h[i - 1], i)
      <4>1. CASE i = k + 1
        <5>1. h[i - 1] = g[k] /\ h[i] = Step(g[k], k + 1)
          BY <4>1
        <5> QED BY <4>1, <5>1
      <4>2. CASE i = 0
        <5>1. \A a : Step(a, 0) = none
          BY DEF Step
        <5>2. h[0] = g[0] /\ g[0] = Step(g[0 - 1], 0)
          BY <3>1
        <5> HIDE DEF h
        <5> QED BY <4>2, <5>1, <5>2
      <4>3. CASE i \in 1..k
        <5>1. h[i] = g[i] /\ h[i - 1] = g[i - 1]
          BY <4>3
        <5>2. g[i] = Step(g[i - 1], i)
          BY <3>1, <4>3
        <5> QED BY <5>1, <5>2
      <4> QED BY <4>1, <4>2, <4>3
    <3>3. h = [i \in 0..(k + 1) |-> h[i]]
      OBVIOUS
    <3> HIDE DEF h
    <3>4. Defines_(h, k + 1)
      BY <3>2, <3>3
    <3> QED BY <3>4
  <2> HIDE DEF Good
  <2> QED BY <2>1, <2>2, SetInduction
<1>3. \E g : Defines_(g, n)
  BY <1>1, <1>2
<1> DEFINE kept == CHOOSE g : Defines_(g, n)
<1>4. Defines_(kept, n)
  BY <1>3
<1>5. RemoveUnusedStmts(code) = kept[n]
  BY DEF RemoveUnusedStmts, Step, none, keep
<1> HIDE DEF kept, used
<1>6. kept[0] = none
  BY <1>1, <1>4 DEF Step
<1>7. \A i \in 1..n : kept[i] = IF i \in keep THEN Append(kept[i - 1], code[i]) ELSE kept[i - 1]
  <2>1. \A i \in 1..n : kept[i] = Step(kept[i - 1], i)
    BY <1>1, <1>4
  <2> QED BY <2>1 DEF Step
<1> DEFINE Fine == {k \in Nat : k <= n => Keeps(code, kept[k], k)}
<1>8. \A k \in Nat : k \in Fine
  <2>1. 0 \in Fine
    <3>1. none \in Seq(Statements) /\ Len(none) = 0 /\ DOMAIN none = {} /\ 1..0 = {}
      BY DEF none
    <3>2. CodeOnce(none)
      BY <3>1 DEF CodeOnce
    <3>3. \A g : EffectsBy(code, g) => EffectsIn(none) = g[0]
      BY EffectsOfNone DEF EffectsBy, none
    <3>4. Keeps(code, none, 0)
      BY <3>1, <3>2, <3>3 DEF Keeps
    <3> QED BY <1>6, <3>4
  <2>2. ASSUME NEW k \in Nat, k \in Fine PROVE k + 1 \in Fine
    <3> SUFFICES ASSUME k + 1 <= n PROVE Keeps(code, kept[k + 1], k + 1)
      OBVIOUS
    <3>1. k <= n /\ k + 1 \in 1..n /\ (k + 1) - 1 = k
      BY <1>1
    <3>2. Keeps(code, kept[k], k)
      BY <2>2, <3>1
    <3>3. CASE k + 1 \in keep
      <4>1. kept[k + 1] = Append(kept[k], code[k + 1])
        BY <1>7, <3>1, <3>3
      <4> QED BY <3>1, <3>2, <4>1, KeepOne
    <3>4. CASE k + 1 \notin keep
      <4>1. kept[k + 1] = kept[k]
        BY <1>7, <3>1, <3>4
      <4>2. code[k + 1].op \in Moves
        BY <1>0, <3>1, <3>4
      <4> QED BY <3>1, <3>2, <4>1, <4>2, KeepNone
    <3> QED BY <3>3, <3>4
  <2> HIDE DEF Fine
  <2> QED BY <2>1, <2>2, SetInduction
<1> QED BY <1>1, <1>5, <1>8

\* All that is said of labels is as it was, and no object is new.
LEMMA KeptIs ==
    ASSUME NEW code \in Seq(Statements), NEW q, Keeps(code, q, Len(code))
    PROVE  /\ q \in Seq(Statements) /\ Objects(q) \subseteq Objects(code)
           /\ CodeSets(q) = CodeSets(code) /\ CodeAims(q) = CodeAims(code)
           /\ CodeOnce(code) => CodeOnce(q)
           /\ EffectsIn(q) = EffectsIn(code)
<1>1. /\ q \in Seq(Statements) /\ DOMAIN q = 1..Len(q) /\ DOMAIN code = 1..Len(code)
      /\ \A j \in 1..Len(q) : \E k \in 1..Len(code) : q[j] = code[k]
      /\ \A k \in 1..Len(code) : code[k].op \notin Moves => \E j \in 1..Len(q) : q[j] = code[k]
      /\ CodeOnce(code) => CodeOnce(q)
  BY DEF Keeps
<1>2. Objects(q) \subseteq Objects(code)
  <2> SUFFICES ASSUME NEW x \in Objects(q) PROVE x \in Objects(code)
    OBVIOUS
  <2>1. PICK j \in 1..Len(q) : x \in {q[j].x, q[j].y, q[j].z}
    BY <1>1 DEF Objects
  <2>2. PICK k \in 1..Len(code) : q[j] = code[k]
    BY <1>1
  <2> QED BY <2>1, <2>2, ObjectsAt
<1>3. \A k \in 1..Len(code) : SetIn(code[k]) # {} \/ AimIn(code[k]) # {}
          => \E j \in 1..Len(q) : q[j] = code[k]
  BY <1>1, MovesStay
<1> HIDE DEF SetIn, AimIn
<1>4. CodeSets(q) = CodeSets(code)
  BY <1>1, <1>3 DEF CodeSets
<1>5. CodeAims(q) = CodeAims(code)
  BY <1>1, <1>3 DEF CodeAims
<1>6. EffectsIn(q) = EffectsIn(code)
  <2>1. PICK g : EffectsBy(code, g) /\ EffectsIn(code) = g[Len(code)]
    BY EffectsListed
  <2> QED BY <2>1 DEF Keeps
<1> QED BY <1>1, <1>2, <1>4, <1>5, <1>6

-----------------------------------------------------------------------------
(* The invariant is kept.                                                  *)

LEMMA NothingIn == ASSUME NEW g, g = << >> PROVE DOMAIN g = {}
OBVIOUS

LEMMA InitInv == Init => IInv
<1> SUFFICES ASSUME Init PROVE IInv
  OBVIOUS
<1> DEFINE none == << >>
<1>1. /\ none \in Seq(Tasks) /\ none \in Seq(Statements) /\ none \in Seq(Declarations)
      /\ DOMAIN none = {}
  OBVIOUS
<1>2. /\ source \in Units /\ rest = source /\ b = NewBuilder /\ phase = "build" /\ stop = ""
      /\ funcs = << >> /\ todo = {}
  BY DEF Init
<1>3. rest \in Seq(Declarations) /\ \A d \in ToSet(rest) : d.kind = "func" => d.name \in ToSet(FuncOrder)
  BY <1>2, UnitsAssumption
<1>4. /\ Shaped(b) /\ b.cnt = 0 /\ b.objs = 0 /\ b.code = none /\ b.vars = none
      /\ b.res = Nullptr /\ b.funcs = none /\ b.funcVars = none /\ b.work = none
  BY <1>2 DEF NewBuilder, Shaped
<1> HIDE DEF none
<1>5. BuilderTyped(b)
  BY <1>1, <1>4 DEF BuilderTyped
<1>6. StackOK(b.work)
  BY <1>1, <1>4 DEF StackOK
<1>7. Objects(none) = {}
  BY <1>1 DEF Objects
<1>8. Held(b) \subseteq {Nullptr}
  <2> SUFFICES ASSUME NEW x \in Held(b) PROVE x = Nullptr
    OBVIOUS
  <2> QED BY <1>1, <1>4, <1>7, HeldParts
<1>9. Told({Nullptr}, 0)
  BY NullIs DEF Told
<1>10. Told(Held(b), b.objs)
  BY <1>4, <1>8, <1>9, ToldFewer
<1>11. FuncLabels(b.funcs, b.cnt)
  BY <1>1, <1>4 DEF FuncLabels
<1>12. BuilderOK(b)
  BY <1>4, <1>5, <1>6, <1>10, <1>11 DEF BuilderOK, none
<1>13. DOMAIN funcs = {}
  BY <1>1, <1>2 DEF none
<1> QED BY <1>2, <1>3, <1>12, <1>13 DEF IInv

\* A step of the builder: it stops, or what it makes is in order.
LEMMA BuildsInv ==
    ASSUME IInv, phase = "build", NEW c, Builds(c), c.stop = "" => BuilderOK(c),
           rest' \in Seq(Declarations),
           \A d \in ToSet(rest') : d.kind = "func" => d.name \in ToSet(FuncOrder)
    PROVE  IInv'
<1>1. /\ b' = c /\ stop' = c.stop /\ phase' = (IF c.stop = "" THEN "build" ELSE "stopped")
      /\ funcs' = funcs /\ todo' = todo
  BY DEF Builds, StopFor
<1>2. funcs = << >> /\ todo \subseteq DOMAIN funcs /\ DOMAIN funcs \subseteq ToSet(FuncOrder)
  BY DEF IInv
<1>3. DOMAIN funcs = {}
  BY <1>2, NothingIn
<1>4. phase' = "build" => BuilderOK(b')
  BY <1>1
<1>5. phase' \in {"build", "stopped"} /\ (phase' = "stopped") = (stop' # "")
  BY <1>1
<1> QED BY <1>1, <1>2, <1>3, <1>4, <1>5 DEF IInv

\* The same for a method other than the one at the top.
LEMMA CallsInv ==
    ASSUME IInv, NEW whats, Doing(whats), NEW c, Builds(c), c.stop = "" => BuilderOK(c)
    PROVE  IInv'
<1>1. phase = "build" /\ rest' = rest
  BY DEF Doing
<1>2. rest \in Seq(Declarations) /\ \A d \in ToSet(rest) : d.kind = "func" => d.name \in ToSet(FuncOrder)
  BY DEF IInv
<1> QED BY <1>1, <1>2, BuildsInv

LEMMA DoingIs ==
    ASSUME IInv, NEW whats, Doing(whats)
    PROVE  /\ Going(b, whats) /\ Head(b.work).do \in whats
           /\ Head(b.work).do \in TreeTasks => Head(b.work).e \in Trees
<1>1. BuilderOK(b) /\ b.work # << >> /\ Head(b.work).do \in whats
  BY DEF IInv, Doing
<1>2. TaskOK(Head(b.work))
  BY <1>1, HeadIs
<1> QED BY <1>1, <1>2 DEF Going, TaskOK

LEMMA RecParseASTInv == IInv /\ RecParseAST => IInv'
<1> SUFFICES ASSUME IInv, RecParseAST PROVE IInv'
  OBVIOUS
<1> DEFINE f == Head(rest)
           c == ExternDecl(b, f)
<1>1. /\ phase = "build" /\ b.work = << >> /\ rest # << >> /\ rest' = Tail(rest) /\ Builds(c)
      /\ rest \in Seq(Declarations) /\ BuilderOK(b)
      /\ \A d \in ToSet(rest) : d.kind = "func" => d.name \in ToSet(FuncOrder)
  BY DEF RecParseAST, IInv
<1>2. /\ Tail(rest) \in Seq(Declarations) /\ Len(rest) \in Nat \ {0}
      /\ DOMAIN rest = 1..Len(rest) /\ DOMAIN Tail(rest) = 1..(Len(rest) - 1)
      /\ f \in Declarations /\ f = rest[1]
      /\ \A i \in 1..(Len(rest) - 1) : Tail(rest)[i] = rest[i + 1]
  BY <1>1, TailIs
<1>3. f \in ToSet(rest)
  <2>1. 1 \in DOMAIN rest
    BY <1>2
  <2> QED BY <1>2, <2>1 DEF ToSet
<1>4. ToSet(Tail(rest)) \subseteq ToSet(rest)
  <2> SUFFICES ASSUME NEW i \in 1..(Len(rest) - 1) PROVE Tail(rest)[i] \in ToSet(rest)
    BY <1>2 DEF ToSet
  <2>1. i + 1 \in DOMAIN rest /\ Tail(rest)[i] = rest[i + 1]
    BY <1>2
  <2> QED BY <2>1 DEF ToSet
<1>5. c.stop = "" => BuilderOK(c)
  <2> HIDE DEF f
  <2>1. CASE f.kind = "func"
    <3>1. c = RegisterFunction(b, f) /\ f.name \in ToSet(FuncOrder)
      BY <1>1, <1>3, <2>1 DEF ExternDecl
    <3>2. f \in Declarations
      BY <1>2
    <3> QED BY <1>1, <3>1, <3>2, RegisterFunctionOK
  <2>2. CASE f.kind # "func"
    <3>1. c = Halt(b, "unsupported")
      BY <2>2 DEF ExternDecl
    <3>2. c.stop = "unsupported"
      BY <1>1, <3>1, HaltStops DEF BuilderOK, BuilderTyped
    <3> QED BY <3>2
  <2> QED BY <2>1, <2>2
<1> HIDE DEF c
<1>6. rest' \in Seq(Declarations) /\ \A d \in ToSet(rest') : d.kind = "func" => d.name \in ToSet(FuncOrder)
  BY <1>1, <1>2, <1>4
<1> QED BY <1>1, <1>5, <1>6, BuildsInv

LEMMA CallActionsInv ==
    IInv /\ (\/ RecRegisterStmts \/ RecRegisterExprs \/ RecRegisterCondExpr
             \/ OperandDone \/ ArgumentDone \/ PartDone \/ BodyDone) => IInv'
<1> SUFFICES ASSUME IInv, \/ RecRegisterStmts \/ RecRegisterExprs \/ RecRegisterCondExpr
                          \/ OperandDone \/ ArgumentDone \/ PartDone \/ BodyDone
             PROVE  IInv'
  OBVIOUS
<1> DEFINE t == Head(b.work)
<1>1. CASE RecRegisterStmts
  <2>1. Doing({"stmt"}) /\ Builds(Stmts(b, t.e))
    BY <1>1 DEF RecRegisterStmts
  <2>2. Going(b, {"stmt"}) /\ t.e \in Trees
    BY <2>1, DoingIs DEF TreeTasks
  <2>3. Stmts(b, t.e).stop = "" => BuilderOK(Stmts(b, t.e))
    BY <2>2, StmtsOK
  <2> QED BY <2>1, <2>3, CallsInv
<1>2. CASE RecRegisterExprs
  <2>1. Doing({"expr"}) /\ Builds(Exprs(b, t.e))
    BY <1>2 DEF RecRegisterExprs
  <2>2. Going(b, {"expr"}) /\ t.e \in Trees
    BY <2>1, DoingIs DEF TreeTasks
  <2>3. Exprs(b, t.e).stop = "" => BuilderOK(Exprs(b, t.e))
    BY <2>2, ExprsOK
  <2> QED BY <2>1, <2>3, CallsInv
<1>3. CASE RecRegisterCondExpr
  <2>1. Doing({"cond"}) /\ Builds(CondExpr(b, t.e, t.x, t.y))
    BY <1>3 DEF RecRegisterCondExpr
  <2>2. Going(b, {"cond"}) /\ t.e \in Trees
    BY <2>1, DoingIs DEF TreeTasks
  <2>3. CondExpr(b, t.e, t.x, t.y).stop = "" => BuilderOK(CondExpr(b, t.e, t.x, t.y))
    BY <2>2, CondExprOK
  <2> QED BY <2>1, <2>3, CallsInv
<1>4. CASE OperandDone
  <2> DEFINE whats == {"lhs", "combine", "test lhs", "branch", "negate"}
  <2>1. Doing(whats) /\ Builds(Operand(b, t))
    BY <1>4 DEF OperandDone
  <2>2. Going(b, whats)
    BY <2>1, DoingIs
  <2>3. Operand(b, t).stop = "" => BuilderOK(Operand(b, t))
    BY <2>2, OperandOK
  <2> QED BY <2>1, <2>3, CallsInv
<1>5. CASE ArgumentDone
  <2> DEFINE whats == {"arg", "PushCallArg", "invoke", "write"}
  <2>1. Doing(whats) /\ Builds(Argument(b, t))
    BY <1>5 DEF ArgumentDone
  <2>2. Going(b, whats)
    BY <2>1, DoingIs
  <2>3. Argument(b, t).stop = "" => BuilderOK(Argument(b, t))
    BY <2>2, ArgumentOK
  <2> QED BY <2>1, <2>3, CallsInv
<1>6. CASE PartDone
  <2> DEFINE whats == {"SetLabel", "Goto", "one", "result", "init", "Return", "else"}
  <2>1. Doing(whats) /\ Builds(Rest(b, t))
    BY <1>6 DEF PartDone
  <2>2. Going(b, whats)
    BY <2>1, DoingIs
  <2>3. Rest(b, t).stop = "" => BuilderOK(Rest(b, t))
    BY <2>2, RestOK
  <2> QED BY <2>1, <2>3, CallsInv
<1>7. CASE BodyDone
  <2>1. Doing({"function"}) /\ Builds(FinishFunction(b, t))
    BY <1>7 DEF BodyDone
  <2>2. Going(b, {"function"})
    BY <2>1, DoingIs
  <2>3. BuilderOK(FinishFunction(b, t))
    BY <2>2, FinishFunctionOK
  <2> QED BY <2>1, <2>3, CallsInv
<1> QED BY <1>1, <1>2, <1>3, <1>4, <1>5, <1>6, <1>7

LEMMA MakeProgramInv == IInv /\ MakeProgram => IInv'
<1> SUFFICES ASSUME IInv, MakeProgram PROVE IInv'
  OBVIOUS
<1>1. /\ phase = "build" /\ funcs' = b.funcs /\ phase' = "made"
      /\ b' = [NewBuilder EXCEPT !.cnt = b.cnt, !.objs = b.objs]
      /\ rest' = rest /\ stop' = stop /\ todo' = todo
  BY DEF MakeProgram
<1>2. /\ BuilderOK(b) /\ BuilderTyped(b) /\ funcs = << >> /\ todo \subseteq DOMAIN funcs /\ stop = ""
      /\ rest \in Seq(Declarations)
      /\ \A d \in ToSet(rest) : d.kind = "func" => d.name \in ToSet(FuncOrder)
  BY <1>1 DEF IInv, BuilderOK
<1>3. todo' = {}
  BY <1>1, <1>2, NothingIn
<1>4. BuilderTyped(b') /\ b'.cnt = b.cnt /\ b'.objs = b.objs
  <2> DEFINE none == << >>
             c == [NewBuilder EXCEPT !.cnt = b.cnt, !.objs = b.objs]
  <2>1. none \in Seq(Tasks) /\ none \in Seq(Statements) /\ DOMAIN none = {}
    OBVIOUS
  <2>2. /\ Shaped(c) /\ c.cnt = b.cnt /\ c.objs = b.objs /\ c.code = none /\ c.funcs = none
        /\ c.work = none
    <3> DEFINE d == NewBuilder
    <3> HIDE DEF none
    <3>1. Shaped(d) /\ d.code = none /\ d.funcs = none /\ d.work = none
      BY DEF NewBuilder, Shaped, none
    <3>2. c = [d EXCEPT !.cnt = b.cnt, !.objs = b.objs]
      OBVIOUS
    <3> HIDE DEF c, d
    <3> QED BY <3>1, <3>2 DEF Shaped
  <2>3. b.cnt \in Nat /\ b.objs \in Nat
    BY <1>2 DEF BuilderTyped
  <2> HIDE DEF none, c
  <2>4. BuilderTyped(c)
    BY <2>1, <2>2, <2>3 DEF BuilderTyped
  <2> QED BY <1>1, <2>2, <2>4 DEF c
<1>5. Told(ProgramObjects(b.funcs) \cup {Nullptr}, b.objs)
  <2>1. ProgramObjects(b.funcs) \cup {Nullptr} \subseteq Held(b)
    BY DEF ProgramObjects, Held
  <2> QED BY <1>2, <2>1, ToldFewer DEF BuilderOK
<1>6. DOMAIN b.funcs \subseteq ToSet(FuncOrder) /\ \A f \in DOMAIN b.funcs : b.funcs[f] \in Seq(Statements)
  BY <1>2 DEF BuilderTyped
<1>7. FuncLabels(b.funcs, b.cnt)
  BY <1>2 DEF BuilderOK
<1> QED BY <1>1, <1>2, <1>3, <1>4, <1>5, <1>6, <1>7 DEF IInv

LEMMA OptimizeProgramInv == IInv /\ OptimizeProgram => IInv'
<1> SUFFICES ASSUME IInv, OptimizeProgram PROVE IInv'
  OBVIOUS
<1>1. /\ phase = "made" /\ phase' = "optimize" /\ todo' = DOMAIN funcs
      /\ rest' = rest /\ b' = b /\ stop' = stop /\ funcs' = funcs
  BY DEF OptimizeProgram
<1> QED BY <1>1 DEF IInv

LEMMA WriteProgramInv == IInv /\ WriteProgram => IInv'
<1> SUFFICES ASSUME IInv, WriteProgram PROVE IInv'
  OBVIOUS
<1>1. /\ phase \in {"made", "optimize"} /\ phase' = "written" /\ todo' = todo
      /\ rest' = rest /\ b' = b /\ stop' = stop /\ funcs' = funcs
  BY DEF WriteProgram
<1> QED BY <1>1 DEF IInv

\* One function has new code, with the labels of the old.
LEMMA NewCode ==
    ASSUME NEW fs, NEW f \in DOMAIN fs, \A g \in DOMAIN fs : fs[g] \in Seq(Statements),
           NEW q \in Seq(Statements), NEW cnt, FuncLabels(fs, cnt),
           CodeSets(q) = CodeSets(fs[f]), CodeAims(q) = CodeAims(fs[f]),
           CodeOnce(fs[f]) => CodeOnce(q)
    PROVE  LET gs == [fs EXCEPT ![f] = q]
           IN  /\ DOMAIN gs = DOMAIN fs /\ \A g \in DOMAIN gs : gs[g] \in Seq(Statements)
               /\ FuncLabels(gs, cnt)
               /\ ProgramObjects(gs) \subseteq ProgramObjects(fs) \cup Objects(q)
<1> DEFINE gs == [fs EXCEPT ![f] = q]
<1>1. /\ DOMAIN gs = DOMAIN fs /\ gs[f] = q
      /\ \A g \in DOMAIN fs : g # f => gs[g] = fs[g]
  OBVIOUS
<1> HIDE DEF gs
<1>2. \A g \in DOMAIN gs : gs[g] \in Seq(Statements)
  BY <1>1
<1>3. \A g \in DOMAIN fs : /\ CodeSets(gs[g]) = CodeSets(fs[g]) /\ CodeAims(gs[g]) = CodeAims(fs[g])
                           /\ CodeOnce(fs[g]) => CodeOnce(gs[g])
  BY <1>1
<1>4. FuncLabels(gs, cnt)
  <2> HIDE DEF CodeSets, CodeAims, CodeOnce, IsLabel, Among, Apart
  <2> SUFFICES ASSUME NEW g \in DOMAIN fs
               PROVE  /\ \A x \in CodeSets(gs[g]) \cup CodeAims(gs[g]) : IsLabel(x, cnt)
                      /\ CodeOnce(gs[g])
                      /\ Among(CodeAims(gs[g]), CodeSets(gs[g]))
                      /\ \A h \in DOMAIN fs : h # g => Apart(CodeSets(gs[g]), CodeSets(gs[h]))
    BY <1>1 DEF FuncLabels
  <2>1. /\ \A x \in CodeSets(fs[g]) \cup CodeAims(fs[g]) : IsLabel(x, cnt)
        /\ CodeOnce(fs[g])
        /\ Among(CodeAims(fs[g]), CodeSets(fs[g]))
        /\ \A h \in DOMAIN fs : h # g => Apart(CodeSets(fs[g]), CodeSets(fs[h]))
    BY DEF FuncLabels
  <2>2. \A h \in DOMAIN fs : h # g => Apart(CodeSets(gs[g]), CodeSets(gs[h]))
    BY <1>3, <2>1
  <2> QED BY <1>3, <2>1, <2>2
<1>5. ProgramObjects(gs) \subseteq ProgramObjects(fs) \cup Objects(q)
  <2> HIDE DEF Objects
  <2> SUFFICES ASSUME NEW g \in DOMAIN fs, NEW x \in Objects(gs[g])
               PROVE  x \in ProgramObjects(fs) \cup Objects(q)
    BY <1>1 DEF ProgramObjects
  <2>1. CASE g = f
    BY <1>1, <2>1
  <2>2. CASE g # f
    BY <1>1, <2>2 DEF ProgramObjects
  <2> QED BY <2>1, <2>2
<1> QED BY <1>1, <1>2, <1>4, <1>5 DEF gs

LEMMA PropagateConstantsInv ==
    ASSUME IInv, NEW f \in todo, PropagateConstants(f)
    PROVE  IInv'
<1> DEFINE code == funcs[f]
           w    == ConstantPropagate(code, b.objs)
           gs   == [funcs EXCEPT ![f] = w.code]
           base == b.objs
<1>1. /\ phase = "optimize" /\ funcs' = gs /\ b' = [b EXCEPT !.objs = @ + Len(w.code)]
      /\ stop' = w.stop /\ phase' = (IF w.stop = "" THEN "optimize" ELSE "stopped")
      /\ rest' = rest /\ todo' = todo
  BY DEF PropagateConstants, StopFor
<1>2. /\ f \in DOMAIN funcs /\ \A g \in DOMAIN funcs : funcs[g] \in Seq(Statements)
      /\ FuncLabels(funcs, b.cnt) /\ BuilderTyped(b) /\ base \in Nat
      /\ DOMAIN funcs \subseteq ToSet(FuncOrder) /\ todo \subseteq DOMAIN funcs
      /\ rest \in Seq(Declarations)
      /\ \A d \in ToSet(rest) : d.kind = "func" => d.name \in ToSet(FuncOrder)
  BY <1>1 DEF IInv, BuilderTyped
<1>3. code \in Seq(Statements)
  BY <1>2
<1>4. Told(ProgramObjects(funcs) \cup {Nullptr}, base)
  <2>1. funcs # << >>
    BY <1>2, NothingIn
  <2> QED BY <2>1 DEF IInv
<1> HIDE DEF code, base, w
<1>5. /\ Rewritten(code, w)
      /\ \E made : /\ Made(made, base, base + Len(code))
                   /\ Objects(w.code) \subseteq Objects(code) \cup {Nullptr} \cup made
  <2>1. PropagateOK(code, BuildDependency(code), base, w, Len(BuildDependency(code).nodes))
    BY <1>2, <1>3, ConstantPropagateOK DEF w, base, code
  <2> QED BY <2>1 DEF PropagateOK, Renewed
<1>6. w.code \in Seq(Statements) /\ Len(w.code) = Len(code) /\ Len(code) \in Nat
  BY <1>3, <1>5 DEF Rewritten
<1>7. /\ CodeSets(w.code) = CodeSets(code) /\ CodeAims(w.code) = CodeAims(code)
      /\ CodeOnce(code) => CodeOnce(w.code)
  BY <1>3, <1>5, PropagatedLabels
<1>8. /\ DOMAIN gs = DOMAIN funcs /\ \A g \in DOMAIN gs : gs[g] \in Seq(Statements)
      /\ FuncLabels(gs, b.cnt)
      /\ ProgramObjects(gs) \subseteq ProgramObjects(funcs) \cup Objects(w.code)
  BY <1>2, <1>6, <1>7, NewCode DEF code
<1> HIDE DEF gs
<1>9. Told(ProgramObjects(gs) \cup {Nullptr}, base + Len(code))
  <2>1. PICK made : /\ Made(made, base, base + Len(code))
                    /\ Objects(w.code) \subseteq Objects(code) \cup {Nullptr} \cup made
    BY <1>5
  <2>2. Objects(code) \subseteq ProgramObjects(funcs)
    BY <1>2 DEF ProgramObjects, code
  <2>3. ProgramObjects(gs) \cup {Nullptr} \subseteq (ProgramObjects(funcs) \cup {Nullptr}) \cup made
    BY <1>8, <2>1, <2>2
  <2>4. Told((ProgramObjects(funcs) \cup {Nullptr}) \cup made, base + Len(code))
    <3>1. base + Len(code) \in Nat
      BY <1>2, <1>6
    <3> QED BY <1>2, <1>4, <2>1, <3>1, ToldMore
  <2> QED BY <2>3, <2>4, ToldFewer
<1>10. b'.objs = base + Len(code) /\ b'.cnt = b.cnt /\ BuilderTyped(b')
  <2> DEFINE top == base + Len(code)
  <2>1. Shaped(b) /\ b' = [b EXCEPT !.objs = top]
    BY <1>1, <1>2, <1>6 DEF BuilderTyped, base
  <2>2. top \in Nat
    BY <1>2, <1>6
  <2> HIDE DEF top
  <2>3. /\ Shaped(b') /\ b'.objs = top /\ b'.cnt = b.cnt /\ b'.code = b.code
        /\ b'.work = b.work /\ b'.funcs = b.funcs
    BY <2>1 DEF Shaped
  <2>4. BuilderTyped(b')
    BY <1>2, <2>2, <2>3 DEF BuilderTyped
  <2> QED BY <2>3, <2>4 DEF top
<1>11. phase' \in {"optimize", "stopped"} /\ (phase' = "stopped") = (stop' # "")
  BY <1>1
<1> QED BY <1>1, <1>2, <1>8, <1>9, <1>10, <1>11 DEF IInv

LEMMA RemoveUnusedInv ==
    ASSUME IInv, NEW f \in todo, RemoveUnused(f)
    PROVE  IInv'
<1> DEFINE code == funcs[f]
           q    == RemoveUnusedStmts(code)
           gs   == [funcs EXCEPT ![f] = q]
<1>1. /\ phase = "optimize" /\ funcs' = gs /\ todo' = todo \ {f}
      /\ rest' = rest /\ b' = b /\ phase' = phase /\ stop' = stop
  BY DEF RemoveUnused
<1>2. /\ f \in DOMAIN funcs /\ \A g \in DOMAIN funcs : funcs[g] \in Seq(Statements)
      /\ FuncLabels(funcs, b.cnt) /\ BuilderTyped(b) /\ stop = ""
      /\ DOMAIN funcs \subseteq ToSet(FuncOrder) /\ todo \subseteq DOMAIN funcs
      /\ rest \in Seq(Declarations)
      /\ \A d \in ToSet(rest) : d.kind = "func" => d.name \in ToSet(FuncOrder)
  BY <1>1 DEF IInv
<1>3. code \in Seq(Statements)
  BY <1>2
<1>4. Told(ProgramObjects(funcs) \cup {Nullptr}, b.objs)
  <2>1. funcs # << >>
    BY <1>2, NothingIn
  <2> QED BY <2>1 DEF IInv
<1> HIDE DEF code, q
<1>5. /\ q \in Seq(Statements) /\ Objects(q) \subseteq Objects(code)
      /\ CodeSets(q) = CodeSets(code) /\ CodeAims(q) = CodeAims(code)
      /\ CodeOnce(code) => CodeOnce(q)
  BY <1>3, RemoveUnusedOK, KeptIs DEF q
<1>6. /\ DOMAIN gs = DOMAIN funcs /\ \A g \in DOMAIN gs : gs[g] \in Seq(Statements)
      /\ FuncLabels(gs, b.cnt)
      /\ ProgramObjects(gs) \subseteq ProgramObjects(funcs) \cup Objects(q)
  BY <1>2, <1>5, NewCode DEF code
<1> HIDE DEF gs
<1>7. Told(ProgramObjects(gs) \cup {Nullptr}, b.objs)
  <2>1. Objects(code) \subseteq ProgramObjects(funcs)
    BY <1>2 DEF ProgramObjects, code
  <2>2. ProgramObjects(gs) \cup {Nullptr} \subseteq ProgramObjects(funcs) \cup {Nullptr}
    BY <1>5, <1>6, <2>1
  <2> QED BY <1>4, <2>2, ToldFewer
<1> QED BY <1>1, <1>2, <1>6, <1>7 DEF IInv

LEMMA NextInv == IInv /\ [Next]_vars => IInv'
<1> SUFFICES ASSUME IInv, [Next]_vars PROVE IInv'
  OBVIOUS
<1>1. CASE RecParseAST
  BY <1>1, RecParseASTInv
<1>2. CASE \/ RecRegisterStmts \/ RecRegisterExprs \/ RecRegisterCondExpr
           \/ OperandDone \/ ArgumentDone \/ PartDone \/ BodyDone
  BY <1>2, CallActionsInv
<1>3. CASE MakeProgram
  BY <1>3, MakeProgramInv
<1>4. CASE OptimizeProgram
  BY <1>4, OptimizeProgramInv
<1>5. CASE \E f \in todo : PropagateConstants(f) \/ RemoveUnused(f)
  BY <1>5, PropagateConstantsInv, RemoveUnusedInv
<1>6. CASE WriteProgram
  BY <1>6, WriteProgramInv
<1>7. CASE UNCHANGED vars
  BY <1>7 DEF vars, IInv
<1> QED BY <1>1, <1>2, <1>3, <1>4, <1>5, <1>6, <1>7 DEF Next

-----------------------------------------------------------------------------
(* What it says of the runs' properties.                                   *)

LEMMA InvTypes == IInv => TypeOK
<1> SUFFICES ASSUME IInv PROVE TypeOK
  OBVIOUS
<1>1. /\ phase \in {"build", "made", "optimize", "written", "stopped"}
      /\ (phase = "stopped") = (stop # "")
      /\ DOMAIN funcs \subseteq ToSet(FuncOrder)
      /\ \A f \in DOMAIN funcs : funcs[f] \in Seq(Statements)
      /\ funcs # << >> => Told(ProgramObjects(funcs) \cup {Nullptr}, b.objs)
  BY DEF IInv
<1> DEFINE objs == UNION {Objects(funcs[f]) : f \in DOMAIN funcs}
<1>2. (\A x \in objs : x.p \in 0..b.objs) /\ (\A x, y \in objs : x.p = y.p => x = y)
  <2>1. CASE funcs = << >>
    <3>1. objs = {}
      BY <2>1
    <3> HIDE DEF objs
    <3> QED BY <3>1
  <2>2. CASE funcs # << >>
    <3>1. objs = ProgramObjects(funcs)
      BY DEF ProgramObjects
    <3> HIDE DEF objs
    <3> QED BY <1>1, <2>2, <3>1 DEF Told
  <2> QED BY <2>1, <2>2
<1> HIDE DEF objs
<1>3. TypeOK <=> /\ phase \in {"build", "made", "optimize", "written", "stopped"}
                 /\ (phase = "stopped") = (stop # "")
                 /\ DOMAIN funcs \subseteq ToSet(FuncOrder)
                 /\ \A f \in DOMAIN funcs : funcs[f] \in Seq(Statements)
                 /\ (\A x \in objs : x.p \in 0..b.objs) /\ (\A x, y \in objs : x.p = y.p => x = y)
  BY DEF TypeOK, objs
<1> QED BY <1>1, <1>2, <1>3

\* Where code sets labels and jumps, in the words of the property.
LEMMA LabelsOf ==
    ASSUME NEW code, NEW x
    PROVE  /\ x \in JumpsTo(code) => x \in CodeAims(code)
           /\ x \in CodeSets(code) => \E i \in SetAt(code) : x = code[i].x
           /\ \A i \in SetAt(code) : /\ i \in DOMAIN code /\ code[i].x \in SetIn(code[i])
                                     /\ code[i].x \in CodeSets(code)
<1>1. ASSUME NEW j \in DOMAIN code, code[j].op = "Goto" PROVE code[j].x \in CodeAims(code)
  <2>1. AimIn(code[j]) = {code[j].x}
    BY <1>1 DEF AimIn
  <2> QED BY <2>1 DEF CodeAims
<1>2. ASSUME NEW j \in DOMAIN code, code[j].op = "BranchIf" PROVE code[j].z \in CodeAims(code)
  <2>1. AimIn(code[j]) = {code[j].z}
    BY <1>2 DEF AimIn
  <2> QED BY <2>1 DEF CodeAims
<1>3. x \in JumpsTo(code) => x \in CodeAims(code)
  <2> HIDE DEF CodeAims
  <2> QED BY <1>1, <1>2 DEF JumpsTo
<1>4. x \in CodeSets(code) => \E i \in SetAt(code) : x = code[i].x
  BY DEF CodeSets, SetIn, SetAt
<1>5. ASSUME NEW i \in SetAt(code)
      PROVE  /\ i \in DOMAIN code /\ code[i].x \in SetIn(code[i])
             /\ code[i].x \in CodeSets(code)
  <2>1. i \in DOMAIN code /\ SetIn(code[i]) = {code[i].x}
    BY <1>5 DEF SetAt, SetIn
  <2> QED BY <2>1 DEF CodeSets
<1> QED BY <1>3, <1>4, <1>5

LEMMA LabelName == ASSUME NEW x, NEW cnt, IsLabel(x, cnt) PROVE Name(x) = x.n
BY DEF IsLabel, Name, IsConst

LEMMA InvLabels == IInv => LabelsResolve
<1> SUFFICES ASSUME IInv, phase \in {"made", "optimize", "written"}, NEW f \in DOMAIN funcs
             PROVE  /\ \A x \in JumpsTo(funcs[f]) :
                          \E i \in SetAt(funcs[f]) : Name(funcs[f][i].x) = Name(x)
                    /\ \A g \in DOMAIN funcs :
                          \A i \in SetAt(funcs[f]), j \in SetAt(funcs[g]) :
                              Name(funcs[f][i].x) = Name(funcs[g][j].x) => f = g /\ i = j
  BY DEF LabelsResolve
<1>1. FuncLabels(funcs, b.cnt)
  BY DEF IInv
<1>2. /\ Among(CodeAims(funcs[f]), CodeSets(funcs[f])) /\ CodeOnce(funcs[f])
      /\ \A g \in DOMAIN funcs : g # f => Apart(CodeSets(funcs[f]), CodeSets(funcs[g]))
  BY <1>1 DEF FuncLabels
<1>3. \A g \in DOMAIN funcs : \A x \in CodeSets(funcs[g]) \cup CodeAims(funcs[g]) : Name(x) = x.n
  BY <1>1, LabelName DEF FuncLabels
<1> HIDE DEF CodeSets, CodeAims, SetIn
<1>4. ASSUME NEW x \in JumpsTo(funcs[f])
      PROVE  \E i \in SetAt(funcs[f]) : Name(funcs[f][i].x) = Name(x)
  <2>1. x \in CodeAims(funcs[f])
    BY LabelsOf
  <2>2. PICK y \in CodeSets(funcs[f]) : x.n = y.n
    BY <1>2, <2>1 DEF Among
  <2>3. PICK i \in SetAt(funcs[f]) : y = funcs[f][i].x
    BY LabelsOf
  <2> QED BY <1>3, <2>1, <2>2, <2>3
<1>5. ASSUME NEW g \in DOMAIN funcs, NEW i \in SetAt(funcs[f]), NEW j \in SetAt(funcs[g]),
             Name(funcs[f][i].x) = Name(funcs[g][j].x)
      PROVE  f = g /\ i = j
  <2> DEFINE x == funcs[f][i].x
             y == funcs[g][j].x
  <2>1. /\ x \in CodeSets(funcs[f]) /\ i \in DOMAIN funcs[f] /\ x \in SetIn(funcs[f][i])
        /\ y \in CodeSets(funcs[g]) /\ j \in DOMAIN funcs[g] /\ y \in SetIn(funcs[g][j])
    BY LabelsOf
  <2> HIDE DEF x, y
  <2>2. x.n = y.n
    BY <1>3, <1>5, <2>1 DEF x, y
  <2>3. f = g
    BY <1>2, <2>1, <2>2 DEF Apart
  <2>4. i = j
    BY <1>2, <2>1, <2>2, <2>3 DEF CodeOnce
  <2> QED BY <2>3, <2>4
<1> QED BY <1>4, <1>5

\* What holds of the builder, its stack of calls and the program throughout.
THEOREM SIRInvariant == Spec => []IInv
<1> QED BY InitInv, NextInv, PTL DEF Spec

\* The SIR is well typed, and an object has one name and one value wherever it
\* is used: for every set of programs, optimized or not (IRBuilder, IROptimizer).
THEOREM SIRTyped == Spec => []TypeOK
<1> QED BY SIRInvariant, InvTypes, PTL

\* Every jump leads to one place of its own function and no label is set in
\* two functions: for every set of programs and however loops, branches and
\* logical operators are nested in them (getTmpLabel and the methods that
\* place what it makes), and neither half of the optimizer changes that.
THEOREM LabelsAlwaysResolve == Spec => []LabelsResolve
<1> QED BY SIRInvariant, InvLabels, PTL

LEMMA EffectsOneFunction ==
    ASSUME NEW fs, NEW f, NEW q, EffectsIn(q) = EffectsIn(fs[f])
    PROVE  \A g \in DOMAIN fs : EffectsIn([fs EXCEPT ![f] = q][g]) = EffectsIn(fs[g])
<1> DEFINE gs == [fs EXCEPT ![f] = q]
<1>1. ASSUME NEW g \in DOMAIN fs PROVE gs[g] = IF g = f THEN q ELSE fs[g]
  OBVIOUS
<1> HIDE DEF gs
<1>2. ASSUME NEW g \in DOMAIN fs PROVE EffectsIn(gs[g]) = EffectsIn(fs[g])
  <2>1. CASE g = f
    BY <1>1, <2>1
  <2>2. CASE g # f
    BY <1>1, <2>2
  <2> QED BY <2>1, <2>2
<1> QED BY <1>2 DEF gs

LEMMA PropagateConstantsEffects ==
    ASSUME IInv, NEW f \in todo, PropagateConstants(f), NEW g \in DOMAIN funcs
    PROVE  EffectsIn(funcs'[g]) = EffectsIn(funcs[g])
<1> DEFINE code == funcs[f]
           w    == ConstantPropagate(code, b.objs)
<1>1. phase = "optimize" /\ funcs' = [funcs EXCEPT ![f] = w.code]
  BY DEF PropagateConstants
<1>2. code \in Seq(Statements) /\ b.objs \in Nat
  BY <1>1 DEF IInv, BuilderTyped
<1> HIDE DEF code
<1>3. Rewritten(code, w)
  BY <1>2, ConstantPropagateOK DEF PropagateOK
<1> HIDE DEF w
<1>4. EffectsIn(w.code) = EffectsIn(funcs[f])
  BY <1>2, <1>3, EffectsRewritten DEF code
<1> QED BY <1>1, <1>4, EffectsOneFunction

LEMMA RemoveUnusedEffects ==
    ASSUME IInv, NEW f \in todo, RemoveUnused(f), NEW g \in DOMAIN funcs
    PROVE  EffectsIn(funcs'[g]) = EffectsIn(funcs[g])
<1> DEFINE code == funcs[f]
           q    == RemoveUnusedStmts(code)
<1>1. phase = "optimize" /\ funcs' = [funcs EXCEPT ![f] = q]
  BY DEF RemoveUnused
<1>2. code \in Seq(Statements)
  BY DEF IInv
<1> HIDE DEF code
<1>3. EffectsIn(q) = EffectsIn(funcs[f])
  BY <1>2, RemoveUnusedOK, KeptIs DEF code
<1> HIDE DEF q
<1> QED BY <1>1, <1>3, EffectsOneFunction

\* The optimizer keeps what a function reads, writes, calls and returns, its
\* labels and its jumps, each as it is and where it is among the others: for
\* every set of programs, and for code with branches and loops as well, whose
\* dependences it reads as one straight line (IROptimizer::optimizeFunction).
THEOREM EffectsAlwaysKept == Spec => OptimizerKeepsEffects
<1>1. IInv /\ [Next]_vars =>
          [phase = "optimize" =>
              \A f \in DOMAIN funcs : EffectsIn(funcs'[f]) = EffectsIn(funcs[f])]_vars
  <2> SUFFICES ASSUME IInv, [Next]_vars, phase = "optimize", NEW g \in DOMAIN funcs
               PROVE  EffectsIn(funcs'[g]) = EffectsIn(funcs[g])
    OBVIOUS
  <2> HIDE DEF EffectsIn
  <2>1. CASE \E f \in todo : PropagateConstants(f) \/ RemoveUnused(f)
    BY <2>1, PropagateConstantsEffects, RemoveUnusedEffects
  <2>2. CASE WriteProgram
    BY <2>2 DEF WriteProgram
  <2>3. CASE UNCHANGED vars
    BY <2>3 DEF vars
  <2>4. CASE \/ RecParseAST \/ RecRegisterStmts \/ RecRegisterExprs \/ RecRegisterCondExpr
             \/ OperandDone \/ ArgumentDone \/ PartDone \/ BodyDone
             \/ MakeProgram \/ OptimizeProgram
    BY <2>4 DEF RecParseAST, RecRegisterStmts, RecRegisterExprs, RecRegisterCondExpr,
                OperandDone, ArgumentDone, PartDone, BodyDone, Doing, MakeProgram,
                OptimizeProgram
  <2> QED BY <2>1, <2>2, <2>3, <2>4 DEF Next
<1> QED BY <1>1, SIRInvariant, PTL DEF Spec, OptimizerKeepsEffects

LEMMA PropagateConstantsStops ==
    ASSUME IInv, NEW f \in todo, PropagateConstants(f)
    PROVE  \/ stop' # "" /\ \E s \in ToSet(funcs[f]) : RefusedFor(s, stop')
           \/ stop' = "" /\ \A s \in ToSet(funcs[f]), why \in Refusals : ~RefusedFor(s, why)
<1> DEFINE code == funcs[f]
           d == BuildDependency(code)
           n == Len(d.nodes)
           w == ConstantPropagate(code, b.objs)
<1>1. phase = "optimize" /\ stop' = w.stop
  BY DEF PropagateConstants, StopFor
<1>2. code \in Seq(Statements) /\ b.objs \in Nat
  BY <1>1 DEF IInv, BuilderTyped
<1>3. ToSet(code) = {code[i] : i \in 1..Len(code)}
  BY <1>2 DEF ToSet
<1> HIDE DEF code, w
<1>4. Judged(code, d, w, n)
  BY <1>2, ConstantPropagateOK DEF w
<1>5. Paired(code, d, Len(code))
  BY <1>2, BuildDependencyOK
<1> HIDE DEF d
<1>6. CASE w.stop # ""
  BY <1>1, <1>3, <1>4, <1>6 DEF Judged, code
<1>7. CASE w.stop = ""
  <2>1. ASSUME NEW i \in 1..Len(code), NEW why \in Refusals PROVE ~RefusedFor(code[i], why)
    <3>1. CASE code[i].op \in Arith
      <4>1. PICK m \in 1..n : d.nodes[m].s = i
        BY <3>1, <1>5 DEF Paired
      <4>2. i # 0
        OBVIOUS
      <4> QED BY <1>4, <1>7, <4>1, <4>2 DEF Judged
    <3>2. CASE code[i].op \notin Arith
      BY <3>2 DEF RefusedFor
    <3> QED BY <3>1, <3>2
  <2> QED BY <1>1, <1>3, <1>7, <2>1 DEF code
<1> QED BY <1>6, <1>7

\* The optimizer ends the compiler exactly for the functions that have a
\* statement it refuses: of two parents that every operator must have, a node
\* has one if and only if both operands are one object, however often its
\* variables are assigned (IROptimizer::constantPropagate).
THEOREM OptimizerStopsForCause == Spec => OptimizerStops
<1>1. IInv /\ [Next]_vars =>
          [\A f \in todo : PropagateConstants(f) =>
              \/ /\ stop' # ""
                 /\ \E s \in ToSet(funcs[f]) : RefusedFor(s, stop')
              \/ /\ stop' = ""
                 /\ \A s \in ToSet(funcs[f]), why \in Refusals : ~RefusedFor(s, why)]_vars
  <2> SUFFICES ASSUME IInv, NEW f \in todo, PropagateConstants(f)
               PROVE  \/ /\ stop' # ""
                         /\ \E s \in ToSet(funcs[f]) : RefusedFor(s, stop')
                      \/ /\ stop' = ""
                         /\ \A s \in ToSet(funcs[f]), why \in Refusals : ~RefusedFor(s, why)
    OBVIOUS
  <2> QED BY PropagateConstantsStops
<1> QED BY <1>1, SIRInvariant, PTL DEF Spec, OptimizerStops
=============================================================================
