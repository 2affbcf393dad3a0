# SPLC in TLA+

Specifications of SPLC, a compiler for a subset of C (`src/modules/splc`, C++20,
with a flex scanner, a bison parser and LLVM for code generation), the TLC
configurations that model-check them, and proofs about them that the TLA+ proof
system checks. Paths below are relative to `src/modules/splc`, except those
that start with `src/`.

SPLC is sequential: there are no threads, no messages and nothing that survives
a run. What makes it hard is a handful of stacks that must stay in step, pushed
and popped by semantic actions and rules that live far from one another, whose
order the *program being compiled* decides; global tables that outlive what is
registered in them; and errors in the middle of all this, after which the
compiler carries on. So the environment in every module is the source text: the
rule that matches, the production that is reduced, the statement that comes
next is whatever TLC chooses. Where a part of the compiler computes
something, the module for it computes beside it what C says, and the property is
that the two agree up to differences that are named and counted.

## Inventory

| Component | Code | State it keeps | Operations |
| --- | --- | --- | --- |
| Driver, main program | `src/splc.cc`, `src/IO/Driver.cc` | options | read options, parse, generate, write, in that order |
| Preprocessor, lexer | `src/IO/Lexer.ll`, `src/IO/Scanner.cc` | flex's start conditions and buffers; text and locations collected so far | one rule per lexeme; open and close files, define and use macros |
| Translation contexts | `src/Translation/TranslationContextManager.cc` | stack of open files and macros; the macros | push, pop, register |
| Locations | `include/Core/Utils/Location.hh` | context, line, column | step, switch to a context |
| Scopes | `include/AST/ASTContextManager.hh` | stack of open scopes | push a new one, push an old one again, pop |
| Symbol table of a scope | `src/AST/ASTContext.cc` | a map and a list of the same entries; parents; children | register, look up |
| Semantic actions of the parser | `src/IO/Parser.yy` | bison's stack; the syntax tree | declarations, definitions, structures, blocks, loops |
| Types | `src/Basic/Type.cc`, `include/Basic/SPLCContext.hh` | uniqued types; names of structures | get or create, set a body, set a name |
| Types of syntax trees | `src/AST/ASTBaseType.cc`, `src/AST/DerivedAST.cc` | none (computed) | type from declaration specifiers |
| Code generation | `src/CodeGen/ObjBuilder.cc` | LLVM module; current function and block; frames of named values | functions, statements, expressions; verify, erase, write |
| Lowering of expressions | the same, `CG...Expr` | the C++ call stack | one method per form of expression |
| SIR | `src/SIR` | list of statements; dependency graph | lower, remove unused statements, propagate constants, print |
| Command line | `src/Core/Utils/CommandLineParser.cc`, `src/splc.cc` | option maps; files to write | take one argument; generate and write what was asked for |
| Logging, printing | `src/Core/Utils/Logging.cc`, `src/AST/ASTProcess.cc` | none | output only |

How they interact: the parser calls `yylex` of the scanner; the scanner asks the
translation context manager for macros and pushes contexts and flex buffers, and
asks the innermost scope for typedef names. The parser's actions push, pop and
register through `TranslationManager`, which passes to the stack of scopes. When
parsing is over, code generation walks the tree and reads the scopes the parser
attached to its nodes. The types in those scopes come from the same context that
made them when the declarations were reduced, so that they can be compared by
address. The SIR builder is another walk over the tree; `main` does not call it at
present (`src/splc.cc:134`), nor does `writeSIR` call the optimizer
(`src/splc.cc:73`). These are ordinary calls; the state that is shared is the
stack of scopes, `SPLCContext` and the macro table.

What makes the components correct:

* Scanner: what is read is the innermost open context; every start condition
  that is pushed is popped by what it was pushed for; flex's stack does not
  underflow; collected text goes to what it was collected for; a file is read
  to its end.
* Scopes and symbols: open scopes are those of the constructs being parsed; the
  scopes form a tree; map and list agree; a definition stays what it is; the
  parser stops only for an error it has reported; together, lexical scoping.
* Code generation: generation that reports success has produced everything the
  program refers to; a name means the innermost variable; branches follow the
  source; LLVM rejects a function only for something in the source.
* Expressions: the compiled expression has the value and the effects C gives it;
  a null value is used only after an error was logged; lowering ends.
* Types: equal types are one object; specifiers and declarators mean what they
  mean in C; the assertions of the constructors hold for what C allows.
* SIR: a program's SIR does what the program does in C; a jump has one target; the
  optimizer changes nothing that can be observed.
* Command line: the program does what its arguments say as a whole.

`PROJECT.json` lists the hazards these properties are for, each at its line.

## Modules

| Module | Models | Extends |
| --- | --- | --- |
| `SymbolTable` | `ASTContext`: the map and the list of one scope, lookup, registration | |
| `ScopeStack` | `ASTContextManager`: stack, parents, children of scopes | `SymbolTable` |
| `ParserScopes` | the semantic actions of `Parser.yy` that touch scopes | `ScopeStack` |
| `LexicalScoping` | abstract: what scopes promise | `SymbolTable` |
| `ParserScopesHistory` | `ParserScopes` and the types a function was declared with | `ParserScopes` |
| `CodeGen` | `ObjBuilder` down to basic blocks | |
| `CodeGenReach` | `CodeGen` and what the source says of control flow | `CodeGen` |
| `ExprCodeGen` | the `CG...Expr` methods of `ObjBuilder`, and C beside them | |
| `Scanner` | `Lexer.ll`, `Scanner`, `TranslationContextManager` | |
| `TypeContext` | `SPLCContext`, the constructors of `Type.cc` | |
| `Declarations` | types of specifiers and declarators, conversion to LLVM types | `TypeContext` |
| `SIR` | `IR.hh`, `IR.cc`: statements and their text | |
| `SIRBuilder` | `IRBuilder` | `SIR` |
| `SIROptimizer` | `IROptimizer` | `SIR` |
| `SIRCompiler` | the life of a SIR program: lower, optimize, write | `SIRBuilder`, `SIROptimizer` |
| `SIRMeaning` | external: C for source trees, a machine for printed SIR | `SIRBuilder` |
| `SIRProperties` | SIR against C, and the causes for which the compiler ends; for TLC alone | `SIRCompiler`, `SIRMeaning` |
| `CommandLine` | `CommandLineParser`, `splc.cc` | |
| `MC...` | model values and symmetry for TLC | the above |
| `ParserScopesProofs` | lemmas about `SymbolTable` and `ScopeStack`, theorems about `ParserScopes`, the refinement | `ParserScopes` |
| `CodeGenProofs`, `CodeGenReachProofs` | theorems about these two | `CodeGen`, `CodeGenProofs` |
| `ExprCodeGenProofs`, `ScannerProofs`, `DeclarationsProofs`, `CommandLineProofs`, `SIRCompilerProofs` | theorems about these | the module of that name |

**SymbolTable, ScopeStack, ParserScopes.** A scope is a number; `symbolMap` and
`symbolList` are its two containers, `parents` the copy of the stack it takes
when it is pushed, `children` what was pushed new on top of it; `contextStack` is
the stack. `constructs` stands for the part of bison's stack that decides which
reduction can come next. There is one action per semantic action, named for the
production (`BeginStruct`, `EndStruct`, `FuncProto`'s actions, `EndFuncDef`,
`EndCompStmt`, `ForLoopCtxBegin`, ...); a loop over declarators or parameters
takes one step each. `RegisterProto`, the end of `FuncProto`, pops the scope of
the parameters, registers the function around it, and pushes the *same* scope
again, in one step, as nothing comes between. Each of the two has the effects the
code gives it on the tree, which is none: unlike a new scope, one that is pushed again
(`PushAgain`, the other `pushContext`) keeps the depth and the parents it has and is not
adopted. That these still fit the stack it comes back to, and that it has one
parent, is what `ScopesNest` and `ScopeTree` say.
The end of the parser in an uncaught `SemanticError` is `status = "terminated"`,
a failed `splc_assert` is `"aborted"`. `diagnosed` holds what has been reported.

**LexicalScoping** is the abstract specification: a stack of kinds and a stack of
meanings; constructs open and close a frame, a declaration goes to the innermost
frame or to the one around it, and may only refine a meaning. `ParserScopes`
implements it under the mapping that reads `open` off `constructs` and `env` off
the scopes on the stack.

**CodeGen.** `constructs` stands for the C++ call stack of the `CG...` methods,
`blocks` for the basic blocks of every function, an instruction being told from
others only by being a terminator; `insert` is the insertion point, `varCtxStack`
the frames of named values. `EndFuncDef` adds the implicit return, verifies and
erases as `CGFuncDef` does. `CodeGenReach` adds history variables that say, by
the rules of C, whether the next statement can be reached; they are what
`InsertPointFollowsSource` and `RejectionHasReason` compare the blocks with.

**Scanner.** `contextStack`, `buffers` and `startStack` are the three stacks;
`strVec` and `hasLoc` the collected text and whether `locVec` is empty;
`macroVarMap` the macros. An action is a rule of `Lexer.ll` with the C++ it
calls. The start conditions are declared with `%s`, so the rules that open
comments hold in every one of them, and the model has that. flex is modelled as
its generated C++ scanner behaves: popping an empty stack stops the program, and
when `yywrap` says there is more without having switched buffers, flex goes on
with the same stream, which is at its end (`spent`).

**ExprCodeGen.** The code of an expression has no branches, so that emitting an
instruction can be modelled by executing it: `omem` and `oout` are the variables
and the calls of the compiled function, `smem` and `sout` what C says of the same
expression. `frames` is the C++ call stack of the methods that wait for an
operand. Ints have `W` bits and chars `B`, so that a narrow store, a logical
shift and an `i1` read as -1 show. What is left of the differences is in `odd`,
`rejected`, `logged` and `sUndef`, set in the action where it arises. How LLVM's
constant folder and its verifier treat operands of two widths is external
(`Rejection`, `Stored`).

**TypeContext, Declarations.** A type is its position in the order of allocation,
`ctx` the four maps of `SPLCContext` and its types. A constructor is an operator that gives the
context after the call, with its assertion as an operator of its own
(`ValidPointee`, ...). `Declarations` takes one step per specifier and per level
of a declarator; `decl.term` is the type C gives, written out, and is `NoTerm`
for what C does not allow.

**SIR...** The `rec...` methods of `IRBuilder` call each other; `work` is the stack
of their calls, innermost first, each entry with the locals its method needs when
the call it waits for returns. An operator of `SIRBuilder` is one method up to its
next call, an action of `SIRCompiler` takes one such step, and each half of
`optimizeFunction` is one action more. The tests for an assertion stand where the
code has them, and `stop` names the one that ended the compiler.
Objects have addresses (`p`) and names (`n`): the optimizer compares addresses,
the text has names only, and two of the differences come from that. The trees are those
the builder is written for: it expects a function definition of three children,
which today's grammar no longer makes. `CMain` and `RunText` give programs and
texts a meaning; neither is code of the repository.

**CommandLine.** One step per argument. An argument is split where `parseArgs`
splits it. The rest of `main` follows, with the files it writes.

## What the runs show

| Run | Shows | Bounds |
| --- | --- | --- |
| `scopes_blocks` | without `for` and broken blocks: scopes match constructs, the unit's scope is the root, a `SemanticError` escapes only after its reason was reported, function definitions end up defined in the file scope, lexical scoping is implemented | 2 names, 2 function types, 5 scopes, 5 declarations |
| `scopes_any` | with `for` and broken blocks: scopes nest and form a tree, containers agree, definitions stay, the test for an earlier definition in `FuncProto` never finds one | the same, 4 declarations |
| `codegen_module` | success means the module is complete; names resolve | 2 functions, 1 variable, 5 statements, depth 5 |
| `codegen_flow` | branches follow the source; every rejection by LLVM has a reason in the source | 1 function, 7 statements, depth 6 |
| `scanner` | contexts, buffers and start conditions stay in step up to the first end of a stream; underflow and mislocated tokens only where explained; nothing collected is left over in INITIAL; the assertion in `#define` holds | 2 macros, 1 text, 5 contexts, 6 start conditions, 2 pieces of text |
| `expressions` | compiled expressions agree with C up to eight named differences; every null pointer used and every rejection by LLVM has a named cause; lowering ends | ints of 3 bits, chars of 2, 1 variable; literals 2 and 5, characters 1 and -1; all expressions of two operators and those of three from `CoreOps` |
| `types` | the verdict on specifiers is that of C, with named exceptions; declarators mean what C says; equal types are one object; names of structures are right; the compiler ends at a declaration C allows only for named reasons | all lists of 3 specifiers; all declarators after 6 lists, 3 derived types, 1 parameter or member |
| `sir` | SIR does what the program does in C, with four named exceptions; jumps resolve; the compiler ends for named reasons; each pass of the optimizer preserves results, with two named exceptions | programs of two functions, three varied statements, two inputs |
| `command_line` | what is written, reported and returned is what the command line asks for | 12 forms of argument, 4 arguments |

The named exceptions are not allowances made in advance: each is there because
TLC found a program for it, and each is wide enough only for its own case. But an
exception is not a check: where the outcome of a hazard is itself the exception,
the property bounds the hazard and does not catch it. It says that the outcome
comes about there and nowhere else, and would catch the same outcome anywhere
else. The hazards in `PROJECT.json` that are covered in this way have a note that
names the exception.

* `expressions` (`odd`): a char or comparison narrower than an int, a prefix
  step that never stores, an operand of `&&` or `||` that C skips, operands of
  two widths, `>>` on a negative value, a `select` between widths, a store of a
  narrow value, a literal that no int holds. LLVM rejects every prefix `++` on an int, and every logical
  operator on ints.
* `types`: a single `float` or `double` gives no type at all; `unsigned
  unsigned` and `void int` are let through, `short int` is diagnosed. These end the
  compiler with nothing reported, or with an error reported just before: `void *`;
  `f(void)` and a parameter of function type; an abstract declarator; an enumeration; an unnamed bit-field
  (`DerivedAST.cc:317`); a size of an array that is not one unsigned literal, such as
  `int a[1 + 1]` (`DerivedAST.cc:395`, then `getConstVal` of a node that has no
  value, in a `noexcept` method); a char when code is generated; a structure tag
  used again, although `test_2_s26.out:1` expects a diagnostic.
* `sir` builder: a condition that is no test, a comma expression among them, emits no
  jump (`SkipsTest`), a test
  whose value is wanted is lowered twice (`LoweredTwice`), a char constant is printed
  as nothing (`NoText`), a variable may be named as a temporary is (`NameClash`).
* `sir` optimizer: copies in a function that assigns a name twice, and the
  removal of statements in one that also has labels (`AssignedTwice`, `HasLabels`).

Three more runs end in a violation, on purpose: each checks one statement of the
repository that the code does not live up to.

| Run | Statement | What happens |
| --- | --- | --- |
| `scopes_conflict` | a definition that disagrees with a declaration is reported (`Parser.yy:619`) | `FuncProto` overwrites the declaration before `FuncDef` compares |
| `codegen_write` | writing is skipped when generation has failed (`ObjBuilder.cc:1739`) | the condition joins the two reasons with `&&` |
| `scanner_macro` | substitution of macro variables is done (`src/README.md:24`) | the stream of the macro's content is dropped; its context has none |

The models have the following as well, met by the properties above as exceptions
or reasons and not checked by a run of their own: a `for` loop leaves its scope
open (`Parser.yy:851`; `scopes_blocks` has no `for`); a loop body that ends in
`return` gets a second terminator (`ObjBuilder.cc:1339`; a reason in
`codegen_flow`); the rest of an including file is never read (`Scanner.cc:13`; in
`scanner` a stream that has ended is `spent`); help says `--h` and the parser of options wants
`-h` (`CommandLineParser.cc:20`); only the first file is compiled, and `main`
succeeds when LLVM lacks the target.

Why the bounds are enough. A scope goes wrong between a construct and the one
around it, and a symbol between two registrations of a name: five scopes give a
unit, a function, its block and two more constructs inside; two names give
the function and something that clashes with it. For code generation, the block
that an `if` or `while` ends in differs from the one it began in as soon as there
is one more construct in it; seven statements and a depth of six nest `if` and
`while` in each other in every order with a `return` at every place. An include
inside an include with a comment inside is six start conditions. Two macros tell
the one being defined from the one that is there. Three bits are the fewest that tell a char from an int, both from
a comparison, and a negative number from its logical shift; 5 is a literal that three bits hold but no int of three bits does; two operators put
every form of expression in every operand of every other, three show a result
passing through one. Three derived types are a pointer to a function that
returns a pointer. In `MCSIR`, every condition meets every statement that has one and
every expression every place for a value, alone and between two statements, in
either order, that read or write the same variables; constants are small, so that no result overflows, and
a program C leaves undefined, or that runs too long, is not compared. Four
arguments are a file, an option, its value and one more before, between or after.
Symmetry is used only for names
and function types, between which no module distinguishes; no run with symmetry
checks liveness.

`CHECK_DEADLOCK` is on in the runs of scopes, code generation and the scanner:
`Finished` in `ParserScopes` and `CodeGen` and `Stopped` in `Scanner` are the only
steps of a compiler that has ended, and where a counter's bound stops one action
another is possible. It is off in the others, where the program really ends:
expressions and declarations up to the bound, a written program, the exit of
`main`.

**Fairness.** One property needs it: `LoweringEnds`, under weak fairness of
`Lower`, the steps of a `CG...` method. The builder is sequential code, and a method that
was called runs on until it returns; there is no scheduler that might leave it
out. `Begin`, the next statement, is the program's choice and is not fair. No
other module assumes any: a compiler that stops reading its input has only been
interrupted, and the properties say what is never wrong, not that the input ends.

## What is proved

Every property of the passing runs is proved for all values of the constants, so
for any number of names, scopes, functions, statements, arguments, types, macros,
any nesting and any width of int and char, except four: `BuilderAgrees`,
`StopExplained` and `OptimizerAgrees` of `SIRProperties`, and `LoweringEnds`.

* `ParserScopesProofs`: registration keeps the map and the list of a scope in
  agreement (`RegisterKeepsAgreement`), and what pushing, popping and pushing
  again do to the stack, the parents and the types. `TypeOK`, `ScopesNest`, `MapListAgree` and
  `EntriesOnlyGetDefined` hold, whatever the program; with
  `ForLoops = SyntaxErrors = FALSE` so do `ScopesMatchConstructs` and
  `UnitScopeIsRoot`. The inductive invariant is `Skeleton`: types, and a stack
  of scopes that is never shorter than the stack of constructs. The second half is
  what makes the first inductive: without it a pop in the code, which looks at
  no bounds, might leave the type. With it each construct still has a scope, even
  when `for` loops have left some over.
  The second part of the module needs the order of the constructs: whatever the
  program, `ScopeTree` and `ProtoTestFindsNothing`; without `for` loops and broken
  blocks `TerminationExplained`, `FuncDefDefines` and the refinement
  `ImplementsScoping`, the initial states and each action in turn. What has to
  be known besides `Skeleton` is that scopes not created yet are empty and nobody
  refers to them (`FreshScopes`), so that a new scope changes no meaning, and
  which construct can be inside which.
* `CodeGenProofs`: `TypeOK`, `ModuleComplete` and `NamesResolve`. The invariant is
  `Sound` (the insertion point and every branch target exist in the current
  function, and frames and constructs have their shape) and, on top of it,
  `Progress` (every function of the symbol table is in the module while generation
  succeeds; a defined function is either still to come, the current one, or
  verified), which `ModuleComplete` needs because it speaks of the end only.
  `NamesResolve` needs `FramesFollowConstructs`: each frame is that of the
  construct that pushed it, and constructs without a frame have none between.
* `CodeGenReachProofs`: the history variables of `CodeGenReach` forbid no
  behaviour of `CodeGen` (`HistoryOnlyAdds`), so that `ModuleComplete` carries
  over; `InsertPointFollowsSource` and `RejectionHasReason`. A block says nothing
  of the `if` or `while` that will jump to it, so the invariant `Flowing` looks
  ahead. For every open construct it has the blocks that are still to be placed,
  each of which belongs to one construct and is empty so far (`Layout`,
  `NoStrayCode`), and whether control comes to them by the rules of C
  (`FlowFollows`). Of `ReachableFrom` the proof uses that it is the least closed
  set that contains the entry, which is established over its rounds.
* `ExprCodeGenProofs`: `TypeOK`, `AgreesWithC`, `CrashExplained` and
  `RejectionExplained`, for every `W` and `B` with `1 < B < W`, every expression
  and any number of them; of the behaviours of `Spec`, so of `FairSpec` too, which
  is what the run takes. Three invariants. `Typed` says that what a dispatch returns fits its
  type and that the stack of methods is one. `Explained` says that every value
  that is not an int, returned or waiting in a frame, has its reason in `used` or
  `logged`; without it neither a crash nor a rejection has a cause to name.
  `Agreement` says that as long as none of the differences was met the two
  memories are one and every value, returned or waiting, stands for what C says it is
  (`Agrees`: an i8 by its sign extension, an i1 by its bit). Below them is the
  arithmetic: that unsigned instructions compute what C says on signed ints
  (`ArithAgrees`, numbers modulo a power of two), and that the bitwise
  operators commute with sign extension (`BitwiseExtended`, by induction on the
  width), which is why a bitwise operator on two chars needs no exception.
* `ScannerProofs`: all the properties of the run `scanner`. The invariant says
  what may lie on what on flex's stack (comments on anything, the INITIAL of a
  file on the name of that file, the rest on INITIAL) and that nothing but comments
  lies on what is neither INITIAL nor a file name. From the first follows what
  the double pop at the end of a line leaves, and that there is one INITIAL per
  buffer; from the second, that a macro is not registered by anyone else between
  its name and its line end, and that collected text belongs to what is
  innermost, so that none is left in INITIAL. An unterminated name in an included
  file pops the INITIAL of that file as well and may leave the scanner in the file name
  that included it, with its text: what is collected there next is added to it,
  and no theorem says otherwise.
* `DeclarationsProofs`: all the properties of the run `types`, from three
  invariants. `Typed` says that the context is `Sound`: a type is found in the map
  of its kind under the key its parts make and a key leads to such a type, the
  serial numbers of structures differ, and a type is made of types made before
  it. So two types of the same parts are one, and, down the parts, two types that mean
  the same. `Listed` says what the counts of the specifiers can be in a list that
  was not diagnosed, and what may be said against one that was. `Meant` says that a
  type is what C makes of the declarator so far when no part was lost, for the
  declaration at hand, its parameters and the members that wait, and that a
  declaration without a type is one that C forbids, or has a float, a double
  or a tag, or a parameter without a type. Types only grow: what one means never changes (`StructureStays`), so that
  `Meant` outlives the types made after.
* `CommandLineProofs`: `CommandHonoured`. The invariant `Heard` says, of the
  arguments before `i`, which are values of others, which files and options
  were taken, and whether an error was reported, in the terms in which
  `CommandHonoured` speaks of the command line as a whole.
* `SIRCompilerProofs`: `TypeOK` and `LabelsResolve`, for every set of programs,
  and two action properties that no run checks, `OptimizerKeepsEffects` and
  `OptimizerStops`. While a function is
  lowered a jump may lead to a label that no code sets yet, and a label may be
  set twice as far as the code shows, because the call that is to do it, or to do
  it again, has not been made. The invariant `IInv` therefore
  takes the code and the stack of calls together (`CurrentLabels`): each label
  is set once by one of the two, whatever either jumps to is set by one of the
  two, and neither sets a label of a function that is complete. Beside it stands
  what makes an object known by its address (`Told`): whatever the builder can
  still reach (`Held`: its result, its maps, the locals of the calls, the code of
  every function) has an address counted already and is one object per address, so
  that the next one made is new. `Steps` and `LabelMoves` say this of one step of a
  method, which is how each method is proved on its own; `StepKeeps` is the
  lemma that puts them together. For the optimizer it must be known that a
  statement it changes has one node (`DepOK`): the constant made for it is then
  new. Both halves change and remove nothing but assignments and
  arithmetic (`Rewritten`, `Keeps`), which neither set labels nor jump;
  `OptimizerKeepsEffects` says this of the program: what a function
  reads, writes, calls and returns, its labels and jumps are left as they are
  and in their order, even where a branch makes the optimizer's idea of a
  dependence wrong. `OptimizerStops` says when `constantPropagate` ends the
  compiler: at a function that has an operator with one object on both sides
  (the assertion of two parents, `IROptimizer.cc:292`), or with two constants
  that it cannot be computed for, and at no other. It needs that each operator
  has a node, with two parents unless both operands lead to one (`Paired`), and
  that an operator is as it was when its turn comes, though expressions are
  copied over assignments all the while (`Judged`). It is the optimizer's half
  of `StopExplained`, in terms of the statements instead of the source.

The assumptions are the named ones of the modules: bounds are natural numbers,
the switches are Booleans, the values that stand for nothing are no names,
an argument splits into what `parseArgs` can make of one (`ArgumentsAreSplit`), and the
tokens of `Declarations` are specifiers of the grammar (`TokensAreSpecifiers`).
`TreesAssumption` says what the parser makes (subtrees are trees of the
program, a loop or branch has a condition and its parts, `write` an argument, a
constant one value at most) and `UnitsAssumption` that `FuncOrder` has the
functions of every program. No proof uses more, except the theorems above that
name the switches.

Many definitions are recursive functions: `ReachableFrom`, `IsValue`,
`Structure` and `Contained` over data, `Pow2` and `Bitwise` over the width, the
passes of the optimizer over statements and nodes. What
they compute is proved without a rule of induction, which would take a predicate
as its parameter: the set of numbers for which the claim fails has, if it is not
empty, a least one (`LeastNatural` and `SetInduction`, from
`WellFoundedInduction`), and there the definition gives the contradiction. The
same shows that the function exists, which the definition takes from a `CHOOSE`.

Model-checked only: `BuilderAgrees` and `OptimizerAgrees` compare two
interpreters on one program and hold by induction over its tree or its run;
`StopExplained` is about all subtrees of a program (`OptimizerStops` is proved for its
statements). `SIRMeaning` and
`SIRProperties` have recursive operators over trees, and a module that reaches
one loses the prover that knows arithmetic. Liveness and ENABLED are out of
this prover's reach as well: `LoweringEnds` stays with TLC.

## What is not modelled

* Undefined behaviour that leaves no state to speak of: productions of
  `Parser.yy` that build no node and let the next action dereference an unset
  value (`Parser.yy:692`); a parameter without a name in a definition
  (`Parser.yy:644`); the AllocaInst of a parameter of a `void` function, which
  allocates a void (`ObjBuilder.cc:1497`). The models do not take these steps. Where undefined behaviour can be given an outcome it
  is: a null stream, an empty `locVec`, a null `llvm::Value` and the null string
  after the last argument are `phase = "crashed"`,
  and the uninitialized `internalFlag` starts with either value.
* Text: names, file names, macros and strings are values; lines and columns,
  keywords and escape sequences are left out. Only the context of a location
  matters to a property.
* Expressions in `CodeGen`: an expression is an instruction there; `ExprCodeGen`
  has the expressions, and statements only as far as they use the value of one.
  Floating point takes the same paths with the other instruction of each pair.
* Parts of declarations that change no type: storage classes and qualifiers,
  initializers and designators. `...` in a parameter list, which the code drops
  (`FunctionType::get` is always asked for a function without it). The type in an
  abstract declarator and the enumerators of an enumeration: the model ends where
  the code does, before it computes them.
* Types of expressions: nothing computes them. `isSized` and its like, which
  nothing calls.
* SIR: `Alloc`, `AddrOf`, `Deref` and `CopyToAddr`, which nothing creates.
* Logging and printing: output only. `IRBuilder` for unary operators other than
  minus, `writeModuleAsFile` below its guard, LLVM's passes: external.
* `unregisterSymbol`, `setDepth`, `unregisterMacroVarContext`,
  `isContextPresent`: nothing calls them.

## Plan

In order. The first eight are done.

1. Scopes and symbols: `SymbolTable`, `ScopeStack`, `ParserScopes`, the abstract
   `LexicalScoping`; runs `scopes_*`; proofs of everything that does not need the
   shape of the constructs.
2. Code generation: `CodeGen`, `CodeGenReach`; runs `codegen_*`; proofs of
   `ModuleComplete`.
3. Scanner: `Scanner`; runs `scanner*`; proofs.
4. Lowering of expressions: `ExprCodeGen`; run `expressions`.
5. Types: `TypeContext`, `Declarations`; run `types`.
6. SIR: `SIRBuilder`, `SIROptimizer`, `SIRCompiler`, `SIRProperties`; run `sir`.
7. The command line and the main program: `CommandLine`; run `command_line`.
8. Proofs of all of these.
9. Left: a theorem for the builder's half of `StopExplained`, with subtrees as a
   least closed set instead of a recursive operator, and for `OptimizerAgrees` on code without
   branches, by a simulation between the two runs.
