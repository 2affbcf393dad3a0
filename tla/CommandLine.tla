----------------------------- MODULE CommandLine -----------------------------
(***************************************************************************)
(* From the command line to the files written: CommandLineParser and the   *)
(* main program (Core/Utils/CommandLineParser.cc, splc.cc).                *)
(*                                                                         *)
(* An argument is split where parseArgs splits it: [dash, name, eq, opt],  *)
(* for "--target=mips" <<"--", "target", TRUE, "mips">>.  The string after *)
(* the last argument is the null pointer that argv ends with.              *)
(***************************************************************************)
EXTENDS Integers, Sequences, SequencesExt, FiniteSets

CONSTANTS
    Arguments,   \* the arguments a command line is made of
    MaxArgs      \* bound: arguments on one command line

\* What splitting an argument gives.
ASSUME ArgumentsAreSplit ==
    Arguments \subseteq [dash : STRING, name : STRING, eq : BOOLEAN, opt : STRING]
ASSUME MaxArgsIsNat == MaxArgs \in Nat

NoOption   == 0
WithOption == 1

\* addPositionalArg, in the parseArgs of splc.cc
regArgMap == [genasm |-> NoOption, target |-> WithOption]

VARIABLES
    argv,        \* the arguments after the name of the program
    i,           \* the next one to look at
    parsedHelp,  \* --help or -h was met
    argMap,      \* the values given to each option, in order
    dirArg,      \* the other arguments
    errors,      \* a message about the command line was logged
    asm, mips,   \* writeAssembly, writeMIPSTarget
    root,        \* the parser made a tree
    written,     \* the files written: <<source, kind, content>>
    phase        \* "parse", "options", "main", "compile", "write", or the
                 \* end: "success", "failure", "crashed"

options == <<argMap, dirArg>>
chosen  == <<asm, mips>>
vars    == <<argv, i, parsedHelp, options, errors, chosen, root, written, phase>>

Init ==
    /\ argv \in BoundedSeq(Arguments, MaxArgs)
    /\ i = 1
    /\ parsedHelp = FALSE
    /\ argMap = [n \in DOMAIN regArgMap |-> << >>]
    /\ dirArg = << >>
    /\ errors = FALSE
    /\ asm = FALSE /\ mips = FALSE
    /\ root = FALSE
    /\ written = << >>
    /\ phase = "parse"

-----------------------------------------------------------------------------
(* CommandLineParser::parseArgs, one turn of its loop.                     *)

arg == argv[i]
IsHelp(a) == /\ ~a.eq
             /\ <<a.dash, a.name>> \in {<<"--", "help">>, <<"-", "h">>}
IsRegistered(a) == a.dash # "" /\ ~IsHelp(a) /\ a.name \in DOMAIN regArgMap

Scanning == phase = "parse" /\ i <= Len(argv)
OnlyArguments == UNCHANGED <<argv, chosen, root, written>>

TakeHelp ==
    /\ Scanning /\ IsHelp(arg)
    /\ parsedHelp' = TRUE
    /\ i' = i + 1
    /\ OnlyArguments /\ UNCHANGED <<options, errors, phase>>

TakeDirect ==
    /\ Scanning /\ arg.dash = ""
    /\ dirArg' = Append(dirArg, arg)
    /\ i' = i + 1
    /\ OnlyArguments /\ UNCHANGED <<parsedHelp, argMap, errors, phase>>

\* Not registered, or a value for an option that takes none.
Reject ==
    /\ Scanning /\ arg.dash # "" /\ ~IsHelp(arg)
    /\ IsRegistered(arg) => arg.eq /\ regArgMap[arg.name] = NoOption
    /\ errors' = TRUE
    /\ i' = i + 1
    /\ OnlyArguments /\ UNCHANGED <<parsedHelp, options, phase>>

PushOption(n, value) == argMap' = [argMap EXCEPT ![n] = Append(@, value)]

Word(w) == [dash |-> "", name |-> w, eq |-> FALSE, opt |-> ""]

TakeFlag ==
    /\ Scanning /\ IsRegistered(arg) /\ ~arg.eq
    /\ regArgMap[arg.name] = NoOption
    /\ PushOption(arg.name, Word(""))
    /\ i' = i + 1
    /\ OnlyArguments /\ UNCHANGED <<parsedHelp, dirArg, errors, phase>>

TakeAssigned ==
    /\ Scanning /\ IsRegistered(arg) /\ arg.eq
    /\ regArgMap[arg.name] = WithOption
    /\ PushOption(arg.name, Word(arg.opt))
    /\ i' = i + 1
    /\ OnlyArguments /\ UNCHANGED <<parsedHelp, dirArg, errors, phase>>

\* The next argument is the value, whatever it looks like.  The test for its
\* absence is i >= argc, which the loop has excluded: after the last argument a
\* string is made of the null pointer.
Consumed_One(k) == k + 1
Consumed(k) == k + 2
TakeNext ==
    /\ Scanning /\ IsRegistered(arg) /\ ~arg.eq
    /\ regArgMap[arg.name] = WithOption
    /\ IF i = Len(argv)
       THEN phase' = "crashed" /\ UNCHANGED argMap
       ELSE PushOption(arg.name, argv[i + 1]) /\ UNCHANGED phase
    /\ i' = Consumed(i)
    /\ OnlyArguments /\ UNCHANGED <<parsedHelp, dirArg, errors>>

-----------------------------------------------------------------------------
(* splc.cc                                                                 *)

\* parseArgs: of several targets the first counts, and one that is unknown is
\* an error the compiler goes on after.
ReadOptions ==
    /\ phase = "parse" /\ i > Len(argv)
    /\ asm' = (argMap["genasm"] # << >>)
    /\ LET targets == argMap["target"]
       IN  /\ mips' = (targets # << >> /\ targets[1] = Word("mips"))
           /\ errors' = (errors \/ (targets # << >> /\
                   targets[1] \notin {Word("mips"), Word("default")}))
    /\ phase' = "main"
    /\ UNCHANGED <<argv, i, parsedHelp, options, root, written>>

ExitEarly ==
    /\ phase = "main" /\ (parsedHelp \/ dirArg = << >>)
    /\ phase' = IF parsedHelp THEN "success" ELSE "failure"
    /\ UNCHANGED <<argv, i, parsedHelp, options, errors, chosen, root, written>>

\* driver.parse of the first file.  A file with syntax errors has no tree.
Parse ==
    /\ phase = "main" /\ ~parsedHelp /\ dirArg # << >>
    /\ root' \in BOOLEAN
    /\ phase' = "compile"
    /\ UNCHANGED <<argv, i, parsedHelp, options, errors, chosen, written>>

\* testObjBuilder begins: the .ll file is opened, and so emptied, before there
\* is anything to put in it.  Without a tree the compiler dies here.  (What else
\* can end it is in ParserScopes, Declarations, CodeGen and ExprCodeGen.)
GenerateModule ==
    /\ phase = "compile"
    /\ written' = <<<<dirArg[1], "ll", IF root THEN "module" ELSE "empty">>>>
    /\ phase' = IF root THEN "write" ELSE "crashed"
    /\ UNCHANGED <<argv, i, parsedHelp, options, errors, chosen, root>>

\* writeModuleAsAsm or writeModuleAsObj.  LLVM may lack the target: the error
\* is logged, and main succeeds all the same.
WriteModule ==
    /\ phase = "write"
    /\ \E supported \in BOOLEAN :
          written' = IF supported
                     THEN Append(written, <<dirArg[1], IF asm THEN "asm" ELSE "o",
                                            IF mips THEN "mips" ELSE "host">>)
                     ELSE written
    /\ phase' = "success"
    /\ UNCHANGED <<argv, i, parsedHelp, options, errors, chosen, root>>

Next ==
    \/ TakeHelp \/ TakeDirect \/ Reject \/ TakeFlag \/ TakeAssigned \/ TakeNext
    \/ ReadOptions \/ ExitEarly \/ Parse \/ GenerateModule \/ WriteModule

Spec == Init /\ [][Next]_vars

-----------------------------------------------------------------------------
(* What a command line asks for, read as a whole.                          *)

TakesNext(a) == a.dash # "" /\ a.name = "target" /\ ~a.eq

\* The arguments that are the value of the one before them.
IsValue ==
    LET value[k \in 1..Len(argv)] ==
            k > 1 /\ TakesNext(argv[k - 1]) /\ ~value[k - 1]
    IN  value
Own == {k \in DOMAIN argv : ~IsValue[k]}

AsksHelp   == \E k \in Own : IsHelp(argv[k])
AsksAsm    == \E k \in Own : argv[k].dash # "" /\ argv[k].name = "genasm"
                             /\ ~argv[k].eq
Files      == {k \in Own : argv[k].dash = ""}
Targets    == {k \in Own : argv[k].dash # "" /\ argv[k].name = "target"}
First(set) == CHOOSE k \in set : \A j \in set : k <= j
AskedTarget ==
    LET k == First(Targets)
        v == argv[k + 1]
    IN  IF argv[k].eq THEN argv[k].opt ELSE IF v = Word(v.name) THEN v.name ELSE "?"
AsksMips == Targets # {} /\ AskedTarget = "mips"
Misread ==
    \/ \E k \in Own : /\ argv[k].dash # "" /\ ~IsHelp(argv[k])
                      /\ \/ argv[k].name \notin {"genasm", "target"}
                         \/ argv[k].name = "genasm" /\ argv[k].eq
    \/ Targets # {} /\ AskedTarget \notin {"mips", "default"}
LacksValue == \E k \in Own : k = Len(argv) /\ TakesNext(argv[k])

\* The program does what the command line asks for: help alone, failure without
\* a file, or else the first file compiled for the first target.  It dies only of
\* an option without its value or a file without a tree, writes nothing when it
\* was asked for help, and reports what it did not understand
\* (CommandLineParser::parseArgs, main).
CommandHonoured ==
    /\ phase = "crashed" => LacksValue \/ (~root /\ ~AsksHelp /\ Files # {})
    /\ phase = "failure" => ~AsksHelp /\ Files = {} /\ written = << >>
    /\ phase \in {"success", "failure"} => errors = Misread
    /\ phase = "success" =>
          /\ ~LacksValue
          /\ IF AsksHelp THEN written = << >>
             ELSE /\ Files # {} /\ root
                  /\ LET file == argv[First(Files)]
                     IN  /\ Head(written) = <<file, "ll", "module">>
                         /\ ToSet(Tail(written)) \subseteq
                              {<<file, IF AsksAsm THEN "asm" ELSE "o",
                                 IF AsksMips THEN "mips" ELSE "host">>}
=============================================================================
