---------------------------- MODULE MCCommandLine ----------------------------
(***************************************************************************)
(* The options of splc in every form, one that it does not know, and words *)
(* that are a file in one place and the value of an option in another.     *)
(***************************************************************************)
EXTENDS CommandLine

Option(dash, name)      == [dash |-> dash, name |-> name, eq |-> FALSE, opt |-> ""]
OptionIs(dash, name, v) == [dash |-> dash, name |-> name, eq |-> TRUE, opt |-> v]

MCArguments ==
    {Option("--", "help"), Option("-", "h"), Option("--", "h"),
     Option("--", "genasm"), OptionIs("-", "genasm", "x"),
     Option("--", "target"), Option("-", "target"),
     OptionIs("--", "target", "mips"), OptionIs("--", "target", "x"),
     Word("mips"), Word("default"), Word("a.c")}
=============================================================================
