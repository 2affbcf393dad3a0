--------------------------- MODULE MCDeclarations ---------------------------
(* Lists of all specifiers; declarators after one list of each sort: void, *)
(* int, the char that LLVM types leave out, no type, diagnosed, structure. *)
EXTENDS Declarations

AllTokens == BaseToks \cup Signs \cup {"void", "tag", "enum"}
SomeLists == {<<"void">>, <<"int">>, <<"unsigned", "char">>, <<"float">>,
              <<"short", "int">>, <<"struct">>}
=============================================================================
