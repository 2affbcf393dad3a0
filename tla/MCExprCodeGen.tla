--------------------------- MODULE MCExprCodeGen ---------------------------
(***************************************************************************)
(* An int of three bits, a char of two, one variable.                      *)
(***************************************************************************)
EXTENDS ExprCodeGen
CONSTANTS x, g

\* A character of the basic set, and one with the sign bit.
SomeChars == {1, -1}
=============================================================================
