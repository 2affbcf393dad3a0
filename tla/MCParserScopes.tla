--------------------------- MODULE MCParserScopes --------------------------
(***************************************************************************)
(* Model values and bounds for model checking ParserScopes.                *)
(***************************************************************************)
EXTENDS ParserScopes, TLC

CONSTANTS x, f, ft1, ft2

Symmetry == Permutations({x, f}) \cup Permutations({ft1, ft2})
=============================================================================
