----------------------------- MODULE MCScanner -----------------------------
(***************************************************************************)
(* Model values for model checking Scanner.                                *)
(***************************************************************************)
EXTENDS Scanner, TLC

CONSTANTS m, k, t

Symmetry == Permutations({m, k})
=============================================================================
