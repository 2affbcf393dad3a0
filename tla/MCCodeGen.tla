----------------------------- MODULE MCCodeGen -----------------------------
(***************************************************************************)
(* Model values for model checking CodeGen.                                *)
(***************************************************************************)
EXTENDS CodeGen, TLC

CONSTANTS f, g, x

Symmetry == Permutations({f, g})
=============================================================================
