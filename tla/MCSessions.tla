----------------------------- MODULE MCSessions -----------------------------
(***************************************************************************)
(* Small instances of Sessions: two parents, two requests at once.         *)
(***************************************************************************)
EXTENDS Sessions, TLC

Symmetry == Permutations(Request)
=============================================================================
