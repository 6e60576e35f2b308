-------------------------- MODULE MCAdGuardClient --------------------------
(***************************************************************************)
(* Small instances of AdGuardClient.                                       *)
(***************************************************************************)
EXTENDS AdGuardClient, TLC

Symmetry == Permutations(Name) \cup Permutations(Id)
=============================================================================
