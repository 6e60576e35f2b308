------------------------------ MODULE MCRename ------------------------------
(***************************************************************************)
(* Small instances of Rename: two children, two devices, a spare name.     *)
(***************************************************************************)
EXTENDS Rename, TLC

Symmetry == Permutations(Device) \cup Permutations(Name) \cup Permutations(Child)
=============================================================================
