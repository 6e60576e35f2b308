---------------------------- MODULE MCHousehold ----------------------------
(***************************************************************************)
(* Small instances of Household: two devices, two children, one service.   *)
(***************************************************************************)
EXTENDS Household, TLC

Symmetry == Permutations(Client) \cup Permutations(Name)

\* The global list starts full; a parent may empty it.
FullListInit == Init /\ globalList = Service

FullListSpec == FullListInit /\ [][Next]_vars
=============================================================================
