------------------------------- MODULE MCHome -------------------------------
(***************************************************************************)
(* Small instances of Buttons, with Boot under it.                         *)
(***************************************************************************)
EXTENDS Buttons
=============================================================================
