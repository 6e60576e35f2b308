------------------------------ MODULE MCTimers ------------------------------
(***************************************************************************)
(* Small instances of Timers: one device, one service.                     *)
(***************************************************************************)
EXTENDS Timers, TLC

CONSTANTS k1, k2, s1, c1

MCRequests ==
  {[child |-> k, services |-> {s1}, clients |-> {c1}] : k \in Child}
=============================================================================
