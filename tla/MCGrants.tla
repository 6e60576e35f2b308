------------------------------ MODULE MCGrants ------------------------------
(***************************************************************************)
(* Small instances of Grants: two children who share a device.             *)
(***************************************************************************)
EXTENDS Grants, TLC

CONSTANTS k1, k2, s1, c1, c2

MCRequests ==
  {[child |-> k1, services |-> {s1}, clients |-> {c1, c2}],
   [child |-> k2, services |-> {s1}, clients |-> {c2}]}

MCRequests1Device ==
  {[child |-> k1, services |-> {s1}, clients |-> {c1}],
   [child |-> k2, services |-> {s1}, clients |-> {c1}]}
=============================================================================
