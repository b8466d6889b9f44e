----------------------------- MODULE MCElection -----------------------------
(***************************************************************************)
(* Election with two replicas whose clocks differ by a tick.                *)
(***************************************************************************)
EXTENDS Election

CONSTANTS r1, r2

Apart == [r \in Replicas |-> IF r = r1 THEN 0 ELSE 1]

=============================================================================
