---------------------------- MODULE MCLeaseLoop -----------------------------
(***************************************************************************)
(* Leases of twenty and seventeen ticks that can be renewed, and of twelve  *)
(* that cannot.                                                             *)
(***************************************************************************)
EXTENDS LeaseLoop

Grant(ttl, renewable) == [ttl |-> ttl, renewable |-> renewable]
MCGrants == {Grant(20, TRUE), Grant(17, TRUE), Grant(12, FALSE)}
=============================================================================
