--------------------------- MODULE MCTenantServer ---------------------------
(* Instances of TenantServer for TLC: quotas of which one is the double of   *)
(* the other, as it is in maintenance mode.                                  *)
EXTENDS TenantServer

CONSTANTS first, second

MCBudgets == {[changes |-> 3, faults |-> 0], [changes |-> 2, faults |-> 2]}
=============================================================================
