------------------------- MODULE MCTenantLifecycle -------------------------
(* Instances of TenantLifecycle for TLC: a renewal and an expansion, or two  *)
(* base orders and two jobs for two lives of the tenant.  An order buys one  *)
(* hour, so that five hours hold both lives, their ends and their recycling. *)
EXTENDS TenantLifecycle, TLC

CONSTANTS b, b2, w, x, j1, j2

MCModeOf == [o \in Order |-> IF o \in {b, b2} THEN "base"
                             ELSE IF o = w THEN "renew" ELSE "expand"]
MCHours == [o \in Order |-> 1]
=============================================================================
