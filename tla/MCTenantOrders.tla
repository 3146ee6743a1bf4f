--------------------------- MODULE MCTenantOrders ---------------------------
(* Instances of TenantOrders for TLC: one order of each kind, or two of one *)
(* kind, each buying a different number of hours.                           *)
EXTENDS TenantEntitlement, TLC

CONSTANTS r1, r2, b, w, w2, x, x2

MCModeOf == [o \in Order |-> IF o = b THEN "base"
                             ELSE IF o \in {w, w2} THEN "renew" ELSE "expand"]
MCHours == [o \in Order |-> IF o = b THEN 2 ELSE 1]
=============================================================================
