---------------------------- MODULE MCOverselling ----------------------------
(* Two tenants on nodes with room for any two of the three orders, but not   *)
(* for all three: 170 per cent of 3 is 5, and an order takes 2.              *)
EXTENDS Overselling

CONSTANTS u1, u2, c1, c2, b1, b2, x1

MCModeOf == [o \in Order |-> IF o = x1 THEN "expand" ELSE "base"]
MCHours == [o \in Order |-> 1]
MCBuyerOf == [o \in Order |-> IF o = b2 THEN u2 ELSE u1]
MCSize == [s \in Source |-> [d \in Dim |-> IF s = Package THEN 0 ELSE IF d = "cpu" THEN 2 ELSE 1]]
MCAllocated == [d \in Dim |-> IF d = "cpu" THEN 3 ELSE 5]
MCPercent == [d \in Dim |-> IF d = "cpu" THEN 170 ELSE 0]
=============================================================================
