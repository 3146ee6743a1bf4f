----------------------------- MODULE Entitlement -----------------------------
(***************************************************************************)
(* What a tenant is promised for its orders, without requests, patches or  *)
(* an account: every order's hours are counted once, after it was paid;    *)
(* its resources are granted once; the free package ends with the first    *)
(* grant.  TenantOrders implements this as long as the tenant's requests   *)
(* follow one another.                                                     *)
(***************************************************************************)
EXTENDS Integers

CONSTANTS Order, ModeOf, Package

VARIABLES state,    \* of every order, as the console has it
          counted,  \* the orders whose hours the tenant has been given
          granted   \* how often each source's resources are in the quota

vars == <<state, counted, granted>>

Source == Order \cup {Package}
Due == {o \in Order : state[o] \in {"paid", "refunding", "returned"}}
NoRefund == \A o \in Order : state[o] \notin {"refunding", "returned"}

Init ==
    /\ state = [o \in Order |-> "unissued"]
    /\ counted = {}
    /\ granted = [s \in Source |-> IF s = Package THEN 1 ELSE 0]

Proceed(o, from, to) ==
    /\ state[o] = from
    /\ state' = [state EXCEPT ![o] = to]
    /\ UNCHANGED <<counted, granted>>

Issue(o) == Proceed(o, "unissued", "open") \/ Proceed(o, "unissued", "paid")
Pay(o) == Proceed(o, "open", "paid")
Return(o) == Proceed(o, "paid", "refunding") \/ Proceed(o, "refunding", "returned")

\* An expansion buys no hours.
Count(o) ==
    /\ o \in Due \ counted
    /\ ModeOf[o] # "expand"
    /\ counted' = counted \cup {o}
    /\ UNCHANGED <<state, granted>>

\* The base order's resources replace the package's.
GrantBase(o) ==
    /\ ModeOf[o] = "base" /\ o \in counted
    /\ granted = [s \in Source |-> IF s = Package THEN 1 ELSE 0]
    /\ granted' = [s \in Source |-> IF s = o THEN 1 ELSE 0]
    /\ UNCHANGED <<state, counted>>

GrantExpansion(o) ==
    /\ ModeOf[o] = "expand" /\ o \in Due
    /\ granted[o] = 0 /\ granted[Package] = 0
    /\ granted' = [granted EXCEPT ![o] = 1]
    /\ UNCHANGED <<state, counted>>

\* Once an order is given back nothing is promised about what remains, but
\* that it is the package or paid for.
Rearrange ==
    /\ ~NoRefund
    /\ granted' \in [Source -> Int]
    /\ \A o \in Order : granted'[o] > 0 => o \in Due
    /\ UNCHANGED <<state, counted>>

Next ==
    \/ \E o \in Order : \/ Issue(o) \/ Pay(o) \/ Return(o)
                        \/ Count(o) \/ GrantBase(o) \/ GrantExpansion(o)
    \/ Rearrange

Spec == Init /\ [][Next]_vars
=============================================================================
