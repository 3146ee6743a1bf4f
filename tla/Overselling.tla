----------------------------- MODULE Overselling -----------------------------
(***************************************************************************)
(* Tenants that share the nodes: a bought resource is admitted when the    *)
(* oversold capacity of the nodes exceeds what is counted as used by then. *)
(* The count, the decision and the change of the tenant's account are      *)
(* separate calls, made by any number of requests at the same time, and    *)
(* nothing holds the counted resources in between.                         *)
(*                                                                         *)
(* One dimension, cpu, stands for CPU and memory, which are counted alike: *)
(* by the tenants' quotas.  Storage is counted by what is scheduled on the *)
(* disks.  Purchases and patches are single steps: TenantOrders has their  *)
(* interleavings.  Time stands still: TenantLifecycle has expiry.          *)
(***************************************************************************)
EXTENDS TenantAccount, FiniteSets, FiniteSetsExt

CONSTANTS
    User,       \* the tenants
    BuyerOf,    \* which tenant an order is for
    Size,       \* the resources of each source, by dimension
    Allocated,  \* what all nodes and disks have, by dimension
    Percent,    \* the overselling configuration, by dimension
    Check       \* resource checks in progress at the same time

Dim == {"cpu", "storage"}

ASSUME TenantsAssumption == IsFiniteSet(User) /\ User # {} /\ IsFiniteSet(Order)
ASSUME SizeAssumption ==
    /\ BuyerOf \in [Order -> User]
    /\ Size \in [Source -> [Dim -> Nat]]
    /\ Allocated \in [Dim -> Nat]
    /\ Percent \in [Dim -> Nat]

VARIABLES
    account,    \* the tenants' ServiceAccounts
    volumes,    \* the storage scheduled for each tenant's volumes
    check,      \* what each check is doing
    overlap     \* auxiliary: a check overlooked a tenant or another check

vars == <<account, volumes, check, overlap>>

Now == 1

\* user: the tenant; view: the fields its K3kUser parsed; used: the count.
CheckIdle == [step |-> "idle", user |-> CHOOSE u \in User : TRUE,
              view |-> View(Registered), used |-> 0]

Init ==
    /\ account = [u \in User |-> Registered]
    /\ volumes = [u \in User |-> 0]
    /\ check = [c \in Check |-> CheckIdle]
    /\ overlap = FALSE

\* OverSellingResource: no percentage means the capacity as it is.
Capacity(d) ==
    IF Percent[d] > 0 THEN (Allocated[d] * Percent[d]) \div 100 ELSE Allocated[d]

Amount(q, d) == MapThenSumSet(LAMBDA s : q[s] * Size[s][d], Source)

\* What the quotas of the tenants S are, the accounts being a.
Used(a, S) == MapThenSumSet(LAMBDA u : Amount(a[u].quota, "cpu"), S)

OrderAmount(o, d) == IF o = NoOrder THEN 0 ELSE Size[o][d]

-----------------------------------------------------------------------------
\* A base order or an expansion is placed, paid and credited.
Buy(o) ==
    LET u == BuyerOf[o] IN
    /\ account[u].credit[o] = 0 /\ account[u].expandSn # o
    /\ CanBuy(account[u], ModeOf[o], Now)
    /\ account' = [account EXCEPT ![u] = SetOrderStatus(SetOrder(@, o), o, Now)]
    /\ UNCHANGED <<volumes, check, overlap>>

\* TryCheckOverSellingResource loads the account.
Begin(c, u) ==
    /\ check[c].step = "idle"
    /\ CanOverSellingCheck(account[u])
    /\ check' = [check EXCEPT ![c] = [step |-> "counting", user |-> u, used |-> 0,
                                      view |-> View(ReplaceQuota(account[u]))]]
    /\ UNCHANGED <<account, volumes, overlap>>

Counted == {u \in User : account[u].cluster = "ready"}

\* The tenants who hold resources that a check has given them.
Holders ==
    {u \in User : /\ account[u].quota[Package] = 0
                  /\ account[u].cluster \in {"new", "creating", "ready"}}

\* Mutant: the tenant who asks is not counted.
CountOthers(c) ==
    /\ check[c].step = "counting"
    /\ check' = [check EXCEPT
            ![c].step = "deciding",
            ![c].used = Used(account, Counted \ {check[c].user})]
    /\ overlap' = (overlap \/ ~(Holders \subseteq Counted)
                    \/ \E e \in Check \ {c} : check[e].step \in {"deciding", "admitting"})
    /\ UNCHANGED <<account, volumes>>

\* GetUsed, first the List of the accounts ...
Count(c) ==
    /\ check[c].step = "counting"
    /\ check' = [check EXCEPT
            ![c].step = "deciding",
            ![c].used = Used(account, Counted)]
    /\ overlap' = (overlap \/ ~(Holders \subseteq Counted)
                    \/ \E e \in Check \ {c} : check[e].step \in {"deciding", "admitting"})
    /\ UNCHANGED <<account, volumes>>

\* Mutants: the resources asked for are not added to the used ones; the
\* overselling percentage is not applied.
FitsWithout(c) ==
    LET stored == MapThenSumSet(LAMBDA u : volumes[u], User)
    IN Capacity("cpu") > check[c].used /\ Capacity("storage") > stored
FitsAllocated(c) ==
    LET o == OverResource(account[check[c].user], check[c].view)
        stored == MapThenSumSet(LAMBDA u : volumes[u], User)
    IN /\ Allocated["cpu"] > check[c].used + OrderAmount(o, "cpu")
       /\ Allocated["storage"] > stored + OrderAmount(o, "storage")

\* CanAddResource's answer for the resources of the account it was given.
Fits(c) ==
    LET o == OverResource(account[check[c].user], check[c].view)
        stored == MapThenSumSet(LAMBDA u : volumes[u], User)
    IN /\ Capacity("cpu") > check[c].used + OrderAmount(o, "cpu")
       /\ Capacity("storage") > stored + OrderAmount(o, "storage")

\* ... then the disks, and the comparison.
Decide(c) ==
    /\ check[c].step = "deciding"
    /\ check' = [check EXCEPT ![c] = IF Fits(c) THEN [@ EXCEPT !.step = "admitting"]
                                     ELSE CheckIdle]
    /\ UNCHANGED <<account, volumes, overlap>>

\* The account is changed, whatever has happened to it and to the others.  A
\* check of the same tenant that has begun overlooks the change.
Admit(c) ==
    /\ check[c].step = "admitting"
    /\ account' = [account EXCEPT ![check[c].user] = SetOverMode(@, check[c].view)]
    /\ check' = [check EXCEPT ![c] = CheckIdle]
    /\ overlap' = (overlap \/ \E e \in Check \ {c} : /\ check[e].step # "idle"
                                                   /\ check[e].user = check[c].user)
    /\ UNCHANGED volumes

-----------------------------------------------------------------------------
(* The tenant's cluster.                                                   *)

\* InitCluster starts the installation.
Install(u) ==
    /\ account[u].cluster = "new"
    /\ ~NeedCreateOrder(account[u])
    /\ ~NeedOverSellingCheck(account[u])
    /\ account' = [account EXCEPT ![u].cluster = "creating", ![u].jobStatus = "running"]
    /\ UNCHANGED <<volumes, check, overlap>>

\* Its job is complete.
Ready(u) ==
    /\ account[u].cluster = "creating"
    /\ account' = [account EXCEPT ![u].cluster = "ready", ![u].jobStatus = "complete"]
    /\ UNCHANGED <<volumes, check, overlap>>

\* Mutant: a status that the controllers do not know.
ExpireUnknown(u) ==
    /\ account[u].cluster = "ready"
    /\ account' = [account EXCEPT ![u].cluster = "expired"]
    /\ UNCHANGED <<volumes, check, overlap>>

\* The tenant's time has run out.
Expire(u) ==
    /\ account[u].cluster = "ready"
    /\ account' = [account EXCEPT ![u].cluster = "wait"]
    /\ UNCHANGED <<volumes, check, overlap>>

\* The tenant uses the storage of its quota, volume by volume.
Provision(u) ==
    /\ account[u].cluster = "ready"
    /\ volumes[u] < Amount(account[u].quota, "storage")
    /\ volumes' = [volumes EXCEPT ![u] = @ + 1]
    /\ UNCHANGED <<account, check, overlap>>

Next ==
    \/ \E o \in Order : Buy(o)
    \/ \E u \in User : Install(u) \/ Ready(u) \/ Expire(u) \/ Provision(u)
    \/ \E c \in Check : \/ \E u \in User : Begin(c, u)
                        \/ Count(c) \/ Decide(c) \/ Admit(c)

Spec == Init /\ [][Next]_vars

\* A check that has begun goes on, and a tenant who may ask for a check asks.
FairSpec ==
    /\ Spec
    /\ \A c \in Check : WF_vars(Count(c) \/ Decide(c) \/ Admit(c))
    /\ \A u \in User : SF_vars(\E c \in Check : Begin(c, u))

-----------------------------------------------------------------------------
(* Properties.                                                             *)

\* Every variable has its type: whatever checks overlap, the accounts stay
\* ones that K3kUser can parse.
TypeOK ==
    /\ account \in [User -> Account]
    /\ volumes \in [User -> Nat]
    /\ check \in [Check -> [step : {"idle", "counting", "deciding", "admitting"},
                            user : User, view : Views, used : Int]]
    /\ overlap \in BOOLEAN

Held == Used(account, Holders)

\* As long as no check overlooks a tenant or another check, what the checks
\* have given away stays below the oversold capacity, whichever tenants buy,
\* expand, install and expire in the meantime.
CapacityKept == ~overlap => Held < Capacity("cpu") \/ Holders = {}

\* Whoever waits for admission has bought, so that the package is no longer
\* applied to the account.
AccountInv(a) ==
    /\ \A s \in Source : a.quota[s] >= 0
    /\ a.overMode # "none" => a.locked /\ a.baseStatus = "paid"

\* The account is as the check read it.
Fresh(c) ==
    LET a == account[check[c].user]
    IN check[c].step # "idle" => CanOverSellingCheck(a) /\ check[c].view = View(a)

Decided(c) == check[c].step \in {"deciding", "admitting"}

\* Why the capacity is kept: one check at a time has counted, it has missed
\* nothing that is held, and its tenant's account has not changed since it
\* was read, so that what was compared is what will be granted.
SharedInv ==
    /\ \A u \in User : AccountInv(account[u])
    /\ \A c \in Check :
        /\ \A s \in Source : check[c].view.quota[s] >= 0
        /\ check[c].step # "idle" => account[check[c].user].overMode # "none"
    /\ ~overlap => \A c \in Check :
        /\ Fresh(c)
        /\ \A e \in Check : Decided(c) /\ Decided(e) => c = e
        /\ Decided(c) => Held <= check[c].used
        /\ check[c].step = "admitting" =>
                LET o == OverResource(account[check[c].user], check[c].view)
                IN Capacity("cpu") > check[c].used + OrderAmount(o, "cpu")

Room(u) ==
    LET o == OverResource(account[u], View(account[u])) IN
    /\ Capacity("cpu") > Used(account, Counted) + OrderAmount(o, "cpu")
    /\ Capacity("storage") > MapThenSumSet(LAMBDA v : volumes[v], User)
                            + OrderAmount(o, "storage")

\* A tenant who is refused, or whose admission another check undid, does not
\* wait for ever once there is room for what it bought.
AdmittedWhenRoom ==
    \A u \in User : []<>(~CanOverSellingCheck(account[u]) \/ ~Room(u))

\* Stated by the code, and not so (see README).  When a check passes, the
\* cluster has the resources.
PassMeansRoom ==
    [][Held' > Held => Held' <= Capacity("cpu")]_vars

=============================================================================
