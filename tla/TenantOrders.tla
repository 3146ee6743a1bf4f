---------------------------- MODULE TenantOrders ----------------------------
(***************************************************************************)
(* One tenant's purchases: the handlers of app/k3k that place orders,      *)
(* take payment notices and check for resources, the login that starts a   *)
(* check, and the console command that settles refunds.  Each runs in its  *)
(* own goroutine or process; they meet only in the tenant's ServiceAccount *)
(* and in the order console.  K3kOrderApi.mu orders nothing: every request *)
(* makes its own K3kOrderApi.                                              *)
(*                                                                         *)
(* Every change of the account is a CreateOrPatch: a Get that computes the *)
(* patch and, later, the Patch that writes it, with anything in between.   *)
(***************************************************************************)
EXTENDS TenantAccount, FiniteSets

CONSTANTS
    Req,        \* requests and commands in progress at the same time
    MaxNow,     \* bound: the last hour of the clock
    MaxRefund,  \* bound: how many orders the tenant asks to return
    MaxFail     \* bound: how many requests end in an error or a crash

ASSUME BoundsAssumption == MaxNow \in Nat /\ MaxRefund \in Nat /\ MaxFail \in Nat

VARIABLES
    account,    \* the ServiceAccount as the API server stores it
    console,    \* the state of each order at the order console
    now,        \* the clock, in hours
    op,         \* what each request is doing
    fails       \* how many requests have failed

vars == <<account, console, now, op, fails>>

ConsoleStatus == {"unissued", "open", "paid", "refunding", "returned"}

Step == {"idle", "placing", "labelling", "notifying", "admitting", "finding",
         "locking", "finishing", "processing", "patching"}

NoUser == [quota |-> Zero, overRes |-> NoOrder, overBase |-> NoOrder]

\* mode: what a purchase buys; order: the order at hand; user: the fields
\* the request's K3kUser parsed when it was made; patch and next: the write
\* that CreateOrPatch is about to send and the step that follows it.
Idle == [step |-> "idle", mode |-> "base", order |-> NoOrder, user |-> NoUser,
         patch |-> EmptyPatch, next |-> "idle"]

Init ==
    /\ account = Registered
    /\ console = [o \in Order |-> "unissued"]
    /\ now = 1
    /\ op = [r \in Req |-> Idle]
    /\ fails = 0

-----------------------------------------------------------------------------
At(r, step) == op[r].step = step

Become(r, state) == op' = [op EXCEPT ![r] = state]

\* The Get of a CreateOrPatch whose closure turns the account into after.
\* The request goes on at step next once the patch is written.
BeginPatch(r, after, next) ==
    Become(r, [op[r] EXCEPT !.step = "patching", !.mode = "base",
                            !.patch = Diff(account, after), !.next = next])

\* The Patch of a CreateOrPatch.
Patch(r) ==
    /\ At(r, "patching")
    /\ account' = Merge(account, op[r].patch)
    /\ Become(r, IF op[r].next = "idle" THEN Idle
                 ELSE [op[r] EXCEPT !.step = op[r].next, !.next = "idle",
                                    !.patch = EmptyPatch])
    /\ UNCHANGED <<console, now, fails>>

\* An API call of the request fails, its process dies, or it panics.
Abort(r) ==
    /\ ~At(r, "idle")
    /\ fails < MaxFail
    /\ fails' = fails + 1
    /\ Become(r, Idle)
    /\ UNCHANGED <<account, console, now>>

-----------------------------------------------------------------------------
(* Buying.                                                                 *)

\* CreateBaseResourceOrder, CreateRenewOrder, CreateExpandOrder up to the
\* guards, which look at the account as the token middleware loaded it.
BeginBuy(r, mode) ==
    /\ At(r, "idle")
    /\ CanBuy(account, mode, now)
    /\ Become(r, [Idle EXCEPT !.step = "placing", !.mode = mode])
    /\ UNCHANGED <<account, console, now, fails>>

\* The console issues an order: one that waits for payment, or one that
\* costs nothing and counts as paid.
PlaceOrder(r, o) ==
    /\ At(r, "placing")
    /\ console[o] = "unissued"
    /\ ModeOf[o] = op[r].mode
    /\ \E status \in {"open", "paid"} : console' = [console EXCEPT ![o] = status]
    /\ Become(r, [Idle EXCEPT !.step = "labelling", !.order = o])
    /\ UNCHANGED <<account, now, fails>>

\* The console refuses the purchase, or answers with an error.
RefuseOrder(r) ==
    /\ At(r, "placing")
    /\ Become(r, Idle)
    /\ UNCHANGED <<account, console, now, fails>>

\* The new order's number goes into the account's labels.
LabelOrder(r) ==
    /\ At(r, "labelling")
    /\ BeginPatch(r, SetOrder(account, op[r].order), "idle")
    /\ UNCHANGED <<account, console, now, fails>>

\* The tenant pays at the console.
Pay(o) ==
    /\ console[o] = "open"
    /\ console' = [console EXCEPT ![o] = "paid"]
    /\ UNCHANGED <<account, now, op, fails>>

\* Mutant: the notice is believed, the console is not asked.
NotifyUnpaid(r, o) ==
    /\ At(r, "idle")
    /\ console[o] # "unissued"
    /\ Become(r, [Idle EXCEPT !.step = "notifying", !.order = o])
    /\ UNCHANGED <<account, console, now, fails>>

\* NotifyOrder for one order: called by the console (OrderNotify), by the
\* tenant's page for each order number it finds (Refresh), and two seconds
\* after an order that costs nothing.  Only a paid order does anything.
Notify(r, o) ==
    /\ At(r, "idle")
    /\ console[o] \in {"paid", "refunding"}
    /\ Become(r, [Idle EXCEPT !.step = "notifying", !.order = o])
    /\ UNCHANGED <<account, console, now, fails>>

CreditOrder(r) ==
    /\ At(r, "notifying")
    /\ BeginPatch(r, SetOrderStatus(account, op[r].order, now), "idle")
    /\ UNCHANGED <<account, console, now, fails>>

-----------------------------------------------------------------------------
(* Admission of bought resources.                                          *)

\* CheckResource: TokenToK3kUser applies the cost package in memory, and
\* CanAddResource finds room for the resources of the account it loaded.
CheckResource(r) ==
    /\ At(r, "idle")
    /\ CanOverSellingCheck(account)
    /\ Become(r, [Idle EXCEPT !.step = "admitting",
                              !.user = View(ReplaceQuota(account))])
    /\ UNCHANGED <<account, console, now, fails>>

\* LoginByServiceAccount: the refreshed account is written with Update, which
\* the API server refuses unless nothing changed since it was read, so that
\* reading and writing are one step; then the check starts in a goroutine.
Login(r) ==
    /\ At(r, "idle")
    /\ account' = ReplaceQuota(account)
    /\ IF CanOverSellingCheck(account)
       THEN \/ Become(r, [Idle EXCEPT !.step = "admitting",
                                      !.user = View(account')])
            \/ UNCHANGED op
       ELSE UNCHANGED op
    /\ UNCHANGED <<console, now, fails>>

\* TryCheckOverSellingResource, after CanAddResource succeeded.
Admit(r) ==
    /\ At(r, "admitting")
    /\ BeginPatch(r, SetOverMode(account, op[r].user), "idle")
    /\ UNCHANGED <<account, console, now, fails>>

-----------------------------------------------------------------------------
(* Refunds: the k3k-return-check command, fixReturn.                       *)

RequestRefund(o) ==
    /\ console[o] = "paid"
    /\ Cardinality({p \in Order : console[p] \in {"refunding", "returned"}}) < MaxRefund
    /\ console' = [console EXCEPT ![o] = "refunding"]
    /\ UNCHANGED <<account, now, op, fails>>

\* Mutant: a refund that an earlier run recorded is not settled first.
RefundStartAfresh(r) ==
    /\ At(r, "idle")
    /\ \E o \in Order : console[o] = "refunding"
    /\ Become(r, [Idle EXCEPT !.step = "finding", !.user = View(account)])
    /\ UNCHANGED <<account, console, now, fails>>

\* A refund recorded by an earlier run is settled first, then the console is
\* asked for a new one.
RefundStart(r) ==
    /\ At(r, "idle")
    /\ \/ /\ account.returnInfo # NoReturn
          /\ Become(r, [Idle EXCEPT !.step = "finishing", !.next = "finding",
                                    !.user = View(account),
                                    !.order = account.returnInfo.sn])
       \/ /\ account.returnInfo = NoReturn
          /\ \E o \in Order : console[o] = "refunding"
          /\ Become(r, [Idle EXCEPT !.step = "finding", !.user = View(account)])
    /\ UNCHANGED <<account, console, now, fails>>

RefundFind(r) ==
    /\ At(r, "finding")
    /\ \/ \E o \in Order :
            /\ console[o] = "refunding"
            /\ Become(r, [op[r] EXCEPT !.step = "locking", !.order = o])
       \/ /\ \A o \in Order : console[o] # "refunding"
          /\ Become(r, Idle)
    /\ UNCHANGED <<account, console, now, fails>>

\* First the change to make is recorded in the account ...
RefundLock(r) ==
    /\ At(r, "locking")
    /\ BeginPatch(r, LockReturn(account, op[r].user, op[r].order, now), "finishing")
    /\ UNCHANGED <<account, console, now, fails>>

\* ... then the console is told, unless it knows already ...
RefundFinish(r) ==
    /\ At(r, "finishing")
    /\ console' = [console EXCEPT ![op[r].order] =
                        IF @ = "refunding" THEN "returned" ELSE @]
    /\ Become(r, [op[r] EXCEPT !.step = "processing"])
    /\ UNCHANGED <<account, now, fails>>

\* ... and then the change is made.
RefundProcess(r) ==
    /\ At(r, "processing")
    /\ Become(r, [op[r] EXCEPT
            !.step = "patching",
            !.user.quota = QuotaAfterReturn(account, op[r].user),
            !.patch = Diff(account, ProcessReturn(account, op[r].user))])
    /\ UNCHANGED <<account, console, now, fails>>

-----------------------------------------------------------------------------
Tick ==
    /\ now < MaxNow
    /\ now' = now + 1
    /\ UNCHANGED <<account, console, op, fails>>

Buying(r) ==
    \/ \E mode \in Mode : BeginBuy(r, mode)
    \/ \E o \in Order : PlaceOrder(r, o) \/ Notify(r, o)
    \/ RefuseOrder(r)
    \/ LabelOrder(r)
    \/ CreditOrder(r)

Admission(r) == CheckResource(r) \/ Login(r) \/ Admit(r)

Refund(r) ==
    RefundStart(r) \/ RefundFind(r) \/ RefundLock(r) \/ RefundFinish(r) \/ RefundProcess(r)

Next ==
    \/ \E r \in Req : Buying(r) \/ Admission(r) \/ Refund(r) \/ Patch(r) \/ Abort(r)
    \/ \E o \in Order : Pay(o) \/ RequestRefund(o)
    \/ Tick

Spec == Init /\ [][Next]_vars

\* A request that has begun goes on, and somebody keeps asking about the
\* orders: the console sends notices and the tenant's page calls Refresh.
FairSpec ==
    /\ Spec
    /\ \A r \in Req :
        /\ WF_vars(RefuseOrder(r) \/ LabelOrder(r) \/ CreditOrder(r) \/ Admit(r)
                     \/ RefundFind(r) \/ RefundLock(r) \/ RefundFinish(r)
                     \/ RefundProcess(r) \/ Patch(r))
        /\ \A o \in Order : SF_vars(Notify(r, o))

-----------------------------------------------------------------------------
(* Properties.                                                             *)

PatchType(p) == DOMAIN p \subseteq Field /\ Merge(Registered, p) \in Account

OpType(s) ==
    /\ DOMAIN s = {"step", "mode", "order", "user", "patch", "next"}
    /\ s.step \in Step /\ s.next \in {"idle", "finding", "finishing"}
    /\ s.mode \in Mode /\ s.order \in OptOrder
    /\ s.user \in Views
    /\ PatchType(s.patch)
    /\ s.step \in {"labelling", "notifying", "locking", "finishing"} => s.order \in Order
    /\ s.next = "finishing" => s.order \in Order

\* Every variable has its type: patches hold account fields only, and the
\* account stays one that K3kUser can parse whatever patches are merged.
TypeOK ==
    /\ account \in Account
    /\ console \in [Order -> ConsoleStatus]
    /\ now \in Nat
    /\ fails \in Nat
    /\ DOMAIN op = Req
    /\ \A r \in Req : OpType(op[r])

\* No paid order's hours are added to the expiry time twice, however many
\* notices of it are handled at the same time, repeated, or late.
CreditedOnce == \A o \in Order : account.credit[o] <= 1

Labelled(o) == account[Sn(o)] = o

\* Request r has an order whose number is on its way to the account's labels.
Creating(r, o) ==
    /\ op[r].order = o
    /\ At(r, "labelling") \/ Sn(o) \in DOMAIN op[r].patch

\* The patch p counts the hours of o, n times.
Credits(p, o, n) == "credit" \in DOMAIN p /\ p.credit[o] = n

\* Why an order is credited once.  A label is written once, by the request
\* that placed the order, and before that nothing can have credited it.
\* After that, an account or a patch that counts the order's hours goes with
\* the paid status, which only the label of another order takes back.
PatchInv(r) ==
    LET p == op[r].patch IN
    /\ ~At(r, "patching") => DOMAIN p = {}
    /\ \A o \in Order :
        /\ Sn(o) \in DOMAIN p => /\ op[r].order \in Order
                                 /\ Sn(op[r].order) = Sn(o)
                                 /\ p[Sn(o)] = op[r].order
                                 /\ "credit" \notin DOMAIN p
        /\ St(o) \in DOMAIN p /\ Sn(o) \notin DOMAIN p => p[St(o)] = "paid"
        /\ "credit" \in DOMAIN p => p.credit[o] <= 1
        /\ Credits(p, o, 1) /\ Labelled(o) =>
                account[St(o)] = "paid" \/ St(o) \in DOMAIN p

Uncredited(o) ==
    /\ account.credit[o] = 0
    /\ ~Labelled(o)
    /\ \A r \in Req : ~Credits(op[r].patch, o, 1)

OrderInv(o) ==
    /\ account.credit[o] <= 1
    /\ account.credit[o] = 1 /\ Labelled(o) => account[St(o)] = "paid"
    /\ console[o] = "unissued" => Uncredited(o) /\ \A r \in Req : ~Creating(r, o)
    /\ \A r \in Req : Creating(r, o) =>
            Uncredited(o) /\ \A q \in Req : Creating(q, o) => q = r

CreditInv == (\A r \in Req : PatchInv(r)) /\ (\A o \in Order : OrderInv(o))

Sum(S) ==
    LET total[T \in SUBSET S] ==
            IF T = {} THEN 0
            ELSE LET o == CHOOSE x \in T : TRUE IN Hours[o] + total[T \ {o}]
    IN total[S]

Bought == {o \in Order : ModeOf[o] # "expand" /\ console[o] \in {"paid", "refunding", "returned"}}

\* The tenant never holds more time than the paid orders bought, counted
\* from now in the zone the code writes; a settled refund writes the time
\* once more, and adds the zone's offset once more.
ExpireBacked ==
    account.expire <= now + Sum(Bought)
        + Zone * (1 + Cardinality({o \in Order : console[o] = "returned"}))

\* No order's resources are granted to the tenant more than once.
GrantedOnce == \A o \in Order : account.quota[o] <= 1

NoRefund == \A o \in Order : console[o] \notin {"refunding", "returned"}

\* While nothing is refunded, a tenant whose resources were admitted has the
\* quota it paid for: the base order's, the last expansion's on top, nothing
\* twice and nothing of the free package.
AdmittedIsGranted ==
    account.overMode = "success" /\ NoRefund =>
        /\ account.quota[account.overBase] = 1
        /\ account.expandStatus = "paid" => account.quota[account.expandSn] = 1
        /\ account.quota[Package] = 0

\* Once a payment has locked the quota, no login and no check brings the cost
\* package back into it while nothing is refunded.
PurchaseKeepsQuota ==
    [][account.locked /\ NoRefund => account'.quota[Package] <= account.quota[Package]]_vars

\* A recorded refund is neither dropped nor replaced before the console has
\* been told that it is done, and the console is told of recorded ones only.
RefundRecordKept ==
    [][/\ account.returnInfo # NoReturn /\ account'.returnInfo # account.returnInfo
            => console[account.returnInfo.sn] = "returned"
       /\ \A o \in Order : console[o] # "returned" /\ console'[o] = "returned"
            => account.returnInfo # NoReturn /\ account.returnInfo.sn = o]_vars

\* A paid order that the account is labelled with is credited in the end,
\* unless another order takes its label or it is given back first.
PaidIsCredited ==
    \A o \in Order :
        (console[o] = "paid" /\ Labelled(o))
            ~> (~Labelled(o) \/ account[St(o)] = "paid" \/ console[o] # "paid")

\* Stated by the code, and not so (see README).  The settled refund leaves
\* the resources that were recorded for it.
RefundApplied ==
    [][account.returnInfo # NoReturn /\ account'.returnInfo = NoReturn
            => account'.quota = account.returnInfo.res]_vars

=============================================================================
