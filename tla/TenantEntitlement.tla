-------------------------- MODULE TenantEntitlement --------------------------
(***************************************************************************)
(* Labels, statuses, patches and checks of TenantOrders, related to what   *)
(* Entitlement promises: the refinement, and the invariant that carries it *)
(* as long as the tenant's requests follow one another.                    *)
(***************************************************************************)
EXTENDS TenantOrders

E == INSTANCE Entitlement WITH
        state <- console,
        counted <- {o \in Order : account.credit[o] # 0},
        granted <- account.quota

\* A tenant whose requests follow one another has every paid order counted
\* and granted once and nothing else, whatever fails in between: the labels
\* and the parsed copies of K3kUser add up to Entitlement.
Entitled == E!Spec

Serial == \A q, r \in Req : q = r

-----------------------------------------------------------------------------
(* c is the console's view of the orders.                                  *)

DueIn(c) == {o \in Order : c[o] \in {"paid", "refunding", "returned"}}
Returning(c) == \E o \in Order : c[o] \in {"refunding", "returned"}

Backed(q, c) == \A o \in Order : q[o] > 0 => o \in DueIn(c)
BackedOrder(o, c) == o \in Order => o \in DueIn(c)

\* Whatever can become part of the quota is paid for.
SoundUser(u, c) ==
    Backed(u.quota, c) /\ BackedOrder(u.overRes, c) /\ BackedOrder(u.overBase, c)
Sound(a, c) ==
    /\ SoundUser(View(a), c)
    /\ a.returnInfo # NoReturn => Backed(a.returnInfo.res, c)
    /\ \A o \in Order : a.credit[o] # 0 => o \in DueIn(c)

\* What a tenant goes through while nothing is given back: nothing bought,
\* the base order to be admitted, admitted, an expansion to be admitted.
Unbought(a) ==
    /\ ~a.locked /\ a.overMode = "none" /\ a.quota = Unit(Package)
    /\ a.expandStatus = "none" /\ a.expandSn = NoOrder
BaseBought(a) ==
    /\ a.locked /\ a.overMode = "wait" /\ a.quota = Unit(Package)
    /\ a.expandStatus = "none" /\ a.expandSn = NoOrder
    /\ a.overBase \in Order /\ ModeOf[a.overBase] = "base" /\ a.credit[a.overBase] # 0
HoldsBase(a) ==
    /\ a.overBase \in Order /\ ModeOf[a.overBase] = "base"
    /\ a.quota[a.overBase] = 1 /\ a.quota[Package] = 0
Admitted(a) ==
    /\ a.locked /\ a.overMode = "success" /\ HoldsBase(a)
    /\ a.expandSn \in Order =>
            a.quota[a.expandSn] = IF a.expandStatus = "paid" THEN 1 ELSE 0
ExpansionBought(a) ==
    /\ a.locked /\ a.overMode = "wait" /\ HoldsBase(a)
    /\ a.expandStatus = "paid" /\ a.overRes = a.expandSn
    /\ a.overRes \in Order /\ ModeOf[a.overRes] = "expand" /\ a.quota[a.overRes] = 0

Orderly(a) ==
    /\ a.returnInfo = NoReturn
    /\ a.locked <=> a.baseStatus = "paid"
    /\ \A s \in Source : a.quota[s] >= 0
    /\ a.expandSn \in Order => ModeOf[a.expandSn] = "expand"
    /\ a.expandStatus = "paid" => a.expandSn \in Order
    /\ Unbought(a) \/ BaseBought(a) \/ Admitted(a) \/ ExpansionBought(a)

Good(a, c) == Sound(a, c) /\ (Returning(c) \/ Orderly(a))

\* The step from the account a to b is a step of Entitlement, or none.
CountsOne(a, b, c) ==
    \E o \in DueIn(c) : /\ a.credit[o] = 0 /\ ModeOf[o] # "expand"
                        /\ b.credit = [a.credit EXCEPT ![o] = 1]
                        /\ b.quota = a.quota
GrantsBase(a, b) ==
    \E o \in Order : /\ ModeOf[o] = "base" /\ a.credit[o] # 0
                     /\ a.quota = Unit(Package) /\ b.quota = Unit(o)
                     /\ b.credit = a.credit
GrantsExpansion(a, b, c) ==
    \E o \in DueIn(c) : /\ ModeOf[o] = "expand"
                        /\ a.quota[o] = 0 /\ a.quota[Package] = 0
                        /\ b.quota = [a.quota EXCEPT ![o] = 1]
                        /\ b.credit = a.credit
Lawful(a, b, c) ==
    \/ b.credit = a.credit /\ b.quota = a.quota
    \/ CountsOne(a, b, c) \/ GrantsBase(a, b) \/ GrantsExpansion(a, b, c)
    \/ Returning(c) /\ b.credit = a.credit /\ Backed(b.quota, c)

\* With one request at a time the account stays as it is between the steps
\* of a request, so that what a step relied on still holds in the next one:
\* s is a request's state.
Reliable(s, a, c) ==
    LET calm == ~Returning(c)
        after == Merge(a, s.patch)
    IN /\ SoundUser(s.user, c)
       /\ s.step = "notifying" => s.order \in DueIn(c)
       /\ s.step \in {"finding", "locking", "finishing", "processing"} => ~calm
       /\ s.next # "idle" => ~calm
       /\ s.step = "placing" /\ s.mode = "expand" /\ calm => a.overMode = "success"
       /\ s.step = "labelling" /\ calm =>
            /\ a.quota[s.order] = 0
            /\ ModeOf[s.order] = "expand" => a.overMode = "success"
       /\ s.step = "admitting" /\ calm => a.overMode = "wait" /\ s.user = View(a)
       /\ s.step = "patching" => Good(after, c) /\ Lawful(a, after, c)

\* Why TenantOrders implements Entitlement: everything a request has in hand
\* is paid for, and while nothing is given back the account is in one of four
\* stages that labels, quota and admission mode agree on.
EntitledInv ==
    Good(account, console) /\ \A r \in Req : Reliable(op[r], account, console)

-----------------------------------------------------------------------------
(* What survives a refund, still with one request at a time.               *)

\* An expansion that is in a quota has been paid and handed over to admission
\* already, so that it cannot come on top once more.
Once(q, a, c) ==
    \A o \in Order :
        /\ q[o] <= 1
        /\ ModeOf[o] = "expand" /\ q[o] > 0 =>
                /\ c[o] # "unissued" /\ o # a.overRes
                /\ a.expandSn = o => a.expandStatus = "paid"

OnceAccount(a, c) ==
    /\ Once(a.quota, a, c)
    /\ a.returnInfo # NoReturn => Once(a.returnInfo.res, a, c)
    /\ a.overBase \in Order => ModeOf[a.overBase] = "base"
    /\ a.overRes \in Order => /\ ModeOf[a.overRes] = "expand" /\ a.expandSn = a.overRes
                              /\ a.expandStatus = "paid" /\ a.overMode = "wait"

\* u is a parsed copy of the account a, or one that a settled refund outdated.
OnceUser(u, a, c) ==
    /\ Once(u.quota, a, c)
    /\ u.overBase = a.overBase
    /\ u.overRes = a.overRes \/ a.overMode = "success"

OnceRequest(s, a, c) ==
    LET after == Merge(a, s.patch)
    IN /\ s.step \in {"placing", "labelling"} =>
            LET expand == IF s.step = "placing" THEN s.mode = "expand"
                          ELSE ModeOf[s.order] = "expand"
            IN expand => a.overMode = "success"
       /\ s.step = "labelling" =>
            /\ c[s.order] # "unissued" /\ a.quota[s.order] <= 0
            /\ a.returnInfo # NoReturn => a.returnInfo.res[s.order] <= 0
       /\ s.step \in {"admitting", "finding", "locking", "finishing", "processing"} =>
            OnceUser(s.user, a, c)
       /\ s.step \in {"finishing", "processing"} /\ s.next # "idle" =>
            s.user.overRes = a.overRes
       /\ s.step = "patching" =>
            /\ OnceAccount(after, c)
            /\ s.next # "idle" => OnceUser(s.user, after, c)

\* Why nothing is granted twice, whatever is given back: quotas, recorded
\* refunds and parsed copies hold an expansion only when the account will
\* not hand it to admission any more.
OnceInv ==
    OnceAccount(account, console) /\ \A r \in Req : OnceRequest(op[r], account, console)

\* A refund is recorded for an order that is being given back, settled only
\* after the console has been told, and none is recorded over another.
RecordOf(a, o, c) ==
    a.returnInfo # NoReturn /\ a.returnInfo.sn = o /\ c[o] \in {"refunding", "returned"}
Recorded(a, c) == a.returnInfo # NoReturn => RecordOf(a, a.returnInfo.sn, c)

RecordRequest(s, a, c) ==
    LET after == Merge(a, s.patch)
    IN /\ s.step \in {"finding", "locking"} => a.returnInfo = NoReturn
       /\ s.step = "locking" => c[s.order] = "refunding"
       /\ s.step \in {"finishing", "processing"} =>
            RecordOf(a, s.order, c) /\ s.next # "finishing"
       /\ s.step = "processing" => c[s.order] = "returned"
       /\ s.step = "patching" =>
            \/ after.returnInfo = a.returnInfo /\ s.next = "idle"
            \/ /\ a.returnInfo = NoReturn
               /\ RecordOf(after, s.order, c) /\ s.next = "finishing"
            \/ /\ RecordOf(a, s.order, c) /\ c[s.order] = "returned"
               /\ after.returnInfo = NoReturn /\ s.next # "finishing"

\* Why a crash loses no refund: what the command has in hand is what the
\* account records, and a patch records or settles one refund only.
RecordInv ==
    Recorded(account, console) /\ \A r \in Req : RecordRequest(op[r], account, console)

\* The orders counted into the account a, and the refunds settled on it.
CountedIn(a) == {o \in Order : a.credit[o] # 0}
Settled(a, c) ==
    {o \in Order : c[o] = "returned" /\ ~(a.returnInfo # NoReturn /\ a.returnInfo.sn = o)}
TimeAccount(a, c, t) ==
    LET most == t + Sum(CountedIn(a)) + Zone * (1 + Cardinality(Settled(a, c)))
    IN /\ a.expire <= most
       /\ a.returnInfo # NoReturn => a.returnInfo.time <= most
       /\ \A o \in CountedIn(a) : ModeOf[o] # "expand"

\* Why nobody gets more time than was paid for: the expiry time, the time a
\* refund records and those a patch would write are within the hours that are
\* counted, each settled refund adding one offset of the time zone.
TimeInv ==
    /\ TimeAccount(account, console, now)
    /\ \A r \in Req : At(r, "patching") => TimeAccount(Merge(account, op[r].patch), console, now)
=============================================================================
