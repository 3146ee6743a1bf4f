--------------------------- MODULE TenantAccount ---------------------------
(***************************************************************************)
(* The tenant account: the labels and annotations of one ServiceAccount,   *)
(* and the methods of K3kUser (common/service/k8s/k3k/types) that read and *)
(* change them.  This module has no variables: the modules that own an     *)
(* account (TenantOrders, TenantLifecycle) apply these operators to it.    *)
(*                                                                         *)
(* Quantities of CPU, memory, storage and bandwidth are abstracted to      *)
(* where they come from.  A quota is a function from sources (the orders   *)
(* and the cost package) to how many times that source's resources are     *)
(* contained in it; adding and subtracting resources is adding and         *)
(* subtracting such functions.                                             *)
(*                                                                         *)
(* Times are hours.  The code writes the wall clock of the container's     *)
(* zone (Dockerfile: TZ Asia/Shanghai) and reads it back as UTC, so a time *)
(* taken from time.Now() is stored Zone hours ahead of the one it is later *)
(* compared with.                                                          *)
(***************************************************************************)
EXTENDS Integers

CONSTANTS
    Order,      \* order numbers the console may issue for this tenant
    NoOrder,    \* an absent order number or resource annotation
    ModeOf,     \* the buy mode of each order: base, renew or expand
    Hours,      \* the hours each order buys
    Package,    \* the source of the quota that a cost package grants
    Zone,       \* offset of the container's time zone, in hours
    Grace,      \* hours between expiry and recycling (72 in the code)
    NoReturn,   \* the absent w7.cc/return-order-info annotation
    Job,        \* names of the jobs that install the tenant's cluster
    NoJob       \* the empty w7.cc/k3k-job-name annotation

Mode == {"base", "renew", "expand"}

ASSUME NamesAssumption ==
    /\ NoOrder \notin Order
    /\ Package \notin Order
    /\ Package # NoOrder
ASSUME OrderAssumption ==
    /\ ModeOf \in [Order -> Mode]
    /\ Hours \in [Order -> Nat \ {0}]
ASSUME TimeAssumption == Zone \in Nat /\ Grace \in Nat

NoTime == -1
Source == Order \cup {Package}
OptOrder == Order \cup {NoOrder}

-----------------------------------------------------------------------------
(* Quotas: LimitRangeQuota.Hard and overselling.Resource.                  *)

Quota == [Source -> Int]
Zero == [s \in Source |-> 0]
Unit(o) == [s \in Source |-> IF s = o THEN 1 ELSE 0]
Plus(q, p) == [s \in Source |-> q[s] + p[s]]
Minus(q, p) == [s \in Source |-> q[s] - p[s]]

-----------------------------------------------------------------------------
(* The account.  credit is an auxiliary field: how many times the hours of *)
(* each order have been added to the expiry time that is stored.  It is    *)
(* written exactly when the expiry time is.                                *)

OrderStatus == {"none", "wait", "paid"}
OverMode == {"none", "wait", "no-resource", "success"}
Cluster == {"new", "creating", "ready", "wait", "recycle"}
JobStatus == {"unknow", "running", "complete", "failed"}
Time == Nat \cup {NoTime}

ReturnRecord == [sn : Order, res : Quota, time : Time]
ReturnInfo == ReturnRecord \cup {NoReturn}
ASSUME ReturnAssumption == NoReturn \notin ReturnRecord

Account ==
    [baseSn : OptOrder, baseStatus : OrderStatus,
     renewSn : OptOrder, renewStatus : OrderStatus,
     expandSn : OptOrder, expandStatus : OrderStatus,
     overMode : OverMode, overRes : OptOrder, overBase : OptOrder,
     quota : Quota, locked : BOOLEAN,
     expire : Time, credit : [Order -> Nat],
     returnInfo : ReturnInfo,
     cluster : Cluster, jobStatus : JobStatus, jobName : Job \cup {NoJob},
     pending : Time, pause : BOOLEAN]

Field ==
    {"baseSn", "baseStatus", "renewSn", "renewStatus", "expandSn",
     "expandStatus", "overMode", "overRes", "overBase", "quota", "locked",
     "expire", "credit", "returnInfo", "cluster", "jobStatus", "jobName",
     "pending", "pause"}

\* A tenant as sa/register.go creates it under a cost package.
Registered ==
    [baseSn |-> NoOrder, baseStatus |-> "none",
     renewSn |-> NoOrder, renewStatus |-> "none",
     expandSn |-> NoOrder, expandStatus |-> "none",
     overMode |-> "none", overRes |-> NoOrder, overBase |-> NoOrder,
     quota |-> Unit(Package), locked |-> FALSE,
     expire |-> NoTime, credit |-> [o \in Order |-> 0],
     returnInfo |-> NoReturn,
     cluster |-> "new", jobStatus |-> "unknow", jobName |-> NoJob,
     pending |-> NoTime, pause |-> FALSE]

\* What NewK3kUser parses once and every later method of that object uses,
\* although CreateOrPatch refreshes the labels and annotations under it.
View(a) == [quota |-> a.quota, overRes |-> a.overRes, overBase |-> a.overBase]
Views == [quota : Quota, overRes : OptOrder, overBase : OptOrder]

-----------------------------------------------------------------------------
(* CreateOrPatch of controller-runtime: the fields the closure changed are *)
(* sent as a JSON merge patch, without a resourceVersion, and written over *)
(* whatever the account holds by then.                                     *)

Diff(before, after) ==
    [f \in {g \in Field : after[g] # before[g]} |-> after[f]]
Merge(cur, patch) ==
    [f \in Field |-> IF f \in DOMAIN patch THEN patch[f] ELSE cur[f]]
EmptyPatch == [f \in {} |-> NoOrder]

-----------------------------------------------------------------------------
(* Time.                                                                   *)

LocalStamp(t) == t + Zone

ExpireAfter(a, hours, now) ==
    IF a.expire = NoTime \/ a.expire < now
    THEN LocalStamp(now) + hours
    ELSE a.expire + hours

IsExpired(a, now) == a.expire # NoTime /\ now > a.expire

PendingRecycleTime(a) ==
    IF a.pending # NoTime THEN a.pending
    ELSE IF a.expire # NoTime THEN a.expire + Grace ELSE NoTime

IsPendingRecycleExpired(a, now) ==
    PendingRecycleTime(a) # NoTime /\ now > PendingRecycleTime(a)

\* Mutants: the days of grace are left out; the due time moves with the clock.
PendingWithoutGrace(a, now) ==
    IF a.pending # NoTime THEN a ELSE [a EXCEPT !.pending = a.expire]
PendingMoves(a, now) == [a EXCEPT !.pending = LocalStamp(now) + Grace]

SetPendingRecycleTime(a, now) ==
    IF a.pending # NoTime THEN a
    ELSE [a EXCEPT !.pending = IF a.expire = NoTime
                               THEN LocalStamp(now) + Grace
                               ELSE a.expire + Grace]

-----------------------------------------------------------------------------
(* Guards of the purchases (every tenant here has a cost package).         *)

CanCreateBase(a) == a.baseStatus # "paid"
NeedCreateOrder(a) == a.baseStatus # "paid"
CanRenew(a) == a.expire # NoTime
CanExpand(a, now) == a.overMode = "success" /\ a.expire # NoTime /\ a.expire > now

CanBuy(a, mode, now) ==
    CASE mode = "base" -> CanCreateBase(a)
      [] mode = "renew" -> CanRenew(a)
      [] mode = "expand" -> CanExpand(a, now)

-----------------------------------------------------------------------------
(* Orders.                                                                 *)

\* The label and the status that an order of o's mode is written to.
Sn(o) ==
    CASE ModeOf[o] = "base" -> "baseSn"
      [] ModeOf[o] = "renew" -> "renewSn"
      [] ModeOf[o] = "expand" -> "expandSn"
St(o) ==
    CASE ModeOf[o] = "base" -> "baseStatus"
      [] ModeOf[o] = "renew" -> "renewStatus"
      [] ModeOf[o] = "expand" -> "expandStatus"

SetOrder(a, o) ==
    CASE ModeOf[o] = "base" -> [a EXCEPT !.baseSn = o]
      [] ModeOf[o] = "renew" -> [a EXCEPT !.renewSn = o, !.renewStatus = "wait"]
      [] ModeOf[o] = "expand" -> [a EXCEPT !.expandSn = o, !.expandStatus = "wait"]

AddHours(a, o, now) ==
    [a EXCEPT !.expire = ExpireAfter(a, Hours[o], now),
              !.credit[o] = @ + 1]

\* Mutants: the hours are added and the status forgotten; only an order that
\* waits is credited, and SetBaseOrder makes none wait.
BaseStaysUnpaid(a, o, now) ==
    IF a.baseSn = o /\ a.baseStatus # "paid"
    THEN [AddHours(a, o, now) EXCEPT !.overBase = o, !.locked = TRUE, !.overMode = "wait"]
    ELSE a
BaseMustWait(a, o, now) ==
    IF a.baseSn = o /\ a.baseStatus = "wait"
    THEN [AddHours(a, o, now) EXCEPT !.baseStatus = "paid", !.overBase = o,
                                     !.locked = TRUE, !.overMode = "wait"]
    ELSE a

SetBaseOrderPaid(a, o, now) ==
    IF a.baseSn = o /\ a.baseStatus # "paid"
    THEN [AddHours(a, o, now) EXCEPT !.baseStatus = "paid", !.overBase = o,
                                     !.locked = TRUE, !.overMode = "wait"]
    ELSE a

\* Mutant: a renewal is credited with every notice.
RenewEveryNotice(a, o, now) ==
    IF a.renewSn = o THEN [AddHours(a, o, now) EXCEPT !.renewStatus = "paid"] ELSE a

SetRenewOrderPaid(a, o, now) ==
    IF a.renewSn = o /\ a.renewStatus # "paid"
    THEN [AddHours(a, o, now) EXCEPT !.renewStatus = "paid"]
    ELSE a

\* Mutant: an expansion is handed to admission with every notice.
ExpandEveryNotice(a, o) ==
    IF a.expandSn = o
    THEN [a EXCEPT !.expandStatus = "paid", !.overRes = o, !.overMode = "wait"]
    ELSE a

SetExpandOrderPaid(a, o) ==
    IF a.expandSn = o /\ a.expandStatus # "paid"
    THEN [a EXCEPT !.expandStatus = "paid", !.overRes = o, !.overMode = "wait"]
    ELSE a

\* SetOrderStatus for an order the console reports as paid.
SetOrderStatus(a, o, now) ==
    CASE ModeOf[o] = "base" -> SetBaseOrderPaid(a, o, now)
      [] ModeOf[o] = "renew" -> SetRenewOrderPaid(a, o, now)
      [] ModeOf[o] = "expand" -> SetExpandOrderPaid(a, o)

-----------------------------------------------------------------------------
(* Admission of the bought resources.                                      *)

IsExpand(a) == a.expandStatus = "paid"
CanOverSellingCheck(a) == a.overMode \in {"wait", "no-resource"}
NeedOverSellingCheck(a) == CanOverSellingCheck(a) /\ ~IsExpand(a)

OverResource(a, u) == IF IsExpand(a) THEN u.overRes ELSE u.overBase

\* Mutant: a base order comes on top of the cost package's quota.
BaseOnTopOfPackage(a, u) ==
    IF a.overMode = "success" THEN u.quota
    ELSE Plus(u.quota, Unit(OverResource(a, u)))

\* The quota the object u holds after SetOverMode(true) on the account a.
OverModeQuota(a, u) ==
    IF a.overMode = "success" THEN u.quota
    ELSE IF IsExpand(a) THEN Plus(u.quota, Unit(u.overRes))
    ELSE Unit(u.overBase)

SetOverMode(a, u) ==
    IF a.overMode = "success"
    THEN [a EXCEPT !.overMode = "no-resource"]
    ELSE [a EXCEPT !.overMode = "success", !.quota = OverModeQuota(a, u),
                   !.overRes = IF IsExpand(a) THEN NoOrder ELSE @]

\* Mutant: a locked quota is replaced too.
ReplaceLockedQuota(a) ==
    IF a.jobStatus = "complete" \/ a.cluster = "ready" THEN a
    ELSE [a EXCEPT !.quota = Unit(Package)]

\* The cost package sets the quota until a purchase locks it.
ReplaceQuota(a) ==
    IF a.jobStatus = "complete" \/ a.cluster = "ready" \/ a.locked THEN a
    ELSE [a EXCEPT !.quota = Unit(Package)]

-----------------------------------------------------------------------------
(* Refunds.                                                                *)

\* The refund of a renewal records no resources, and the expiry time as it
\* is: the shortened time that LockReturnK3kOrder computes is discarded.
LockReturn(a, u, o, now) ==
    LET res == IF ModeOf[o] = "renew" THEN Zero ELSE Minus(u.quota, Unit(o))
        time == IF a.expire # NoTime /\ ModeOf[o] = "base" THEN now ELSE a.expire
    IN [a EXCEPT !.returnInfo = [sn |-> o, res |-> res, time |-> time]]

\* Mutant: the settled record is emptied instead of deleted.
ReturnEmptied(a, u) ==
    IF a.returnInfo = NoReturn THEN a
    ELSE [SetOverMode(a, u) EXCEPT
            !.expire = IF a.returnInfo.time > 0
                       THEN LocalStamp(a.returnInfo.time) ELSE @,
            !.returnInfo = NoOrder]

\* The recorded resources replace those of the object u only: the account's
\* quota is whatever SetOverMode left there.
ProcessReturn(a, u) ==
    IF a.returnInfo = NoReturn THEN a
    ELSE [SetOverMode(a, u) EXCEPT
            !.expire = IF a.returnInfo.time > 0
                       THEN LocalStamp(a.returnInfo.time) ELSE @,
            !.returnInfo = NoReturn]

QuotaAfterReturn(a, u) ==
    IF a.returnInfo = NoReturn THEN u.quota ELSE a.returnInfo.res

=============================================================================
