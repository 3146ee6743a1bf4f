--------------------------- MODULE TenantLifecycle ---------------------------
(***************************************************************************)
(* The life of one tenant's cluster: bought, admitted, installed by a job, *)
(* expired, paused, recycled and sold again.  The tenant's requests, the   *)
(* ServiceAccount controller and the Job controller run at the same time   *)
(* and share the account.                                                  *)
(*                                                                         *)
(* The controllers read the account from the informer's cache, which lags  *)
(* behind the API server.  They write it either with CreateOrPatch, which  *)
(* merges the fields that changed into whatever the server holds, or with  *)
(* Update, which the server refuses unless it holds what was read.         *)
(*                                                                         *)
(* A purchase is one step here: TenantOrders has its interleavings.        *)
(***************************************************************************)
EXTENDS TenantAccount, FiniteSets

CONSTANTS
    MaxNow,     \* bound: the last hour of the clock
    MaxFail     \* bound: how many steps end in an error or a crash

ASSUME BoundsAssumption == MaxNow \in Nat /\ MaxFail \in Nat
ASSUME JobAssumption == NoJob \notin Job

VARIABLES
    account,    \* the ServiceAccount as the API server stores it
    seen,       \* the ServiceAccount in the controllers' cache
    ctl,        \* what the ServiceAccount controller is doing
    init,       \* what the tenant's InitCluster request is doing
    job,        \* the state of each installation job
    queue,      \* the jobs the Job controller has an event for
    k3k,        \* the tenant's k3k Cluster object
    limits,     \* the ResourceQuota in the tenant's namespace, if there is one
    bought,     \* the orders paid so far
    late,       \* auxiliary: a renewal was bought when the time had run out
    now,        \* the clock, in hours
    fails       \* how many steps have failed

vars == <<account, seen, ctl, init, job, queue, k3k, limits, bought, late, now, fails>>

\* A job has BackoffLimit 1: a failed pod is followed by a second one.
JobState == {"none", "first", "second", "ok", "okAfterFailure", "failed"}
Succeeded(j) == job[j] \in {"ok", "okAfterFailure"}
Failed(j) == job[j] \in {"second", "okAfterFailure", "failed"}

CtlStep == {"idle", "status", "write", "delete", "check", "dropLimits", "setLimits"}
InitStep == {"idle", "create", "update"}

\* status: the cluster status the reconcile began with; sa: the object in
\* hand; patch: the write that CreateOrPatch is about to send.
CtlIdle == [step |-> "idle", status |-> "new", sa |-> Registered, patch |-> EmptyPatch]
InitIdle == [step |-> "idle", sa |-> Registered, job |-> NoJob]

Init ==
    /\ account = Registered
    /\ seen = Registered
    /\ ctl = CtlIdle
    /\ init = InitIdle
    /\ job = [j \in Job |-> "none"]
    /\ queue = {}
    /\ k3k = "absent"
    /\ limits = {}
    /\ bought = {}
    /\ late = FALSE
    /\ now = 1
    /\ fails = 0

Fail == fails < MaxFail /\ fails' = fails + 1

-----------------------------------------------------------------------------
(* The tenant.                                                             *)

\* An order is placed, paid and credited.  A base order is what a tenant
\* without a cluster buys, over minutes: the controllers are done with what
\* was before.
Buy(o) ==
    /\ o \notin bought
    /\ ModeOf[o] = "base" => seen = account /\ ctl.step = "idle"
    /\ CanBuy(account, ModeOf[o], now)
    /\ account' = SetOrderStatus(SetOrder(account, o), o, now)
    /\ bought' = bought \cup {o}
    /\ late' = (late \/ (ModeOf[o] = "renew" /\ IsExpired(account, now)))
    /\ UNCHANGED <<seen, ctl, init, job, queue, k3k, limits, now, fails>>

\* TryCheckOverSellingResource finds room for the resources at hand.
Admit ==
    /\ CanOverSellingCheck(account)
    /\ account' = SetOverMode(account, View(account))
    /\ UNCHANGED <<seen, ctl, init, job, queue, k3k, limits, bought, late, now, fails>>

\* ReInitCluster loads the account, and InitCluster decides on what it loaded.
InitCluster ==
    /\ init.step = "idle"
    /\ ~NeedCreateOrder(account)
    /\ ~IsExpired(account, now)
    /\ ~NeedOverSellingCheck(account)
    /\ init' = [InitIdle EXCEPT !.step = "create", !.sa = account]
    /\ UNCHANGED <<account, seen, ctl, job, queue, k3k, limits, bought, late, now, fails>>

\* K3kClient.Create: first the job ...
CreateJob(j) ==
    /\ init.step = "create"
    /\ job[j] = "none"
    /\ job' = [job EXCEPT ![j] = "first"]
    /\ queue' = queue \cup {j}
    /\ init' = [init EXCEPT !.step = "update", !.job = j]
    /\ UNCHANGED <<account, seen, ctl, k3k, limits, bought, late, now, fails>>

Running(a, j) == [a EXCEPT !.jobStatus = "running", !.jobName = j, !.cluster = "creating"]

\* Mutant: the account is written whatever it has become since.
UpdateBlindly ==
    /\ init.step = "update"
    /\ account' = Running(ReplaceQuota(init.sa), init.job)
    /\ init' = InitIdle
    /\ UNCHANGED <<seen, ctl, job, queue, k3k, limits, bought, late, now, fails>>

\* ... then the account, with Update: a job whose account has changed since
\* it was loaded runs all the same, and nothing refers to it.
UpdateRunning ==
    /\ init.step = "update"
    /\ account' = IF account = init.sa THEN Running(ReplaceQuota(init.sa), init.job)
                  ELSE account
    /\ init' = InitIdle
    /\ UNCHANGED <<seen, ctl, job, queue, k3k, limits, bought, late, now, fails>>

InitAborts ==
    /\ init.step # "idle"
    /\ Fail
    /\ init' = InitIdle
    /\ UNCHANGED <<account, seen, ctl, job, queue, k3k, limits, bought, late, now>>

-----------------------------------------------------------------------------
(* The installation job, and the Job controller.                           *)

JobSucceeds(j) ==
    /\ job[j] \in {"first", "second"}
    /\ job' = [job EXCEPT ![j] = IF @ = "first" THEN "ok" ELSE "okAfterFailure"]
    /\ queue' = queue \cup {j}
    /\ k3k' = "present"
    /\ UNCHANGED <<account, seen, ctl, init, limits, bought, late, now, fails>>

\* A pod of the job fails, before or after it has created the cluster.
JobFails(j) ==
    /\ job[j] \in {"first", "second"}
    /\ Fail
    /\ job' = [job EXCEPT ![j] = IF @ = "first" THEN "second" ELSE "failed"]
    /\ queue' = queue \cup {j}
    /\ k3k' \in {k3k, "present"}
    /\ UNCHANGED <<account, seen, ctl, init, limits, bought, late, now>>

Finished(a, j) ==
    LET done == IF ~Succeeded(j) THEN a
                ELSE [a EXCEPT !.jobStatus = "complete",
                               !.cluster = IF a.cluster \in {"new", "creating"}
                                           THEN "ready" ELSE a.cluster]
    IN IF Failed(j) THEN [done EXCEPT !.jobStatus = "failed"] ELSE done

\* Mutant: an event of a job the account does not name is taken for its own.
JobReconcileAny(j) ==
    /\ j \in queue
    /\ seen = account
    /\ account' = Finished(account, j)
    /\ queue' = queue \ {j}
    /\ UNCHANGED <<seen, ctl, init, job, k3k, limits, bought, late, now, fails>>

\* K3kJobController.Reconcile: an event of a job the cached account does not
\* name is dropped; a refused Update is tried again.
JobReconcile(j) ==
    /\ j \in queue
    /\ IF seen.jobName # j
       THEN queue' = queue \ {j} /\ UNCHANGED account
       ELSE /\ seen = account
            /\ account' = Finished(account, j)
            /\ queue' = queue \ {j}
    /\ UNCHANGED <<seen, ctl, init, job, k3k, limits, bought, late, now, fails>>

-----------------------------------------------------------------------------
(* The ServiceAccount controller.                                          *)

\* Mutant: what a new tenant has is deleted, like what a recycled one has.
ReconcileDeletesNew ==
    /\ ctl.step = "idle"
    /\ ctl' = [CtlIdle EXCEPT
                !.status = seen.cluster,
                !.sa = seen,
                !.step = IF seen.cluster \in {"creating", "ready", "wait"}
                         THEN "status" ELSE "delete"]
    /\ UNCHANGED <<account, seen, init, job, queue, k3k, limits, bought, late, now, fails>>

\* An event, a requeue or the resync of the informer starts a reconcile.
Reconcile ==
    /\ ctl.step = "idle"
    /\ ctl' = [CtlIdle EXCEPT
                !.status = seen.cluster,
                !.sa = seen,
                !.step = CASE seen.cluster \in {"creating", "ready", "wait"} -> "status"
                           [] seen.cluster = "recycle" -> "delete"
                           [] seen.cluster = "new" -> "dropLimits"]
    /\ UNCHANGED <<account, seen, init, job, queue, k3k, limits, bought, late, now, fails>>

\* Mutants: an expired tenant is recycled without notice; a tenant in use
\* keeps the pause of its last notice.
InUseRecycled(a) ==
    [a EXCEPT !.cluster = IF IsExpired(a, now) THEN "recycle" ELSE @,
              !.pause = FALSE,
              !.pending = NoTime]
InUsePaused(a) ==
    [a EXCEPT !.cluster = IF IsExpired(a, now) THEN "wait" ELSE @, !.pending = NoTime]

\* The closures of HandleResourceRecycleStatus, for a tenant in use ...
InUse(a) ==
    [a EXCEPT !.cluster = IF IsExpired(a, now) THEN "wait" ELSE @,
              !.pause = FALSE,
              !.pending = NoTime]

\* ... and for one that waits to be recycled.
Waiting(a) ==
    LET noticed == [SetPendingRecycleTime(a, now) EXCEPT !.pause = TRUE]
    IN IF IsPendingRecycleExpired(noticed, now)
       THEN [noticed EXCEPT !.cluster = "recycle"] ELSE noticed

\* The Get of the CreateOrPatch, from the cache once more.
Status ==
    /\ ctl.step = "status"
    /\ ctl' = [ctl EXCEPT
                !.step = "write",
                !.sa = seen,
                !.patch = Diff(seen, IF ctl.status = "wait" THEN Waiting(seen)
                                     ELSE InUse(seen))]
    /\ UNCHANGED <<account, seen, init, job, queue, k3k, limits, bought, late, now, fails>>

\* Its Patch, which returns the account as it then is; without a change
\* nothing is sent.  What the tenant has is deleted if that account is due.
Write ==
    /\ ctl.step = "write"
    /\ account' = Merge(account, ctl.patch)
    /\ LET sa == IF DOMAIN ctl.patch = {} THEN ctl.sa ELSE account'
           due == ctl.status = "wait" /\ IsPendingRecycleExpired(sa, now)
       IN ctl' = [ctl EXCEPT !.sa = sa, !.patch = EmptyPatch,
                             !.step = IF due THEN "delete" ELSE "dropLimits"]
    /\ UNCHANGED <<seen, init, job, queue, k3k, limits, bought, late, now, fails>>

\* A failed write is logged and passed over for a tenant in use.
WriteFails ==
    /\ ctl.step = "write"
    /\ ctl.status # "wait"
    /\ Fail
    /\ ctl' = [ctl EXCEPT !.step = "dropLimits", !.patch = EmptyPatch]
    /\ UNCHANGED <<account, seen, init, job, queue, k3k, limits, bought, late, now>>

\* Mutant: the call is left out.
DeleteNothing == UNCHANGED k3k

DeleteCluster == k3k' = IF k3k = "present" THEN "terminating" ELSE k3k

\* deleteAssociatedResources.
Delete ==
    /\ ctl.step = "delete"
    /\ DeleteCluster
    /\ limits' = {}
    /\ ctl' = [ctl EXCEPT !.step = IF ctl.status = "recycle" THEN "check" ELSE "dropLimits"]
    /\ UNCHANGED <<account, seen, init, job, queue, bought, late, now, fails>>

\* Mutant: the job status is reset to a name that is none.
ReNewUnnamed(a) ==
    [a EXCEPT !.jobStatus = "none", !.jobName = NoJob, !.pending = NoTime,
              !.expire = NoTime, !.credit = [o \in Order |-> 0],
              !.baseSn = NoOrder, !.baseStatus = "none"]

ReNew(a) ==
    [a EXCEPT !.jobStatus = "unknow", !.jobName = NoJob, !.pending = NoTime,
              !.expire = NoTime, !.credit = [o \in Order |-> 0],
              !.baseSn = NoOrder, !.baseStatus = "none"]

\* isResourceRecyclingComplete deletes the cluster once more and takes the
\* answer NotFound for the end; then the account is written with Update.
Check ==
    /\ ctl.step = "check"
    /\ DeleteCluster
    /\ IF k3k # "absent"
       THEN ctl' = [ctl EXCEPT !.step = "dropLimits"] /\ UNCHANGED account
       ELSE IF account # ctl.sa
       THEN ctl' = CtlIdle /\ UNCHANGED account
       ELSE /\ account' = ReNew([ctl.sa EXCEPT !.cluster = "new"])
            /\ ctl' = [ctl EXCEPT !.step = "dropLimits", !.sa = account']
    /\ UNCHANGED <<seen, init, job, queue, limits, bought, late, now, fails>>

\* The rest of a reconcile: the quota is deleted, and created again from the
\* object in hand when that says the installation is complete.
DropLimits ==
    /\ ctl.step = "dropLimits"
    /\ limits' = {}
    /\ ctl' = IF ctl.sa.jobStatus = "complete" THEN [ctl EXCEPT !.step = "setLimits"]
              ELSE CtlIdle
    /\ UNCHANGED <<account, seen, init, job, queue, k3k, bought, late, now, fails>>

\* Mutant: the base order's resources are enforced, expansions or not.
SetBaseLimits ==
    /\ ctl.step = "setLimits"
    /\ limits' = {Unit(ctl.sa.overBase)}
    /\ ctl' = CtlIdle
    /\ UNCHANGED <<account, seen, init, job, queue, k3k, bought, late, now, fails>>

SetLimits ==
    /\ ctl.step = "setLimits"
    /\ limits' = {ctl.sa.quota}
    /\ ctl' = CtlIdle
    /\ UNCHANGED <<account, seen, init, job, queue, k3k, bought, late, now, fails>>

CtlAborts ==
    /\ ctl.step # "idle"
    /\ Fail
    /\ ctl' = CtlIdle
    /\ UNCHANGED <<account, seen, init, job, queue, k3k, limits, bought, late, now>>

-----------------------------------------------------------------------------
(* The surroundings.                                                       *)

\* The informer delivers the account as it is now.
Sync ==
    /\ seen # account
    /\ seen' = account
    /\ UNCHANGED <<account, ctl, init, job, queue, k3k, limits, bought, late, now, fails>>

\* k3k has finished with a deleted cluster.
ClusterGone ==
    /\ k3k = "terminating"
    /\ k3k' = "absent"
    /\ UNCHANGED <<account, seen, ctl, init, job, queue, limits, bought, late, now, fails>>

\* The informer's lag is counted in seconds, the clock in hours.
Tick ==
    /\ now < MaxNow
    /\ seen = account
    /\ now' = now + 1
    /\ UNCHANGED <<account, seen, ctl, init, job, queue, k3k, limits, bought, late, fails>>

Tenant ==
    \/ \E o \in Order : Buy(o)
    \/ Admit
    \/ InitCluster
    \/ \E j \in Job : CreateJob(j)
    \/ UpdateRunning
    \/ InitAborts

JobSteps == \E j \in Job : JobSucceeds(j) \/ JobFails(j) \/ JobReconcile(j)

Controller ==
    Reconcile \/ Status \/ Write \/ WriteFails \/ Delete \/ Check
        \/ DropLimits \/ SetLimits \/ CtlAborts

Next == Tenant \/ JobSteps \/ Controller \/ Sync \/ ClusterGone \/ Tick

Spec == Init /\ [][Next]_vars

\* Every reconcile is followed by another: an error or an unfinished step asks
\* for one, a change of the account is an event, and the informer resyncs.
FairSpec ==
    /\ Spec
    /\ WF_vars(Reconcile \/ Status \/ Write \/ Delete \/ Check \/ DropLimits \/ SetLimits)
    /\ WF_vars(Sync)
    /\ WF_vars(ClusterGone)
    /\ WF_vars(Tick)

-----------------------------------------------------------------------------
(* Properties.                                                             *)

\* Every variable has its type; the controller patches three fields only.
TypeOK ==
    /\ account \in Account /\ seen \in Account
    /\ DOMAIN ctl = {"step", "status", "sa", "patch"}
    /\ ctl.step \in CtlStep /\ ctl.status \in Cluster /\ ctl.sa \in Account
    /\ DOMAIN ctl.patch \subseteq {"cluster", "pause", "pending"}
    /\ Merge(account, ctl.patch) \in Account
    /\ DOMAIN init = {"step", "sa", "job"}
    /\ init.step \in InitStep /\ init.sa \in Account /\ init.job \in Job \cup {NoJob}
    /\ job \in [Job -> JobState]
    /\ queue \subseteq Job
    /\ k3k \in {"absent", "present", "terminating"}
    /\ limits \in SUBSET Quota
    /\ bought \subseteq Order /\ late \in BOOLEAN
    /\ now \in Nat /\ fails \in Nat

Paid(a) == a.baseStatus = "paid"

\* An account has a job, a paid base order and an end as its status says.
AccountOK(a) ==
    /\ a.cluster = "new" <=> a.jobName = NoJob
    /\ a.cluster # "new" => Paid(a)
    /\ Paid(a) => a.baseSn \in bought /\ a.expire # NoTime
    /\ ~Paid(a) => a.baseSn = NoOrder /\ a.expire = NoTime
    /\ a.pending # NoTime => a.cluster \in {"wait", "recycle"} /\ a.pending = a.expire + Grace
    /\ a.cluster \in {"wait", "recycle"} => IsExpired(a, now)

\* Both were renewed before they ended, so that neither has ended yet.
BothGoOn == ~IsExpired(seen, now) /\ ~IsExpired(account, now)

\* The cache is one life behind at most, and one status of the reconcile.
CacheOK ==
    /\ account.cluster = "new" => \/ seen.cluster = "new"
                                  \/ seen.cluster = "recycle" /\ ~Paid(account)
    /\ account.cluster \in {"creating", "ready"} => seen.cluster \in {"new", "creating", "ready"}
    /\ account.cluster = "wait" => seen.cluster \in {"creating", "ready", "wait"}
    /\ account.cluster = "recycle" => seen.cluster \in {"wait", "recycle"}
    /\ account.cluster # "new" /\ seen.cluster # "new" =>
            seen.expire = account.expire \/ BothGoOn

\* What a reconcile found out at its start is true until it has acted on it.
InUseReconcile ==
    ctl.step \in {"status", "write"} /\ ctl.status # "wait" =>
        {account.cluster, seen.cluster} \subseteq {"creating", "ready", "wait"}
NoticeReconcile ==
    ctl.step \in {"status", "write", "delete"} /\ ctl.status = "wait" =>
        {account.cluster, seen.cluster} \subseteq {"wait", "recycle"}
RecycleReconcile ==
    ctl.step = "check" \/ (ctl.step = "delete" /\ ctl.status # "wait") =>
        /\ ctl.status = "recycle" /\ ctl.sa.cluster = "recycle"
        /\ account.cluster = "recycle" \/ (account.cluster = "new" /\ ~Paid(account))
        /\ seen.cluster \in {"recycle", "new"}

\* So is what the patch on its way was computed from.
PatchOK ==
    ctl.step = "write" =>
        /\ "cluster" \in DOMAIN ctl.patch =>
            IF ctl.status = "wait"
            THEN ctl.patch["cluster"] = "recycle" /\ now > account.expire + Grace
            ELSE ctl.patch["cluster"] = "wait" /\ IsExpired(account, now)
        /\ "pending" \in DOMAIN ctl.patch =>
            ctl.patch["pending"] = IF ctl.status = "wait" THEN account.expire + Grace ELSE NoTime

\* A request acts for the life it was made in.
RequestOK ==
    init.step # "idle" =>
        /\ init.sa.cluster \in {"new", "creating", "ready"}
        /\ Paid(init.sa) /\ init.sa.baseSn \in bought
        /\ init.step = "update" =>
            /\ init.job \in Job
            /\ Succeeded(init.job) =>
                \/ k3k = "present"
                \/ account.cluster \in {"wait", "recycle"}
                \/ account.baseSn # init.sa.baseSn

\* A job that succeeded has left a cluster, which is there while it is used.
InstalledOK ==
    account.cluster \in {"creating", "ready"} /\ Succeeded(account.jobName)
        => k3k = "present"

\* Nobody but the job that the account names makes the account ready.
ReadyOK ==
    /\ account.cluster = "ready" => account.jobName \in Job /\ Succeeded(account.jobName)
    /\ "cluster" \in DOMAIN ctl.patch => ctl.patch["cluster"] \in {"wait", "recycle"}

\* The state of the controllers and the requests, taken together, belongs to
\* one life of the tenant, or to none ...
InLife ==
    /\ AccountOK(account) /\ AccountOK(seen)
    /\ CacheOK
    /\ InUseReconcile /\ NoticeReconcile /\ RecycleReconcile
    /\ PatchOK
    /\ RequestOK
    /\ InstalledOK

\* ... unless the tenant renewed late; and a ready account names a job that
\* succeeded, whenever the tenant renews.
LifeInv == ReadyOK /\ (late \/ InLife)

\* A tenant that is told its cluster is ready has one, put there by the job
\* the account names: no event of another job, no earlier life and no
\* deletion in progress makes that untrue, unless the tenant renewed late.
ReadyIsInstalled ==
    account.cluster = "ready" =>
        /\ account.jobName # NoJob /\ Succeeded(account.jobName)
        /\ k3k = "present" \/ late

\* The cluster of a tenant in use is not deleted, whatever the controller
\* read before, unless the tenant renewed late.
InUseIsKept ==
    [][k3k = "present" /\ k3k' # "present"
        => account.cluster \notin {"creating", "ready"} \/ late]_vars

\* Recycling begins no sooner than Grace hours after the end of the time the
\* tenant has bought, unless the tenant renewed late.
RecycledAfterGrace ==
    [][account.cluster # "recycle" /\ account'.cluster = "recycle"
        => late \/ (account.expire # NoTime /\ now > account.expire + Grace)]_vars

\* However patches, updates and jobs interleave, a cluster is recycled after
\* it was on notice, and an account is new again only after recycling, unless
\* the tenant renewed late.
LabelSteps ==
    [][~late /\ account'.cluster # account.cluster =>
        /\ account'.cluster = "recycle" => account.cluster = "wait"
        /\ account'.cluster = "new" => account.cluster = "recycle"
        /\ account'.cluster = "ready" => account.cluster = "creating"
        /\ account'.cluster = "wait" => account.cluster \in {"creating", "ready"}]_vars

\* A tenant on notice whose time runs out is recycled: the due time does not
\* move away, whatever fails.
NoticeEnds ==
    (account.cluster = "wait" /\ account.expire + Grace < MaxNow)
        ~> (account.cluster # "wait" \/ account.expire + Grace >= MaxNow)

\* Recycling ends.
RecycleEnds == account.cluster = "recycle" ~> account.cluster # "recycle"

\* A tenant in use does not stay paused, though ReNew leaves the pause of the
\* last notice in the account.
UnpausedInUse == account.pause ~> (~account.pause \/ account.cluster \notin {"creating", "ready"})

\* The quota that the account was given is enforced in the namespace, again
\* and again, for as long as the tenant is ready.
QuotaEnforced ==
    (account.cluster = "ready" /\ account.jobStatus = "complete")
        ~> (\/ account.cluster # "ready" \/ account.jobStatus # "complete"
            \/ limits = {account.quota})

\* Stated by the code, and not so (see README).  A tenant that renews within
\* the days of grace keeps its cluster.
RenewedIsKept ==
    [][account.cluster # "recycle" /\ account'.cluster = "recycle"
        => IsExpired(account, now)]_vars

\* Stated by the code, and not so.  The first purchase of a cluster has to be
\* checked against what the nodes have left before the cluster is installed.
FirstPurchaseChecked ==
    [][init.step = "idle" /\ init'.step = "create"
        => account.quota[account.overBase] = 1]_vars

=============================================================================
