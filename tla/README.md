# Verification of the w7panel tenant platform

w7panel-server sells virtual Kubernetes clusters. A tenant is a ServiceAccount
whose labels and annotations hold everything the server knows about it: orders,
expiry time, quota, cluster status. Handlers, commands and controllers change
that one object concurrently, with merge patches that carry no version. These
modules model that core: what is bought, what is granted, what becomes of the
tenant's cluster and of the server it runs on, and how the panel keeps track of
the applications installed in a cluster.

`K` stands for `src/common/service/k8s/k3k`.

## Inventory of the system

| Component | Its state | Its operations | What is hard about it | What makes it correct |
|---|---|---|---|---|
| Tenant account (`K/types/k3kuser*.go`) | labels and annotations of a ServiceAccount; a K3kUser parses some of them once | the setters and guards of K3kUser | parsed fields go stale under CreateOrPatch; times are written local and read as UTC | time and resources are those paid for |
| Purchases (`K/order/k3korder.go`, `app/k3k/http/controller/order.go`) | order numbers and statuses in the account; the orders at the console | create, label, notify, refresh | notices repeated, late, lost and concurrent; a mutex per request that excludes nobody | each paid order counts once, and in the end |
| Refunds (`app/k3k/console`, `ProcessReturnOrder`) | a record in the account | find, record, tell the console, settle | a crash between any two steps | the record survives; the console hears only of recorded ones |
| Overselling check (`K/overselling`, `TryCheckOverSellingResource`) | none of its own: it counts quotas of ready tenants | count, compare, admit | check-then-act across tenants; who is counted | what is given away stays below the capacity |
| Lifecycle controller (`K/k3ksacontroller.go`, `K/sa`) | cluster status, pause, pending recycle time; the quota object; the k3k Cluster | reconcile, recycle, renew | a cache behind the API server, failures between steps, renewals in between | nobody's cluster is deleted while in use; recycling ends |
| Installation jobs (`K/k3kjobcontroller.go`, `K/types/k3kclient.go`) | job name and status in the account | create, mark | orphaned jobs, late events, pods that fail and are retried | ready means installed |
| Webhooks (`common/service/k8s/webhook`) | the StatefulSet of a tenant's server and its pod; timers | pause, restart and limit the server when the account changes | it acts before the account is stored, reads caches, is skipped when slow, and repeats nothing | the server runs just when the account is not paused, with the account's quota |
| Application groups (`common/service/k8s/appgroup`) | AppGroup objects with status and finalizer; a rate limited queue | workload events to status; clean and let go a deleted group | five workers, retries, reordering, caches, parents and children | the group shows its workloads; a group goes only after the deletion of all it shows was called for |
| Sync from tenant clusters (`K/sync.go`) | none | copy one ingress, secret or service on request | the caller is in the tenant's cluster | the copy is the original |
| Tokens and sessions (`refreshtoken.go`, `token.go`, `app/auth`) | maps of tokens | issue, refresh | several maps changed one after the other | one live refresh token per user |
| Client caches (`sdkfactory.go`, `sdk.go`) | clients by token | make, reuse | entries outlive tokens | no client of a revoked token |
| Package installation (`app/zpk`) | helm releases; the group's record of what is being installed | record, then run helm or its job | helm fails or takes minutes; events arrive meanwhile | an installation called deployed has deployed all it recorded |
| Prices and quantities (`K/types/k3korder_compute.go`, `k3klimitrangequota.go`) | none | compute, format, parse | rounding, units | what is written reads back the same |
| Console client, metrics, GPU, Longhorn, Higress, shell, terminal, WebDAV, generated clients | none that matters here | I/O | - | not modelled |

The request handlers load the account (TokenToK3kUser), decide on it, and write
it with CreateOrPatch (Get, closure, merge patch of the difference) or Update
(refused unless nothing changed). The console calls OrderNotify and is called to
create, find and finish orders. The lifecycle controller and the job controller
react to events of the account and of jobs, through the informer's cache. Every
update of an account also passes through the webhook, which changes the server.

## Modules and how they correspond to the code

* `TenantAccount` - the account as a record and the methods of K3kUser as
  operators on it. A method that mutates the account is an operator from account
  to account; the fields of the account are the labels and annotations
  (`baseSn` is `w7.cc/base-order-sn`, `overMode` is `w7.cc/over-mode`, and so on).
  Quantities are abstracted to where they come from: a quota is a function from
  orders and the cost package to how often that source's resources are in it.
  `View` is what NewK3kUser parses once and keeps using. `Diff` and `Merge` are
  the JSON merge patch of CreateOrPatch. `credit` is an auxiliary field that goes
  with the expiry time and counts how often an order's hours are in it.
* `TenantOrders` - one tenant, any number of concurrent requests. A request is a
  record with a step; one action per step, so that the Get and the Patch of every
  CreateOrPatch are apart and anything can happen in between. `Abort` is an error
  return, a panic or the death of the process at any point.
* `TenantLifecycle` - one tenant's cluster over several lives. `seen` is the
  informer's cache, `ctl` the reconcile in progress with the object it has in
  hand, `init` an InitCluster request in progress, `job` and `queue` the
  installation jobs and their events, `k3k` and `limits` the Cluster and the
  ResourceQuota. The finalizer, roles, agent pods and services, the storage
  limits and the deletion of the ServiceAccount are left out.
* `Overselling` - several tenants that share the nodes. Each check counts the
  ready tenants' quotas, looks at the disks, decides and admits, in separate
  steps. Whether the tenant expands is read from the account at the decision; the
  code has it from the object loaded before (`K/function.go:188`), which is the
  same unless another check admitted the tenant meanwhile (`overlap`). CPU and memory are treated alike by the code and are one dimension here.
* `TenantServer` - the server of one tenant. `write` are the updates of the
  account on their way through the API server and its call of the webhook,
  `server` the StatefulSet, `seen` and `seenServer` what the webhook's cached
  client returns. `HandleServiceAccount`, `DoPause`, `DeletePod` and `Restart`
  are the handler's steps; `HandleStatefulSet` is applied to every write of the
  StatefulSet the webhook is asked about (`hooked`). A parameter `hooked` is
  false when the API server goes on without the webhook (failure policy
  Ignore). An update whose handler outlived its request and that meets another
  version is refused; that it would then be tried again is left out.
* `AppGroups` - the controller of application groups. `log` has the versions of
  every watched object that the informer has not delivered yet, `queue` the
  events that wait, `tasks` what the workers are doing: `Take` reads the caches
  and plans, `Step` makes one write. `Retry` is handleErr.
* `Entitlement` - what is promised for an order, abstractly: counted once after
  it was paid, granted once. `TenantEntitlement` maps `TenantOrders` to it.
* `TenantAccountProofs`, `TenantOrdersProofs`, `EntitlementProofs`,
  `TenantQuotaProofs`, `OversellingProofs`, `TenantLifecycleProofs`,
  `TenantServerProofs`, `AppGroupsProofs` - theorems and lemmas.
* `MCTenantOrders`, `MCTenantLifecycle`, `MCOverselling`, `MCTenantServer`,
  `MCAppGroups` - constants for TLC.

The state machines of the account share the operators of `TenantAccount`, so
that each setter is modelled once. `TenantOrders` has the interleavings of
purchases, which `TenantLifecycle` and `Overselling` take as single steps;
`TenantServer` takes the account's pause, quota and maintenance mode as they
come from the other modules' writes.

Operators announced as mutants are wrong variants of the definition that follows
them. No specification uses them; each shows that a property fails when the code
has that bug.

What is assumed of the surroundings: the console gives each order number once; a
tenant has a cost package and no `base-order-pass` label; a base order is
bought, in `TenantLifecycle`, when the cache has caught up and no reconcile is in progress, as it
takes minutes and they take seconds; the clock, in hours, moves only when the
cache has caught up.

What `TenantServer` abstracts: CPU, memory and bandwidth are one number; the
cluster mode is "virtual", the only one handleServiceAccount acts for. The Get
and the Patch of a CreateOrPatch of the StatefulSet are one step, which the
lagging cache makes as general as two. The timer of three seconds fires at any
time. The k3k operator, which is not in the repository, writes its own
specification over a changed one. Every write through the webhook appends to the
container's environment (`webhook/statefulset.go:172`), so that it replaces the
pod. `missed` is a history variable: it holds what a failure kept from the
server (a failed call, a request that went on without the webhook, a handler
that outlived its request, a cache that hid the difference, an update refused
after its handler had acted, timers lost in a crash, a restart before the store
or the cache had the update), until a later change gets through. The properties
excuse just that, as the code repeats nothing.

What `AppGroups` abstracts: a workload is absent, rolling, ready or failed, with
its creation (`born`). An event is the object and whether it was deleted; events
of one kind for one object that wait together are one, as each reads the cache
when it is handled. A task's `fresh` is the set of objects whose resource
version is still the one it read. `later` (AddAfter of a minute) comes when
nothing else is left to do. `settled` is the suffix of a group that grew from a
workload and the report of an installed one; `ticket` says that a group was
installed. Upgrading a group that has no annotations, which panics
(`install.go:302`), is excluded by a guard. The deletions of a cleaning are one
step, in which any of them may fail: cleanAppGroup only logs a failed call
(`workloadmanager.go:404-515`), and HandleAppGroup removes the finalizer all the
same (`:338-342`). What was to be deleted is then kept and nobody comes back for
it. The job that uninstalls a package is left out. `lost` is a history
variable: workloads whose last change was dropped after `MaxRetries`, missed by
a crash, ignored because the cache had no group, overtaken by an older version
that another worker wrote later, removed by the late event of an earlier
deletion, or whose deletion failed in a cleaning. `cleaned` is another: the
workloads, each with its creation, whose deletion a cleaning has called for. So
"cleaned" never means deleted here.

## What the runs check

| Run | Instance | Shows |
|---|---|---|
| `orders_serial` | a base order, a renewal, two expansions, one request at a time, one crash, one refund, clock to 2 | `ExpireBacked`, `GrantedOnce`, `AdmittedIsGranted`: the tenant holds the time and the resources it paid for; `PurchaseKeepsQuota`; `RefundRecordKept` across a crash; `PaidIsCredited` |
| `orders_race` | a base order, two renewals, an expansion, two requests, one crash | `CreditedOnce` and the invariant `CreditInv` that is inductive for it; what two requests may grant is shown by `v_granted` |
| `lifecycle_twice` | two base orders, two jobs, one failure anywhere, clock to 5 | `ReadyIsInstalled`, `InUseIsKept`, `LabelSteps`, `UnpausedInUse` over two lives, and the invariant `LifeInv` behind the first three |
| `lifecycle_renew` | a base order, a renewal, an expansion, one job, no failure, clock to 4 | `RecycledAfterGrace`, `NoticeEnds`, `RecycleEnds`, `QuotaEnforced`, and `LifeInv` with a renewal |
| `overselling` | two tenants, two base orders, an expansion, two checks | `CapacityKept`, `AdmittedWhenRoom` |
| `server` | two updates at a time; three updates and no failure, or two updates and two failures | `KeptDown`: nothing starts the server of a paused account; `PauseFollowed`, `QuotaReaches`: in the end the server is as the account says; the invariant `DownInv` behind the first |
| `appgroups` | a package and its part, a hand-made application, a helm chart with its job; two workers, one retry; one user action or crash anywhere, or two for the package, the part or the hand-made one, a cleaning with failed calls counting as one | `DeployedBacked`; `CleanedFirst`: a group goes only after the deletion of all it shows was called for, whatever came of it; `CleanInv` behind it; `Converges`, `DeletionEnds` |

`orders_serial` also checks `Entitled`, that `TenantOrders` implements
`Entitlement`, and the inductive invariants `EntitledInv`, `OnceInv`, `RecordInv`
and `TimeInv` that carry the proofs; `overselling` also checks `SharedInv`.

Every state machine's `TypeOK` is checked in one of its runs. The time zone offset is 1 in
the order runs, so that its effect shows in `ExpireBacked`, and 0 in the others,
where it would only lengthen the clock.

### Bounds

One request at a time is what a tenant who waits for each page does; two are
enough for every race of a Get with another's Patch. Two renewals make one
replace the other's label; two expansions make one resource follow another. One
refund at most: a second one uses nothing the first one did not. One crash or
failure is placed anywhere. An order of the lifecycle runs buys one hour and the
days of grace are one hour, so that five hours contain a life with its notice
and recycling, and a second one that is bought, installed and used before the
first is forgotten; `lifecycle_renew` follows one life to its end. It has no
failures, which would exceed the time a run may take: failed writes are
those of `lifecycle_twice`. `QuotaEnforced` says that the quota comes back, not
that there is no moment without it. Two jobs are one for each life, or a spare one for a
refused update. In `overselling` the capacity is 170 per cent of 3, truncated to
5, and an order takes 2: any two orders fit and three do not. In `server` a
quota is twice the other, as in maintenance mode, so that a doubled limit could
be mistaken for the other quota's; three updates are a pause, its end and a
change of the quota in any order. In `appgroups` the kinds of application are
those that the code treats differently; two workers are enough for one to
overtake the other, and one retry for an event to come back and be dropped.

### Fairness

* `TenantOrders`: weak fairness of the steps of a request that has begun, as
  goroutines go on; strong fairness of `Notify`, as the console sends notices and
  the tenant's page calls Refresh whenever it is opened. Placing, paying, refunds
  and the clock need not happen.
* `TenantLifecycle`: weak fairness of the reconcile's steps (an error asks for a
  requeue, a changed account is an event, an account with an expiry time is
  looked at every 30 minutes, and the informer resyncs), of the informer, of the
  k3k operator that deletes a Cluster, and of the clock. Failures are bounded.
* `TenantServer`: weak fairness of the handler's steps, of the API server's
  decision, of a restart that is due, of the caches and of a panel that is
  started again by its Deployment; of the k3k operator only after somebody else
  changed the StatefulSet, as nothing else wakes it; of the StatefulSet
  controller. Updates of the account need not happen; failures are bounded.
* `AppGroups`: weak fairness of the informers and workers together. A retried
  event comes back after milliseconds, and the number of retries is bounded, so
  that the workers cannot be kept from one event for ever. Users, helm, the
  workloads' own controllers and crashes need do nothing.
* `Overselling`: weak fairness of a check that has begun; strong fairness of a
  tenant's asking for one, which the page and each login do.

### Where the code does not do what it says

| Run | Property | What happens |
|---|---|---|
| `v_granted` | `GrantedOnce` | The comment at `K/types/k3kuser.go:706` guards an expansion against being added several times by clearing its annotation. Two requests that interleave, one with an object parsed before the other's admission, add it twice. With one request at a time the property holds (`orders_serial`). |
| `v_refund` | `RefundApplied` | A refund records the resources that shall remain, and settling it is to make them take effect (`K/types/k3kuser.go:793`). SetOverMode runs first and turns `success` into `no-resource`; the recorded resources reach only the object in memory. |
| `v_renewed` | `RenewedIsKept` | One can renew within three days (`K/types/k3kuser_order.go:124`). A renewal during the notice moves the expiry time and neither the status nor the pending time: the cluster is recycled, and the bought time is deleted. |
| `v_unchecked` | `FirstPurchaseChecked` | A first purchase has to be checked for resources (`K/types/k3kuser.go:368`). The paid expansion of the life before makes the next first purchase look like an expansion, which needs no check. |
| `v_oversold` | `PassMeansRoom` | A passed check means there are sufficient resources (`app/k3k/http/controller/overselling.go:97`). Tenants that were admitted and are not installed yet are not counted (`K/overselling/client.go:74`), so that checks pass one after the other beyond the capacity. |

`RecycledAfterGrace`, `ReadyIsInstalled`, `InUseIsKept` and `LabelSteps` except the
tenant that renewed late (`late`: when its time had run out), for the reason that
`v_renewed` shows; that a ready account names a job that succeeded is not excepted. `CapacityKept` excepts checks
that overlooked a tenant or another check (`overlap`), for the reason that
`v_oversold` shows.

## What is proved

TLAPS proves, for every value of the constants, from the modules' named
assumptions: absent names are no orders (`NamesAssumption`), every order has a
mode and buys at least an hour (`OrderAssumption`), offset and grace are natural
numbers (`TimeAssumption`), no recorded refund is the absent one
(`ReturnAssumption`), tenants and orders that share nodes are finitely many and
have sizes and capacities that are natural numbers (`TenantsAssumption`,
`SizeAssumption`), the empty job name is no job (`JobAssumption`), and the bounds, quotas and application shapes are
what their modules say (`BoundsAssumption`, `BoundAssumption`,
`QuotaAssumption`, `ShapeAssumption`, `NoGroupAssumption`).

`TenantOrders`, any number of concurrent requests:

* `TypeCorrect`: `Spec => []TypeOK`. The part that is not obvious is that any
  pending patch merges into any account to give an account (`DiffType`).
* `CreditSafe`: `Spec => []CreditInv`. That no order is credited twice is not
  inductive: two requests may both hold a patch that counts the same order's
  hours. `CreditInv` says why that is harmless. A patch writes absolute values,
  not increments; a label is written once, by the one request that placed the
  order (`Creating`), and until then nothing has credited the order (`Uncredited`); after that an
  account or a patch that counts the order goes with the paid status, which only
  the label of another order takes back, and then the order's own label is gone
  for good. `PatchCredit` is the core: writing a patch, however old its Get,
  preserves this.
* `CreditOnce`: `Spec => []CreditedOnce`, from `CreditSafe`.

Steps that touch neither labels nor credits are handled together: they are
`Quiet`, and `QuietStep` shows that such steps preserve the invariant.

`TenantEntitlement`, with the assumption `Serial`, that there is at most one
request at a time (`v_granted` shows that it is needed):

* `EntitledSafe`: `Spec => []EntitledInv`. Everything a request or the account
  has in hand is paid for (`Sound`, `SoundUser`). While nothing is given back the
  account is in one of four stages, on which labels, quota and admission mode
  agree: nothing bought, the base order to be admitted, admitted, an expansion
  to be admitted (`Orderly`). With one request nothing changes between its steps,
  so that what a step relied on holds in the next (`Reliable`); a pending patch
  leads to a good account by a lawful step.
* `Implements`: `Spec => Entitled`. Every step of `TenantOrders` is a step of
  `Entitlement` on the console's states, the credited orders and the quota, or
  leaves them as they are.

* `AdmittedHolds`: `Spec => []AdmittedIsGranted`, and `PurchaseIsKept`:
  `Spec => PurchaseKeepsQuota`. Both follow from `EntitledInv`; the first needs
  its stages to say what an admitted account holds (`HoldsBase`), also while an
  expansion waits.
* `OnceSafe` and `GrantOnce`: `Spec => []GrantedOnce`, with refunds, which
  `Implements` leaves aside. A recorded refund, a parsed copy and a pending patch
  may all bring an old quota back. `OnceInv` says that whichever holds an
  expansion, the account will not hand that expansion to admission again: it is
  not the one that waits, and its status is paid if its label is still there.
* `RecordSafe` and `RefundRecordIsKept`: `Spec => RefundRecordKept`. A request
  that tells the console or settles works on the order that the account records
  (`RecordInv`), from any crash on.
* `TimeSafe` and `ExpireIsBacked`: `Spec => []ExpireBacked`. The expiry time is
  bounded by sums over the counted orders, and a pending patch or a recorded
  refund by the same sums (`TimeInv`). The set of orders may be infinite: a
  lemma shows that finitely many have been issued.

Sums over sets are folds that the library defines by recursion and no prover
here unfolds by induction. `TenantAccountProofs` gets what it needs by the
smallest counterexample: a finite set for which a law of sums failed would have
a subset of least cardinality for which it fails, and taking an element away
leads to a smaller one (`Smallest`, `SumExists`, `SumUnique`, `TotalElement`).

`Overselling`, any finite sets of tenants and orders, any sizes, percentages and
number of checks:

* `TypeCorrect`: `Spec => []TypeOK`.
* `SharedSafe`: `Spec => [](SharedInv /\ CapacityKept)`. While no check overlooks
  anything (`~overlap`), at most one check is between its count and its
  admission; what is held is within its count; the account of every check's
  tenant gives the copy that was parsed (`Fresh`), so that what is granted is
  what was compared (`GrantedIsCompared`). Purchases, installations and expiries
  in between change no quota and outdate no copy (`BuyInv`, `TenantStep`).
* `CapacityIsKept`: `Spec => []CapacityKept`.

  The attempt to prove this corrected the model's premise. `overlap` used to say
  only that two checks had counted at once or that a tenant had not been counted.
  With four orders and two checks that is not enough: an admission of the same
  tenant, between the begin and the count of another check, outdates the copy
  that the other grants from, and the capacity is exceeded although every
  count was complete. `Admit` now sets `overlap` for that case too. The three
  orders of the run are too few to need it; the theorem covers any number.

`TenantLifecycle`, any number of lives, jobs, hours and failures:

* `LifecycleTypes`: `Spec => []TypeOK`, for every tenant. The patch in hand has
  three fields at most, and merges into whatever the account has become.

* `OneLife`: `Spec => []LifeInv`. None of the promises is inductive: the deletion
  of a cluster is decided on what a reconcile read, the status on what a job's
  event says, both from a cache. `LifeInv` ties all that is in flight to the life
  of the tenant it was begun in: the cache is at most one status behind where it
  matters (`CacheOK`); what a reconcile found at its start holds until it has
  acted (`InUseReconcile`, `NoticeReconcile`, `RecycleReconcile`); a patch says
  what is true of the account although it was computed from the cache
  (`PatchOK`); a request for an installation whose cluster has been deleted
  since can no longer be the one that is stored, since the account then has
  another base order (`RequestOK`). All that is `InLife`, and lasts until the
  tenant renews late: it can then have its cluster installed anew, and a
  reconcile that still sees the notice writes `recycle` over `creating`. A
  renewal in time keeps it: the cache may then hold the end of before, but
  neither end has come (`BothGoOn`), since the cache catches up before the next
  hour. `ReadyOK` lasts in any case, since only the job that the account names
  makes it ready.
* `ReadyHasCluster`: `Spec => []ReadyIsInstalled`; `NeverDeletedInUse`:
  `Spec => InUseIsKept`; `GraceIsGiven`: `Spec => RecycledAfterGrace`;
  `LabelsInOrder`: `Spec => LabelSteps`. All four follow from `OneLife`; the last
  two by way of `ClusterSteps`, which says which step changes a status, from
  what and when.

  The attempt to prove these with renewals corrected the model's premise. `late`
  used to say that a renewal was bought while the account was on notice or being
  recycled. With two renewals and two jobs that is not enough, and
  `RecycledAfterGrace` and `InUseIsKept` failed: a tenant whose time has run out
  renews just before the notice is written; the patch, computed from the account
  before, puts it on notice all the same; it installs its cluster anew, renews
  once more, and the patch of a reconcile of the notice recycles it. `late` now
  says that a renewal was bought when the time had run out, whatever the status.

`AppGroups`, any applications and number of workers:

* `GroupTypes`: `Spec => []TypeOK`.
* `DeployedIsBacked`: `Spec => []DeployedBacked`. ComputeStatus establishes it
  for every group it is applied to, and an installation restarts the status; no
  write is based on anything but the stored group, as resource versions must fit.
* `CleaningIsComplete`: `Spec => []CleanInv`, and `CleaningComesFirst`:
  `Spec => CleanedFirst`. A worker cleans what an old copy of the group shows,
  and other workers may add to the group meanwhile. `CleanInv` says that this is
  harmless while the worker's copy is the last version, and otherwise its update
  conflicts: it then cleans all that the group shows (`Covers` in the proof), and
  has called for it when it comes to the finalizer. What it shows could still be
  a creation that comes only after the cleaning; `Dated` excludes that: no group,
  cache or worker knows a creation that has not happened. Whether the calls
  succeeded is not part of it.

`TenantServer`, any number of updates at a time:

* `ServerTypes`: `Spec => []TypeOK`.
* `PauseIsKept`: `Spec => []DownInv`. The pause is in the StatefulSet and its
  template from when the webhook has carried it out, which is before the account
  is stored, to when it has carried out the end of the pause, which is before
  that is stored too. So the invariant speaks of the updates in between
  (`Pausing`, `Unpausing`), and of each update's own shape (`Shaped`): one that
  can still be stored was applied to the account as it is.
* `StaysDown`: `Spec => KeptDown`, from `PauseIsKept`: every pod that is created
  while the account is paused is denied by its template's annotation, which
  `HandleStatefulSet` restores from the StatefulSet's after every write of the
  operator.

Only model-checked: all liveness (`PaidIsCredited`, `NoticeEnds`, `RecycleEnds`,
`UnpausedInUse`, `QuotaEnforced`, `AdmittedWhenRoom`, `Converges`, `DeletionEnds`,
`PauseFollowed`, `QuotaReaches`), which is out of the prover's reach.

## Not modelled

* Coupons: the console locks them and uses them up; the account holds nothing of
  them, and what becomes of a coupon that was locked by an order that failed is
  the console's decision.
* Refresh tokens: FindUsernameByToken returns an error for every token, also for
  one that is valid (`common/service/refreshtoken.go:47-67` falls through to
  "token not found"), so that nothing depends on what its maps hold.
* Prices and quantities: arithmetic without state. In these modules resources are
  the orders they come from, not amounts. A model of decimal formatting would be
  one of the Kubernetes library, which is not in the repository.
* Client and token caches: expiring entries in a library; the API server checks
  the token of a cached client at every call.
* Sync from tenant clusters: each call copies one object and keeps nothing; when
  it is called is decided in the tenant's cluster.
* The webhook's other handlers rewrite the object of the request, leaving nothing
  behind. Clusters in mode "shared" are limited by the ResourceQuota, which is in
  `TenantLifecycle`.
* Of `AppGroups`: services made for workloads, static files, titles and domains;
  the deletion of a parent with children, of which `DeletionEnds` promises
  nothing: a child looks up the group of its own name where its parent's is
  meant (`appgroup/workloadmanager.go:347`).
* The deletion of a ServiceAccount, roles, agent pods and services, storage
  limits.
* Console client, metrics, GPU, Longhorn, Higress, shell, terminal and WebDAV are
  input and output without state of their own; generated clients and chart data
  are not code of this system.
