----------------------- MODULE TenantLifecycleProofs -----------------------
(***************************************************************************)
(* What TenantLifecycle promises, for every set of orders and jobs, every  *)
(* number of failures and hours.  A renewal that is bought when the time   *)
(* has run out breaks the order of the labels (see README): most promises  *)
(* last until then.                                                        *)
(***************************************************************************)
EXTENDS TenantLifecycle, TenantAccountProofs

\* The fields that the closures of HandleResourceRecycleStatus change.
Patched == {"cluster", "pause", "pending"}

\* Nothing is merged if nothing changed.
LEMMA EmptyMerge ==
    /\ DOMAIN EmptyPatch = {}
    /\ \A a \in Account : Merge(a, EmptyPatch) \in Account
  <1>1. DOMAIN EmptyPatch = {}
    BY DEF EmptyPatch
  <1> QED
    BY <1>1 DEF Merge, Account, Field

\* The closure for a tenant in use.
LEMMA InUseEffect ==
    ASSUME NEW a \in Account
    PROVE  /\ InUse(a) \in Account
           /\ InUse(a).cluster = IF IsExpired(a, now) THEN "wait" ELSE a.cluster
           /\ InUse(a).pending = NoTime
           /\ \A f \in Field \ Patched : InUse(a)[f] = a[f]
  <1> DEFINE s == IF IsExpired(a, now) THEN "wait" ELSE a.cluster
  <1>1. s \in Cluster
    BY DEF Account, Cluster
  <1>2. InUse(a) = [a EXCEPT !.cluster = s, !.pause = FALSE, !.pending = NoTime]
    BY DEF InUse, Account
  <1> HIDE DEF s
  <1>3. /\ InUse(a) \in Account
        /\ InUse(a).cluster = s /\ InUse(a).pending = NoTime
        /\ \A f \in Field \ Patched : InUse(a)[f] = a[f]
    BY <1>1, <1>2, Values DEF Account, Field, Patched
  <1> QED
    BY <1>3 DEF s

\* The closure for a tenant on notice.
LEMMA WaitingEffect ==
    ASSUME NEW a \in Account, now \in Nat,
           NEW t, t = SetPendingRecycleTime(a, now).pending
    PROVE  /\ Waiting(a) \in Account
           /\ Waiting(a).cluster = IF t # NoTime /\ now > t THEN "recycle" ELSE a.cluster
           /\ Waiting(a).pending = t
           /\ t = IF a.pending # NoTime THEN a.pending
                  ELSE IF a.expire = NoTime THEN LocalStamp(now) + Grace
                  ELSE a.expire + Grace
           /\ \A f \in Field \ Patched : Waiting(a)[f] = a[f]
  <1>1. t = IF a.pending # NoTime THEN a.pending
            ELSE IF a.expire = NoTime THEN LocalStamp(now) + Grace
            ELSE a.expire + Grace
    BY DEF SetPendingRecycleTime, Account
  <1>2. t \in Nat
    BY <1>1, TimeAssumption DEF LocalStamp, Account, Time, NoTime
  <1>3. SetPendingRecycleTime(a, now) = [a EXCEPT !.pending = t]
    BY <1>1 DEF SetPendingRecycleTime, Account
  <1> DEFINE noticed == [a EXCEPT !.pending = t, !.pause = TRUE]
             s == IF t # NoTime /\ now > t THEN "recycle" ELSE a.cluster
  <1>4. [SetPendingRecycleTime(a, now) EXCEPT !.pause = TRUE] = noticed
    BY <1>3 DEF Account
  <1>5. noticed.pending = t
    BY DEF Account
  <1>6. IsPendingRecycleExpired(noticed, now) <=> t # NoTime /\ now > t
    BY <1>2, <1>5 DEF IsPendingRecycleExpired, PendingRecycleTime, NoTime
  <1>7. Waiting(a) = [a EXCEPT !.cluster = s, !.pause = TRUE, !.pending = t]
    BY <1>4, <1>6 DEF Waiting, Account
  <1>8. s \in Cluster /\ t \in Time
    BY <1>2, Values DEF Account, Cluster
  <1> HIDE DEF s, noticed
  <1>9. /\ Waiting(a) \in Account
        /\ Waiting(a).cluster = s /\ Waiting(a).pending = t
        /\ \A f \in Field \ Patched : Waiting(a)[f] = a[f]
    BY <1>7, <1>8 DEF Account, Field, Patched
  <1> QED
    BY <1>1, <1>9 DEF s

\* The patch of either closure has no field but those three.
LEMMA PatchFields ==
    ASSUME NEW a, NEW c, \A f \in Field \ Patched : c[f] = a[f]
    PROVE  DOMAIN Diff(a, c) \subseteq Patched
  BY DEF Diff

-----------------------------------------------------------------------------
(* Types.                                                                  *)

\* The patch in hand merges into any account.
LEMMA PatchMerges ==
    ASSUME TypeOK, NEW a \in Account
    PROVE  Merge(a, ctl.patch) \in Account
  <1>1. DOMAIN ctl.patch \subseteq Field
    BY DEF TypeOK, Field
  <1> QED
    BY <1>1, MergeType DEF TypeOK

\* The account and the controller's record, as far as their types go.
CtlOK(c, a) ==
    /\ DOMAIN c = {"step", "status", "sa", "patch"}
    /\ c.step \in CtlStep /\ c.status \in Cluster /\ c.sa \in Account
    /\ DOMAIN c.patch \subseteq {"cluster", "pause", "pending"}
    /\ Merge(a, c.patch) \in Account

\* A controller that holds no patch has its type, whatever the account is.
LEMMA NoPatchOK ==
    ASSUME NEW p \in CtlStep, NEW t \in Cluster, NEW o \in Account, NEW a \in Account
    PROVE  CtlOK([step |-> p, status |-> t, sa |-> o, patch |-> EmptyPatch], a)
  BY EmptyMerge DEF CtlOK

\* Neither does an idle one.
LEMMA IdleOK ==
    /\ CtlIdle = [step |-> "idle", status |-> "new", sa |-> Registered, patch |-> EmptyPatch]
    /\ \A a \in Account : CtlOK(CtlIdle, a)
  BY NoPatchOK, RegisteredType DEF CtlIdle, CtlStep, Cluster

\* The initial state has its type.
LEMMA InitType == Init => TypeOK
  <1> SUFFICES ASSUME Init
               PROVE  TypeOK
    OBVIOUS
  <1>1. account \in Account /\ seen \in Account /\ CtlOK(ctl, account)
    BY RegisteredType, IdleOK DEF Init
  <1>2. DOMAIN init = {"step", "sa", "job"} /\ init.step \in InitStep
        /\ init.sa \in Account /\ init.job \in Job \cup {NoJob}
    BY RegisteredType DEF Init, InitIdle, InitStep
  <1>3. /\ job \in [Job -> JobState] /\ queue \subseteq Job
        /\ k3k \in {"absent", "present", "terminating"}
        /\ limits \in SUBSET Quota /\ bought \subseteq Order /\ late \in BOOLEAN
        /\ now \in Nat /\ fails \in Nat
    BY DEF Init, JobState
  <1> QED
    BY <1>1, <1>2, <1>3 DEF TypeOK, CtlOK

\* The tenant's steps keep the types.
LEMMA TenantType == TypeOK /\ Tenant => TypeOK'
  <1> SUFFICES ASSUME TypeOK, Tenant
               PROVE  TypeOK'
    OBVIOUS
  <1>1. ASSUME account' \in Account, UNCHANGED <<seen, ctl, job, k3k, limits, now>>,
               init' = init, queue' = queue,
               bought' \subseteq Order, late' \in BOOLEAN, fails' = fails
        PROVE  TypeOK'
    <2>1. Merge(account', ctl.patch) \in Account
      BY <1>1, PatchMerges
    <2> QED
      BY <1>1, <2>1 DEF TypeOK
  <1>2. ASSUME NEW o \in Order, Buy(o)
        PROVE  TypeOK'
    <2>1. account' \in Account
      BY <1>2, SetOrderType, SetOrderStatusType DEF Buy, TypeOK
    <2>2. bought' \subseteq Order /\ late' \in BOOLEAN
      BY <1>2 DEF Buy, TypeOK
    <2> QED
      BY <1>2, <2>1, <2>2, <1>1 DEF Buy
  <1>3. CASE Admit
    <2>1. account' \in Account
      BY <1>3, ViewType, SetOverModeType DEF Admit, TypeOK
    <2> QED
      BY <1>3, <2>1, <1>1 DEF Admit, TypeOK
  <1>4. CASE InitCluster
    BY <1>4 DEF InitCluster, TypeOK, InitIdle, InitStep
  <1>5. ASSUME NEW j \in Job, CreateJob(j)
        PROVE  TypeOK'
    <2>1. job' \in [Job -> JobState] /\ queue' \subseteq Job
      BY <1>5 DEF CreateJob, TypeOK, JobState
    <2>2. DOMAIN init' = {"step", "sa", "job"} /\ init'.step = "update"
          /\ init'.sa = init.sa /\ init'.job = j
      BY <1>5 DEF CreateJob, TypeOK
    <2> QED
      BY <1>5, <2>1, <2>2 DEF CreateJob, TypeOK, InitStep
  <1>6. CASE UpdateRunning
    <2>1. \A a \in Account, j \in Job \cup {NoJob} : Running(a, j) \in Account
      BY DEF Running, Account, Cluster, JobStatus
    <2>2. account' \in Account
      BY <1>6, <2>1, ReplaceQuotaType DEF UpdateRunning, TypeOK
    <2>3. Merge(account', ctl.patch) \in Account
      BY <2>2, PatchMerges
    <2> QED
      BY <1>6, <2>2, <2>3, RegisteredType DEF UpdateRunning, TypeOK, InitIdle, InitStep
  <1>7. CASE InitAborts
    BY <1>7, RegisteredType DEF InitAborts, Fail, TypeOK, InitIdle, InitStep
  <1> QED
    BY <1>2, <1>3, <1>4, <1>5, <1>6, <1>7 DEF Tenant

\* The jobs and their controller keep the types.
LEMMA JobType == TypeOK /\ JobSteps => TypeOK'
  <1> SUFFICES ASSUME TypeOK, NEW j \in Job,
                      JobSucceeds(j) \/ JobFails(j) \/ JobReconcile(j)
               PROVE  TypeOK'
    BY DEF JobSteps
  <1>1. CASE JobSucceeds(j)
    BY <1>1 DEF JobSucceeds, TypeOK, JobState
  <1>2. CASE JobFails(j)
    BY <1>2 DEF JobFails, Fail, TypeOK, JobState
  <1>3. CASE JobReconcile(j)
    <2>1. /\ \A a \in Account, s \in JobStatus : [a EXCEPT !.jobStatus = s] \in Account
          /\ \A a \in Account, s \in JobStatus, t \in Cluster :
                 [a EXCEPT !.jobStatus = s, !.cluster = t] \in Account
      BY DEF Account
    <2> DEFINE t == IF account.cluster \in {"new", "creating"} THEN "ready" ELSE account.cluster
               done == IF ~Succeeded(j) THEN account
                       ELSE [account EXCEPT !.jobStatus = "complete", !.cluster = t]
    <2>2. t \in Cluster /\ account \in Account
      BY DEF TypeOK, Account, Cluster
    <2> HIDE DEF t
    <2>3. done \in Account
      BY <2>1, <2>2 DEF JobStatus
    <2>7. Finished(account, j) = IF Failed(j) THEN [done EXCEPT !.jobStatus = "failed"] ELSE done
      BY DEF Finished, t
    <2> HIDE DEF done
    <2>8. Finished(account, j) \in Account
      BY <2>1, <2>3, <2>7 DEF JobStatus
    <2>4. account' \in Account
      BY <1>3, <2>8 DEF JobReconcile, TypeOK
    <2>5. Merge(account', ctl.patch) \in Account
      BY <2>4, PatchMerges
    <2>6. queue' \subseteq Job
      BY <1>3 DEF JobReconcile, TypeOK
    <2> QED
      BY <1>3, <2>4, <2>5, <2>6 DEF JobReconcile, TypeOK
  <1> QED
    BY <1>1, <1>2, <1>3

\* The controller keeps the types: its patch is always of the three fields,
\* and merges into whatever the account has become.
LEMMA ControllerType == TypeOK /\ Controller => TypeOK'
  <1> SUFFICES ASSUME TypeOK, Controller
               PROVE  TypeOK'
    OBVIOUS
  <1>1. ASSUME account' \in Account, CtlOK(ctl', account'),
               UNCHANGED <<seen, init, job, queue, bought, late, now>>,
               k3k' \in {"absent", "present", "terminating"},
               limits' \in SUBSET Quota, fails' \in Nat
        PROVE  TypeOK'
    BY <1>1 DEF TypeOK, CtlOK
  <1>2. /\ account \in Account /\ seen \in Account /\ CtlOK(ctl, account)
        /\ k3k \in {"absent", "present", "terminating"} /\ limits \in SUBSET Quota
        /\ now \in Nat /\ fails \in Nat
    BY DEF TypeOK, CtlOK
  <1>3. ASSUME NEW p \in CtlStep, ctl' = [ctl EXCEPT !.step = p]
        PROVE  CtlOK(ctl', account)
    BY <1>2, <1>3 DEF CtlOK
  <1>4. ASSUME NEW p \in CtlStep, NEW o \in Account, NEW a \in Account,
               \/ ctl' = [ctl EXCEPT !.step = p, !.patch = EmptyPatch]
               \/ ctl' = [ctl EXCEPT !.sa = o, !.patch = EmptyPatch, !.step = p]
        PROVE  CtlOK(ctl', a)
    BY <1>2, <1>4, EmptyMerge DEF CtlOK
  <1>5. CASE Reconcile
    <2>1. PICK p \in CtlStep : ctl' = [CtlIdle EXCEPT !.status = seen.cluster, !.sa = seen, !.step = p]
      <3>1. seen.cluster \in Cluster
        BY <1>2 DEF Account
      <3> QED
        BY <1>5, <3>1 DEF Reconcile, CtlStep, Cluster
    <2>2. ctl' = [step |-> p, status |-> seen.cluster, sa |-> seen, patch |-> EmptyPatch]
      BY <2>1 DEF CtlIdle
    <2>3. CtlOK(ctl', account)
      BY <1>2, <2>2, NoPatchOK DEF Account
    <2> QED
      BY <1>1, <1>2, <1>5, <2>3 DEF Reconcile
  <1>6. CASE Status
    <2> DEFINE c == IF ctl.status = "wait" THEN Waiting(seen) ELSE InUse(seen)
    <2>1. c \in Account /\ \A f \in Field \ Patched : c[f] = seen[f]
      BY <1>2, InUseEffect, WaitingEffect
    <2>2. ctl' = [ctl EXCEPT !.step = "write", !.sa = seen, !.patch = Diff(seen, c)]
      BY <1>6 DEF Status
    <2> HIDE DEF c
    <2>3. DOMAIN Diff(seen, c) \subseteq Patched /\ Merge(account, Diff(seen, c)) \in Account
      BY <1>2, <2>1, PatchFields, DiffType
    <2>4. CtlOK(ctl', account)
      BY <1>2, <2>2, <2>3 DEF CtlOK, CtlStep, Patched
    <2> QED
      BY <1>1, <1>2, <1>6, <2>4 DEF Status
  <1>7. CASE Write
    <2>1. account' \in Account
      BY <1>2, <1>7, PatchMerges DEF Write
    <2>2. PICK p \in CtlStep, o \in Account :
              ctl' = [ctl EXCEPT !.sa = o, !.patch = EmptyPatch, !.step = p]
      BY <1>2, <1>7, <2>1 DEF Write, CtlOK, CtlStep
    <2>3. CtlOK(ctl', account')
      BY <1>4, <2>1, <2>2
    <2> QED
      BY <1>1, <1>2, <1>7, <2>1, <2>3 DEF Write
  <1>8. CASE WriteFails
    <2>1. CtlOK(ctl', account)
      BY <1>2, <1>4, <1>8 DEF WriteFails, CtlStep
    <2> QED
      BY <1>1, <1>2, <1>8, <2>1 DEF WriteFails, Fail
  <1>9. CASE Delete
    <2>1. CtlOK(ctl', account)
      BY <1>3, <1>9 DEF Delete, CtlStep
    <2> QED
      BY <1>1, <1>2, <1>9, <2>1 DEF Delete, DeleteCluster
  <1>10. CASE Check
    <2>1. k3k' \in {"absent", "present", "terminating"}
      BY <1>2, <1>10 DEF Check, DeleteCluster
    <2>2. CASE account' = account /\ ctl' = [ctl EXCEPT !.step = "dropLimits"]
      <3>1. CtlOK(ctl', account)
        BY <1>3, <2>2 DEF CtlStep
      <3> QED
        BY <1>1, <1>2, <1>10, <2>1, <2>2, <3>1 DEF Check
    <2>3. CASE account' = account /\ ctl' = CtlIdle
      BY <1>1, <1>2, <1>10, <2>1, <2>3, IdleOK DEF Check
    <2>4. CASE /\ account' = ReNew([ctl.sa EXCEPT !.cluster = "new"])
               /\ ctl' = [ctl EXCEPT !.step = "dropLimits", !.sa = account']
      <3>1. [o \in Order |-> 0] \in [Order -> Nat]
        OBVIOUS
      <3>2. \A a \in Account : ReNew(a) \in Account
        BY <3>1, Values DEF ReNew, Account, JobStatus, OrderStatus
      <3>3. [ctl.sa EXCEPT !.cluster = "new"] \in Account
        BY <1>2 DEF CtlOK, Account, Cluster
      <3>4. account' \in Account
        BY <2>4, <3>2, <3>3
      <3>5. Merge(account', ctl.patch) \in Account
        BY <3>4, PatchMerges
      <3>6. CtlOK(ctl', account')
        BY <1>2, <2>4, <3>4, <3>5 DEF CtlOK, CtlStep
      <3> QED
        BY <1>1, <1>2, <1>10, <2>1, <3>4, <3>6 DEF Check
    <2> QED
      BY <1>10, <2>2, <2>3, <2>4 DEF Check
  <1>11. CASE DropLimits
    <2>1. CtlOK(ctl', account)
      BY <1>2, <1>3, <1>11, IdleOK DEF DropLimits, CtlStep
    <2> QED
      BY <1>1, <1>2, <1>11, <2>1 DEF DropLimits
  <1>12. CASE SetLimits
    <2>1. limits' \in SUBSET Quota
      BY <1>2, <1>12 DEF SetLimits, CtlOK, Account
    <2> QED
      BY <1>1, <1>2, <1>12, <2>1, IdleOK DEF SetLimits
  <1>13. CASE CtlAborts
    BY <1>1, <1>2, <1>13, IdleOK DEF CtlAborts, Fail
  <1> QED
    BY <1>5, <1>6, <1>7, <1>8, <1>9, <1>10, <1>11, <1>12, <1>13 DEF Controller

\* Every step keeps the types.
LEMMA TypeStep == TypeOK /\ [Next]_vars => TypeOK'
  <1> SUFFICES ASSUME TypeOK, [Next]_vars
               PROVE  TypeOK'
    OBVIOUS
  <1>1. CASE Sync
    BY <1>1 DEF Sync, TypeOK
  <1>2. CASE ClusterGone
    BY <1>2 DEF ClusterGone, TypeOK
  <1>3. CASE Tick
    BY <1>3 DEF Tick, TypeOK
  <1>4. CASE UNCHANGED vars
    BY <1>4 DEF vars, TypeOK
  <1> QED
    BY <1>1, <1>2, <1>3, <1>4, TenantType, JobType, ControllerType DEF Next

\* Every variable has its type: however old the patch is that the controller
\* sends, what it merges into remains an account.
THEOREM LifecycleTypes == Spec => []TypeOK
  BY InitType, TypeStep, PTL DEF Spec

-----------------------------------------------------------------------------
(* What the steps do to the fields that say which life an account is in.   *)

LifeField == {"cluster", "jobName", "baseSn", "baseStatus", "expire", "pending"}
SameLife(a, c) == \A f \in LifeField : c[f] = a[f]

\* Only a base order begins a life: it is paid, and it ends.
LEMMA BuyEffect ==
    ASSUME NEW a \in Account, NEW o \in Order, NEW t \in Nat, ModeOf[o] # "renew",
           NEW c, c = SetOrderStatus(SetOrder(a, o), o, t)
    PROVE  IF ModeOf[o] = "base" /\ ~Paid(a)
           THEN /\ c.baseSn = o /\ Paid(c) /\ c.expire \in Nat
                /\ c.cluster = a.cluster /\ c.jobName = a.jobName /\ c.pending = a.pending
           ELSE ModeOf[o] = "expand" => SameLife(a, c)
  <1>1. CASE ModeOf[o] = "base" /\ ~Paid(a)
    <2> DEFINE b == [a EXCEPT !.baseSn = o]
               e == ExpireAfter(b, Hours[o], t)
    <2>1. b \in Account /\ b.baseSn = o /\ b.baseStatus # "paid"
          /\ b.cluster = a.cluster /\ b.jobName = a.jobName /\ b.pending = a.pending
      BY <1>1, Values DEF Account, Paid
    <2>2. e \in Nat
      BY <2>1, OrderAssumption, TimeAssumption
      DEF ExpireAfter, LocalStamp, Account, Time, NoTime
    <2>3. c = [AddHours(b, o, t) EXCEPT !.baseStatus = "paid", !.overBase = o,
                                        !.locked = TRUE, !.overMode = "wait"]
      BY <1>1, <2>1 DEF SetOrder, SetOrderStatus, SetBaseOrderPaid
    <2> DEFINE d == AddHours(b, o, t)
    <2> HIDE DEF b
    <2>4. d \in Account /\ d.expire = e /\ d.baseSn = o
          /\ d.cluster = b.cluster /\ d.jobName = b.jobName /\ d.pending = b.pending
      BY <2>1, AddHoursType DEF AddHours, Account
    <2> HIDE DEF d, e
    <2>5. c = [d EXCEPT !.baseStatus = "paid", !.overBase = o,
                        !.locked = TRUE, !.overMode = "wait"]
      BY <2>3 DEF d
    <2>6. c.baseSn = o /\ Paid(c) /\ c.expire = e
          /\ c.cluster = d.cluster /\ c.jobName = d.jobName /\ c.pending = d.pending
      BY <2>4, <2>5 DEF Account, Paid
    <2> QED
      BY <1>1, <2>1, <2>2, <2>4, <2>6
  <1>2. CASE ModeOf[o] = "expand"
    <2>1. SetOrder(a, o) = [a EXCEPT !.expandSn = o, !.expandStatus = "wait"]
      BY <1>2 DEF SetOrder
    <2>2. SetOrder(a, o) \in Account /\ SameLife(a, SetOrder(a, o))
      BY <2>1, SetOrderType DEF SameLife, LifeField, Account
    <2>3. \A d \in Account : SameLife(d, SetExpandOrderPaid(d, o))
      BY DEF SetExpandOrderPaid, SameLife, LifeField, Account
    <2>4. c = SetExpandOrderPaid(SetOrder(a, o), o)
      BY <1>2 DEF SetOrderStatus
    <2> QED
      BY <1>2, <2>2, <2>3, <2>4 DEF SameLife
  <1> QED
    BY <1>1, <1>2, ModeCases

\* A renewal before the end prolongs a life, and changes nothing else of it.
LEMMA RenewEffect ==
    ASSUME NEW a \in Account, NEW o \in Order, NEW t \in Nat, ModeOf[o] = "renew",
           NEW c, c = SetOrderStatus(SetOrder(a, o), o, t)
    PROVE  /\ CanRenew(a) /\ ~IsExpired(a, t) => c.expire \in Nat /\ ~IsExpired(c, t)
           /\ \A f \in LifeField \ {"expire"} : c[f] = a[f]
  <1> DEFINE b == SetOrder(a, o)
             e == ExpireAfter(b, Hours[o], t)
  <1>1. b = [a EXCEPT !.renewSn = o, !.renewStatus = "wait"]
    BY DEF SetOrder
  <1>2. /\ b \in Account /\ b.renewSn = o /\ b.renewStatus = "wait"
        /\ \A f \in LifeField : b[f] = a[f]
    BY <1>1, SetOrderType DEF LifeField, Account
  <1>3. CanRenew(a) /\ ~IsExpired(a, t) => e \in Nat /\ ~(t > e)
    <2> SUFFICES ASSUME CanRenew(a), ~IsExpired(a, t) PROVE e \in Nat /\ ~(t > e)
      OBVIOUS
    <2>1. /\ b.expire = a.expire /\ a.expire \in Nat /\ ~(t > a.expire)
          /\ Hours[o] \in Nat
      BY <1>2, OrderAssumption DEF LifeField, Account, Time, CanRenew, IsExpired
    <2> QED
      BY <2>1, TimeAssumption DEF ExpireAfter, LocalStamp, NoTime
  <1>4. c = [AddHours(b, o, t) EXCEPT !.renewStatus = "paid"]
    BY <1>2 DEF SetOrderStatus, SetRenewOrderPaid
  <1> DEFINE d == AddHours(b, o, t)
  <1> HIDE DEF b
  <1>5. /\ d \in Account /\ d.expire = e
        /\ \A f \in LifeField \ {"expire"} : d[f] = b[f]
    BY <1>2, AddHoursType DEF AddHours, LifeField, Account
  <1>6. c = [d EXCEPT !.renewStatus = "paid"]
    BY <1>4
  <1> HIDE DEF d, e
  <1>7. \A f \in LifeField : c[f] = d[f]
    BY <1>5, <1>6 DEF LifeField, Account
  <1> QED
    BY <1>2, <1>3, <1>5, <1>7 DEF LifeField, IsExpired

\* Admission stays within a life.
LEMMA AdmitEffect == \A a \in Account : SameLife(a, SetOverMode(a, View(a)))
  BY DEF SetOverMode, SameLife, LifeField, Account

\* A started installation names its job.
LEMMA RunningEffect ==
    ASSUME NEW a \in Account, NEW j, NEW c, c = Running(ReplaceQuota(a), j)
    PROVE  /\ c.cluster = "creating" /\ c.jobName = j
           /\ \A f \in LifeField \ {"cluster", "jobName"} : c[f] = a[f]
  <1>1. ReplaceQuota(a) \in Account /\ SameLife(a, ReplaceQuota(a))
    BY ReplaceQuotaType DEF ReplaceQuota, SameLife, LifeField, Account
  <1> DEFINE r == ReplaceQuota(a)
  <1> HIDE DEF r
  <1>2. c = Running(r, j) /\ r \in Account /\ SameLife(a, r)
    BY <1>1 DEF r
  <1>3. /\ c.cluster = "creating" /\ c.jobName = j
        /\ \A f \in LifeField \ {"cluster", "jobName"} : c[f] = r[f]
    BY <1>2 DEF Running, LifeField, Account
  <1> QED
    BY <1>2, <1>3 DEF SameLife

\* A job that is done makes the cluster of a new account ready at most.
LEMMA FinishedEffect ==
    ASSUME NEW a \in Account, NEW j, NEW c, c = Finished(a, j)
    PROVE  /\ c.cluster = IF Succeeded(j) /\ a.cluster \in {"new", "creating"}
                          THEN "ready" ELSE a.cluster
           /\ \A f \in LifeField \ {"cluster"} : c[f] = a[f]
  <1> DEFINE t == IF a.cluster \in {"new", "creating"} THEN "ready" ELSE a.cluster
             done == IF ~Succeeded(j) THEN a
                     ELSE [a EXCEPT !.jobStatus = "complete", !.cluster = t]
  <1>1. t \in Cluster
    BY DEF Account, Cluster
  <1>2. c = IF Failed(j) THEN [done EXCEPT !.jobStatus = "failed"] ELSE done
    BY DEF Finished
  <1> HIDE DEF t
  <1>3. /\ done \in Account
        /\ done.cluster = IF Succeeded(j) THEN t ELSE a.cluster
        /\ \A f \in LifeField \ {"cluster"} : done[f] = a[f]
    BY <1>1 DEF LifeField, Account, JobStatus
  <1> HIDE DEF done
  <1>4. \A f \in LifeField : c[f] = done[f]
    BY <1>2, <1>3 DEF LifeField, Account
  <1> QED
    BY <1>3, <1>4 DEF t, LifeField

\* A renewed account is in no life.
LEMMA ReNewEffect ==
    ASSUME NEW a \in Account, NEW c, c = ReNew([a EXCEPT !.cluster = "new"])
    PROVE  /\ c.cluster = "new" /\ c.jobName = NoJob
           /\ c.baseSn = NoOrder /\ ~Paid(c)
           /\ c.expire = NoTime /\ c.pending = NoTime
  <1>1. [a EXCEPT !.cluster = "new"] \in Account
        /\ [a EXCEPT !.cluster = "new"].cluster = "new"
    BY DEF Account, Cluster
  <1> DEFINE b == [a EXCEPT !.cluster = "new"]
  <1> HIDE DEF b
  <1>2. b \in Account /\ b.cluster = "new" /\ c = ReNew(b)
    BY <1>1 DEF b
  <1> QED
    BY <1>2 DEF ReNew, Account, Paid

-----------------------------------------------------------------------------
(* InLife is inductive as long as the tenant does not renew late.          *)

\* The types that the comparisons of InLife rest on.
LEMMA LifeTypes ==
    ASSUME TypeOK
    PROVE  /\ now \in Nat /\ Grace \in Nat /\ NoTime \notin Nat
           /\ account \in Account /\ seen \in Account
           /\ \A a \in Account : /\ a.expire \in Nat \cup {NoTime} /\ a.pending \in Nat \cup {NoTime}
                               /\ a.cluster \in Cluster /\ a.jobName \in Job \cup {NoJob}
                               /\ a.baseSn \in Order \cup {NoOrder}
  BY TimeAssumption DEF TypeOK, NoTime, Account, Time, OptOrder

\* A step that leaves the account in its life leaves InLife.
LEMMA LifeKept ==
    ASSUME InLife, SameLife(account, account'), bought \subseteq bought',
           UNCHANGED <<seen, ctl, init, job, k3k, now>>
    PROVE  InLife'
  <1>1. /\ account'.cluster = account.cluster /\ account'.jobName = account.jobName
        /\ account'.baseSn = account.baseSn /\ account'.baseStatus = account.baseStatus
        /\ account'.expire = account.expire /\ account'.pending = account.pending
    BY DEF SameLife, LifeField
  <1>2. AccountOK(account)' /\ AccountOK(seen)'
    BY <1>1 DEF InLife, AccountOK, Paid, IsExpired
  <1>3. CacheOK'
    BY <1>1 DEF InLife, CacheOK, BothGoOn, IsExpired, Paid
  <1>4. InUseReconcile' /\ NoticeReconcile' /\ RecycleReconcile'
    BY <1>1 DEF InLife, InUseReconcile, NoticeReconcile, RecycleReconcile, Paid
  <1>5. PatchOK'
    BY <1>1 DEF InLife, PatchOK, IsExpired
  <1>6. RequestOK'
    BY <1>1 DEF InLife, RequestOK, Paid, Succeeded
  <1>7. InstalledOK'
    BY <1>1 DEF InLife, InstalledOK, Succeeded
  <1> QED
    BY <1>2, <1>3, <1>4, <1>5, <1>6, <1>7 DEF InLife

\* A request that changes neither the account nor what it is about.
LEMMA RequestKept ==
    ASSUME InLife, RequestOK', UNCHANGED <<account, seen, ctl, k3k, bought, late, now>>,
           \A j : Succeeded(j)' <=> Succeeded(j)
    PROVE  InLife'
  <1>1. AccountOK(account)' /\ AccountOK(seen)' /\ CacheOK'
    BY DEF InLife, AccountOK, CacheOK, BothGoOn, Paid, IsExpired
  <1>2. InUseReconcile' /\ NoticeReconcile' /\ RecycleReconcile' /\ PatchOK'
    BY DEF InLife, InUseReconcile, NoticeReconcile, RecycleReconcile, PatchOK, Paid, IsExpired
  <1>3. InstalledOK'
    BY DEF InLife, InstalledOK
  <1> QED
    BY <1>1, <1>2, <1>3 DEF InLife

\* The tenant's steps keep InLife.
LEMMA TenantLife ==
    ASSUME TypeOK, InLife, Tenant, ~late'
    PROVE  InLife'
  <1>0. now \in Nat /\ account \in Account /\ seen \in Account
    BY DEF TypeOK
  <1>1. ASSUME NEW o \in Order, Buy(o)
        PROVE  InLife'
    <2>1. /\ account' = SetOrderStatus(SetOrder(account, o), o, now)
          /\ bought' = bought \cup {o} /\ o \notin bought
          /\ UNCHANGED <<seen, ctl, init, job, k3k, now>>
          /\ ModeOf[o] = "renew" => CanRenew(account) /\ ~IsExpired(account, now)
      BY <1>1, ModeCases DEF Buy, CanBuy
    <2>2. CASE ModeOf[o] = "expand"
      <3>1. SameLife(account, account')
        BY <1>0, <2>1, <2>2, BuyEffect
      <3> QED
        BY <2>1, <3>1, LifeKept
    <2>3. CASE ModeOf[o] = "base"
      <3>1. seen = account /\ ctl.step = "idle" /\ ~Paid(account)
        BY <1>1, <2>3 DEF Buy, CanBuy, CanCreateBase, Paid
      <3>2. /\ account'.baseSn = o /\ Paid(account') /\ account'.expire \in Nat
            /\ account'.cluster = account.cluster /\ account'.jobName = account.jobName
            /\ account'.pending = account.pending
        BY <1>0, <2>1, <2>3, <3>1, BuyEffect
      <3>3. account.cluster = "new" /\ account.pending = NoTime
        BY <3>1 DEF InLife, AccountOK
      <3>4. AccountOK(account)'
        BY <2>1, <3>2, <3>3, LifeTypes DEF InLife, AccountOK, Paid
      <3>5. AccountOK(seen)'
        BY <2>1 DEF InLife, AccountOK, Paid, IsExpired
      <3>6. CacheOK'
        BY <2>1, <3>1, <3>2, <3>3 DEF CacheOK
      <3>7. InUseReconcile' /\ NoticeReconcile' /\ RecycleReconcile' /\ PatchOK'
        BY <2>1, <3>1 DEF InUseReconcile, NoticeReconcile, RecycleReconcile, PatchOK
      <3>8. RequestOK'
        BY <2>1, <3>2 DEF InLife, RequestOK, Paid, Succeeded
      <3>9. InstalledOK'
        BY <3>2, <3>3 DEF InstalledOK
      <3> QED
        BY <2>1, <3>4, <3>5, <3>6, <3>7, <3>8, <3>9 DEF InLife
    <2>4. CASE ModeOf[o] = "renew"
      <3>1. /\ account'.expire \in Nat /\ ~IsExpired(account', now)
            /\ account'.cluster = account.cluster /\ account'.jobName = account.jobName
            /\ account'.baseSn = account.baseSn /\ account'.baseStatus = account.baseStatus
            /\ account'.pending = account.pending
        BY <1>0, <2>1, <2>4, RenewEffect DEF LifeField
      <3>2. /\ account.cluster \notin {"wait", "recycle"} /\ account.pending = NoTime
            /\ Paid(account) /\ ~IsExpired(account, now)
        BY <2>1, <2>4 DEF InLife, AccountOK, CanRenew
      <3>3. AccountOK(account)'
        BY <2>1, <3>1, <3>2, LifeTypes DEF InLife, AccountOK, Paid
      <3>4. AccountOK(seen)'
        BY <2>1 DEF InLife, AccountOK, Paid, IsExpired
      <3>5. CacheOK'
        <4>1. account.cluster # "new" /\ seen.cluster # "new" => ~IsExpired(seen, now)
          BY <3>2 DEF InLife, CacheOK, BothGoOn, IsExpired
        <4>2. ~IsExpired(account, now)' /\ (IsExpired(seen, now)' <=> IsExpired(seen, now))
          BY <2>1, <3>1 DEF IsExpired
        <4> QED
          BY <2>1, <3>1, <4>1, <4>2 DEF InLife, CacheOK, BothGoOn, Paid
      <3>6. InUseReconcile' /\ NoticeReconcile' /\ RecycleReconcile'
        BY <2>1, <3>1 DEF InLife, InUseReconcile, NoticeReconcile, RecycleReconcile, Paid
      <3>7. PatchOK'
        BY <2>1, <3>1, <3>2 DEF InLife, PatchOK, NoticeReconcile
      <3>8. RequestOK' /\ InstalledOK'
        BY <2>1, <3>1 DEF InLife, RequestOK, InstalledOK, Paid, Succeeded
      <3> QED
        BY <3>3, <3>4, <3>5, <3>6, <3>7, <3>8 DEF InLife
    <2> QED
      BY <2>1, <2>2, <2>3, <2>4, ModeCases
  <1>2. CASE Admit
    <2>1. SameLife(account, account')
      BY <1>0, <1>2, AdmitEffect DEF Admit
    <2> QED
      BY <1>2, <2>1, LifeKept DEF Admit
  <1>3. CASE InitCluster
    <2>1. init' = [step |-> "create", sa |-> account, job |-> NoJob]
      BY <1>3 DEF InitCluster, InitIdle
    <2>2. Paid(account) /\ ~IsExpired(account, now)
      BY <1>3 DEF InitCluster, NeedCreateOrder, Paid
    <2>3. account.cluster \in {"new", "creating", "ready"} /\ account.baseSn \in bought
      BY <1>0, <2>2, LifeTypes DEF InLife, AccountOK, Cluster
    <2>4. RequestOK'
      BY <1>3, <2>1, <2>2, <2>3 DEF InitCluster, RequestOK, Paid
    <2> QED
      BY <1>3, <2>4, RequestKept DEF InitCluster, Succeeded
  <1>4. ASSUME NEW j \in Job, CreateJob(j)
        PROVE  InLife'
    <2>1. job' = [job EXCEPT ![j] = "first"] /\ job[j] = "none" /\ job \in [Job -> JobState]
      BY <1>4 DEF CreateJob, TypeOK
    <2>2. \A i \in Job : Succeeded(i)' <=> Succeeded(i)
      BY <2>1 DEF Succeeded
    <2>3. ~Succeeded(j)'
      BY <2>1 DEF Succeeded
    <2>4. init'.step = "update" /\ init'.sa = init.sa /\ init'.job = j /\ init.step = "create"
      BY <1>4 DEF CreateJob, TypeOK
    <2>5. RequestOK'
      BY <1>4, <2>3, <2>4 DEF CreateJob, InLife, RequestOK, Paid
    <2>6. InstalledOK'
      BY <1>4, <2>1, <2>2, LifeTypes DEF CreateJob, InLife, InstalledOK, AccountOK, Succeeded
    <2>7. AccountOK(account)' /\ AccountOK(seen)' /\ CacheOK'
      BY <1>4 DEF CreateJob, InLife, AccountOK, CacheOK, BothGoOn, Paid, IsExpired
    <2>8. InUseReconcile' /\ NoticeReconcile' /\ RecycleReconcile' /\ PatchOK'
      BY <1>4 DEF CreateJob, InLife, InUseReconcile, NoticeReconcile, RecycleReconcile,
                  PatchOK, Paid, IsExpired
    <2> QED
      BY <1>4, <2>5, <2>6, <2>7, <2>8 DEF CreateJob, InLife
  <1>5. CASE UpdateRunning
    <2>1. init'.step = "idle"
      BY <1>5 DEF UpdateRunning, InitIdle
    <2>2. UNCHANGED <<seen, ctl, job, k3k, bought, late, now>> /\ init.step = "update"
      BY <1>5 DEF UpdateRunning
    <2>3. RequestOK'
      BY <2>1 DEF RequestOK
    <2>4. CASE account # init.sa
      <3>1. account' = account
        BY <1>5, <2>4 DEF UpdateRunning
      <3> QED
        BY <2>2, <2>3, <3>1, RequestKept DEF Succeeded
    <2>5. CASE account = init.sa
      <3>1. account' = Running(ReplaceQuota(account), init.job)
        BY <1>5, <2>5 DEF UpdateRunning
      <3>2. /\ account'.cluster = "creating" /\ account'.jobName = init.job
            /\ account'.baseSn = account.baseSn /\ account'.baseStatus = account.baseStatus
            /\ account'.expire = account.expire /\ account'.pending = account.pending
        BY <1>0, <3>1, RunningEffect DEF LifeField
      <3>3. /\ account.cluster \in {"new", "creating", "ready"} /\ Paid(account)
            /\ init.job \in Job /\ (Succeeded(init.job) => k3k = "present")
        BY <2>2, <2>5 DEF InLife, RequestOK
      <3>4. AccountOK(account)'
        BY <2>2, <3>2, <3>3, JobAssumption DEF InLife, AccountOK, Paid
      <3>5. AccountOK(seen)'
        BY <2>2 DEF InLife, AccountOK, Paid, IsExpired
      <3>6. CacheOK'
        BY <2>2, <3>2, <3>3 DEF InLife, CacheOK, BothGoOn, IsExpired
      <3>7. InUseReconcile' /\ NoticeReconcile' /\ RecycleReconcile'
        BY <2>2, <3>2, <3>3 DEF InLife, InUseReconcile, NoticeReconcile, RecycleReconcile
      <3>8. PatchOK'
        BY <2>2, <3>2 DEF InLife, PatchOK, IsExpired
      <3>9. InstalledOK'
        BY <2>2, <3>2, <3>3 DEF InstalledOK, Succeeded
      <3> QED
        BY <2>2, <2>3, <3>4, <3>5, <3>6, <3>7, <3>8, <3>9 DEF InLife
    <2> QED
      BY <2>4, <2>5
  <1>6. CASE InitAborts
    <2>1. init'.step = "idle"
      BY <1>6 DEF InitAborts, InitIdle
    <2>2. RequestOK'
      BY <2>1 DEF RequestOK
    <2> QED
      BY <1>6, <2>2, RequestKept DEF InitAborts, Succeeded
  <1> QED
    BY <1>1, <1>2, <1>3, <1>4, <1>5, <1>6 DEF Tenant

\* The jobs and their controller keep InLife: a job puts the cluster there
\* before it succeeds, and only the job that the account names makes it ready.
LEMMA JobLife ==
    ASSUME TypeOK, InLife, JobSteps
    PROVE  InLife'
  <1>1. PICK j \in Job : JobSucceeds(j) \/ JobFails(j) \/ JobReconcile(j)
    BY DEF JobSteps
  <1>2. CASE JobSucceeds(j) \/ JobFails(j)
    <2>1. /\ UNCHANGED <<account, seen, ctl, init, bought, late, now>>
          /\ k3k' \in {k3k, "present"}
          /\ job \in [Job -> JobState] /\ job[j] \in {"first", "second"}
      BY <1>2 DEF JobSucceeds, JobFails, TypeOK
    <2> DEFINE ok == {"ok", "okAfterFailure"}
    <2>2. /\ \A i \in Job : job[i] \in ok => job'[i] \in ok
          /\ \A i \in Job : job'[i] \in ok => job[i] \in ok \/ k3k' = "present"
      BY <1>2, <2>1 DEF JobSucceeds, JobFails
    <2>3. AccountOK(account)' /\ AccountOK(seen)' /\ CacheOK'
      BY <2>1 DEF InLife, AccountOK, CacheOK, BothGoOn, Paid, IsExpired
    <2>4. InUseReconcile' /\ NoticeReconcile' /\ RecycleReconcile' /\ PatchOK'
      BY <2>1 DEF InLife, InUseReconcile, NoticeReconcile, RecycleReconcile,
                  PatchOK, Paid, IsExpired
    <2>5. RequestOK'
      <3>1. init.step = "update" /\ job'[init.job] \in ok =>
                \/ k3k' = "present"
                \/ account.cluster \in {"wait", "recycle"}
                \/ account.baseSn # init.sa.baseSn
        BY <2>1, <2>2 DEF InLife, RequestOK, Succeeded
      <3> QED
        BY <2>1, <3>1 DEF InLife, RequestOK, Paid, Succeeded
    <2>6. InstalledOK'
      <3>1. account.cluster \in {"creating", "ready"} => account.jobName \in Job
        BY LifeTypes DEF InLife, AccountOK
      <3>2. account.cluster \in {"creating", "ready"} /\ job'[account.jobName] \in ok
                => k3k' = "present"
        BY <2>1, <2>2, <3>1 DEF InLife, InstalledOK, Succeeded
      <3> QED
        BY <2>1, <3>2 DEF InstalledOK, Succeeded
    <2> QED
      BY <2>1, <2>3, <2>4, <2>5, <2>6 DEF InLife
  <1>3. CASE JobReconcile(j) /\ account' = account
    <2>1. UNCHANGED <<seen, ctl, init, job, k3k, bought, late, now>>
      BY <1>3 DEF JobReconcile
    <2>2. SameLife(account, account')
      BY <1>3 DEF SameLife
    <2> QED
      BY <2>1, <2>2, LifeKept
  <1>4. CASE JobReconcile(j) /\ account' # account
    <2>1. /\ UNCHANGED <<seen, ctl, init, job, k3k, bought, late, now>>
          /\ seen = account /\ account.jobName = j /\ account' = Finished(account, j)
      BY <1>4 DEF JobReconcile
    <2>2. account.cluster # "new"
      BY <2>1, JobAssumption DEF InLife, AccountOK
    <2>3. /\ account'.cluster = IF Succeeded(j) /\ account.cluster = "creating"
                                THEN "ready" ELSE account.cluster
          /\ account'.jobName = account.jobName /\ account'.pending = account.pending
          /\ account'.baseSn = account.baseSn /\ account'.baseStatus = account.baseStatus
          /\ account'.expire = account.expire
      BY <2>1, <2>2, FinishedEffect, LifeTypes DEF LifeField
    <2>4. AccountOK(account)' /\ AccountOK(seen)'
      BY <2>1, <2>2, <2>3 DEF InLife, AccountOK, Paid, IsExpired
    <2>5. CacheOK'
      BY <2>1, <2>2, <2>3, LifeTypes DEF CacheOK, Cluster
    <2>6. InUseReconcile' /\ NoticeReconcile' /\ RecycleReconcile'
      BY <2>1, <2>2, <2>3 DEF InLife, InUseReconcile, NoticeReconcile, RecycleReconcile
    <2>7. PatchOK'
      BY <2>1, <2>3 DEF InLife, PatchOK, IsExpired
    <2>8. RequestOK'
      BY <2>1, <2>3 DEF InLife, RequestOK, Paid, Succeeded
    <2>9. InstalledOK'
      BY <2>1, <2>3 DEF InLife, InstalledOK, Succeeded
    <2> QED
      BY <2>1, <2>4, <2>5, <2>6, <2>7, <2>8, <2>9 DEF InLife
  <1> QED
    BY <1>1, <1>2, <1>3, <1>4

\* A reconcile that ends, or goes on to the quota, gives up all it knew.
LEMMA ReconcileOver ==
    ASSUME InLife, ctl'.step \notin {"status", "write", "delete", "check"},
           UNCHANGED <<account, seen, init, job, k3k, bought, late, now>>
    PROVE  InLife'
  <1>1. AccountOK(account)' /\ AccountOK(seen)' /\ CacheOK'
    BY DEF InLife, AccountOK, CacheOK, BothGoOn, Paid, IsExpired
  <1>2. InUseReconcile' /\ NoticeReconcile' /\ RecycleReconcile' /\ PatchOK'
    BY DEF InUseReconcile, NoticeReconcile, RecycleReconcile, PatchOK
  <1>3. RequestOK' /\ InstalledOK'
    BY DEF InLife, RequestOK, InstalledOK, Paid, Succeeded
  <1> QED
    BY <1>1, <1>2, <1>3 DEF InLife

\* Deleting the cluster of an account that is out of use touches no life: a
\* request still in progress was made in an earlier one.
LEMMA DeletedOK ==
    ASSUME TypeOK, InLife, UNCHANGED <<account, init, job, bought>>,
           \/ account.cluster \in {"wait", "recycle"}
           \/ account.cluster = "new" /\ ~Paid(account)
    PROVE  RequestOK' /\ InstalledOK'
  <1>1. init.step # "idle" =>
            account.cluster \in {"wait", "recycle"} \/ account.baseSn # init.sa.baseSn
    BY NamesAssumption DEF InLife, AccountOK, RequestOK, TypeOK
  <1>2. RequestOK'
    BY <1>1 DEF InLife, RequestOK, Paid, Succeeded
  <1>3. InstalledOK'
    BY DEF InstalledOK
  <1> QED
    BY <1>2, <1>3

\* The patch says what is true of the account, though computed from the cache.
LEMMA StatusLife ==
    ASSUME TypeOK, InLife, Status
    PROVE  InLife'
  <1> DEFINE c == IF ctl.status = "wait" THEN Waiting(seen) ELSE InUse(seen)
  <1>1. ctl' = [ctl EXCEPT !.step = "write", !.sa = seen, !.patch = Diff(seen, c)]
        /\ ctl.step = "status"
    BY DEF Status
  <1>2. UNCHANGED <<account, seen, init, job, k3k, bought, late, now>>
    BY DEF Status
  <1> HIDE DEF c
  <1>3. ctl'.step = "write" /\ ctl'.status = ctl.status /\ ctl'.patch = Diff(seen, c)
    BY <1>1 DEF TypeOK
  <1>4. \A f \in DOMAIN ctl'.patch : ctl'.patch[f] = c[f] /\ c[f] # seen[f]
    BY <1>3 DEF Diff
  <1>5. CASE ctl.status = "wait"
    <2>1. {account.cluster, seen.cluster} \subseteq {"wait", "recycle"}
      BY <1>1, <1>5 DEF InLife, NoticeReconcile
    <2>2. /\ seen.expire = account.expire /\ Paid(seen) /\ seen.expire # NoTime
          /\ seen.pending \in {NoTime, seen.expire + Grace}
      BY <2>1 DEF InLife, CacheOK, BothGoOn, AccountOK
    <2> DEFINE t == SetPendingRecycleTime(seen, now).pending
    <2>3. /\ c.cluster = IF t # NoTime /\ now > t THEN "recycle" ELSE seen.cluster
          /\ c.pending = t
          /\ t = IF seen.pending # NoTime THEN seen.pending
                 ELSE IF seen.expire = NoTime THEN LocalStamp(now) + Grace
                 ELSE seen.expire + Grace
      BY <1>5, WaitingEffect DEF c, TypeOK
    <2> HIDE DEF t
    <2>4. t = account.expire + Grace
      BY <2>2, <2>3
    <2>5. PatchOK'
      BY <1>2, <1>3, <1>4, <1>5, <2>1, <2>3, <2>4 DEF PatchOK
    <2>6. InUseReconcile' /\ NoticeReconcile' /\ RecycleReconcile'
      BY <1>2, <1>3, <1>5, <2>1 DEF InUseReconcile, NoticeReconcile, RecycleReconcile
    <2> QED
      BY <1>2, <2>5, <2>6 DEF InLife, AccountOK, CacheOK, BothGoOn, RequestOK, InstalledOK,
                              Paid, IsExpired, Succeeded
  <1>6. CASE ctl.status # "wait"
    <2>1. {account.cluster, seen.cluster} \subseteq {"creating", "ready", "wait"}
      BY <1>1, <1>6 DEF InLife, InUseReconcile
    <2>2. seen.expire = account.expire \/ BothGoOn
      BY <2>1 DEF InLife, CacheOK
    <2>3. /\ c.cluster = IF IsExpired(seen, now) THEN "wait" ELSE seen.cluster
          /\ c.pending = NoTime
      BY <1>6, InUseEffect DEF c, TypeOK
    <2>4. IsExpired(seen, now) <=> IsExpired(account, now)
      BY <2>2 DEF IsExpired, BothGoOn
    <2>5. PatchOK'
      BY <1>2, <1>3, <1>4, <1>6, <2>3, <2>4 DEF PatchOK, IsExpired
    <2>6. InUseReconcile' /\ NoticeReconcile' /\ RecycleReconcile'
      BY <1>2, <1>3, <1>6, <2>1 DEF InUseReconcile, NoticeReconcile, RecycleReconcile
    <2> QED
      BY <1>2, <2>5, <2>6 DEF InLife, AccountOK, CacheOK, BothGoOn, RequestOK, InstalledOK,
                              Paid, IsExpired, Succeeded
  <1> QED
    BY <1>5, <1>6

\* What a write does to the account, whatever that has become.
LEMMA WriteEffect ==
    ASSUME TypeOK, InLife, Write
    PROVE  /\ account'.jobName = account.jobName /\ account'.baseSn = account.baseSn
           /\ account'.baseStatus = account.baseStatus /\ account'.expire = account.expire
           /\ \/ account'.pending \in {account.pending, NoTime}
              \/ account'.pending = account.expire + Grace /\ ctl.status = "wait"
           /\ \/ /\ ctl.status = "wait"
                 /\ {account.cluster, seen.cluster} \subseteq {"wait", "recycle"}
                 /\ \/ account'.cluster = account.cluster
                    \/ account'.cluster = "recycle" /\ now > account.expire + Grace
              \/ /\ ctl.status # "wait"
                 /\ {account.cluster, seen.cluster} \subseteq {"creating", "ready", "wait"}
                 /\ \/ account'.cluster = account.cluster
                    \/ account'.cluster = "wait" /\ IsExpired(account, now)
  <1>1. account' = Merge(account, ctl.patch) /\ DOMAIN ctl.patch \subseteq Patched
        /\ ctl.step = "write"
    BY DEF Write, TypeOK, Patched
  <1>2. \A f \in Field : account'[f] = IF f \in DOMAIN ctl.patch THEN ctl.patch[f] ELSE account[f]
    BY <1>1, MergeFields
  <1>3. /\ account'["jobName"] = account["jobName"] /\ account'["baseSn"] = account["baseSn"]
        /\ account'["baseStatus"] = account["baseStatus"] /\ account'["expire"] = account["expire"]
    BY <1>1, <1>2 DEF Field, Patched
  <1>4. \/ account'["pending"] \in {account.pending, NoTime}
        \/ account'["pending"] = account.expire + Grace /\ ctl.status = "wait"
    BY <1>1, <1>2 DEF Field, InLife, PatchOK
  <1>5. CASE ctl.status = "wait"
    <2>1. {account.cluster, seen.cluster} \subseteq {"wait", "recycle"}
      BY <1>1, <1>5 DEF InLife, NoticeReconcile
    <2>2. \/ account'["cluster"] = account.cluster
          \/ account'["cluster"] = "recycle" /\ now > account.expire + Grace
      BY <1>1, <1>2, <1>5 DEF Field, InLife, PatchOK
    <2> QED
      BY <1>3, <1>4, <1>5, <2>1, <2>2
  <1>6. CASE ctl.status # "wait"
    <2>1. {account.cluster, seen.cluster} \subseteq {"creating", "ready", "wait"}
      BY <1>1, <1>6 DEF InLife, InUseReconcile
    <2>2. \/ account'["cluster"] = account.cluster
          \/ account'["cluster"] = "wait" /\ IsExpired(account, now)
      BY <1>1, <1>2, <1>6 DEF Field, InLife, PatchOK
    <2> QED
      BY <1>3, <1>4, <1>6, <2>1, <2>2
  <1> QED
    BY <1>5, <1>6

\* A write moves the account on by one status, within its life.
LEMMA WriteLife ==
    ASSUME TypeOK, InLife, Write
    PROVE  InLife'
  <1>1. UNCHANGED <<seen, init, job, k3k, bought, late, now>>
    BY DEF Write
  <1>2. /\ ctl'.status = ctl.status
        /\ ctl'.step = "dropLimits" \/ (ctl'.step = "delete" /\ ctl.status = "wait")
    BY DEF Write, TypeOK
  <1>3. account.cluster # "new" /\ account'.cluster # "new" /\ Paid(account)
    BY WriteEffect DEF InLife, AccountOK
  <1>4. AccountOK(account)'
    <2>1. account'.cluster \in {"wait", "recycle"} => IsExpired(account, now)
      BY WriteEffect DEF InLife, AccountOK
    <2>2. IsExpired(account, now)' <=> IsExpired(account, now)
      BY <1>1, WriteEffect DEF IsExpired
    <2> QED
      BY <1>1, <1>3, <2>1, <2>2, WriteEffect DEF InLife, AccountOK, Paid
  <1>5. AccountOK(seen)'
    BY <1>1 DEF InLife, AccountOK, Paid, IsExpired
  <1>6. CacheOK'
    BY <1>1, <1>3, WriteEffect DEF InLife, CacheOK, BothGoOn, IsExpired
  <1>7. InUseReconcile' /\ NoticeReconcile' /\ RecycleReconcile' /\ PatchOK'
    BY <1>1, <1>2, WriteEffect DEF InUseReconcile, NoticeReconcile, RecycleReconcile, PatchOK
  <1>8. RequestOK'
    BY <1>1, WriteEffect DEF InLife, RequestOK, Paid, Succeeded
  <1>9. InstalledOK'
    BY <1>1, WriteEffect DEF InLife, InstalledOK, Succeeded
  <1> QED
    BY <1>1, <1>4, <1>5, <1>6, <1>7, <1>8, <1>9 DEF InLife

\* The account is renewed only when it is as it was found, on its way out.
LEMMA CheckEffect ==
    ASSUME TypeOK, InLife, Check
    PROVE  /\ ctl'.step \in {"dropLimits", "idle"}
           /\ \/ account' = account
              \/ /\ account.cluster = "recycle" /\ seen.cluster \in {"recycle", "new"}
                 /\ account'.cluster = "new" /\ account'.jobName = NoJob
                 /\ account'.baseSn = NoOrder /\ ~Paid(account')
                 /\ account'.expire = NoTime /\ account'.pending = NoTime
  <1>1. CASE account' = account
    <2>1. \/ ctl' = [ctl EXCEPT !.step = "dropLimits"]
          \/ ctl' = CtlIdle
          \/ ctl' = [ctl EXCEPT !.step = "dropLimits", !.sa = account']
      BY DEF Check
    <2>2. ctl'.step \in {"dropLimits", "idle"}
      <3>1. CASE ctl' = [ctl EXCEPT !.step = "dropLimits"]
        BY <3>1 DEF TypeOK
      <3>2. CASE ctl' = CtlIdle
        BY <3>2 DEF CtlIdle
      <3>3. CASE ctl' = [ctl EXCEPT !.step = "dropLimits", !.sa = account']
        BY <3>3 DEF TypeOK
      <3> QED
        BY <2>1, <3>1, <3>2, <3>3
    <2> QED
      BY <1>1, <2>2
  <1>2. CASE account' # account
    <2>1. account = ctl.sa /\ account' = ReNew([account EXCEPT !.cluster = "new"])
          /\ ctl' = [ctl EXCEPT !.step = "dropLimits", !.sa = account']
      BY <1>2 DEF Check
    <2>2. account.cluster = "recycle" /\ seen.cluster \in {"recycle", "new"}
      BY <2>1 DEF Check, InLife, RecycleReconcile
    <2>3. ctl'.step = "dropLimits"
      BY <2>1 DEF TypeOK
    <2> QED
      BY <2>1, <2>2, <2>3, ReNewEffect, LifeTypes
  <1> QED
    BY <1>1, <1>2

\* The controller keeps InLife.
LEMMA ControllerLife ==
    ASSUME TypeOK, InLife, Controller
    PROVE  InLife'
  <1>1. CASE Reconcile
    <2>1. UNCHANGED <<account, seen, init, job, k3k, bought, late, now>>
      BY <1>1 DEF Reconcile
    <2>2. /\ ctl'.status = seen.cluster /\ ctl'.sa = seen
          /\ \/ ctl'.step = "status" /\ seen.cluster \in {"creating", "ready", "wait"}
             \/ ctl'.step = "delete" /\ seen.cluster = "recycle"
             \/ ctl'.step = "dropLimits"
      BY <1>1, LifeTypes DEF Reconcile, CtlIdle, Cluster
    <2>3. InUseReconcile' /\ NoticeReconcile' /\ RecycleReconcile' /\ PatchOK'
      BY <2>1, <2>2, LifeTypes DEF InLife, CacheOK, Cluster, InUseReconcile,
                                   NoticeReconcile, RecycleReconcile, PatchOK, Paid
    <2> QED
      BY <2>1, <2>3 DEF InLife, AccountOK, CacheOK, BothGoOn, RequestOK, InstalledOK,
                        Paid, IsExpired, Succeeded
  <1>2. CASE WriteFails
    BY <1>2, ReconcileOver DEF WriteFails, TypeOK
  <1>3. CASE Delete
    <2>1. UNCHANGED <<account, seen, init, job, bought, late, now>> /\ ctl.step = "delete"
      BY <1>3 DEF Delete
    <2>2. /\ ctl'.status = ctl.status /\ ctl'.sa = ctl.sa
          /\ ctl'.step = IF ctl.status = "recycle" THEN "check" ELSE "dropLimits"
      BY <1>3 DEF Delete, TypeOK
    <2>3. \/ account.cluster \in {"wait", "recycle"}
          \/ account.cluster = "new" /\ ~Paid(account)
      BY <2>1 DEF InLife, NoticeReconcile, RecycleReconcile
    <2>4. RequestOK' /\ InstalledOK'
      BY <2>1, <2>3, DeletedOK
    <2>5. InUseReconcile' /\ NoticeReconcile' /\ RecycleReconcile' /\ PatchOK'
      BY <2>1, <2>2 DEF InLife, InUseReconcile, NoticeReconcile, RecycleReconcile, PatchOK, Paid
    <2> QED
      BY <2>1, <2>4, <2>5 DEF InLife, AccountOK, CacheOK, BothGoOn, Paid, IsExpired
  <1>4. CASE Check
    <2>1. UNCHANGED <<seen, init, job, bought, late, now>> /\ ctl.step = "check"
      BY <1>4 DEF Check
    <2>2. InUseReconcile' /\ NoticeReconcile' /\ RecycleReconcile' /\ PatchOK'
      BY <1>4, CheckEffect DEF InUseReconcile, NoticeReconcile, RecycleReconcile, PatchOK
    <2>3. CASE account' = account
      <3>1. \/ account.cluster \in {"wait", "recycle"}
            \/ account.cluster = "new" /\ ~Paid(account)
        <4>1. ctl.status = "recycle"
          BY <1>4 DEF Check, InLife, RecycleReconcile
        <4> QED
          BY <2>1, <4>1 DEF InLife, RecycleReconcile
      <3>2. RequestOK' /\ InstalledOK'
        BY <2>1, <2>3, <3>1, DeletedOK
      <3> QED
        BY <2>1, <2>2, <2>3, <3>2 DEF InLife, AccountOK, CacheOK, BothGoOn, Paid, IsExpired
    <2>4. CASE account' # account
      <3>1. /\ seen.cluster \in {"recycle", "new"}
            /\ account'.cluster = "new" /\ account'.jobName = NoJob
            /\ account'.baseSn = NoOrder /\ ~Paid(account')
            /\ account'.expire = NoTime /\ account'.pending = NoTime
        BY <1>4, <2>4, CheckEffect
      <3>2. AccountOK(account)' /\ AccountOK(seen)' /\ CacheOK'
        BY <2>1, <3>1 DEF InLife, AccountOK, CacheOK, BothGoOn, Paid, IsExpired
      <3>3. RequestOK'
        BY <2>1, <3>1, NamesAssumption DEF InLife, RequestOK, Paid, TypeOK
      <3>4. InstalledOK'
        BY <3>1 DEF InstalledOK
      <3> QED
        BY <2>1, <2>2, <3>2, <3>3, <3>4 DEF InLife
    <2> QED
      BY <2>3, <2>4
  <1>5. CASE DropLimits
    BY <1>5, ReconcileOver DEF DropLimits, CtlIdle, TypeOK
  <1>6. CASE SetLimits
    BY <1>6, ReconcileOver DEF SetLimits, CtlIdle
  <1>7. CASE CtlAborts
    BY <1>7, ReconcileOver DEF CtlAborts, CtlIdle
  <1> QED
    BY <1>1, <1>2, <1>3, <1>4, <1>5, <1>6, <1>7, StatusLife, WriteLife DEF Controller

\* Every step keeps InLife, but for a late renewal.
LEMMA LifeStep ==
    ASSUME TypeOK, InLife, [Next]_vars, ~late'
    PROVE  InLife'
  <1>1. CASE Sync
    <2>1. seen' = account /\ UNCHANGED <<account, ctl, init, job, k3k, bought, late, now>>
      BY <1>1 DEF Sync
    <2>2. AccountOK(account)' /\ AccountOK(seen)'
      BY <2>1 DEF InLife, AccountOK, Paid, IsExpired
    <2>3. CacheOK'
      BY <2>1, LifeTypes DEF CacheOK, Cluster
    <2>4. InUseReconcile' /\ NoticeReconcile' /\ RecycleReconcile'
      BY <2>1 DEF InLife, InUseReconcile, NoticeReconcile, RecycleReconcile, Paid
    <2>5. PatchOK' /\ RequestOK' /\ InstalledOK'
      BY <2>1 DEF InLife, PatchOK, RequestOK, InstalledOK, Paid, IsExpired, Succeeded
    <2> QED
      BY <2>1, <2>2, <2>3, <2>4, <2>5 DEF InLife
  <1>2. CASE ClusterGone
    <2>1. UNCHANGED <<account, seen, ctl, init, job, bought, late, now>> /\ k3k # "present"
      BY <1>2 DEF ClusterGone
    <2>2. RequestOK' /\ InstalledOK'
      BY <2>1 DEF InLife, RequestOK, InstalledOK, Paid, Succeeded
    <2> QED
      BY <2>1, <2>2 DEF InLife, AccountOK, CacheOK, BothGoOn, InUseReconcile, NoticeReconcile,
                        RecycleReconcile, PatchOK, Paid, IsExpired
  <1>3. CASE Tick
    <2>1. /\ now' = now + 1 /\ now \in Nat /\ seen = account
          /\ UNCHANGED <<account, seen, ctl, init, job, k3k, bought, late>>
      BY <1>3 DEF Tick, TypeOK
    <2>2. \A a \in Account : IsExpired(a, now) => IsExpired(a, now')
      BY <2>1, LifeTypes DEF IsExpired
    <2>3. AccountOK(account)' /\ AccountOK(seen)'
      BY <2>1, <2>2, LifeTypes DEF InLife, AccountOK, Paid
    <2>4. PatchOK'
      <3>1. now > account.expire + Grace => now' > account.expire + Grace
        BY <2>1, LifeTypes DEF NoTime
      <3> QED
        BY <2>1, <2>2, <3>1, LifeTypes DEF InLife, PatchOK
    <2>5. CacheOK'
      BY <2>1 DEF InLife, CacheOK, BothGoOn, Paid
    <2> QED
      BY <2>1, <2>3, <2>4, <2>5 DEF InLife, InUseReconcile, NoticeReconcile,
                                    RecycleReconcile, RequestOK, InstalledOK, Paid, Succeeded
  <1>4. CASE UNCHANGED vars
    BY <1>4 DEF vars, InLife, AccountOK, CacheOK, BothGoOn, InUseReconcile, NoticeReconcile,
                RecycleReconcile, PatchOK, RequestOK, InstalledOK, Paid, IsExpired, Succeeded
  <1> QED
    BY <1>1, <1>2, <1>3, <1>4, TenantLife, JobLife, ControllerLife DEF Next

\* A registered tenant has begun no life.
LEMMA LifeInit == Init => InLife
  <1> SUFFICES ASSUME Init
               PROVE  InLife
    OBVIOUS
  <1>1. /\ account = Registered /\ seen = Registered
        /\ ctl.step = "idle" /\ init.step = "idle"
    BY DEF Init, CtlIdle, InitIdle
  <1>2. AccountOK(Registered)
    BY DEF AccountOK, Registered, Paid
  <1> QED
    BY <1>1, <1>2 DEF InLife, CacheOK, InUseReconcile, NoticeReconcile, RecycleReconcile,
                      PatchOK, RequestOK, InstalledOK, Registered

-----------------------------------------------------------------------------
(* What follows from it.                                                   *)

\* Which step changes a status, from what and when.
LEMMA ClusterSteps ==
    ASSUME TypeOK, InLife, [Next]_vars, account'.cluster # account.cluster
    PROVE  \/ account'.cluster = "creating"
           \/ account'.cluster = "ready" /\ account.cluster = "creating"
           \/ account'.cluster = "wait" /\ account.cluster \in {"creating", "ready"}
           \/ /\ account'.cluster = "recycle" /\ account.cluster = "wait"
              /\ account.expire # NoTime /\ now > account.expire + Grace
           \/ account'.cluster = "new" /\ account.cluster = "recycle"
  <1>1. account' # account /\ account \in Account /\ now \in Nat
    BY DEF TypeOK
  <1>2. CASE Tenant
    <2>1. ASSUME NEW o \in Order, Buy(o)
          PROVE  account'.cluster = account.cluster
      <3>1. account' = SetOrderStatus(SetOrder(account, o), o, now)
            /\ CanBuy(account, ModeOf[o], now)
        BY <2>1 DEF Buy
      <3>2. ModeOf[o] = "base" => ~Paid(account)
        BY <3>1 DEF CanBuy, CanCreateBase, Paid
      <3> QED
        BY <1>1, <3>1, <3>2, BuyEffect, RenewEffect, ModeCases DEF SameLife, LifeField
    <2>2. CASE Admit
      BY <1>1, <2>2, AdmitEffect DEF Admit, SameLife, LifeField
    <2>3. CASE UpdateRunning
      <3>1. account' = Running(ReplaceQuota(account), init.job)
        BY <1>1, <2>3 DEF UpdateRunning
      <3> QED
        BY <1>1, <3>1, RunningEffect
    <2>4. CASE InitCluster \/ (\E j \in Job : CreateJob(j)) \/ InitAborts
      BY <1>1, <2>4 DEF InitCluster, CreateJob, InitAborts
    <2> QED
      BY <1>2, <2>1, <2>2, <2>3, <2>4 DEF Tenant
  <1>3. CASE JobSteps
    <2>1. PICK j \in Job : /\ account.jobName = j
                          /\ account' = Finished(account, j)
      BY <1>1, <1>3 DEF JobSteps, JobSucceeds, JobFails, JobReconcile
    <2>2. account.cluster # "new"
      BY <2>1, JobAssumption DEF InLife, AccountOK
    <2> QED
      BY <1>1, <2>1, <2>2, FinishedEffect
  <1>4. CASE Controller
    <2>1. Write \/ Check
      BY <1>1, <1>4 DEF Controller, Reconcile, Status, WriteFails, Delete, DropLimits,
                        SetLimits, CtlAborts
    <2>2. CASE Write
      <3>1. account.cluster \in {"wait", "recycle"} => account.expire # NoTime
        BY DEF InLife, AccountOK
      <3> QED
        BY <2>2, <3>1, WriteEffect
    <2>3. CASE Check
      BY <2>3, CheckEffect
    <2> QED
      BY <2>1, <2>2, <2>3
  <1>5. CASE Sync \/ ClusterGone \/ Tick \/ UNCHANGED vars
    BY <1>1, <1>5 DEF Sync, ClusterGone, Tick, vars
  <1> QED
    BY <1>2, <1>3, <1>4, <1>5 DEF Next

\* A cluster leaves only an account that is out of use.
LEMMA ClusterLeaves ==
    ASSUME InLife, [Next]_vars, k3k = "present", k3k' # "present"
    PROVE  account.cluster \notin {"creating", "ready"}
  <1>1. Delete \/ Check
    BY DEF Next, vars, Tenant, Buy, Admit, InitCluster, CreateJob, UpdateRunning, InitAborts,
           JobSteps, JobSucceeds, JobFails, JobReconcile, Controller, Reconcile, Status, Write,
           WriteFails, DropLimits, SetLimits, CtlAborts, Sync, ClusterGone, Tick
  <1>2. ctl.step \in {"delete", "check"}
    BY <1>1 DEF Delete, Check
  <1> QED
    BY <1>2 DEF InLife, NoticeReconcile, RecycleReconcile

\* Nothing but the job that an account names makes it ready, and nothing takes
\* a job's success back.
LEMMA ReadyStep ==
    ASSUME TypeOK, ReadyOK, [Next]_vars
    PROVE  ReadyOK'
  <1> DEFINE ok == {"ok", "okAfterFailure"}
  <1>0. now \in Nat /\ account \in Account /\ seen \in Account /\ job \in [Job -> JobState]
    BY DEF TypeOK
  <1>1. \A i \in Job : job[i] \in ok => job'[i] \in ok
    BY <1>0 DEF Next, Tenant, JobSteps, Controller, vars, Buy, Admit, InitCluster, CreateJob,
        UpdateRunning, InitAborts, JobSucceeds, JobFails, JobReconcile, Reconcile, Status, Write,
        WriteFails, Delete, Check, DropLimits, SetLimits, CtlAborts, Sync, ClusterGone, Tick
  <1>2. account'.cluster = "ready" => account'.jobName \in Job /\ job[account'.jobName] \in ok
    <2> DEFINE Unmoved == account'.cluster = account.cluster /\ account'.jobName = account.jobName
    <2>1. ASSUME Unmoved \/ account'.cluster # "ready"
          PROVE  account'.cluster = "ready" =>
                    account'.jobName \in Job /\ job[account'.jobName] \in ok
      BY <2>1 DEF ReadyOK, Succeeded
    <2>2. ASSUME NEW o \in Order, Buy(o) PROVE Unmoved
      <3>1. account' = SetOrderStatus(SetOrder(account, o), o, now)
            /\ (ModeOf[o] = "base" => ~Paid(account))
        BY <2>2 DEF Buy, CanBuy, CanCreateBase, Paid
      <3> QED
        BY <1>0, <3>1, BuyEffect, RenewEffect, ModeCases DEF SameLife, LifeField
    <2>3. CASE Admit
      BY <1>0, <2>1, <2>3, AdmitEffect DEF Admit, SameLife, LifeField
    <2>4. CASE UpdateRunning
      <3>1. account' = account \/ account' = Running(ReplaceQuota(account), init.job)
        BY <2>4 DEF UpdateRunning
      <3> QED
        BY <1>0, <2>1, <3>1, RunningEffect
    <2>5. ASSUME NEW j \in Job, JobReconcile(j), account' # account
          PROVE  account'.cluster = "ready" =>
                    account'.jobName \in Job /\ job[account'.jobName] \in ok
      <3>1. account.jobName = j /\ account' = Finished(account, j)
        BY <2>5 DEF JobReconcile
      <3>2. /\ account'.cluster = IF Succeeded(j) /\ account.cluster \in {"new", "creating"}
                                  THEN "ready" ELSE account.cluster
            /\ account'.jobName = account.jobName
        BY <1>0, <3>1, FinishedEffect DEF LifeField
      <3> QED
        BY <3>1, <3>2 DEF ReadyOK, Succeeded
    <2>6. CASE Write
      <3>1. account' = Merge(account, ctl.patch) /\ DOMAIN ctl.patch \subseteq Patched
        BY <2>6 DEF Write, TypeOK, Patched
      <3>2. \A f \in Field : account'[f] = IF f \in DOMAIN ctl.patch THEN ctl.patch[f]
                                           ELSE account[f]
        BY <3>1, MergeFields
      <3>3. /\ account'["jobName"] = account["jobName"]
            /\ account'["cluster"] \in {account.cluster, "wait", "recycle"}
        BY <3>1, <3>2 DEF Field, Patched, ReadyOK
      <3> QED
        BY <2>1, <3>3
    <2>7. CASE Check
      <3>1. account' = account \/ account' = ReNew([ctl.sa EXCEPT !.cluster = "new"])
        BY <2>7 DEF Check
      <3>2. ctl.sa \in Account
        BY DEF TypeOK
      <3> QED
        BY <2>1, <3>1, <3>2, ReNewEffect
    <2>8. CASE account' = account
      BY <2>1, <2>8
    <2>9. \/ \E o \in Order : Buy(o)
          \/ Admit \/ UpdateRunning \/ Write \/ Check
          \/ \E j \in Job : JobReconcile(j) /\ account' # account
          \/ account' = account
      BY DEF Next, Tenant, JobSteps, Controller, vars, InitCluster, CreateJob, InitAborts,
        JobSucceeds, JobFails, Reconcile, Status, WriteFails, Delete, DropLimits, SetLimits,
        CtlAborts, Sync, ClusterGone, Tick
    <2> QED
      BY <2>1, <2>2, <2>3, <2>4, <2>5, <2>6, <2>7, <2>8, <2>9
  <1>3. "cluster" \in DOMAIN ctl'.patch => ctl'.patch["cluster"] \in {"wait", "recycle"}
    <2>1. CASE ctl'.patch = ctl.patch
      BY <2>1 DEF ReadyOK
    <2>2. CASE ctl'.patch = EmptyPatch
      BY <2>2 DEF EmptyPatch
    <2>3. CASE Status
      <3> DEFINE c == IF ctl.status = "wait" THEN Waiting(seen) ELSE InUse(seen)
      <3>1. c.cluster \in {"wait", "recycle", seen.cluster}
        <4>1. PICK t : t = SetPendingRecycleTime(seen, now).pending
          OBVIOUS
        <4>2. Waiting(seen).cluster \in {"recycle", seen.cluster}
          BY <1>0, <4>1, WaitingEffect
        <4>3. InUse(seen).cluster \in {"wait", seen.cluster}
          BY <1>0, InUseEffect
        <4> QED
          BY <4>2, <4>3
      <3>2. ctl' = [ctl EXCEPT !.step = "write", !.sa = seen, !.patch = Diff(seen, c)]
        BY <2>3 DEF Status
      <3> HIDE DEF c
      <3>3. ctl'.patch = Diff(seen, c)
        BY <3>2 DEF TypeOK
      <3>4. \A f \in DOMAIN ctl'.patch : ctl'.patch[f] = c[f] /\ c[f] # seen[f]
        BY <3>3 DEF Diff
      <3> QED
        BY <3>1, <3>4
    <2>4. Status \/ ctl'.patch = ctl.patch \/ ctl'.patch = EmptyPatch
      <3>1. CASE UNCHANGED ctl
        BY <3>1
      <3>2. CASE Reconcile \/ Write \/ WriteFails \/ Delete \/ Check \/ DropLimits
                    \/ SetLimits \/ CtlAborts
        <4>0. CtlIdle.patch = EmptyPatch
          BY DEF CtlIdle
        <4>1. CASE Reconcile \/ SetLimits \/ CtlAborts
          <5>1. CASE Reconcile
            <6> DEFINE next == CASE seen.cluster \in {"creating", "ready", "wait"} -> "status"
                                 [] seen.cluster = "recycle" -> "delete"
                                 [] seen.cluster = "new" -> "dropLimits"
            <6>1. ctl' = [CtlIdle EXCEPT !.status = seen.cluster, !.sa = seen, !.step = next]
              BY <5>1 DEF Reconcile
            <6> HIDE DEF next
            <6> QED
              BY <6>1 DEF CtlIdle
          <5>2. CASE SetLimits \/ CtlAborts
            BY <4>0, <5>2 DEF SetLimits, CtlAborts
          <5> QED
            BY <4>1, <5>1, <5>2
        <4>2. CASE Write \/ WriteFails
          BY <4>2 DEF Write, WriteFails, TypeOK
        <4>3. CASE Delete \/ DropLimits
          BY <4>3 DEF Delete, DropLimits, CtlIdle, TypeOK
        <4>4. CASE Check
          <5>1. \/ ctl' = [ctl EXCEPT !.step = "dropLimits"]
                \/ ctl' = CtlIdle
                \/ ctl' = [ctl EXCEPT !.step = "dropLimits", !.sa = account']
            BY <4>4 DEF Check
          <5> QED
            BY <4>0, <5>1 DEF TypeOK
        <4> QED
          BY <3>2, <4>1, <4>2, <4>3, <4>4
      <3>3. Status \/ Reconcile \/ Write \/ WriteFails \/ Delete \/ Check \/ DropLimits
                    \/ SetLimits \/ CtlAborts \/ UNCHANGED ctl
        BY DEF Next, Tenant, JobSteps, Controller, vars, Buy, Admit, InitCluster, CreateJob,
            UpdateRunning, InitAborts, JobSucceeds, JobFails, JobReconcile, Sync, ClusterGone, Tick
      <3> QED
        BY <3>1, <3>2, <3>3
    <2> QED
      BY <2>1, <2>2, <2>3, <2>4
  <1> QED
    BY <1>1, <1>2, <1>3 DEF ReadyOK, Succeeded

\* However stale the caches, whatever fails and whichever job reports: the
\* account, the reconcile and the request in progress belong to one life.
THEOREM OneLife == Spec => []LifeInv
  <1>1. LifeInv /\ TypeOK /\ [Next]_vars => LifeInv'
    <2> SUFFICES ASSUME LifeInv, TypeOK, [Next]_vars PROVE LifeInv'
      OBVIOUS
    <2>1. late => late'
      BY DEF Next, Tenant, JobSteps, Controller, vars, Buy, Admit, InitCluster, CreateJob,
        UpdateRunning, InitAborts, JobSucceeds, JobFails, JobReconcile, Reconcile, Status, Write,
        WriteFails, Delete, Check, DropLimits, SetLimits, CtlAborts, Sync, ClusterGone, Tick
    <2>2. ~late' => InLife'
      BY <2>1, LifeStep DEF LifeInv
    <2> QED
      BY <2>2, ReadyStep DEF LifeInv
  <1>2. Init => LifeInv
    <2> SUFFICES ASSUME Init PROVE LifeInv
      OBVIOUS
    <2>1. account.cluster = "new" /\ DOMAIN ctl.patch = {}
      BY DEF Init, Registered, CtlIdle, EmptyPatch
    <2> QED
      BY <2>1, LifeInit DEF LifeInv, ReadyOK
  <1> QED
    BY <1>1, <1>2, LifecycleTypes, PTL DEF Spec

\* A tenant that is told its cluster is ready has one, put there by the job
\* that the account names.
THEOREM ReadyHasCluster == Spec => []ReadyIsInstalled
  <1>1. LifeInv => ReadyIsInstalled
    BY JobAssumption DEF LifeInv, InLife, ReadyOK, InstalledOK, ReadyIsInstalled
  <1> QED
    BY <1>1, OneLife, PTL

\* Nobody's cluster is deleted while it is in use.
THEOREM NeverDeletedInUse == Spec => InUseIsKept
  <1>1. LifeInv /\ [Next]_vars =>
            [k3k = "present" /\ k3k' # "present"
                => account.cluster \notin {"creating", "ready"} \/ late]_vars
    BY ClusterLeaves DEF LifeInv
  <1> QED
    BY <1>1, OneLife, PTL DEF Spec, InUseIsKept

\* No cluster is recycled before its time and the days of grace are over.
THEOREM GraceIsGiven == Spec => RecycledAfterGrace
  <1>1. TypeOK /\ LifeInv /\ [Next]_vars =>
            [account.cluster # "recycle" /\ account'.cluster = "recycle"
                => late \/ (account.expire # NoTime /\ now > account.expire + Grace)]_vars
    BY ClusterSteps DEF LifeInv
  <1> QED
    BY <1>1, OneLife, LifecycleTypes, PTL DEF Spec, RecycledAfterGrace

\* The labels of a cluster follow one another as they should.
THEOREM LabelsInOrder == Spec => LabelSteps
  <1>1. TypeOK /\ LifeInv /\ [Next]_vars =>
            [~late /\ account'.cluster # account.cluster =>
                /\ account'.cluster = "recycle" => account.cluster = "wait"
                /\ account'.cluster = "new" => account.cluster = "recycle"
                /\ account'.cluster = "ready" => account.cluster = "creating"
                /\ account'.cluster = "wait" => account.cluster \in {"creating", "ready"}]_vars
    BY ClusterSteps DEF LifeInv
  <1> QED
    BY <1>1, OneLife, LifecycleTypes, PTL DEF Spec, LabelSteps

=============================================================================
