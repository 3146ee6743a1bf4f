-------------------------- MODULE OversellingProofs --------------------------
(***************************************************************************)
(* Theorems about Overselling, for every finite set of tenants and orders, *)
(* every size and capacity, and any number of checks: the types, and that  *)
(* checks that overlook nothing never give away what the nodes do not have.*)
(***************************************************************************)
EXTENDS Overselling, TenantAccountProofs

-----------------------------------------------------------------------------
(* Sums.                                                                   *)

\* A solution of a sum's definition gives the sum.
LEMMA SolutionIsTotal ==
    ASSUME NEW S, IsFiniteSet(S), NEW v, NEW f, SumsOver(f, v, SUBSET S)
    PROVE  f[S] = Total(v, S)
  <1>1. PICK g : SumsOver(g, v, SUBSET S) /\ Total(v, S) = g[S]
    BY TotalSolution
  <1>2. S \subseteq S \cap S
    OBVIOUS
  <1>3. f[S] = g[S]
    BY <1>1, <1>2, SumUnique
  <1> QED
    BY <1>1, <1>3

\* The sources that resources come from are finitely many.
LEMMA SourceFinite == IsFiniteSet(Source)
  BY TenantsAssumption, FS_AddElement DEF Source

\* How much of dimension d each source brings to the quota q.
Parts(q, d) == [s \in Source |-> q[s] * Size[s][d]]

\* The amount of a quota is a sum over the sources.
LEMMA AmountIsTotal == \A q, d : Amount(q, d) = Total(Parts(q, d), Source)
  <1> SUFFICES ASSUME NEW q, NEW d PROVE Amount(q, d) = Total(Parts(q, d), Source)
    OBVIOUS
  <1> DEFINE P(f) == f = [T \in SUBSET Source |-> IF T = {} THEN 0
                             ELSE LET x == CHOOSE x \in T : TRUE
                                  IN q[x] * Size[x][d] + f[T \ {x}]]
  <1>1. \A f : SumsOver(f, Parts(q, d), SUBSET Source) <=> P(f)
    BY DEF SumsOver, Pick, Parts
  <1>2. \E f : P(f)
    BY <1>1, SumExists, SourceFinite
  <1>3. P(CHOOSE f : P(f))
    <2> HIDE DEF P
    <2> QED
      BY <1>2
  <1>4. Amount(q, d) = (CHOOSE f : P(f))[Source]
    BY DEF Amount, MapThenSumSet, MapThenFoldSet
  <1> HIDE DEF P
  <1> QED
    BY <1>1, <1>3, <1>4, SolutionIsTotal, SourceFinite

\* How much CPU the quota of each tenant is.
Cpu(a) == [u \in User |-> Amount(a[u].quota, "cpu")]

\* What tenants use is a sum over them.
LEMMA UsedIsTotal == \A a : \A S \in SUBSET User : Used(a, S) = Total(Cpu(a), S)
  <1> SUFFICES ASSUME NEW a, NEW S \in SUBSET User PROVE Used(a, S) = Total(Cpu(a), S)
    OBVIOUS
  <1> DEFINE P(f) == f = [T \in SUBSET S |-> IF T = {} THEN 0
                             ELSE LET x == CHOOSE x \in T : TRUE
                                  IN Amount(a[x].quota, "cpu") + f[T \ {x}]]
  <1>1. \A f : SumsOver(f, Cpu(a), SUBSET S) <=> P(f)
    BY DEF SumsOver, Pick, Cpu
  <1>2. IsFiniteSet(S)
    BY TenantsAssumption, FS_Subset
  <1>3. \E f : P(f)
    BY <1>1, <1>2, SumExists
  <1>4. P(CHOOSE f : P(f))
    <2> HIDE DEF P
    <2> QED
      BY <1>3
  <1>5. Used(a, S) = (CHOOSE f : P(f))[S]
    BY DEF Used, MapThenSumSet, MapThenFoldSet
  <1> HIDE DEF P
  <1> QED
    BY <1>1, <1>2, <1>4, <1>5, SolutionIsTotal

\* The sum of a quota of whole numbers.
LEMMA AmountType ==
    ASSUME NEW q \in Quota
    PROVE  /\ Amount(q, "cpu") \in Int
           /\ (\A s \in Source : q[s] >= 0) => Amount(q, "cpu") \in Nat
  <1> DEFINE v == Parts(q, "cpu")
  <1>1. \A s \in Source : q[s] \in Int /\ Size[s]["cpu"] \in Nat /\ v[s] = q[s] * Size[s]["cpu"]
    BY SizeAssumption DEF Parts, Quota, Dim
  <1>2. \A m \in Int, n \in Nat : m * n \in Int /\ (m >= 0 => m * n \in Nat)
    OBVIOUS
  <1>3. \A s \in Source : v[s] \in Int /\ (q[s] >= 0 => v[s] \in Nat)
    BY <1>1, <1>2
  <1> HIDE DEF v
  <1>4. Total(v, Source) \in Int
    BY <1>3, SourceFinite, TotalType
  <1>5. (\A s \in Source : q[s] >= 0) => 0 <= Total(v, Source)
    <2>1. Total(v, {}) = 0
      BY TotalPick, FS_EmptySet
    <2> QED
      BY <1>3, <2>1, SourceFinite, TotalGrows
  <1> QED
    BY <1>4, <1>5, AmountIsTotal DEF v

\* Granting an order adds its resources.
LEMMA AmountPlus ==
    ASSUME NEW q \in Quota, NEW o \in OptOrder
    PROVE  Amount(Plus(q, Unit(o)), "cpu") = Amount(q, "cpu") + OrderAmount(o, "cpu")
  <1> DEFINE p == Plus(q, Unit(o))
             v == Parts(q, "cpu")
             w == Parts(p, "cpu")
  <1>1. \A s \in Source : /\ q[s] \in Int /\ Size[s]["cpu"] \in Nat
                          /\ p[s] = IF s = o THEN q[s] + 1 ELSE q[s]
    BY SizeAssumption DEF Quota, Dim, Plus, Unit
  <1>2. \A m \in Int, n \in Nat : m * n \in Int /\ (m + 1) * n = m * n + n
    OBVIOUS
  <1>3. \A s \in Source : /\ v[s] \in Int /\ w[s] \in Int
                          /\ w[s] = IF s = o THEN v[s] + Size[s]["cpu"] ELSE v[s]
    BY <1>1, <1>2 DEF Parts
  <1>4. CASE o = NoOrder
    <2>1. \A s \in Source : w[s] = v[s]
      BY <1>3, <1>4, NamesAssumption DEF Source
    <2> HIDE DEF v, w, p
    <2>2. Total(w, Source) = Total(v, Source)
      BY <2>1, SourceFinite, TotalSame
    <2>3. Amount(q, "cpu") \in Int
      BY AmountType
    <2> QED
      BY <1>4, <2>2, <2>3, AmountIsTotal DEF v, w, p, OrderAmount
  <1>5. CASE o \in Order
    <2>1. o \in Source /\ o # NoOrder
      BY <1>5, NamesAssumption DEF Source
    <2> DEFINE R == Source \ {o}
    <2> HIDE DEF v, w, p
    <2>2. /\ Total(w, Source) = w[o] + Total(w, Source \ {o})
          /\ Total(v, Source) = v[o] + Total(v, Source \ {o})
      <3>1. \A s \in Source : v[s] \in Int /\ w[s] \in Int
        BY <1>3
      <3> QED
        BY <2>1, <3>1, SourceFinite, TotalElement
    <2>3. Total(w, R) = Total(v, R) /\ Total(v, R) \in Int
      <3>1. IsFiniteSet(R) /\ \A s \in R : w[s] = v[s] /\ v[s] \in Int
        BY <1>3, SourceFinite, FS_Subset
      <3> HIDE DEF R
      <3> QED
        BY <3>1, TotalSame, TotalType
    <2>4. w[o] = v[o] + Size[o]["cpu"] /\ v[o] \in Int /\ Size[o]["cpu"] \in Nat
      BY <1>1, <1>3, <2>1
    <2>5. Total(w, Source) = Total(v, Source) + Size[o]["cpu"]
      BY <2>2, <2>3, <2>4
    <2> QED
      BY <2>1, <2>5, AmountIsTotal DEF v, w, p, OrderAmount
  <1> QED
    BY <1>4, <1>5 DEF OptOrder

\* A base order's quota is what it bought.
LEMMA AmountUnit ==
    ASSUME NEW o \in OptOrder
    PROVE  Amount(Unit(o), "cpu") = OrderAmount(o, "cpu") /\ OrderAmount(o, "cpu") \in Nat
  <1>1. Plus(Zero, Unit(o)) = Unit(o)
    BY DEF Plus, Zero, Unit
  <1>2. Amount(Zero, "cpu") = 0
    <2>1. \A n \in Nat : 0 * n = 0
      OBVIOUS
    <2>2. \A s \in Source : Parts(Zero, "cpu")[s] = 0
      BY <2>1, SizeAssumption DEF Parts, Zero, Dim
    <2> QED
      BY <2>2, SourceFinite, TotalZero, AmountIsTotal
  <1>3. OrderAmount(o, "cpu") \in Nat
    BY SizeAssumption DEF OrderAmount, OptOrder, Source, Dim
  <1> QED
    BY <1>1, <1>2, <1>3, AmountPlus, QuotaType

\* What tenants use who hold nothing negative.
LEMMA UsedType ==
    ASSUME NEW a \in [User -> Account], NEW S \in SUBSET User
    PROVE  /\ Used(a, S) \in Int
           /\ (\A u \in S : \A s \in Source : a[u].quota[s] >= 0) =>
                \A R \in SUBSET S : Used(a, R) <= Used(a, S) /\ Used(a, R) \in Nat
  <1>1. \A u \in User : a[u].quota \in Quota
    BY DEF Account
  <1>2. \A u \in User : Cpu(a)[u] \in Int
    BY <1>1, AmountType DEF Cpu
  <1>3. \A R \in SUBSET User : IsFiniteSet(R)
    BY TenantsAssumption, FS_Subset
  <1>4. Used(a, S) \in Int
    BY <1>2, <1>3, TotalType, UsedIsTotal
  <1>5. ASSUME \A u \in S : \A s \in Source : a[u].quota[s] >= 0, NEW R \in SUBSET S
        PROVE  Used(a, R) <= Used(a, S) /\ Used(a, R) \in Nat
    <2>1. \A u \in S : Cpu(a)[u] \in Nat
      BY <1>1, <1>5, AmountType DEF Cpu
    <2>2. Total(Cpu(a), R) <= Total(Cpu(a), S)
      BY <1>3, <2>1, TotalGrows
    <2>3. Total(Cpu(a), {}) = 0
      BY TotalPick, FS_EmptySet
    <2>4. 0 <= Total(Cpu(a), R)
      <3>1. IsFiniteSet(R) /\ \A u \in R : Cpu(a)[u] \in Nat
        BY <1>3, <2>1
      <3> QED
        BY <2>3, <3>1, TotalGrows
    <2>5. Total(Cpu(a), R) \in Int
      BY <1>2, <1>3, TotalType
    <2> QED
      BY <2>2, <2>4, <2>5, UsedIsTotal
  <1> QED
    BY <1>4, <1>5

\* Tenants whose quotas stay use the same.
LEMMA UsedSame ==
    ASSUME NEW a, NEW b, NEW S \in SUBSET User, \A u \in S : a[u].quota = b[u].quota
    PROVE  Used(a, S) = Used(b, S)
  <1>1. \A u \in S : Cpu(a)[u] = Cpu(b)[u]
    BY DEF Cpu
  <1>2. IsFiniteSet(S)
    BY TenantsAssumption, FS_Subset
  <1> QED
    BY <1>1, <1>2, TotalSame, UsedIsTotal

\* A tenant adds its quota to what is used.
LEMMA UsedOne ==
    ASSUME NEW a \in [User -> Account], NEW S \in SUBSET User, NEW u \in S
    PROVE  Used(a, S) = Amount(a[u].quota, "cpu") + Used(a, S \ {u})
  <1>1. \A t \in User : a[t].quota \in Quota
    BY DEF Account
  <1>2. \A t \in User : Cpu(a)[t] = Amount(a[t].quota, "cpu") /\ Cpu(a)[t] \in Int
    BY <1>1, AmountType DEF Cpu
  <1>3. IsFiniteSet(S)
    BY TenantsAssumption, FS_Subset
  <1>4. Total(Cpu(a), S) = Cpu(a)[u] + Total(Cpu(a), S \ {u})
    BY <1>2, <1>3, TotalElement
  <1> QED
    BY <1>2, <1>4, UsedIsTotal

-----------------------------------------------------------------------------
(* Types.                                                                  *)

\* A check that does nothing.
CheckState == [step : {"idle", "counting", "deciding", "admitting"},
               user : User, view : Views, used : Int]

LEMMA IdleCheckType == CheckIdle \in CheckState /\ CheckIdle.step = "idle"
  <1>1. (CHOOSE u \in User : TRUE) \in User
    BY TenantsAssumption
  <1>2. View(Registered) \in Views
    BY RegisteredType, ViewType
  <1> QED
    BY <1>1, <1>2 DEF CheckIdle, CheckState

\* Each step gives each variable a value of its type.
LEMMA NextType == TypeOK /\ [Next]_vars => TypeOK'
  <1> SUFFICES ASSUME TypeOK, [Next]_vars PROVE TypeOK'
    OBVIOUS
  <1>1. /\ account \in [User -> Account] /\ volumes \in [User -> Nat]
        /\ check \in [Check -> CheckState] /\ overlap \in BOOLEAN
    BY DEF TypeOK, CheckState
  <1>2. ASSUME NEW o \in Order, Buy(o) PROVE TypeOK'
    <2>1. BuyerOf[o] \in User /\ Now \in Nat
      BY SizeAssumption DEF Now
    <2>2. SetOrderStatus(SetOrder(account[BuyerOf[o]], o), o, Now) \in Account
      BY <1>1, <2>1, SetOrderType, SetOrderStatusType
    <2> QED
      BY <1>1, <1>2, <2>1, <2>2 DEF Buy, TypeOK, CheckState
  <1>3. ASSUME NEW c \in Check, NEW u \in User, Begin(c, u) PROVE TypeOK'
    <2>1. View(ReplaceQuota(account[u])) \in Views
      BY <1>1, ReplaceQuotaType, ViewType
    <2>2. [step |-> "counting", user |-> u, used |-> 0,
           view |-> View(ReplaceQuota(account[u]))] \in CheckState
      BY <2>1 DEF CheckState
    <2> QED
      BY <1>1, <1>3, <2>2 DEF Begin, TypeOK, CheckState
  <1>4. ASSUME NEW c \in Check, Count(c) PROVE TypeOK'
    <2>1. Used(account, Counted) \in Int
      BY <1>1, UsedType DEF Counted
    <2>2. overlap' \in BOOLEAN /\ UNCHANGED <<account, volumes>>
      BY <1>4 DEF Count
    <2>3. check' \in [Check -> CheckState]
      BY <1>1, <1>4, <2>1 DEF Count, CheckState
    <2> QED
      BY <1>1, <2>2, <2>3 DEF TypeOK, CheckState
  <1>5. ASSUME NEW c \in Check, Decide(c) PROVE TypeOK'
    <2>1. \/ check' = [check EXCEPT ![c] = [check[c] EXCEPT !.step = "admitting"]]
          \/ check' = [check EXCEPT ![c] = CheckIdle]
      BY <1>5 DEF Decide
    <2>2. [check[c] EXCEPT !.step = "admitting"] \in CheckState
      BY <1>1 DEF CheckState
    <2>3. check' \in [Check -> CheckState]
      BY <1>1, <2>1, <2>2, IdleCheckType
    <2> QED
      BY <1>1, <1>5, <2>3 DEF Decide, TypeOK, CheckState
  <1>6. ASSUME NEW c \in Check, Admit(c) PROVE TypeOK'
    <2>1. check[c].user \in User /\ check[c].view \in Views
      BY <1>1 DEF CheckState
    <2>2. SetOverMode(account[check[c].user], check[c].view) \in Account
      BY <1>1, <2>1, SetOverModeType
    <2>3. account' \in [User -> Account] /\ check' \in [Check -> CheckState]
      BY <1>1, <1>6, <2>2, IdleCheckType DEF Admit
    <2> QED
      BY <1>1, <1>6, <2>3 DEF Admit, TypeOK, CheckState
  <1>7. ASSUME NEW u \in User, Install(u) \/ Ready(u) \/ Expire(u) PROVE TypeOK'
    <2>1. \A a \in Account, k \in Cluster, j \in JobStatus :
                [a EXCEPT !.cluster = k, !.jobStatus = j] \in Account
      BY DEF Account
    <2>2. \A a \in Account, k \in Cluster : [a EXCEPT !.cluster = k] \in Account
      BY DEF Account
    <2>3. \/ account' = [account EXCEPT ![u] = [account[u] EXCEPT !.cluster = "creating",
                                                                  !.jobStatus = "running"]]
          \/ account' = [account EXCEPT ![u] = [account[u] EXCEPT !.cluster = "ready",
                                                                  !.jobStatus = "complete"]]
          \/ account' = [account EXCEPT ![u] = [account[u] EXCEPT !.cluster = "wait"]]
      BY <1>1, <1>7 DEF Install, Ready, Expire, Account
    <2>4. account[u] \in Account
      BY <1>1
    <2>5. account' \in [User -> Account]
      BY <1>1, <2>1, <2>2, <2>3, <2>4 DEF Cluster, JobStatus
    <2> QED
      BY <1>1, <1>7, <2>5 DEF Install, Ready, Expire, TypeOK, CheckState
  <1>8. ASSUME NEW u \in User, Provision(u) PROVE TypeOK'
    BY <1>1, <1>8 DEF Provision, TypeOK, CheckState
  <1>9. CASE UNCHANGED vars
    BY <1>1, <1>9 DEF vars, TypeOK, CheckState
  <1> QED
    BY <1>2, <1>3, <1>4, <1>5, <1>6, <1>7, <1>8, <1>9 DEF Next

\* Accounts stay ones that K3kUser can parse, whatever checks overlap.
THEOREM TypeCorrect == Spec => []TypeOK
  <1>1. Init => TypeOK
    <2> SUFFICES ASSUME Init PROVE TypeOK
      OBVIOUS
    <2>1. check \in [Check -> CheckState]
      BY IdleCheckType DEF Init
    <2>2. account \in [User -> Account] /\ volumes \in [User -> Nat] /\ overlap \in BOOLEAN
      BY RegisteredType DEF Init
    <2> QED
      BY <2>1, <2>2 DEF TypeOK, CheckState
  <1> QED
    BY <1>1, NextType, PTL DEF Spec

-----------------------------------------------------------------------------
(* The capacity.                                                           *)

LEMMA CapacityType == Capacity("cpu") \in Int
  BY SizeAssumption DEF Capacity, Dim

\* A check passes for what is used and bought together.
LEMMA FitsCpu ==
    ASSUME NEW c, Fits(c)
    PROVE  LET o == OverResource(account[check[c].user], check[c].view)
           IN Capacity("cpu") > check[c].used + OrderAmount(o, "cpu")
  BY Zenon DEF Fits

\* A purchase keeps the quota, and an account that waits is left to wait.
LEMMA BuyInv ==
    ASSUME NEW a \in Account, NEW o \in Order, AccountInv(a), CanBuy(a, ModeOf[o], Now)
    PROVE  LET b == SetOrderStatus(SetOrder(a, o), o, Now)
           IN /\ AccountInv(b) /\ b.quota = a.quota /\ b.cluster = a.cluster
              /\ a.overMode # "none" => b.overMode # "none"
              /\ CanOverSellingCheck(a) =>
                    /\ CanOverSellingCheck(b) /\ View(b) = View(a)
                    /\ b.expandStatus = a.expandStatus
  <1> DEFINE d == SetOrder(a, o)
             b == SetOrderStatus(d, o, Now)
  <1>1. CASE ModeOf[o] = "base"
    <2>1. a.overMode = "none"
      BY <1>1 DEF CanBuy, CanCreateBase, AccountInv
    <2>2. d = [a EXCEPT !.baseSn = o]
      BY <1>1 DEF SetOrder
    <2>3. /\ b.quota = a.quota /\ b.cluster = a.cluster
          /\ b.locked /\ b.baseStatus = "paid"
      BY <1>1, <2>2 DEF SetOrderStatus, SetBaseOrderPaid, AddHours, Account, CanBuy, CanCreateBase
    <2> QED
      BY <2>1, <2>3 DEF AccountInv, CanOverSellingCheck
  <1>2. CASE ModeOf[o] = "renew"
    <2>1. d = [a EXCEPT !.renewSn = o, !.renewStatus = "wait"]
      BY <1>2 DEF SetOrder
    <2>2. /\ b.quota = a.quota /\ b.cluster = a.cluster /\ b.locked = a.locked
          /\ b.baseStatus = a.baseStatus /\ b.overMode = a.overMode
          /\ b.overRes = a.overRes /\ b.overBase = a.overBase
          /\ b.expandStatus = a.expandStatus
      BY <1>2, <2>1 DEF SetOrderStatus, SetRenewOrderPaid, AddHours, Account
    <2> QED
      BY <2>2 DEF AccountInv, CanOverSellingCheck, View
  <1>3. CASE ModeOf[o] = "expand"
    <2>1. a.overMode = "success"
      BY <1>3 DEF CanBuy, CanExpand
    <2>2. d = [a EXCEPT !.expandSn = o, !.expandStatus = "wait"]
      BY <1>3 DEF SetOrder
    <2>3. /\ b.quota = a.quota /\ b.cluster = a.cluster /\ b.locked = a.locked
          /\ b.baseStatus = a.baseStatus /\ b.overMode \in {a.overMode, "wait"}
      BY <1>3, <2>2 DEF SetOrderStatus, SetExpandOrderPaid, Account
    <2> QED
      BY <2>1, <2>3 DEF AccountInv, CanOverSellingCheck
  <1> QED
    BY <1>1, <1>2, <1>3, ModeCases

\* Holders hold what is not negative, so that fewer of them use less.
LEMMA HeldBounds ==
    ASSUME NEW a \in [User -> Account], \A u \in User : AccountInv(a[u]),
           NEW S \in SUBSET User, NEW R \in SUBSET S
    PROVE  /\ Used(a, R) <= Used(a, S) /\ Used(a, R) \in Int /\ Used(a, S) \in Int
           /\ \A u \in User : Amount(a[u].quota, "cpu") \in Nat
  <1>1. \A u \in S : \A s \in Source : a[u].quota[s] >= 0
    BY DEF AccountInv
  <1>2. \A u \in User : a[u].quota \in Quota
    BY DEF Account
  <1>3. \A u \in User : Amount(a[u].quota, "cpu") \in Nat
    BY <1>2, AmountType DEF AccountInv
  <1> QED
    BY <1>1, <1>3, UsedType

\* What SetOverMode grants is what the check compared.
LEMMA GrantedIsCompared ==
    ASSUME NEW a \in Account, AccountInv(a), CanOverSellingCheck(a)
    PROVE  LET b == SetOverMode(a, View(a))
               o == OverResource(a, View(a))
           IN /\ b.cluster = a.cluster /\ AccountInv(b) /\ OrderAmount(o, "cpu") \in Nat
              /\ IsExpand(a) => /\ b.quota[Package] = a.quota[Package]
                                /\ Amount(b.quota, "cpu") = Amount(a.quota, "cpu") + OrderAmount(o, "cpu")
              /\ ~IsExpand(a) => Amount(b.quota, "cpu") = OrderAmount(o, "cpu")
  <1> DEFINE b == SetOverMode(a, View(a))
  <1>1. /\ a.quota \in Quota /\ a.overRes \in OptOrder /\ a.overBase \in OptOrder
        /\ a.overMode \notin {"none", "success"}
    BY DEF Account, CanOverSellingCheck
  <1>2. /\ b.cluster = a.cluster /\ b.locked = a.locked /\ b.baseStatus = a.baseStatus
        /\ b.quota = IF IsExpand(a) THEN Plus(a.quota, Unit(a.overRes)) ELSE Unit(a.overBase)
    BY <1>1 DEF SetOverMode, OverModeQuota, View, Account
  <1>3. /\ \A s \in Source : a.quota[s] \in Int /\ a.quota[s] >= 0
        /\ a.locked /\ a.baseStatus = "paid"
    BY <1>1 DEF AccountInv, Quota
  <1> HIDE DEF b
  <1>4. CASE IsExpand(a)
    <2>1. /\ \A s \in Source : b.quota[s] >= 0
          /\ b.quota[Package] = a.quota[Package]
      <3>1. \A s \in Source : /\ b.quota[s] = a.quota[s] + Unit(a.overRes)[s]
                              /\ Unit(a.overRes)[s] \in {0, 1}
        BY <1>2, <1>4 DEF Plus, Unit
      <3>2. Package \in Source /\ Unit(a.overRes)[Package] = 0
        BY <1>1, NamesAssumption DEF Unit, Source, OptOrder
      <3> QED
        BY <1>3, <3>1, <3>2
    <2>2. Amount(b.quota, "cpu") = Amount(a.quota, "cpu") + OrderAmount(a.overRes, "cpu")
      BY <1>1, <1>2, <1>4, AmountPlus
    <2> QED
      BY <1>1, <1>2, <1>3, <1>4, <2>1, <2>2, AmountUnit DEF b, AccountInv, OverResource, View
  <1>5. CASE ~IsExpand(a)
    <2>1. \A s \in Source : b.quota[s] >= 0
      BY <1>2, <1>5 DEF Unit
    <2> QED
      BY <1>1, <1>2, <1>3, <1>5, <2>1, AmountUnit DEF b, AccountInv, OverResource, View
  <1> QED
    BY <1>4, <1>5

\* A tenant's purchase, installation or expiry takes no capacity, and does not
\* outdate what a check has read.
LEMMA TenantStep ==
    ASSUME TypeOK, TypeOK', SharedInv, CapacityKept, UNCHANGED <<check, overlap>>,
           \A u \in User :
                /\ AccountInv(account'[u]) /\ account'[u].quota = account[u].quota
                /\ account[u].overMode # "none" => account'[u].overMode # "none"
                /\ CanOverSellingCheck(account[u]) =>
                        /\ CanOverSellingCheck(account'[u]) /\ View(account'[u]) = View(account[u])
                        /\ account'[u].expandStatus = account[u].expandStatus,
           Holders' \subseteq Holders
    PROVE  SharedInv' /\ CapacityKept'
  <1>1. /\ account \in [User -> Account] /\ account' \in [User -> Account]
        /\ \A c \in Check : check[c].user \in User /\ check[c].used \in Int
        /\ Holders \in SUBSET User
    BY DEF TypeOK, Holders
  <1>2. Held' <= Held /\ Held' \in Int /\ Held \in Int
    <2>1. Used(account', Holders') = Used(account, Holders')
      BY <1>1, UsedSame
    <2>2. \A u \in User : AccountInv(account[u])
      BY DEF SharedInv
    <2> QED
      BY <1>1, <2>1, <2>2, HeldBounds DEF Held
  <1>3. CapacityKept'
    BY <1>2, CapacityType DEF CapacityKept
  <1>4. ASSUME NEW c \in Check, ~overlap
        PROVE  /\ Fresh(c)'
               /\ check[c].step # "idle" =>
                    OverResource(account'[check[c].user], check[c].view)
                        = OverResource(account[check[c].user], check[c].view)
    <2>1. Fresh(c)
      BY <1>4 DEF SharedInv
    <2>2. Fresh(c)'
      BY <1>1, <2>1 DEF Fresh
    <2> QED
      BY <1>1, <2>1, <2>2 DEF Fresh, OverResource, IsExpand
  <1>5. ASSUME NEW c \in Check, ~overlap, Decided(c)
        PROVE  Held' <= check[c].used
    BY <1>1, <1>2, <1>5 DEF SharedInv
  <1>6. \A c \in Check : /\ Decided(c)' <=> Decided(c)
                         /\ check'[c] = check[c] /\ check[c].user \in User
    BY <1>1 DEF Decided
  <1>7. ASSUME ~overlap', NEW c \in Check
        PROVE  /\ Fresh(c)'
               /\ \A e \in Check : Decided(c)' /\ Decided(e)' => c = e
               /\ Decided(c)' => Held' <= check'[c].used
               /\ check'[c].step = "admitting" =>
                        LET o == OverResource(account'[check'[c].user], check'[c].view)
                        IN Capacity("cpu") > check'[c].used + OrderAmount(o, "cpu")
    BY <1>4, <1>5, <1>6, <1>7 DEF SharedInv
  <1> QED
    BY <1>3, <1>6, <1>7 DEF SharedInv

\* Beginning, counting and deciding.
LEMMA CheckStep ==
    ASSUME TypeOK, TypeOK', SharedInv, CapacityKept, NEW c \in Check,
           (\E u \in User : Begin(c, u)) \/ Count(c) \/ Decide(c)
    PROVE  SharedInv' /\ CapacityKept'
  <1>1. /\ account \in [User -> Account] /\ account' = account /\ Held' = Held
        /\ \A u \in User : AccountInv(account[u])
        /\ \A e \in Check : e # c => check'[e] = check[e]
        /\ check \in [Check -> CheckState] /\ (overlap => overlap')
        /\ Holders' = Holders
    BY DEF Begin, Count, Decide, TypeOK, CheckState, SharedInv, Held, Holders
  <1>2. CapacityKept'
    BY <1>1 DEF CapacityKept
  <1>3. ASSUME /\ \A s \in Source : check'[c].view.quota[s] >= 0
               /\ check'[c].step # "idle" => account[check'[c].user].overMode # "none"
               /\ ~overlap' =>
                    /\ Fresh(c)'
                    /\ Decided(c)' => \A e \in Check : Decided(e) => e = c
                    /\ Decided(c)' => Held <= check'[c].used
                    /\ check'[c].step = "admitting" =>
                        LET o == OverResource(account[check'[c].user], check'[c].view)
                        IN Capacity("cpu") > check'[c].used + OrderAmount(o, "cpu")
        PROVE  SharedInv'
    <2>1. ASSUME NEW e \in Check, e # c
          PROVE  /\ \A s \in Source : check'[e].view.quota[s] >= 0
                 /\ check'[e].step # "idle" => account[check'[e].user].overMode # "none"
                 /\ ~overlap => Fresh(e)' /\ (Decided(e)' <=> Decided(e))
      BY <1>1, <2>1 DEF SharedInv, Fresh, Decided
    <2>2. ASSUME ~overlap', NEW d \in Check, NEW e \in Check, Decided(d)', Decided(e)'
          PROVE  d = e
      BY <1>1, <1>3, <2>1, <2>2 DEF SharedInv
    <2>3. ASSUME ~overlap', NEW e \in Check
          PROVE  /\ Fresh(e)'
                 /\ Decided(e)' => Held <= check'[e].used
                 /\ check'[e].step = "admitting" =>
                        LET o == OverResource(account[check'[e].user], check'[e].view)
                        IN Capacity("cpu") > check'[e].used + OrderAmount(o, "cpu")
      BY <1>1, <1>3, <2>1, <2>3 DEF SharedInv
    <2>4. \A e \in Check :
            /\ \A s \in Source : check'[e].view.quota[s] >= 0
            /\ check'[e].step # "idle" => account[check'[e].user].overMode # "none"
      BY <1>3, <2>1
    <2> QED
      BY <1>1, <2>2, <2>3, <2>4 DEF SharedInv
  <1>4. ASSUME NEW u \in User, Begin(c, u) PROVE SharedInv'
    <2>1. /\ check'[c].step = "counting" /\ check'[c].user = u
          /\ check'[c].view = View(ReplaceQuota(account[u]))
          /\ CanOverSellingCheck(account[u])
      BY <1>1, <1>4 DEF Begin
    <2>2. ReplaceQuota(account[u]) = account[u]
      BY <1>1, <2>1 DEF ReplaceQuota, AccountInv, CanOverSellingCheck
    <2>3. /\ \A s \in Source : check'[c].view.quota[s] >= 0
          /\ account[u].overMode # "none"
      BY <1>1, <2>1, <2>2 DEF View, AccountInv, CanOverSellingCheck
    <2>4. Fresh(c)' /\ ~Decided(c)' /\ check'[c].step # "admitting"
      BY <1>1, <2>1, <2>2 DEF Fresh, Decided
    <2> QED
      BY <1>3, <2>1, <2>3, <2>4
  <1>5. CASE Count(c)
    <2>1. /\ check'[c].step = "deciding" /\ check'[c].user = check[c].user
          /\ check'[c].view = check[c].view /\ check'[c].used = Used(account, Counted)
          /\ check[c].step = "counting"
      BY <1>1, <1>5 DEF Count, CheckState
    <2>2. ASSUME ~overlap'
          PROVE  /\ ~overlap /\ Holders \subseteq Counted
                 /\ \A e \in Check : Decided(e) => e = c
      BY <1>5, <2>1, <2>2 DEF Count, Decided
    <2>3. ~overlap' => Held <= Used(account, Counted)
      BY <1>1, <2>2, HeldBounds DEF Held, Counted
    <2>4. ~overlap' => Fresh(c)'
      BY <1>1, <2>1, <2>2 DEF SharedInv, Fresh
    <2>5. /\ \A s \in Source : check'[c].view.quota[s] >= 0
          /\ account[check'[c].user].overMode # "none"
      BY <2>1 DEF SharedInv
    <2>6. check'[c].step # "admitting"
      BY <2>1
    <2> QED
      BY <1>2, <1>3, <2>1, <2>2, <2>3, <2>4, <2>5, <2>6
  <1>6. CASE Decide(c) /\ Fits(c)
    <2>1. /\ check'[c].step = "admitting" /\ check'[c].user = check[c].user
          /\ check'[c].view = check[c].view /\ check'[c].used = check[c].used
          /\ check[c].step = "deciding" /\ overlap' = overlap
      BY <1>1, <1>6 DEF Decide, CheckState
    <2>2. ~overlap => Fresh(c)'
      BY <1>1, <2>1 DEF SharedInv, Fresh
    <2>3. LET o == OverResource(account[check'[c].user], check'[c].view)
          IN Capacity("cpu") > check'[c].used + OrderAmount(o, "cpu")
      BY <1>6, <2>1, FitsCpu
    <2>4. /\ \A s \in Source : check'[c].view.quota[s] >= 0
          /\ account[check'[c].user].overMode # "none"
      BY <2>1 DEF SharedInv
    <2>5. ~overlap => Held <= check'[c].used /\ \A e \in Check : Decided(e) => e = c
      <3>1. Decided(c)
        BY <2>1 DEF Decided
      <3> QED
        BY <2>1, <3>1 DEF SharedInv
    <2> QED
      BY <1>2, <1>3, <2>1, <2>2, <2>3, <2>4, <2>5
  <1>7. CASE Decide(c) /\ ~Fits(c)
    <2>1. check'[c] = CheckIdle /\ overlap' = overlap
      BY <1>1, <1>7 DEF Decide
    <2>2. check'[c].step = "idle" /\ \A s \in Source : check'[c].view.quota[s] >= 0
      BY <2>1 DEF CheckIdle, View, Registered, Unit
    <2>3. Fresh(c)' /\ ~Decided(c)' /\ check'[c].step # "admitting"
      BY <2>2 DEF Fresh, Decided
    <2> QED
      BY <1>2, <1>3, <2>2, <2>3
  <1> QED
    BY <1>2, <1>4, <1>5, <1>6, <1>7

\* Granting what was compared.
LEMMA AdmitStep ==
    ASSUME TypeOK, TypeOK', SharedInv, CapacityKept, NEW c \in Check, Admit(c)
    PROVE  SharedInv' /\ CapacityKept'
  <1> DEFINE u == check[c].user
             a == account[u]
             b == SetOverMode(a, check[c].view)
             o == OverResource(a, check[c].view)
  <1>1. /\ account \in [User -> Account] /\ account' \in [User -> Account]
        /\ u \in User /\ check[c].view \in Views /\ check[c].used \in Int
        /\ check \in [Check -> CheckState] /\ check[c].step = "admitting"
        /\ account' = [account EXCEPT ![u] = b] /\ check' = [check EXCEPT ![c] = CheckIdle]
        /\ overlap' = (overlap \/ \E e \in Check \ {c} : /\ check[e].step # "idle"
                                                        /\ check[e].user = u)
        /\ \A t \in User : AccountInv(account[t])
        /\ \A e \in Check : \A s \in Source : check[e].view.quota[s] >= 0
    BY DEF TypeOK, CheckState, Admit, SharedInv
  <1>2. AccountInv(b) /\ b.overMode # "none"
    <2>1. /\ b.locked = a.locked /\ b.baseStatus = a.baseStatus
          /\ a.overMode = "success" => b.quota = a.quota /\ b.overMode = "no-resource"
          /\ a.overMode # "success" => /\ b.quota = OverModeQuota(a, check[c].view)
                                       /\ b.overMode = "success"
      BY <1>1 DEF SetOverMode, Account
    <2>2. /\ a.overMode # "none" /\ AccountInv(a)
          /\ a.quota \in Quota /\ check[c].view.quota \in Quota
      BY <1>1 DEF SharedInv, Account, Views
    <2>3. ASSUME a.overMode # "success", NEW s \in Source
          PROVE  OverModeQuota(a, check[c].view)[s] >= 0
      <3> DEFINE q == check[c].view.quota
      <3>1. q[s] \in Int /\ q[s] >= 0
        BY <1>1, <2>2 DEF Quota
      <3>2. \A x : Unit(x)[s] \in {0, 1}
        BY DEF Unit
      <3>3. \A x : Plus(q, Unit(x))[s] = q[s] + Unit(x)[s]
        BY DEF Plus
      <3>4. \/ OverModeQuota(a, check[c].view) = Plus(q, Unit(check[c].view.overRes))
            \/ OverModeQuota(a, check[c].view) = Unit(check[c].view.overBase)
        BY <2>3 DEF OverModeQuota
      <3> HIDE DEF q
      <3>5. \A x : Plus(q, Unit(x))[s] >= 0 /\ Unit(x)[s] >= 0
        BY <3>1, <3>2, <3>3
      <3> QED
        BY <3>4, <3>5
    <2>4. \A s \in Source : b.quota[s] >= 0
      BY <2>1, <2>2, <2>3 DEF AccountInv
    <2> QED
      BY <2>1, <2>2, <2>4 DEF AccountInv
  <1> HIDE DEF u, a, b, o
  <1>3. \A t \in User : account'[t] = IF t = u THEN b ELSE account[t]
    BY <1>1
  <1>4. \A e \in Check : check'[e] = IF e = c THEN CheckIdle ELSE check[e]
    BY <1>1
  <1>5. CheckIdle.step = "idle" /\ \A s \in Source : CheckIdle.view.quota[s] >= 0
    BY DEF CheckIdle, View, Registered, Unit
  <1>6. \A t \in User : AccountInv(account'[t])
    BY <1>1, <1>2, <1>3
  <1>7. ASSUME NEW e \in Check
        PROVE  /\ \A s \in Source : check'[e].view.quota[s] >= 0
               /\ check'[e].step # "idle" => account'[check'[e].user].overMode # "none"
    <2>1. CASE e = c
      BY <1>4, <1>5, <2>1
    <2>2. CASE e # c
      <3>1. check[e].user \in User /\ check'[e] = check[e]
        BY <1>1, <1>4, <2>2 DEF CheckState
      <3>2. check[e].step # "idle" => account[check[e].user].overMode # "none"
        BY DEF SharedInv
      <3> QED
        BY <1>1, <1>2, <1>3, <3>1, <3>2
    <2> QED
      BY <2>1, <2>2
  <1>8. ASSUME ~overlap'
        PROVE  \A e \in Check : Fresh(e)' /\ ~Decided(e)' /\ check'[e].step # "admitting"
    <2>1. ~overlap /\ \A e \in Check : e # c /\ check[e].step # "idle" => check[e].user # u
      BY <1>1, <1>8
    <2>2. \A e \in Check : Decided(e) => e = c
      BY <1>1, <2>1 DEF SharedInv, Decided
    <2>3. ASSUME NEW e \in Check, e # c
          PROVE  Fresh(e)' /\ ~Decided(e)' /\ check'[e].step # "admitting"
      <3>1. check'[e] = check[e] /\ check[e].user \in User /\ Fresh(e) /\ ~Decided(e)
        BY <1>1, <1>4, <2>1, <2>2, <2>3 DEF SharedInv, CheckState
      <3>2. check[e].step # "idle" => account'[check[e].user] = account[check[e].user]
        BY <1>3, <2>1, <2>3, <3>1
      <3> QED
        BY <3>1, <3>2 DEF Fresh, Decided
    <2>4. Fresh(c)' /\ ~Decided(c)' /\ check'[c].step # "admitting"
      BY <1>4, <1>5 DEF Fresh, Decided
    <2> QED
      BY <2>3, <2>4
  <1>9. SharedInv'
    BY <1>6, <1>7, <1>8 DEF SharedInv
  <1>10. ASSUME ~overlap
         PROVE  /\ a \in Account /\ AccountInv(a) /\ CanOverSellingCheck(a)
                /\ check[c].view = View(a) /\ Held <= check[c].used
                /\ Capacity("cpu") > check[c].used + OrderAmount(o, "cpu")
    <2>1. Fresh(c) /\ Decided(c)
      BY <1>1, <1>10 DEF SharedInv, Decided
    <2> QED
      BY <1>1, <1>10, <2>1 DEF SharedInv, Fresh, u, a, o
  <1>11. ASSUME ~overlap PROVE Held' < Capacity("cpu")
    <2> DEFINE H == Holders
               G == Holders'
               N == OrderAmount(o, "cpu")
               old == Amount(a.quota, "cpu")
               new == Amount(b.quota, "cpu")
    <2>1. /\ b.cluster = a.cluster /\ N \in Nat
          /\ IsExpand(a) => b.quota[Package] = a.quota[Package] /\ new = old + N
          /\ ~IsExpand(a) => new = N
      BY <1>10, <1>11, GrantedIsCompared DEF b, o
    <2>2. /\ H \in SUBSET User /\ G \in SUBSET User
          /\ \A t \in User \ {u} : t \in G <=> t \in H
          /\ u \in G /\ IsExpand(a) => u \in H
      BY <1>1, <1>3, <2>1 DEF Holders, a
    <2>3. Held = Used(account, H) /\ Held' = Used(account', G)
      BY DEF Held
    <2>4. Used(account, H \ {u}) <= Held /\ Used(account, H \ {u}) \in Int /\ Held \in Int /\ old \in Nat
      BY <1>1, <2>2, <2>3, HeldBounds DEF a
    <2>5. H \ {u} = G \ {u} /\ Used(account', G \ {u}) = Used(account, H \ {u})
      <3>1. H \ {u} = G \ {u}
        BY <2>2
      <3>2. /\ G \ {u} \in SUBSET User
            /\ \A t \in G \ {u} : account'[t].quota = account[t].quota
        BY <1>3, <2>2
      <3>3. Used(account', G \ {u}) = Used(account, G \ {u})
        BY <3>2, UsedSame
      <3> QED
        BY <3>1, <3>3
    <2>6. Used(account', G) <= Held + N
      <3>1. CASE u \notin G
        <4>1. G \ {u} = G
          BY <3>1
        <4>2. Used(account', G) = Used(account, H \ {u})
          BY <2>5, <4>1
        <4> HIDE DEF H, G, N
        <4> QED
          BY <2>1, <2>4, <4>2
      <3>2. CASE u \in G
        <4>1. Used(account', G) = new + Used(account', G \ {u})
          BY <1>1, <1>3, <2>2, <3>2, UsedOne
        <4>2. CASE ~IsExpand(a)
          BY <2>1, <2>4, <2>5, <4>1, <4>2
        <4>3. CASE IsExpand(a)
          <5>1. Used(account, H) = old + Used(account, H \ {u})
            BY <1>1, <2>2, <3>2, <4>3, UsedOne DEF a
          <5> QED
            BY <2>1, <2>3, <2>4, <2>5, <4>1, <4>3, <5>1
        <4> QED
          BY <4>2, <4>3
      <3> QED
        BY <3>1, <3>2
    <2>7. Used(account', G) \in Int
      BY <1>1, <2>2, UsedType
    <2> QED
      BY <1>1, <1>10, <1>11, <2>1, <2>3, <2>4, <2>6, <2>7, CapacityType
  <1>12. CapacityKept'
    BY <1>1, <1>11 DEF CapacityKept
  <1> QED
    BY <1>9, <1>12

-----------------------------------------------------------------------------
\* Every step keeps what the checks rely on.
LEMMA NextShared ==
    ASSUME TypeOK, TypeOK', SharedInv, CapacityKept, [Next]_vars
    PROVE  SharedInv' /\ CapacityKept'
  <1>1. /\ account \in [User -> Account]
        /\ \A u \in User : AccountInv(account[u])
    BY DEF TypeOK, SharedInv
  <1>2. ASSUME UNCHANGED <<account, check, overlap>> PROVE SharedInv' /\ CapacityKept'
    <2>1. Holders' = Holders
      BY <1>2 DEF Holders
    <2> QED
      BY <1>1, <1>2, <2>1, TenantStep
  <1>3. ASSUME NEW o \in Order, Buy(o) PROVE SharedInv' /\ CapacityKept'
    <2> DEFINE u == BuyerOf[o]
               b == SetOrderStatus(SetOrder(account[u], o), o, Now)
    <2>1. /\ u \in User /\ CanBuy(account[u], ModeOf[o], Now)
          /\ account' = [account EXCEPT ![u] = b] /\ UNCHANGED <<check, overlap>>
      BY <1>3, SizeAssumption DEF Buy
    <2>2. /\ AccountInv(b) /\ b.quota = account[u].quota /\ b.cluster = account[u].cluster
          /\ account[u].overMode # "none" => b.overMode # "none"
          /\ CanOverSellingCheck(account[u]) =>
                /\ CanOverSellingCheck(b) /\ View(b) = View(account[u])
                /\ b.expandStatus = account[u].expandStatus
      BY <1>1, <2>1, BuyInv
    <2> HIDE DEF u, b
    <2>3. \A t \in User : account'[t] = IF t = u THEN b ELSE account[t]
      BY <1>1, <2>1
    <2>4. Holders' \subseteq Holders
      BY <2>2, <2>3 DEF Holders
    <2> QED
      BY <1>1, <2>1, <2>2, <2>3, <2>4, TenantStep
  <1>4. ASSUME NEW u \in User, Install(u) \/ Ready(u) \/ Expire(u)
        PROVE  SharedInv' /\ CapacityKept'
    <2> DEFINE d == account'[u]
    <2>1. /\ UNCHANGED <<check, overlap>>
          /\ \A t \in User : t # u => account'[t] = account[t]
          /\ d.quota = account[u].quota /\ d.overMode = account[u].overMode
          /\ d.locked = account[u].locked /\ d.baseStatus = account[u].baseStatus
          /\ d.overRes = account[u].overRes /\ d.overBase = account[u].overBase
          /\ d.expandStatus = account[u].expandStatus
          /\ account[u].cluster \in {"new", "creating", "ready"}
      BY <1>1, <1>4 DEF Install, Ready, Expire, Account
    <2> HIDE DEF d
    <2>2. /\ AccountInv(d)
          /\ CanOverSellingCheck(account[u]) =>
                CanOverSellingCheck(d) /\ View(d) = View(account[u])
      BY <1>1, <2>1 DEF AccountInv, CanOverSellingCheck, View
    <2>3. Holders' \subseteq Holders
      BY <2>1 DEF Holders, d
    <2>4. \A t \in User :
                /\ AccountInv(account'[t]) /\ account'[t].quota = account[t].quota
                /\ account[t].overMode # "none" => account'[t].overMode # "none"
                /\ CanOverSellingCheck(account[t]) =>
                        /\ CanOverSellingCheck(account'[t]) /\ View(account'[t]) = View(account[t])
                        /\ account'[t].expandStatus = account[t].expandStatus
      BY <1>1, <2>1, <2>2 DEF d
    <2> QED
      BY <2>1, <2>3, <2>4, TenantStep
  <1>5. ASSUME NEW u \in User, Provision(u) PROVE SharedInv' /\ CapacityKept'
    BY <1>2, <1>5 DEF Provision
  <1>6. ASSUME NEW c \in Check, (\E u \in User : Begin(c, u)) \/ Count(c) \/ Decide(c)
        PROVE  SharedInv' /\ CapacityKept'
    BY <1>6, CheckStep
  <1>7. ASSUME NEW c \in Check, Admit(c) PROVE SharedInv' /\ CapacityKept'
    BY <1>7, AdmitStep
  <1>8. CASE UNCHANGED vars
    BY <1>2, <1>8 DEF vars
  <1> QED
    BY <1>3, <1>4, <1>5, <1>6, <1>7, <1>8 DEF Next

\* Nobody has bought anything, and nobody holds what a check has given.
LEMMA InitShared == Init => SharedInv /\ CapacityKept
  <1> SUFFICES ASSUME Init PROVE SharedInv /\ CapacityKept
    OBVIOUS
  <1>1. /\ \A u \in User : account[u] = Registered
        /\ \A c \in Check : check[c] = CheckIdle
    BY DEF Init
  <1>2. CheckIdle.step = "idle" /\ \A s \in Source : CheckIdle.view.quota[s] >= 0
    BY DEF CheckIdle, View, Registered, Unit
  <1>3. AccountInv(Registered)
    BY DEF AccountInv, Registered, Unit
  <1>4. Holders = {}
    <2>1. Registered.quota = Unit(Package) /\ Unit(Package)[Package] = 1
      BY DEF Registered, Unit, Source
    <2>2. \A u \in User : account[u].quota[Package] = 1
      BY <1>1, <2>1
    <2> QED
      BY <2>2 DEF Holders
  <1>5. SharedInv
    BY <1>1, <1>2, <1>3 DEF SharedInv, Fresh, Decided
  <1> QED
    BY <1>4, <1>5 DEF CapacityKept

\* While no check overlooks anything, at most one has counted, what is held
\* is within its count, and its account is as it was read; and whoever waits
\* has bought.
THEOREM SharedSafe == Spec => [](SharedInv /\ CapacityKept)
  <1>1. TypeOK /\ TypeOK' /\ (SharedInv /\ CapacityKept) /\ [Next]_vars
            => (SharedInv /\ CapacityKept)'
    BY NextShared
  <1> QED
    BY <1>1, InitShared, TypeCorrect, PTL DEF Spec

\* Checks that overlook nothing never give away more than the oversold
\* capacity, whatever the tenants do between a count and its admission.
THEOREM CapacityIsKept == Spec => []CapacityKept
  BY SharedSafe, PTL

=============================================================================
