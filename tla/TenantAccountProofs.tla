------------------------ MODULE TenantAccountProofs ------------------------
(***************************************************************************)
(* Facts about the operators on the tenant account, for every set of       *)
(* orders: each method leaves an account that has its type, and merging a  *)
(* patch that one CreateOrPatch computed into an account that another one  *)
(* has changed meanwhile does too.  Last, facts about sums over finite     *)
(* sets, which the hours and the resources of orders are added up with.    *)
(***************************************************************************)
EXTENDS TenantAccount, FiniteSets, FiniteSetTheorems, TLAPS

\* Adding, subtracting and granting resources yields a quota.
LEMMA QuotaType ==
    /\ Zero \in Quota
    /\ \A o : Unit(o) \in Quota
    /\ \A q, p \in Quota : Plus(q, p) \in Quota /\ Minus(q, p) \in Quota
  BY DEF Zero, Unit, Plus, Minus, Quota

\* A newly registered tenant is an account.
LEMMA RegisteredType == Registered \in Account
  BY QuotaType DEF Registered, Account, OptOrder, OrderStatus, OverMode, Time,
     ReturnInfo, Cluster, JobStatus, NoTime

\* A patch that merges into one account as its type asks merges into any.
LEMMA MergeType ==
    ASSUME NEW a \in Account, NEW c \in Account, NEW p, DOMAIN p \subseteq Field,
           Merge(c, p) \in Account
    PROVE  Merge(a, p) \in Account
  BY DEF Merge, Account, Field

\* The patch CreateOrPatch sends merges into any account to give an account.
LEMMA DiffType ==
    ASSUME NEW a \in Account, NEW b \in Account, NEW c \in Account
    PROVE  DOMAIN Diff(a, b) \subseteq Field /\ Merge(c, Diff(a, b)) \in Account
  BY DEF Diff, Merge, Account, Field

-----------------------------------------------------------------------------
(* The methods.                                                            *)

\* The values that the methods write.
LEMMA Values ==
    /\ "wait" \in OrderStatus /\ "paid" \in OrderStatus
    /\ "wait" \in OverMode /\ "no-resource" \in OverMode /\ "success" \in OverMode
    /\ NoOrder \in OptOrder /\ Order \subseteq OptOrder
    /\ NoTime \in Time /\ Nat \subseteq Time
  BY DEF OrderStatus, OverMode, OptOrder, Time

\* What NewK3kUser parses from an account is a view of it.
LEMMA ViewType == \A a \in Account : View(a) \in Views
  BY DEF View, Views, Account

\* Every order is a base order, a renewal or an expansion.
LEMMA ModeCases ==
    \A o \in Order : \/ ModeOf[o] = "base"
                     \/ ModeOf[o] = "renew"
                     \/ ModeOf[o] = "expand"
  BY OrderAssumption DEF Mode

\* Labelling an account with an order keeps its type.
LEMMA SetOrderType ==
    ASSUME NEW a \in Account, NEW o \in Order
    PROVE  SetOrder(a, o) \in Account
  <1>1. [a EXCEPT !.baseSn = o] \in Account
    BY Values DEF Account
  <1>2. [a EXCEPT !.renewSn = o, !.renewStatus = "wait"] \in Account
    BY Values DEF Account
  <1>3. [a EXCEPT !.expandSn = o, !.expandStatus = "wait"] \in Account
    BY Values DEF Account
  <1> QED
    BY <1>1, <1>2, <1>3, ModeCases DEF SetOrder

\* Adding an order's hours keeps the account's type.
LEMMA AddHoursType ==
    ASSUME NEW a \in Account, NEW o \in Order, NEW t \in Nat
    PROVE  AddHours(a, o, t) \in Account
  <1>1. ExpireAfter(a, Hours[o], t) \in Nat
    BY OrderAssumption, TimeAssumption DEF ExpireAfter, LocalStamp, Account, Time, NoTime
  <1>2. [a.credit EXCEPT ![o] = @ + 1] \in [Order -> Nat]
    BY Values DEF Account
  <1>3. [a EXCEPT !.expire = ExpireAfter(a, Hours[o], t)] \in Account
    BY <1>1, Values DEF Account
  <1> QED
    BY <1>1, <1>2, <1>3 DEF AddHours, Account

\* Handling a payment notice keeps the account's type.
LEMMA SetOrderStatusType ==
    ASSUME NEW a \in Account, NEW o \in Order, NEW t \in Nat
    PROVE  SetOrderStatus(a, o, t) \in Account
  <1>1. AddHours(a, o, t) \in Account
    BY AddHoursType
  <1>2. SetBaseOrderPaid(a, o, t) \in Account
    <2>1. \A c \in Account : [c EXCEPT !.baseStatus = "paid", !.overBase = o,
                                       !.locked = TRUE, !.overMode = "wait"] \in Account
      BY Values DEF Account
    <2> QED
      BY <1>1, <2>1 DEF SetBaseOrderPaid
  <1>3. SetRenewOrderPaid(a, o, t) \in Account
    <2>1. \A c \in Account : [c EXCEPT !.renewStatus = "paid"] \in Account
      BY Values DEF Account
    <2> QED
      BY <1>1, <2>1 DEF SetRenewOrderPaid
  <1>4. SetExpandOrderPaid(a, o) \in Account
    BY Values DEF SetExpandOrderPaid, Account
  <1> QED
    BY <1>2, <1>3, <1>4, ModeCases DEF SetOrderStatus

\* Admitting bought resources keeps the account's type.
LEMMA SetOverModeType ==
    ASSUME NEW a \in Account, NEW u \in Views
    PROVE  OverModeQuota(a, u) \in Quota /\ SetOverMode(a, u) \in Account
  <1>1. OverModeQuota(a, u) \in Quota
    BY QuotaType DEF OverModeQuota, Views
  <1>2. [a EXCEPT !.overMode = "no-resource"] \in Account
    BY Values DEF Account
  <1>3. \A q \in Quota, o \in OptOrder :
            [a EXCEPT !.overMode = "success", !.quota = q, !.overRes = o] \in Account
    BY Values DEF Account
  <1>4. (IF IsExpand(a) THEN NoOrder ELSE a.overRes) \in OptOrder
    BY Values DEF Account
  <1> QED
    BY <1>1, <1>2, <1>3, <1>4 DEF SetOverMode

\* Applying the cost package keeps the account's type.
LEMMA ReplaceQuotaType == \A a \in Account : ReplaceQuota(a) \in Account
  BY QuotaType DEF ReplaceQuota, Account

\* Recording a refund keeps the account's type.
LEMMA LockReturnType ==
    ASSUME NEW a \in Account, NEW u \in Views, NEW o \in Order, NEW t \in Nat
    PROVE  LockReturn(a, u, o, t) \in Account
  <1> DEFINE res == IF ModeOf[o] = "renew" THEN Zero ELSE Minus(u.quota, Unit(o))
             time == IF a.expire # NoTime /\ ModeOf[o] = "base" THEN t ELSE a.expire
  <1>1. res \in Quota
    BY QuotaType DEF Views
  <1>2. time \in Time
    BY Values DEF Account
  <1>3. [sn |-> o, res |-> res, time |-> time] \in ReturnInfo
    BY <1>1, <1>2 DEF ReturnInfo, ReturnRecord
  <1> QED
    BY <1>3 DEF LockReturn, Account

\* Settling a refund keeps the account's type.
LEMMA ProcessReturnType ==
    ASSUME NEW a \in Account, NEW u \in Views
    PROVE  ProcessReturn(a, u) \in Account /\ QuotaAfterReturn(a, u) \in Quota
  <1>1. CASE a.returnInfo = NoReturn
    BY <1>1 DEF ProcessReturn, QuotaAfterReturn, Views
  <1>2. CASE a.returnInfo # NoReturn
    <2>1. a.returnInfo.res \in Quota /\ a.returnInfo.time \in Time
      BY <1>2 DEF Account, ReturnInfo, ReturnRecord
    <2>2. SetOverMode(a, u) \in Account
      BY SetOverModeType
    <2>3. a.returnInfo.time > 0 => LocalStamp(a.returnInfo.time) \in Time
      BY <2>1, TimeAssumption, Values DEF LocalStamp, Time, NoTime
    <2>4. \A c \in Account, e \in Time :
              [c EXCEPT !.expire = e, !.returnInfo = NoReturn] \in Account
      BY DEF Account, ReturnInfo, ReturnRecord
    <2>5. \A c \in Account : c.expire \in Time
      BY Values DEF Account
    <2>6. ProcessReturn(a, u) \in Account
      BY <1>2, <2>1, <2>2, <2>3, <2>4, <2>5 DEF ProcessReturn
    <2> QED
      BY <1>2, <2>1, <2>6 DEF QuotaAfterReturn
  <1> QED
    BY <1>1, <1>2

-----------------------------------------------------------------------------
(* What the methods do to the fields that say which orders are credited.   *)

PurchaseField == {"baseSn", "baseStatus", "renewSn", "renewStatus",
                  "expandSn", "expandStatus", "credit"}

Same(a, b) == \A f \in PurchaseField : b[f] = a[f]

\* An order's label and status are purchase fields and differ, and two orders
\* share the label exactly if they share the status.
LEMMA LabelFields ==
    /\ \A o \in Order : Sn(o) \in PurchaseField \cap Field
                        /\ St(o) \in PurchaseField \cap Field
                        /\ Sn(o) # "credit" /\ St(o) # "credit"
    /\ \A o, p \in Order : Sn(o) # St(p) /\ (Sn(o) = Sn(p) <=> St(o) = St(p))
    /\ "credit" \in PurchaseField \cap Field
  BY ModeCases DEF Sn, St, PurchaseField, Field

\* Writing an order's number touches its own label and status only.
LEMMA SetOrderEffect ==
    ASSUME NEW a \in Account, NEW o \in Order
    PROVE  /\ SetOrder(a, o)[Sn(o)] = o
           /\ \A f \in PurchaseField \ {Sn(o), St(o)} : SetOrder(a, o)[f] = a[f]
  <1>1. CASE ModeOf[o] = "base"
    BY <1>1 DEF SetOrder, Sn, St, PurchaseField, Account
  <1>2. CASE ModeOf[o] = "renew"
    BY <1>2 DEF SetOrder, Sn, St, PurchaseField, Account
  <1>3. CASE ModeOf[o] = "expand"
    BY <1>3 DEF SetOrder, Sn, St, PurchaseField, Account
  <1> QED
    BY <1>1, <1>2, <1>3, ModeCases

\* A paid order is credited if the account is labelled with it and does not
\* say so yet; it then does, and no other order's hours are counted.
LEMMA SetOrderStatusEffect ==
    ASSUME NEW a \in Account, NEW o \in Order, NEW t \in Nat,
           NEW c, c = SetOrderStatus(a, o, t)
    PROVE  \/ Same(a, c)
           \/ /\ a[Sn(o)] = o /\ a[St(o)] # "paid" /\ c[St(o)] = "paid"
              /\ \A f \in PurchaseField \ {St(o), "credit"} : c[f] = a[f]
              /\ \A p \in Order \ {o} : c.credit[p] = a.credit[p]
              /\ c.credit[o] \in {a.credit[o], a.credit[o] + 1}
  <1>1. CASE ModeOf[o] = "base"
    BY <1>1 DEF SetOrderStatus, SetBaseOrderPaid, AddHours, Sn, St, PurchaseField, Account, Same
  <1>2. CASE ModeOf[o] = "renew"
    BY <1>2 DEF SetOrderStatus, SetRenewOrderPaid, AddHours, Sn, St, PurchaseField, Account, Same
  <1>3. CASE ModeOf[o] = "expand"
    BY <1>3 DEF SetOrderStatus, SetExpandOrderPaid, Sn, St, PurchaseField, Account, Same
  <1> QED
    BY <1>1, <1>2, <1>3, ModeCases

\* Admission, login and refunds leave those fields alone.
LEMMA OthersSame ==
    ASSUME NEW a \in Account, NEW u \in Views, NEW o, NEW t
    PROVE  /\ Same(a, SetOverMode(a, u))
           /\ Same(a, ReplaceQuota(a))
           /\ Same(a, LockReturn(a, u, o, t))
           /\ Same(a, ProcessReturn(a, u))
  <1>1. Same(a, SetOverMode(a, u))
    BY DEF Same, SetOverMode, PurchaseField, Account
  <1>2. Same(a, ReplaceQuota(a))
    BY DEF Same, ReplaceQuota, PurchaseField, Account
  <1>3. Same(a, LockReturn(a, u, o, t))
    BY DEF Same, LockReturn, PurchaseField, Account
  <1>4. Same(a, ProcessReturn(a, u))
    <2>1. SetOverMode(a, u) \in Account
      BY SetOverModeType
    <2>2. \A c \in Account : \A e : Same(c, [c EXCEPT !.expire = e, !.returnInfo = NoReturn])
      BY DEF Same, PurchaseField, Account
    <2>3. CASE a.returnInfo = NoReturn
      BY <2>3 DEF ProcessReturn, Same
    <2>4. CASE a.returnInfo # NoReturn
      <3> DEFINE c == SetOverMode(a, u)
                 e == IF a.returnInfo.time > 0
                      THEN LocalStamp(a.returnInfo.time) ELSE c.expire
      <3>1. ProcessReturn(a, u) = [c EXCEPT !.expire = e, !.returnInfo = NoReturn]
        BY <2>4, Zenon DEF ProcessReturn
      <3>2. c \in Account /\ Same(a, c)
        BY <1>1, <2>1
      <3> HIDE DEF c, e
      <3>3. Same(c, ProcessReturn(a, u))
        BY <2>2, <3>1, <3>2
      <3> QED
        BY <3>2, <3>3 DEF Same
    <2> QED
      BY <2>3, <2>4
  <1> QED
    BY <1>1, <1>2, <1>3, <1>4

\* A closure that changes no purchase field sends none.
LEMMA DiffSame ==
    ASSUME NEW a, NEW b, Same(a, b), NEW f \in PurchaseField
    PROVE  f \notin DOMAIN Diff(a, b)
  BY DEF Same, Diff

\* A merged account has each field from the patch if it is there.
LEMMA MergeFields ==
    ASSUME NEW a, NEW p, NEW f \in Field
    PROVE  Merge(a, p)[f] = IF f \in DOMAIN p THEN p[f] ELSE a[f]
  BY DEF Merge

-----------------------------------------------------------------------------
(* Sums over finite sets.  They are defined by recursion on the set; what  *)
(* such a definition gives for every set is proved from a smallest set for *)
(* which it would not.                                                     *)

\* The element of a set that a sum takes next.
Pick(T) == CHOOSE x \in T : TRUE

\* f sums v over the sets of D, one picked element after the other.
SumsOver(f, v, D) ==
    f = [T \in D |-> IF T = {} THEN 0 ELSE v[Pick(T)] + f[T \ {Pick(T)}]]

\* The sum of v over S.
Total(v, S) ==
    LET total[T \in SUBSET S] ==
            IF T = {} THEN 0
            ELSE LET o == CHOOSE x \in T : TRUE IN v[o] + total[T \ {o}]
    IN total[S]

\* It is one of the set's.
LEMMA PickIn == \A T : T # {} => Pick(T) \in T
  BY DEF Pick

\* Some set of a family is a smallest one.
LEMMA Smallest ==
    ASSUME NEW S, IsFiniteSet(S), NEW B, B \subseteq SUBSET S, B # {}
    PROVE  \E T \in B : \A x \in T : T \ {x} \notin B
  <1>1. IsWellFoundedOn(StrictSubsetOrdering(S), SUBSET S)
    BY FS_StrictSubsetOrderingWellFounded, FS_FiniteSubsetsOfFinite
  <1>2. PICK T \in B : \A U \in B : <<U, T>> \notin StrictSubsetOrdering(S)
    BY <1>1, WFMin
  <1>3. ASSUME NEW x \in T, T \ {x} \in B PROVE FALSE
    <2>1. <<T \ {x}, T>> \in StrictSubsetOrdering(S)
      BY <1>3 DEF StrictSubsetOrdering
    <2> QED
      BY <1>2, <1>3, <2>1
  <1> QED
    BY <1>3

\* A set of numbers has one whose predecessor is not in it.
LEMMA LeastNumber ==
    ASSUME NEW B, B \subseteq Nat, B # {}
    PROVE  \E n \in B : n = 0 \/ n - 1 \notin B
  <1>1. PICK n \in B : \A m \in B : <<m, n>> \notin OpToRel(<, Nat)
    BY NatLessThanWellFounded, WFMin
  <1>2. ASSUME n # 0, n - 1 \in B PROVE FALSE
    <2>1. <<n - 1, n>> \in OpToRel(<, Nat)
      BY <1>2 DEF OpToRel
    <2> QED
      BY <1>1, <1>2, <2>1
  <1> QED
    BY <1>2

\* The recursive definition of a sum has a solution.
LEMMA SumExists ==
    ASSUME NEW S, IsFiniteSet(S), NEW v
    PROVE  \E f : SumsOver(f, v, SUBSET S)
  <1> DEFINE D(n) == {T \in SUBSET S : Cardinality(T) <= n}
             B == {n \in Nat : ~ \E f : SumsOver(f, v, D(n))}
  <1>1. \A T \in SUBSET S : IsFiniteSet(T) /\ Cardinality(T) \in Nat
    BY FS_Subset, FS_CardinalityType
  <1>2. ASSUME NEW n \in B PROVE n # 0 /\ n - 1 \in B
    <2>1. n # 0
      <3>1. SUFFICES ASSUME n = 0 PROVE FALSE
        OBVIOUS
      <3>2. \A T \in D(0) : T = {}
        BY <1>1, FS_EmptySet
      <3>3. SumsOver([T \in D(0) |-> 0], v, D(0))
        BY <3>2 DEF SumsOver
      <3> QED
        BY <3>1, <3>3
    <2>2. ASSUME NEW f, SumsOver(f, v, D(n - 1)) PROVE FALSE
      <3> DEFINE g == [T \in D(n) |-> IF T = {} THEN 0 ELSE v[Pick(T)] + f[T \ {Pick(T)}]]
      <3>1. ASSUME NEW T \in D(n), T # {}
            PROVE  g[T \ {Pick(T)}] = f[T \ {Pick(T)}]
        <4> DEFINE W == T \ {Pick(T)}
        <4>1. Pick(T) \in T /\ IsFiniteSet(T) /\ Cardinality(T) \in Nat /\ Cardinality(T) <= n
          BY <1>1, <3>1, PickIn
        <4>2. Cardinality(W) = Cardinality(T) - 1
          BY <4>1, FS_RemoveElement
        <4>3. W \in D(n - 1) /\ W \in D(n)
          BY <4>1, <4>2
        <4>4. g[W] = IF W = {} THEN 0 ELSE v[Pick(W)] + f[W \ {Pick(W)}]
          BY <4>3
        <4>5. f[W] = IF W = {} THEN 0 ELSE v[Pick(W)] + f[W \ {Pick(W)}]
          <5> HIDE DEF W, D
          <5> QED
            BY <2>2, <4>3 DEF SumsOver
        <4> QED
          BY <4>4, <4>5
      <3>2. SumsOver(g, v, D(n))
        BY <3>1 DEF SumsOver
      <3> QED
        BY <3>2
    <2> HIDE DEF D
    <2>3. n - 1 \in Nat
      BY <2>1
    <2>4. ~ \E f : SumsOver(f, v, D(n - 1))
      BY <2>2
    <2> QED
      BY <2>3, <2>4
  <1>3. B = {}
    <2> HIDE DEF B
    <2>1. B \subseteq Nat
      BY DEF B
    <2> QED
      BY <1>2, <2>1, LeastNumber
  <1>4. Cardinality(S) \in Nat /\ D(Cardinality(S)) = SUBSET S
    BY <1>1, FS_Subset
  <1> HIDE DEF D
  <1>5. \E f : SumsOver(f, v, D(Cardinality(S)))
    BY <1>3, <1>4
  <1> QED
    BY <1>4, <1>5

\* Solutions agree where their sets and the values summed do.
LEMMA SumUnique ==
    ASSUME NEW S, NEW R, NEW v, NEW w, NEW f, NEW g,
           SumsOver(f, v, SUBSET S), SumsOver(g, w, SUBSET R),
           NEW T, T \subseteq S \cap R, IsFiniteSet(T), \A x \in T : v[x] = w[x]
    PROVE  f[T] = g[T]
  <1> DEFINE B == {U \in SUBSET T : f[U] # g[U]}
  <1>1. ASSUME NEW U \in B, \A x \in U : U \ {x} \notin B PROVE FALSE
    <2>1. /\ f[U] = IF U = {} THEN 0 ELSE v[Pick(U)] + f[U \ {Pick(U)}]
          /\ g[U] = IF U = {} THEN 0 ELSE w[Pick(U)] + g[U \ {Pick(U)}]
      <3>1. U \in SUBSET S /\ U \in SUBSET R
        OBVIOUS
      <3> QED
        BY <3>1 DEF SumsOver
    <2>2. CASE U = {}
      BY <2>1, <2>2
    <2>3. CASE U # {}
      <3>1. Pick(U) \in U
        BY <2>3, PickIn
      <3>2. f[U \ {Pick(U)}] = g[U \ {Pick(U)}] /\ v[Pick(U)] = w[Pick(U)]
        BY <1>1, <3>1
      <3> QED
        BY <2>1, <2>3, <3>2
    <2> QED
      BY <2>2, <2>3
  <1>2. B = {}
    <2>1. B \subseteq SUBSET T
      OBVIOUS
    <2> HIDE DEF B
    <2> QED
      BY <1>1, <2>1, Smallest
  <1> QED
    BY <1>2

\* A sum is a solution's value.
LEMMA TotalSolution ==
    ASSUME NEW S, IsFiniteSet(S), NEW v
    PROVE  \E f : SumsOver(f, v, SUBSET S) /\ Total(v, S) = f[S]
  <1> DEFINE P(f) == f = [T \in SUBSET S |-> IF T = {} THEN 0
                                  ELSE LET o == CHOOSE x \in T : TRUE IN v[o] + f[T \ {o}]]
  <1>1. \A f : SumsOver(f, v, SUBSET S) <=> P(f)
    BY DEF SumsOver, Pick
  <1>2. \E f : P(f)
    BY <1>1, SumExists
  <1>3. P(CHOOSE f : P(f))
    <2> HIDE DEF P
    <2> QED
      BY <1>2
  <1>4. Total(v, S) = (CHOOSE f : P(f))[S]
    BY DEF Total
  <1> HIDE DEF P
  <1> QED
    BY <1>1, <1>3, <1>4

\* A sum, one picked element after the other.
LEMMA TotalPick ==
    ASSUME NEW S, IsFiniteSet(S), NEW v
    PROVE  Total(v, S) = IF S = {} THEN 0 ELSE v[Pick(S)] + Total(v, S \ {Pick(S)})
  <1>1. PICK f : SumsOver(f, v, SUBSET S) /\ Total(v, S) = f[S]
    BY TotalSolution
  <1>2. IsFiniteSet(S \ {Pick(S)})
    BY FS_RemoveElement
  <1>3. PICK g : /\ SumsOver(g, v, SUBSET (S \ {Pick(S)}))
                 /\ Total(v, S \ {Pick(S)}) = g[S \ {Pick(S)}]
    BY <1>2, TotalSolution
  <1>4. f[S \ {Pick(S)}] = g[S \ {Pick(S)}]
    <2> DEFINE U == S \ {Pick(S)}
    <2>1. U \subseteq S \cap U
      OBVIOUS
    <2> HIDE DEF U
    <2>2. SumsOver(f, v, SUBSET S) /\ SumsOver(g, v, SUBSET U) /\ IsFiniteSet(U)
      BY <1>1, <1>2, <1>3 DEF U
    <2>3. \A x \in U : v[x] = v[x]
      OBVIOUS
    <2>4. f[U] = g[U]
      BY ONLY <2>1, <2>2, <2>3, SumUnique
    <2> QED
      BY <2>4 DEF U
  <1>5. f[S] = IF S = {} THEN 0 ELSE v[Pick(S)] + f[S \ {Pick(S)}]
    BY <1>1 DEF SumsOver
  <1> QED
    BY <1>1, <1>3, <1>4, <1>5

\* The type of a sum.
LEMMA TotalType ==
    ASSUME NEW S, IsFiniteSet(S), NEW v, \A x \in S : v[x] \in Int
    PROVE  Total(v, S) \in Int
  <1> DEFINE B == {T \in SUBSET S : Total(v, T) \notin Int}
  <1>1. ASSUME NEW T \in B, \A x \in T : T \ {x} \notin B PROVE FALSE
    <2>1. T \subseteq S /\ IsFiniteSet(T)
      BY FS_Subset
    <2>2. \A x \in T : Total(v, T \ {x}) \in Int
      BY <1>1
    <2>3. Total(v, T) = IF T = {} THEN 0 ELSE v[Pick(T)] + Total(v, T \ {Pick(T)})
      BY <2>1, TotalPick
    <2> QED
      BY <2>1, <2>2, <2>3, PickIn
  <1>2. B \subseteq SUBSET S
    OBVIOUS
  <1>3. B = {}
    <2> HIDE DEF B
    <2> QED
      BY <1>1, <1>2, Smallest
  <1> QED
    BY <1>3

\* An element adds its value to a sum.
LEMMA TotalElement ==
    ASSUME NEW S, IsFiniteSet(S), NEW v, \A x \in S : v[x] \in Int
    PROVE  \A x \in S : Total(v, S) = v[x] + Total(v, S \ {x})
  <1> DEFINE Q(T) == \A x \in T : Total(v, T) = v[x] + Total(v, T \ {x})
             B == {T \in SUBSET S : ~Q(T)}
  <1>1. \A T \in SUBSET S : IsFiniteSet(T) /\ Total(v, T) \in Int
    BY FS_Subset, TotalType
  <1>2. ASSUME NEW T \in B, \A x \in T : T \ {x} \notin B PROVE FALSE
    <2> DEFINE p == Pick(T)
    <2>1. T \in SUBSET S /\ IsFiniteSet(T)
      BY <1>1
    <2>2. \A x \in T : Q(T \ {x})
      BY <1>2
    <2>3. T # {}
      OBVIOUS
    <2>4. p \in T /\ Total(v, T) = v[p] + Total(v, T \ {p})
      BY <2>1, <2>3, PickIn, TotalPick
    <2> HIDE DEF p
    <2>5. ASSUME NEW x \in T, x # p
          PROVE  Total(v, T) = v[x] + Total(v, T \ {x})
      <3> DEFINE W == (T \ {p}) \ {x}
      <3>1. W = (T \ {x}) \ {p} /\ W \in SUBSET S
        BY <2>1
      <3>2. Total(v, T \ {p}) = v[x] + Total(v, W)
        BY <2>2, <2>4, <2>5
      <3>3. Total(v, T \ {x}) = v[p] + Total(v, W)
        BY <2>2, <2>4, <2>5, <3>1
      <3>4. v[x] \in Int /\ v[p] \in Int /\ Total(v, W) \in Int
        BY <1>1, <2>1, <2>4, <3>1
      <3> HIDE DEF W
      <3> QED
        BY <2>4, <3>2, <3>3, <3>4
    <2>6. Q(T)
      BY <2>4, <2>5
    <2> QED
      BY <2>6
  <1>3. B \subseteq SUBSET S
    OBVIOUS
  <1>4. B = {}
    <2> HIDE DEF B
    <2> QED
      BY <1>2, <1>3, Smallest
  <1>5. Q(S)
    BY <1>4
  <1> QED
    BY <1>5

\* A sum of numbers that are not negative grows with its set.
LEMMA TotalGrows ==
    ASSUME NEW S, IsFiniteSet(S), NEW v, \A x \in S : v[x] \in Nat,
           NEW R, R \subseteq S
    PROVE  Total(v, R) <= Total(v, S)
  <1> DEFINE B == {T \in SUBSET S : R \subseteq T /\ ~(Total(v, R) <= Total(v, T))}
  <1>1. \A T \in SUBSET S : IsFiniteSet(T) /\ Total(v, T) \in Int
    BY FS_Subset, TotalType
  <1>2. ASSUME NEW T \in B, \A x \in T : T \ {x} \notin B PROVE FALSE
    <2>1. T # R
      BY <1>1
    <2>2. PICK x \in T : x \notin R
      BY <2>1
    <2>3. Total(v, R) <= Total(v, T \ {x})
      BY <1>2, <2>2
    <2>4. Total(v, T) = v[x] + Total(v, T \ {x})
      BY <1>1, TotalElement
    <2>5. v[x] \in Nat /\ Total(v, T \ {x}) \in Int /\ Total(v, R) \in Int
      BY <1>1
    <2>6. ~(Total(v, R) <= Total(v, T))
      OBVIOUS
    <2> HIDE DEF B
    <2> QED
      BY <2>3, <2>4, <2>5, <2>6
  <1>3. B \subseteq SUBSET S
    OBVIOUS
  <1>4. S \notin B
    <2> HIDE DEF B
    <2> QED
      BY <1>2, <1>3, Smallest
  <1> QED
    BY <1>4

\* Sums of the same values are the same.
LEMMA TotalSame ==
    ASSUME NEW S, IsFiniteSet(S), NEW v, NEW w, \A x \in S : v[x] = w[x]
    PROVE  Total(v, S) = Total(w, S)
  <1>1. PICK f : SumsOver(f, v, SUBSET S) /\ Total(v, S) = f[S]
    BY TotalSolution
  <1>2. PICK g : SumsOver(g, w, SUBSET S) /\ Total(w, S) = g[S]
    BY TotalSolution
  <1>3. S \subseteq S \cap S
    OBVIOUS
  <1>4. f[S] = g[S]
    BY <1>1, <1>2, <1>3, SumUnique
  <1> QED
    BY <1>1, <1>2, <1>4

\* A sum of nothing but zeros.
LEMMA TotalZero ==
    ASSUME NEW S, IsFiniteSet(S), NEW v, \A x \in S : v[x] = 0
    PROVE  Total(v, S) = 0
  <1> DEFINE B == {T \in SUBSET S : Total(v, T) # 0}
  <1>1. ASSUME NEW T \in B, \A x \in T : T \ {x} \notin B PROVE FALSE
    <2>1. T \subseteq S /\ IsFiniteSet(T)
      BY FS_Subset
    <2>2. \A x \in T : Total(v, T \ {x}) = 0
      BY <1>1
    <2>3. Total(v, T) = IF T = {} THEN 0 ELSE v[Pick(T)] + Total(v, T \ {Pick(T)})
      BY <2>1, TotalPick
    <2> QED
      BY <2>1, <2>2, <2>3, PickIn
  <1>2. B \subseteq SUBSET S
    OBVIOUS
  <1>3. B = {}
    <2> HIDE DEF B
    <2> QED
      BY <1>1, <1>2, Smallest
  <1> QED
    BY <1>3
=============================================================================
