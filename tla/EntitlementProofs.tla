-------------------------- MODULE EntitlementProofs --------------------------
(***************************************************************************)
(* TenantOrders implements Entitlement when the tenant's requests follow   *)
(* one another, for every set of orders, refunds and failures.             *)
(***************************************************************************)
EXTENDS TenantEntitlement, TenantOrdersProofs

\* A patch sent before anything else changes the account makes it what the
\* closure computed.
LEMMA MergeDiff ==
    ASSUME NEW a \in Account, NEW b \in Account
    PROVE  Merge(a, Diff(a, b)) = b
  BY DEF Merge, Diff, Account, Field

\* Orders become due and are given back, and that stays so.
Later(c, d) == DueIn(c) \subseteq DueIn(d) /\ (Returning(c) => Returning(d))

\* What was sound, good and lawful stays so when orders are paid or given
\* back.
LEMMA LaterGood ==
    ASSUME NEW c, NEW d, Later(c, d), NEW a \in Account, NEW b
    PROVE  /\ Good(a, c) => Good(a, d)
           /\ Lawful(a, b, c) => Lawful(a, b, d)
           /\ \A u : SoundUser(u, c) => SoundUser(u, d)
  <1>1. \A q : Backed(q, c) => Backed(q, d)
    BY DEF Later, Backed
  <1>2. \A u : SoundUser(u, c) => SoundUser(u, d)
    BY <1>1 DEF Later, SoundUser, BackedOrder
  <1>3. Sound(a, c) => Sound(a, d)
    BY <1>1, <1>2 DEF Later, Sound
  <1>4. CountsOne(a, b, c) => CountsOne(a, b, d)
    BY DEF Later, CountsOne
  <1>5. GrantsExpansion(a, b, c) => GrantsExpansion(a, b, d)
    BY DEF Later, GrantsExpansion
  <1> QED
    BY <1>1, <1>2, <1>3, <1>4, <1>5 DEF Later, Good, Lawful

-----------------------------------------------------------------------------
(* The methods.                                                            *)

\* Labelling an account with a new order keeps it good.
LEMMA SetOrderGood ==
    ASSUME NEW c, NEW a \in Account, NEW o \in Order, Good(a, c),
           ~Returning(c) => /\ a.quota[o] = 0
                            /\ ModeOf[o] = "expand" => a.overMode = "success"
    PROVE  Good(SetOrder(a, o), c) /\ Lawful(a, SetOrder(a, o), c)
  <1> DEFINE b == SetOrder(a, o)
  <1>1. /\ b.quota = a.quota /\ b.credit = a.credit /\ b.overRes = a.overRes
        /\ b.overBase = a.overBase /\ b.returnInfo = a.returnInfo
        /\ b.locked = a.locked /\ b.overMode = a.overMode /\ b.baseStatus = a.baseStatus
        /\ \/ ModeOf[o] # "expand" /\ b.expandSn = a.expandSn /\ b.expandStatus = a.expandStatus
           \/ ModeOf[o] = "expand" /\ b.expandSn = o /\ b.expandStatus = "wait"
    BY ModeCases DEF SetOrder, Account
  <1> HIDE DEF b
  <1>2. Sound(b, c)
    BY <1>1 DEF Good, Sound, SoundUser, View
  <1>3. ASSUME Orderly(a), ~Returning(c)
        PROVE  Orderly(b)
    <2>1. HoldsBase(a) => HoldsBase(b)
      BY <1>1 DEF HoldsBase
    <2>2. CASE Unbought(a) \/ BaseBought(a)
      <3>1. ModeOf[o] # "expand"
        BY <1>3, <2>2 DEF Unbought, BaseBought
      <3> QED
        BY <1>1, <1>3, <2>2, <3>1 DEF Orderly, Unbought, BaseBought
    <2>3. CASE Admitted(a)
      BY <1>1, <1>3, <2>1, <2>3 DEF Orderly, Admitted
    <2>4. CASE ExpansionBought(a)
      <3>1. ModeOf[o] # "expand"
        BY <1>3, <2>4 DEF ExpansionBought
      <3> QED
        BY <1>1, <1>3, <2>1, <2>4, <3>1 DEF Orderly, ExpansionBought
    <2> QED
      BY <1>3, <2>2, <2>3, <2>4 DEF Orderly
  <1> QED
    BY <1>1, <1>2, <1>3 DEF Good, Lawful, b

\* Crediting a due order keeps the account good, and counts it at most.
LEMMA StatusGood ==
    ASSUME NEW c, NEW a \in Account, NEW o \in DueIn(c), NEW t \in Nat, Good(a, c),
           a.credit[o] <= 1,
           a.credit[o] = 1 /\ a[Sn(o)] = o => a[St(o)] = "paid"
    PROVE  Good(SetOrderStatus(a, o, t), c) /\ Lawful(a, SetOrderStatus(a, o, t), c)
  <1>1. o \in Order /\ o # NoOrder
    BY NamesAssumption DEF DueIn
  <1>2. Good(a, c) /\ Lawful(a, a, c)
    BY DEF Lawful
  <1>3. a.credit \in [Order -> Nat]
    BY DEF Account
  <1>4. CASE ModeOf[o] = "base" /\ a.baseSn = o /\ a.baseStatus # "paid"
    <2> DEFINE b == [AddHours(a, o, t) EXCEPT !.baseStatus = "paid", !.overBase = o,
                                              !.locked = TRUE, !.overMode = "wait"]
    <2>1. SetOrderStatus(a, o, t) = b
      BY <1>4 DEF SetOrderStatus, SetBaseOrderPaid
    <2>2. a.credit[o] = 0
      BY <1>1, <1>3, <1>4 DEF Sn, St
    <2>3. /\ b.quota = a.quota /\ b.overRes = a.overRes /\ b.overBase = o
          /\ b.returnInfo = a.returnInfo /\ b.locked /\ b.overMode = "wait"
          /\ b.baseStatus = "paid" /\ b.expandSn = a.expandSn
          /\ b.expandStatus = a.expandStatus
          /\ b.credit = [a.credit EXCEPT ![o] = @ + 1]
      BY DEF AddHours, Account
    <2> HIDE DEF b
    <2>4. b.credit = [a.credit EXCEPT ![o] = 1]
      BY <1>1, <1>3, <2>2, <2>3
    <2>5. \A p \in Order : b.credit[p] # 0 => p \in DueIn(c)
      BY <1>1, <1>3, <2>4 DEF Good, Sound
    <2>6. Sound(b, c)
      BY <1>1, <2>3, <2>5 DEF Good, Sound, SoundUser, View, BackedOrder
    <2>7. ASSUME Orderly(a) PROVE Orderly(b)
      <3>1. Unbought(a)
        BY <1>4, <2>7 DEF Orderly, Unbought, BaseBought, Admitted, ExpansionBought
      <3>2. b.credit[o] # 0
        BY <1>1, <1>3, <2>4
      <3>3. BaseBought(b)
        BY <1>1, <1>4, <2>3, <3>1, <3>2 DEF Unbought, BaseBought
      <3> QED
        BY <2>3, <2>7, <3>3 DEF Orderly
    <2>8. CountsOne(a, b, c)
      BY <1>4, <2>2, <2>3, <2>4 DEF CountsOne
    <2> QED
      BY <2>1, <2>6, <2>7, <2>8 DEF Good, Lawful
  <1>5. CASE ModeOf[o] = "renew" /\ a.renewSn = o /\ a.renewStatus # "paid"
    <2> DEFINE b == [AddHours(a, o, t) EXCEPT !.renewStatus = "paid"]
    <2>1. SetOrderStatus(a, o, t) = b
      BY <1>5 DEF SetOrderStatus, SetRenewOrderPaid
    <2>2. a.credit[o] = 0
      BY <1>1, <1>3, <1>5 DEF Sn, St
    <2>3. /\ b.quota = a.quota /\ b.overRes = a.overRes /\ b.overBase = a.overBase
          /\ b.returnInfo = a.returnInfo /\ b.locked = a.locked /\ b.overMode = a.overMode
          /\ b.baseStatus = a.baseStatus /\ b.expandSn = a.expandSn
          /\ b.expandStatus = a.expandStatus
          /\ b.credit = [a.credit EXCEPT ![o] = @ + 1]
      BY DEF AddHours, Account
    <2> HIDE DEF b
    <2>4. b.credit = [a.credit EXCEPT ![o] = 1]
      BY <1>1, <1>3, <2>2, <2>3
    <2>5. \A p \in Order : b.credit[p] # 0 <=> a.credit[p] # 0 \/ p = o
      BY <1>1, <1>3, <2>4
    <2>6. Sound(b, c)
      BY <2>3, <2>5 DEF Good, Sound, SoundUser, View
    <2>7. ASSUME Orderly(a) PROVE Orderly(b)
      <3>1. HoldsBase(a) => HoldsBase(b)
        BY <2>3 DEF HoldsBase
      <3>2. CASE Unbought(a)
        BY <2>3, <2>7, <3>2 DEF Orderly, Unbought
      <3>3. CASE BaseBought(a)
        BY <2>3, <2>5, <2>7, <3>3 DEF Orderly, BaseBought
      <3>4. CASE Admitted(a)
        BY <2>3, <2>7, <3>1, <3>4 DEF Orderly, Admitted
      <3>5. CASE ExpansionBought(a)
        BY <2>3, <2>7, <3>1, <3>5 DEF Orderly, ExpansionBought
      <3> QED
        BY <2>7, <3>2, <3>3, <3>4, <3>5 DEF Orderly
    <2>8. CountsOne(a, b, c)
      BY <1>5, <2>2, <2>3, <2>4 DEF CountsOne
    <2> QED
      BY <2>1, <2>6, <2>7, <2>8 DEF Good, Lawful
  <1>6. CASE ModeOf[o] = "expand" /\ a.expandSn = o /\ a.expandStatus # "paid"
    <2> DEFINE b == [a EXCEPT !.expandStatus = "paid", !.overRes = o, !.overMode = "wait"]
    <2>1. SetOrderStatus(a, o, t) = b
      BY <1>6 DEF SetOrderStatus, SetExpandOrderPaid
    <2>2. /\ b.quota = a.quota /\ b.overRes = o /\ b.overBase = a.overBase
          /\ b.returnInfo = a.returnInfo /\ b.locked = a.locked /\ b.overMode = "wait"
          /\ b.baseStatus = a.baseStatus /\ b.expandSn = a.expandSn
          /\ b.expandStatus = "paid" /\ b.credit = a.credit
      BY DEF Account
    <2> HIDE DEF b
    <2>3. Sound(b, c)
      BY <1>1, <2>2 DEF Good, Sound, SoundUser, View, BackedOrder
    <2>4. ASSUME Orderly(a) PROVE Orderly(b)
      <3>1. Admitted(a)
        BY <1>1, <1>6, <2>4 DEF Orderly, Unbought, BaseBought, ExpansionBought
      <3>2. HoldsBase(b)
        BY <2>2, <3>1 DEF Admitted, HoldsBase
      <3>3. ExpansionBought(b)
        BY <1>1, <1>6, <2>2, <3>1, <3>2 DEF Admitted, ExpansionBought
      <3> QED
        BY <1>1, <1>6, <2>2, <2>4, <3>3 DEF Orderly, ExpansionBought
    <2> QED
      BY <2>1, <2>2, <2>3, <2>4 DEF Good, Lawful
  <1>7. CASE SetOrderStatus(a, o, t) = a
    BY <1>2, <1>7
  <1>8. SetOrderStatus(a, o, t) = a
        \/ (ModeOf[o] = "base" /\ a.baseSn = o /\ a.baseStatus # "paid")
        \/ (ModeOf[o] = "renew" /\ a.renewSn = o /\ a.renewStatus # "paid")
        \/ (ModeOf[o] = "expand" /\ a.expandSn = o /\ a.expandStatus # "paid")
    <2>1. \/ ModeOf[o] = "base" /\ SetOrderStatus(a, o, t) = SetBaseOrderPaid(a, o, t)
          \/ ModeOf[o] = "renew" /\ SetOrderStatus(a, o, t) = SetRenewOrderPaid(a, o, t)
          \/ ModeOf[o] = "expand" /\ SetOrderStatus(a, o, t) = SetExpandOrderPaid(a, o)
      BY <1>1, ModeCases DEF SetOrderStatus
    <2> QED
      BY <2>1 DEF SetBaseOrderPaid, SetRenewOrderPaid, SetExpandOrderPaid
  <1> QED
    BY <1>4, <1>5, <1>6, <1>7, <1>8

\* Admission grants what is due, once.
LEMMA SetOverModeGood ==
    ASSUME NEW c, NEW a \in Account, NEW u \in Views, Good(a, c), SoundUser(u, c),
           ~Returning(c) => a.overMode = "wait" /\ u = View(a)
    PROVE  /\ Good(SetOverMode(a, u), c) /\ Lawful(a, SetOverMode(a, u), c)
           /\ Backed(SetOverMode(a, u).quota, c)
  <1> DEFINE b == SetOverMode(a, u)
             q == IF a.overMode = "success" THEN a.quota ELSE OverModeQuota(a, u)
  <1>1. /\ b.quota = q /\ b.credit = a.credit /\ b.overBase = a.overBase
        /\ b.returnInfo = a.returnInfo /\ b.locked = a.locked
        /\ b.baseStatus = a.baseStatus /\ b.expandSn = a.expandSn
        /\ b.expandStatus = a.expandStatus
        /\ b.overRes = a.overRes \/ b.overRes = NoOrder
        /\ b.overMode = IF a.overMode = "success" THEN "no-resource" ELSE "success"
    BY DEF SetOverMode, OverModeQuota, Account
  <1>2. \A p \in Quota, o \in OptOrder, r \in Order :
            Plus(p, Unit(o))[r] = IF r = o THEN p[r] + 1 ELSE p[r]
    BY DEF Plus, Unit, Quota, Source
  <1>3. \A o \in OptOrder, r \in Order : Unit(o)[r] = IF r = o THEN 1 ELSE 0
    BY DEF Unit, Source
  <1> HIDE DEF b, q
  <1>4. Backed(q, c)
    <2>1. u.quota \in Quota /\ u.overRes \in OptOrder /\ u.overBase \in OptOrder
      BY DEF Views
    <2>2. CASE a.overMode = "success"
      BY <2>2 DEF q, Good, Sound, SoundUser, View
    <2>3. CASE a.overMode # "success" /\ IsExpand(a)
      <3>1. q = Plus(u.quota, Unit(u.overRes))
        BY <2>3 DEF q, OverModeQuota
      <3>2. \A r \in Order : q[r] > 0 => u.quota[r] > 0 \/ r = u.overRes
        BY <1>2, <2>1, <3>1
      <3> QED
        BY <3>2 DEF Backed, SoundUser, BackedOrder
    <2>4. CASE a.overMode # "success" /\ ~IsExpand(a)
      <3>1. q = Unit(u.overBase)
        BY <2>4 DEF q, OverModeQuota
      <3>2. \A r \in Order : q[r] > 0 => r = u.overBase
        BY <1>3, <2>1, <3>1
      <3> QED
        BY <3>2 DEF Backed, SoundUser, BackedOrder
    <2> QED
      BY <2>2, <2>3, <2>4
  <1>5. Sound(b, c)
    BY <1>1, <1>4, NamesAssumption DEF Good, Sound, SoundUser, View, BackedOrder
  <1>6. CASE Returning(c)
    BY <1>1, <1>4, <1>5, <1>6 DEF Good, Lawful, b
  <1>7. CASE ~Returning(c)
    <2>1. Orderly(a) /\ a.overMode = "wait" /\ u = View(a)
      BY <1>7 DEF Good
    <2>2. u.quota = a.quota /\ u.overRes = a.overRes /\ u.overBase = a.overBase
      BY <2>1 DEF View
    <2>3. a.quota \in [Source -> Int] /\ Package \in Source /\ Order \subseteq Source
      BY DEF Account, Quota, Source
    <2>4. CASE BaseBought(a)
      <3>1. q = Unit(a.overBase) /\ a.overBase \in Order
        BY <2>1, <2>2, <2>4 DEF q, OverModeQuota, IsExpand, BaseBought
      <3>2. GrantsBase(a, b)
        BY <1>1, <2>4, <3>1 DEF GrantsBase, BaseBought
      <3>3. \A s \in Source : q[s] >= 0
        BY <3>1 DEF Unit
      <3>4. q[Package] = 0 /\ q[a.overBase] = 1
        BY <2>3, <3>1, NamesAssumption DEF Unit
      <3>5. HoldsBase(b)
        BY <1>1, <2>4, <3>4 DEF BaseBought, HoldsBase
      <3>6. Admitted(b)
        BY <1>1, <2>1, <2>4, <3>5, NamesAssumption DEF BaseBought, Admitted
      <3>7. Orderly(b)
        BY <1>1, <2>1, <2>4, <3>3, <3>6, NamesAssumption DEF Orderly, BaseBought
      <3> QED
        BY <1>1, <1>4, <1>5, <3>2, <3>7 DEF Good, Lawful, b
    <2>5. CASE ExpansionBought(a)
      <3>1. q = Plus(a.quota, Unit(a.overRes)) /\ a.overRes \in Order
        BY <2>1, <2>2, <2>5 DEF q, OverModeQuota, IsExpand, ExpansionBought
      <3>2. q = [a.quota EXCEPT ![a.overRes] = 1]
        BY <2>3, <2>5, <3>1 DEF Plus, Unit, ExpansionBought
      <3>3. a.overRes \in DueIn(c)
        BY <3>1 DEF Good, Sound, SoundUser, BackedOrder, View
      <3>4. GrantsExpansion(a, b, c)
        BY <1>1, <2>5, <3>2, <3>3 DEF GrantsExpansion, ExpansionBought, HoldsBase
      <3>5. \A s \in Source : q[s] >= 0
        BY <2>1, <2>3, <3>2 DEF Orderly
      <3>6. HoldsBase(b) /\ q[a.overRes] = 1
        BY <1>1, <2>3, <2>5, <3>1, <3>2, NamesAssumption DEF ExpansionBought, HoldsBase
      <3>7. Admitted(b)
        BY <1>1, <2>1, <2>5, <3>6 DEF ExpansionBought, Admitted
      <3>8. Orderly(b)
        BY <1>1, <2>1, <3>5, <3>7 DEF Orderly
      <3> QED
        BY <1>1, <1>4, <1>5, <3>4, <3>8 DEF Good, Lawful, b
    <2> QED
      BY <2>1, <2>4, <2>5 DEF Orderly, Unbought, Admitted
  <1> QED
    BY <1>6, <1>7

\* A login and a check change a quota only when something is given back.
LEMMA ReplaceQuotaGood ==
    ASSUME NEW c, NEW a \in Account, Good(a, c)
    PROVE  /\ Good(ReplaceQuota(a), c) /\ Lawful(a, ReplaceQuota(a), c)
           /\ SoundUser(View(ReplaceQuota(a)), c)
           /\ ~Returning(c) => ReplaceQuota(a) = a
  <1> DEFINE b == [a EXCEPT !.quota = Unit(Package)]
  <1>1. CASE ReplaceQuota(a) = a
    BY <1>1 DEF Good, Sound, Lawful
  <1>2. CASE ReplaceQuota(a) # a
    <2>1. ReplaceQuota(a) = b /\ ~a.locked
      BY <1>2 DEF ReplaceQuota, Account
    <2>2. /\ b.quota = Unit(Package) /\ b.credit = a.credit /\ b.overRes = a.overRes
          /\ b.overBase = a.overBase /\ b.returnInfo = a.returnInfo
      BY DEF Account
    <2>3. ASSUME Orderly(a) PROVE FALSE
      <3>1. a.quota = Unit(Package)
        BY <2>1, <2>3 DEF Orderly, Unbought, BaseBought, Admitted, ExpansionBought
      <3>2. b = a
        BY <3>1 DEF Account
      <3> QED
        BY <1>2, <2>1, <3>2
    <2>4. Backed(Unit(Package), c)
      BY NamesAssumption DEF Backed, Unit, Source
    <2> HIDE DEF b
    <2>5. Sound(b, c)
      BY <2>2, <2>4 DEF Good, Sound, SoundUser, View
    <2> QED
      BY <2>1, <2>2, <2>3, <2>4, <2>5 DEF Good, Lawful, Sound
  <1> QED
    BY <1>1, <1>2

\* Recording a refund changes neither quota nor credit.
LEMMA LockReturnGood ==
    ASSUME NEW c, NEW a \in Account, NEW u \in Views, NEW o \in Order, NEW t \in Nat,
           Good(a, c), SoundUser(u, c), Returning(c)
    PROVE  Good(LockReturn(a, u, o, t), c) /\ Lawful(a, LockReturn(a, u, o, t), c)
  <1> DEFINE b == LockReturn(a, u, o, t)
             res == IF ModeOf[o] = "renew" THEN Zero ELSE Minus(u.quota, Unit(o))
  <1>1. /\ b.quota = a.quota /\ b.credit = a.credit /\ b.overRes = a.overRes
        /\ b.overBase = a.overBase /\ b.returnInfo.res = res
    BY DEF LockReturn, Account
  <1>2. u.quota \in Quota
    BY DEF Views
  <1>3. \A r \in Order : res[r] > 0 => u.quota[r] > 0
    BY <1>2 DEF Zero, Minus, Unit, Quota, Source
  <1> HIDE DEF b, res
  <1>4. Backed(res, c)
    BY <1>3 DEF Backed, SoundUser
  <1>5. Sound(b, c)
    BY <1>1, <1>4 DEF Good, Sound, SoundUser, View
  <1> QED
    BY <1>1, <1>5 DEF Good, Lawful, b

\* Settling a refund leaves a quota that is paid for.
LEMMA ProcessReturnGood ==
    ASSUME NEW c, NEW a \in Account, NEW u \in Views, Good(a, c), SoundUser(u, c),
           Returning(c)
    PROVE  /\ Good(ProcessReturn(a, u), c) /\ Lawful(a, ProcessReturn(a, u), c)
           /\ Backed(QuotaAfterReturn(a, u), c)
  <1>1. Backed(QuotaAfterReturn(a, u), c)
    BY DEF QuotaAfterReturn, Good, Sound, SoundUser
  <1>2. CASE a.returnInfo = NoReturn
    BY <1>1, <1>2 DEF ProcessReturn, Lawful
  <1>3. CASE a.returnInfo # NoReturn
    <2> DEFINE d == SetOverMode(a, u)
               b == [d EXCEPT !.expire = IF a.returnInfo.time > 0
                                         THEN LocalStamp(a.returnInfo.time) ELSE @,
                              !.returnInfo = NoReturn]
    <2>1. d \in Account /\ Good(d, c) /\ Lawful(a, d, c) /\ Backed(d.quota, c) /\ d.credit = a.credit
      <3>1. d \in Account
        BY SetOverModeType
      <3>2. d.credit = a.credit
        BY DEF SetOverMode, Account
      <3> QED
        BY <3>1, <3>2, SetOverModeGood
    <2>2. ProcessReturn(a, u) = b
      BY <1>3 DEF ProcessReturn
    <2> HIDE DEF d
    <2>3. /\ b.quota = d.quota /\ b.credit = d.credit /\ b.overRes = d.overRes
          /\ b.overBase = d.overBase /\ b.returnInfo = NoReturn
      BY <2>1 DEF Account
    <2> HIDE DEF b
    <2>4. Sound(b, c)
      BY <2>1, <2>3 DEF Good, Sound, SoundUser, View
    <2> QED
      BY <1>1, <2>1, <2>2, <2>3, <2>4 DEF Good, Lawful
  <1> QED
    BY <1>2, <1>3

-----------------------------------------------------------------------------
(* The steps.                                                              *)

\* A lawful change of the account is a step of Entitlement, or none.
LEMMA LawfulStep ==
    ASSUME TypeOK, TypeOK', console' = console, Lawful(account, account', console)
    PROVE  [E!Next]_(E!vars)
  <1> DEFINE counted(a) == {o \in Order : a.credit[o] # 0}
  <1>1. /\ account.quota \in [Source -> Int] /\ account'.quota \in [Source -> Int]
        /\ account.credit \in [Order -> Nat] /\ account'.credit \in [Order -> Nat]
    BY DEF TypeOK, Account, Quota
  <1>2. E!Due = DueIn(console) /\ (E!NoRefund <=> ~Returning(console)) /\ E!Source = Source
    BY DEF E!Due, DueIn, E!NoRefund, Returning, E!Source, Source
  <1>3. CASE account'.credit = account.credit /\ account'.quota = account.quota
    BY <1>3 DEF E!vars
  <1>4. ASSUME NEW o \in DueIn(console), account.credit[o] = 0, ModeOf[o] # "expand",
               account'.credit = [account.credit EXCEPT ![o] = 1],
               account'.quota = account.quota
        PROVE  E!Next
    <2>1. o \in Order
      BY DEF DueIn
    <2>2. counted(account') = counted(account) \cup {o}
      BY <1>1, <1>4, <2>1
    <2>3. E!Count(o)
      BY <1>2, <1>4, <2>2 DEF E!Count
    <2> QED
      BY <2>1, <2>3 DEF E!Next
  <1>5. ASSUME NEW o \in Order, ModeOf[o] = "base", account.credit[o] # 0,
               account.quota = Unit(Package), account'.quota = Unit(o),
               account'.credit = account.credit
        PROVE  E!Next
    <2>1. E!GrantBase(o)
      BY <1>2, <1>5 DEF E!GrantBase, Unit
    <2> QED
      BY <2>1 DEF E!Next
  <1>6. ASSUME NEW o \in DueIn(console), ModeOf[o] = "expand",
               account.quota[o] = 0, account.quota[Package] = 0,
               account'.quota = [account.quota EXCEPT ![o] = 1],
               account'.credit = account.credit
        PROVE  E!Next
    <2>1. E!GrantExpansion(o) /\ o \in Order
      BY <1>2, <1>6 DEF E!GrantExpansion, DueIn
    <2> QED
      BY <2>1 DEF E!Next
  <1>7. CASE /\ Returning(console) /\ account'.credit = account.credit
             /\ Backed(account'.quota, console)
    <2>1. E!Rearrange
      BY <1>1, <1>2, <1>7 DEF E!Rearrange, Backed
    <2> QED
      BY <2>1 DEF E!Next
  <1> QED
    BY <1>3, <1>4, <1>5, <1>6, <1>7 DEF Lawful, CountsOne, GrantsBase, GrantsExpansion

\* A step of the only request, which leaves account and console alone.
LEMMA OnlyRequest ==
    ASSUME Serial, TypeOK, EntitledInv, NEW r \in Req, NEW s, Become(r, s),
           UNCHANGED <<account, console>>, Reliable(s, account, console)
    PROVE  EntitledInv' /\ UNCHANGED E!vars
  <1>1. \A q \in Req : op'[q] = s
    BY DEF Serial, Become, TypeOK
  <1> QED
    BY <1>1 DEF EntitledInv, E!vars

\* A request that does nothing relies on nothing.
LEMMA IdleReliable ==
    ASSUME NEW a, NEW c, NEW m, NEW o
    PROVE  /\ Reliable(Idle, a, c)
           /\ m # "expand" \/ a.overMode = "success" \/ Returning(c) =>
                Reliable([Idle EXCEPT !.step = "placing", !.mode = m], a, c)
           /\ o \in DueIn(c) => Reliable([Idle EXCEPT !.step = "notifying", !.order = o], a, c)
           /\ \A u : /\ SoundUser(u, c)
                     /\ ~Returning(c) => a.overMode = "wait" /\ u = View(a)
                     => Reliable([Idle EXCEPT !.step = "admitting", !.user = u], a, c)
           /\ \A u : SoundUser(u, c) /\ Returning(c) =>
                /\ Reliable([Idle EXCEPT !.step = "finding", !.user = u], a, c)
                /\ Reliable([Idle EXCEPT !.step = "finishing", !.next = "finding",
                                         !.user = u, !.order = o], a, c)
  <1>1. SoundUser(NoUser, c)
    BY NamesAssumption DEF SoundUser, NoUser, Backed, BackedOrder, Zero, Source
  <1> QED
    BY <1>1 DEF Reliable, Idle

\* The Get of a CreateOrPatch whose closure does something lawful.
LEMMA OnlyPatch ==
    ASSUME Serial, TypeOK, EntitledInv, NEW r \in Req, NEW after \in Account, NEW next,
           next # "idle" => Returning(console),
           BeginPatch(r, after, next), UNCHANGED <<account, console>>,
           Good(after, console), Lawful(account, after, console)
    PROVE  EntitledInv' /\ UNCHANGED E!vars
  <1> DEFINE s == [op[r] EXCEPT !.step = "patching", !.mode = "base",
                               !.patch = Diff(account, after), !.next = next]
  <1>1. s.step = "patching" /\ s.user = op[r].user /\ s.next = next
        /\ s.patch = Diff(account, after)
    BY DEF TypeOK, OpType
  <1>2. Merge(account, s.patch) = after
    BY <1>1, MergeDiff DEF TypeOK
  <1>3. SoundUser(s.user, console)
    BY <1>1 DEF EntitledInv, Reliable
  <1>4. Become(r, s)
    BY DEF BeginPatch
  <1> HIDE DEF s
  <1>5. Reliable(s, account, console)
    BY <1>1, <1>2, <1>3 DEF Reliable
  <1> QED
    BY <1>4, <1>5, OnlyRequest

\* Orders move on at the console while the request has its account in hand.
LEMMA ConsoleStep ==
    ASSUME TypeOK, TypeOK', EntitledInv, Later(console, console'), UNCHANGED <<account, op>>
    PROVE  EntitledInv'
  <1>1. \A r \in Req : Merge(account, op[r].patch) \in Account
    BY MergeType, RegisteredType DEF TypeOK, OpType, PatchType
  <1>2. Good(account, console')
    BY LaterGood DEF EntitledInv, TypeOK
  <1>3. ASSUME NEW r \in Req PROVE Reliable(op[r], account, console')
    <2>1. Reliable(op[r], account, console)
      BY DEF EntitledInv
    <2>2. SoundUser(op[r].user, console')
      BY <2>1, LaterGood DEF Reliable, TypeOK
    <2>3. op[r].step = "patching" =>
            /\ Good(Merge(account, op[r].patch), console')
            /\ Lawful(account, Merge(account, op[r].patch), console')
      BY <1>1, <2>1, LaterGood DEF Reliable, TypeOK
    <2> QED
      BY <2>1, <2>2, <2>3 DEF Reliable, Later
  <1> QED
    BY <1>2, <1>3 DEF EntitledInv

\* A step of the only request, whatever it changes.
LEMMA OneRequest ==
    ASSUME Serial, TypeOK, NEW r \in Req, NEW s, Become(r, s),
           Good(account', console'), Reliable(s, account', console')
    PROVE  EntitledInv'
  <1>1. \A q \in Req : op'[q] = s
    BY DEF Serial, Become, TypeOK
  <1> QED
    BY <1>1 DEF EntitledInv

\* An order moves on at the console, as Entitlement has it.
LEMMA OrderMoves ==
    ASSUME TypeOK, NEW o \in Order, NEW from, NEW to, console[o] = from,
           console' = [console EXCEPT ![o] = to], account' = account,
           <<from, to>> \in {<<"unissued", "open">>, <<"unissued", "paid">>, <<"open", "paid">>,
                            <<"paid", "refunding">>, <<"refunding", "returned">>}
    PROVE  E!Next /\ Later(console, console')
  <1>1. E!Proceed(o, from, to)
    BY DEF E!Proceed
  <1>2. E!Issue(o) \/ E!Pay(o) \/ E!Return(o)
    BY <1>1 DEF E!Issue, E!Pay, E!Return
  <1>3. Later(console, console')
    BY DEF Later, DueIn, Returning, TypeOK
  <1> QED
    BY <1>2, <1>3 DEF E!Next

\* Placing, labelling and crediting orders implements Entitlement.
LEMMA BuyingEntitled ==
    ASSUME Serial, TypeOK, CreditInv, EntitledInv, NEW r \in Req, Buying(r)
    PROVE  EntitledInv' /\ [E!Next]_(E!vars)
  <1>1. /\ account \in Account /\ OpType(op[r]) /\ now \in Nat
        /\ Good(account, console) /\ Reliable(op[r], account, console)
    BY DEF TypeOK, EntitledInv
  <1>2. ASSUME NEW mode \in Mode, BeginBuy(r, mode)
        PROVE  EntitledInv' /\ UNCHANGED E!vars
    <2>1. mode # "expand" \/ account.overMode = "success"
      BY <1>2 DEF BeginBuy, CanBuy, CanExpand, Mode
    <2> QED
      BY <1>2, <2>1, IdleReliable, OnlyRequest DEF BeginBuy
  <1>3. ASSUME NEW o \in Order, PlaceOrder(r, o)
        PROVE  EntitledInv' /\ E!Next
    <2> DEFINE s == [Idle EXCEPT !.step = "labelling", !.order = o]
    <2>1. /\ console[o] = "unissued" /\ account' = account /\ Become(r, s)
          /\ \E status \in {"open", "paid"} : console' = [console EXCEPT ![o] = status]
          /\ op[r].step = "placing" /\ ModeOf[o] = op[r].mode
      BY <1>3 DEF PlaceOrder, At
    <2>2. E!Next /\ Later(console, console')
      BY <2>1, OrderMoves
    <2>3. Good(account, console')
      BY <1>1, <2>2, LaterGood
    <2>4. ~Returning(console') =>
            /\ account.quota[o] = 0
            /\ ModeOf[o] = "expand" => account.overMode = "success"
      <3> SUFFICES ASSUME ~Returning(console')
                   PROVE  /\ account.quota[o] = 0
                          /\ ModeOf[o] = "expand" => account.overMode = "success"
        OBVIOUS
      <3>1. ~Returning(console) /\ Orderly(account)
        BY <1>1, <2>2 DEF Later, Good
      <3>2. o \notin DueIn(console) /\ o \in Source
        BY <2>1 DEF DueIn, Source
      <3>3. ~(account.quota[o] > 0) /\ account.quota[o] >= 0
        BY <1>1, <3>1, <3>2 DEF Good, Sound, SoundUser, View, Backed, Orderly
      <3>4. account.quota[o] \in Int
        BY <1>1, <3>2 DEF Account, Quota
      <3> QED
        BY <1>1, <2>1, <3>1, <3>3, <3>4 DEF Reliable
    <2>5. Reliable(s, account, console')
      BY <2>4, NamesAssumption
         DEF Reliable, Idle, SoundUser, NoUser, Backed, BackedOrder, Zero, Source
    <2> HIDE DEF s
    <2> QED
      BY <2>1, <2>2, <2>3, <2>5, OneRequest
  <1>4. ASSUME NEW o \in Order, Notify(r, o)
        PROVE  EntitledInv' /\ UNCHANGED E!vars
    <2>1. o \in DueIn(console)
      BY <1>4 DEF Notify, DueIn
    <2> QED
      BY <1>4, <2>1, IdleReliable, OnlyRequest DEF Notify
  <1>5. CASE RefuseOrder(r)
    BY <1>5, IdleReliable, OnlyRequest DEF RefuseOrder
  <1>6. CASE LabelOrder(r)
    <2>1. op[r].order \in Order /\ op[r].step = "labelling"
      BY <1>1, <1>6 DEF LabelOrder, At, OpType
    <2>2. SetOrder(account, op[r].order) \in Account
      BY <1>1, <2>1, SetOrderType
    <2>3. /\ Good(SetOrder(account, op[r].order), console)
          /\ Lawful(account, SetOrder(account, op[r].order), console)
      BY <1>1, <2>1, SetOrderGood DEF Reliable
    <2> QED
      BY <1>6, <2>2, <2>3, OnlyPatch DEF LabelOrder
  <1>7. CASE CreditOrder(r)
    <2> DEFINE o == op[r].order
    <2>1. o \in Order /\ o \in DueIn(console)
      BY <1>1, <1>7 DEF CreditOrder, At, OpType, Reliable
    <2>2. account.credit[o] <= 1 /\ (account.credit[o] = 1 /\ account[Sn(o)] = o => account[St(o)] = "paid")
      BY <2>1 DEF CreditInv, OrderInv, Labelled
    <2>3. SetOrderStatus(account, o, now) \in Account
      BY <1>1, <2>1, SetOrderStatusType
    <2>4. /\ Good(SetOrderStatus(account, o, now), console)
          /\ Lawful(account, SetOrderStatus(account, o, now), console)
      BY <1>1, <2>1, <2>2, StatusGood
    <2> QED
      BY <1>7, <2>3, <2>4, OnlyPatch DEF CreditOrder
  <1> QED
    BY <1>2, <1>3, <1>4, <1>5, <1>6, <1>7 DEF Buying

\* Checking and admitting implements Entitlement.
LEMMA AdmissionEntitled ==
    ASSUME Serial, TypeOK, TypeOK', EntitledInv, NEW r \in Req, Admission(r)
    PROVE  EntitledInv' /\ [E!Next]_(E!vars)
  <1>1. /\ account \in Account /\ OpType(op[r])
        /\ Good(account, console) /\ Reliable(op[r], account, console)
    BY DEF TypeOK, EntitledInv
  <1>2. CanOverSellingCheck(account) /\ ~Returning(console) => account.overMode = "wait"
    BY <1>1 DEF CanOverSellingCheck, Good, Orderly, Unbought, BaseBought, Admitted, ExpansionBought
  <1>3. /\ Good(ReplaceQuota(account), console)
        /\ Lawful(account, ReplaceQuota(account), console)
        /\ SoundUser(View(ReplaceQuota(account)), console)
        /\ ~Returning(console) => ReplaceQuota(account) = account
    BY <1>1, ReplaceQuotaGood
  <1>4. CASE CheckResource(r)
    BY <1>2, <1>3, <1>4, IdleReliable, OnlyRequest DEF CheckResource
  <1>5. CASE Login(r)
    <2>1. account' = ReplaceQuota(account) /\ console' = console /\ op[r].step = "idle"
      BY <1>5 DEF Login, At
    <2>2. [E!Next]_(E!vars)
      BY <1>3, <2>1, LawfulStep
    <2>3. CASE UNCHANGED op
      <3>1. Reliable(op[r], account', console')
        BY <1>1, <2>1 DEF Reliable
      <3>2. \A q \in Req : op'[q] = op[r]
        BY <2>3 DEF Serial
      <3> QED
        BY <1>3, <2>1, <2>2, <3>1, <3>2 DEF EntitledInv
    <2>4. CASE /\ CanOverSellingCheck(account)
               /\ Become(r, [Idle EXCEPT !.step = "admitting", !.user = View(account')])
      <3>1. Reliable([Idle EXCEPT !.step = "admitting", !.user = View(account')], account', console')
        BY <1>2, <1>3, <2>1, <2>4, IdleReliable
      <3> QED
        BY <1>3, <2>1, <2>2, <2>4, <3>1, OneRequest
    <2> QED
      BY <1>5, <2>3, <2>4 DEF Login
  <1>6. CASE Admit(r)
    <2>1. op[r].user \in Views /\ SetOverMode(account, op[r].user) \in Account
      BY <1>1, SetOverModeType DEF OpType
    <2>2. /\ Good(SetOverMode(account, op[r].user), console)
          /\ Lawful(account, SetOverMode(account, op[r].user), console)
      BY <1>1, <1>6, <2>1, SetOverModeGood DEF Reliable, Admit, At
    <2> QED
      BY <1>6, <2>1, <2>2, OnlyPatch DEF Admit
  <1> QED
    BY <1>4, <1>5, <1>6 DEF Admission

\* Finding, recording and settling refunds implements Entitlement.
LEMMA RefundEntitled ==
    ASSUME Serial, TypeOK, EntitledInv, NEW r \in Req, Refund(r)
    PROVE  EntitledInv' /\ [E!Next]_(E!vars)
  <1>1. /\ account \in Account /\ OpType(op[r]) /\ now \in Nat
        /\ Good(account, console) /\ Reliable(op[r], account, console)
        /\ SoundUser(op[r].user, console) /\ op[r].user \in Views
    BY DEF TypeOK, EntitledInv, OpType, Reliable
  <1>2. CASE RefundStart(r)
    <2>1. Returning(console) /\ SoundUser(View(account), console)
      BY <1>1, <1>2 DEF RefundStart, Returning, Good, Orderly, Sound
    <2> QED
      BY <1>2, <2>1, IdleReliable, OnlyRequest DEF RefundStart
  <1>3. CASE RefundFind(r)
    <2>1. \A o : Reliable([op[r] EXCEPT !.step = "locking", !.order = o], account, console)
      BY <1>1, <1>3 DEF RefundFind, At, Reliable, OpType
    <2> QED
      BY <1>3, <2>1, IdleReliable, OnlyRequest DEF RefundFind
  <1>4. CASE RefundLock(r)
    <2>1. op[r].order \in Order /\ Returning(console)
      BY <1>1, <1>4 DEF RefundLock, At, OpType, Reliable
    <2>2. LockReturn(account, op[r].user, op[r].order, now) \in Account
      BY <1>1, <2>1, LockReturnType
    <2>3. /\ Good(LockReturn(account, op[r].user, op[r].order, now), console)
          /\ Lawful(account, LockReturn(account, op[r].user, op[r].order, now), console)
      BY <1>1, <2>1, LockReturnGood
    <2> QED
      BY <1>4, <2>1, <2>2, <2>3, OnlyPatch DEF RefundLock
  <1>5. CASE RefundFinish(r)
    <2> DEFINE o == op[r].order
               s == [op[r] EXCEPT !.step = "processing"]
    <2>1. o \in Order /\ Returning(console)
      BY <1>1, <1>5 DEF RefundFinish, At, OpType, Reliable
    <2>2. /\ account' = account /\ Become(r, s)
          /\ console' = [console EXCEPT ![o] = IF console[o] = "refunding" THEN "returned" ELSE console[o]]
      BY <1>5 DEF RefundFinish
    <2>3. [E!Next]_(E!vars) /\ Later(console, console')
      <3>1. CASE console[o] = "refunding"
        BY <2>1, <2>2, <3>1, OrderMoves
      <3>2. CASE console[o] # "refunding"
        <4>1. console' = console
          BY <2>2, <3>2 DEF TypeOK
        <4> QED
          BY <2>2, <4>1 DEF E!vars, Later
      <3> QED
        BY <3>1, <3>2
    <2>4. SoundUser(s.user, console') /\ s.step = "processing" /\ s.next = op[r].next
      BY <1>1, <2>3, LaterGood DEF OpType
    <2>5. Reliable(s, account, console')
      BY <2>1, <2>3, <2>4 DEF Reliable, Later
    <2>6. Good(account, console')
      BY <1>1, <2>3, LaterGood
    <2> HIDE DEF s
    <2> QED
      BY <2>2, <2>3, <2>5, <2>6, OneRequest
  <1>6. CASE RefundProcess(r)
    <2> DEFINE after == ProcessReturn(account, op[r].user)
               q == QuotaAfterReturn(account, op[r].user)
               s == [op[r] EXCEPT !.step = "patching", !.user.quota = q,
                                  !.patch = Diff(account, after)]
    <2>1. Returning(console)
      BY <1>1, <1>6 DEF RefundProcess, At, Reliable
    <2>2. after \in Account /\ Good(after, console) /\ Lawful(account, after, console)
          /\ Backed(q, console)
      BY <1>1, <2>1, ProcessReturnGood, ProcessReturnType
    <2>3. Merge(account, Diff(account, after)) = after
      BY <1>1, <2>2, MergeDiff
    <2>4. Become(r, s) /\ UNCHANGED <<account, console>>
      BY <1>6 DEF RefundProcess
    <2> HIDE DEF after, q
    <2>5. /\ s.step = "patching" /\ s.patch = Diff(account, after) /\ s.user.quota = q
          /\ s.user.overRes = op[r].user.overRes /\ s.user.overBase = op[r].user.overBase
      BY <1>1 DEF OpType, Views
    <2> HIDE DEF s
    <2>6. Reliable(s, account, console)
      BY <1>1, <2>1, <2>2, <2>3, <2>5 DEF Reliable, SoundUser
    <2> QED
      BY <2>4, <2>6, OnlyRequest
  <1> QED
    BY <1>2, <1>3, <1>4, <1>5, <1>6 DEF Refund

\* Writing a patch implements Entitlement.
LEMMA PatchEntitled ==
    ASSUME Serial, TypeOK, TypeOK', EntitledInv, NEW r \in Req, Patch(r)
    PROVE  EntitledInv' /\ [E!Next]_(E!vars)
  <1> DEFINE s == [op[r] EXCEPT !.step = op[r].next, !.next = "idle", !.patch = EmptyPatch]
  <1>1. OpType(op[r]) /\ Reliable(op[r], account, console) /\ op[r].step = "patching"
    BY DEF TypeOK, EntitledInv, Patch, At
  <1>2. account' = Merge(account, op[r].patch) /\ console' = console
        /\ (IF op[r].next = "idle" THEN Become(r, Idle) ELSE Become(r, s))
    BY DEF Patch
  <1>3. Good(account', console') /\ Lawful(account, account', console)
    BY <1>1, <1>2 DEF Reliable
  <1>4. [E!Next]_(E!vars)
    BY <1>2, <1>3, LawfulStep
  <1>5. CASE op[r].next = "idle"
    BY <1>2, <1>3, <1>4, <1>5, IdleReliable, OneRequest
  <1>6. CASE op[r].next # "idle"
    <2>1. /\ s.step \in {"finding", "finishing"} /\ s.user = op[r].user /\ s.next = "idle"
          /\ Returning(console)
      BY <1>1, <1>6 DEF OpType, Reliable
    <2> HIDE DEF s
    <2>2. Reliable(s, account', console')
      BY <1>1, <1>2, <2>1 DEF Reliable
    <2> QED
      BY <1>2, <1>3, <1>4, <1>6, <2>2, OneRequest
  <1> QED
    BY <1>5, <1>6

\* Every step of TenantOrders keeps the invariant, and is a step of
\* Entitlement or changes nothing there.
LEMMA NextEntitled ==
    Serial /\ TypeOK /\ TypeOK' /\ CreditInv /\ EntitledInv /\ [Next]_vars
        => EntitledInv' /\ [E!Next]_(E!vars)
  <1> SUFFICES ASSUME Serial, TypeOK, TypeOK', CreditInv, EntitledInv, [Next]_vars
               PROVE  EntitledInv' /\ [E!Next]_(E!vars)
    OBVIOUS
  <1>1. Later(console, console) /\ (UNCHANGED <<account, console>> => UNCHANGED E!vars)
    BY DEF Later, E!vars
  <1>2. CASE UNCHANGED vars
    BY <1>1, <1>2, ConsoleStep DEF vars
  <1>3. ASSUME NEW r \in Req, Buying(r) \/ Admission(r) \/ Refund(r) \/ Patch(r)
        PROVE  EntitledInv' /\ [E!Next]_(E!vars)
    BY <1>3, BuyingEntitled, AdmissionEntitled, RefundEntitled, PatchEntitled
  <1>4. ASSUME NEW r \in Req, Abort(r)
        PROVE  EntitledInv' /\ UNCHANGED E!vars
    BY <1>4, IdleReliable, OnlyRequest DEF Abort
  <1>5. ASSUME NEW o \in Order, Pay(o) \/ RequestRefund(o)
        PROVE  EntitledInv' /\ E!Next
    <2>1. E!Next /\ Later(console, console') /\ UNCHANGED <<account, op>>
      BY <1>5, OrderMoves DEF Pay, RequestRefund
    <2> QED
      BY <2>1, ConsoleStep
  <1>6. CASE Tick
    BY <1>1, <1>6, ConsoleStep DEF Tick
  <1> QED
    BY <1>2, <1>3, <1>4, <1>5, <1>6 DEF Next

\* Before the first purchase nothing is promised but the package.
LEMMA InitEntitled == Init => EntitledInv /\ E!Init
  <1> SUFFICES ASSUME Init PROVE EntitledInv /\ E!Init
    OBVIOUS
  <1>1. /\ account.quota = Unit(Package) /\ account.overRes = NoOrder
        /\ account.overBase = NoOrder /\ account.returnInfo = NoReturn
        /\ account.credit = [o \in Order |-> 0] /\ ~account.locked
        /\ account.baseStatus = "none" /\ account.overMode = "none"
        /\ account.expandStatus = "none" /\ account.expandSn = NoOrder
        /\ console = [o \in Order |-> "unissued"]
    BY DEF Init, Registered
  <1>2. Backed(Unit(Package), console)
    BY NamesAssumption DEF Backed, Unit, Source
  <1>3. Good(account, console)
    <2>1. Sound(account, console)
      BY <1>1, <1>2, NamesAssumption DEF Sound, SoundUser, View, BackedOrder
    <2>2. Orderly(account)
      BY <1>1, NamesAssumption DEF Orderly, Unbought, Unit
    <2> QED
      BY <2>1, <2>2 DEF Good
  <1>4. \A r \in Req : op[r] = Idle
    BY DEF Init
  <1>5. E!Init
    BY <1>1 DEF E!Init, E!Source, Source, Unit
  <1> QED
    BY <1>3, <1>4, <1>5, IdleReliable DEF EntitledInv

\* The invariant that carries the refinement.
THEOREM EntitledSafe == Serial => (Spec => []EntitledInv)
  <1> SUFFICES ASSUME Serial PROVE Spec => []EntitledInv
    OBVIOUS
  <1>1. Init => TypeOK /\ CreditInv /\ EntitledInv
    BY InitType, InitCredit, InitEntitled
  <1>2. TypeOK /\ CreditInv /\ EntitledInv /\ [Next]_vars
            => (TypeOK /\ CreditInv /\ EntitledInv)'
    BY NextType, NextCredit, NextEntitled
  <1> QED
    BY <1>1, <1>2, PTL DEF Spec

\* TenantOrders implements Entitlement for a tenant whose requests follow one
\* another: every paid order is counted and granted once, whatever fails.
THEOREM Implements == Serial => (Spec => Entitled)
  <1> SUFFICES ASSUME Serial PROVE Spec => Entitled
    OBVIOUS
  <1>1. Init => E!Init
    BY InitEntitled
  <1>2. TypeOK /\ TypeOK' /\ CreditInv /\ EntitledInv /\ [Next]_vars => [E!Next]_(E!vars)
    BY NextEntitled
  <1>3. Spec => [](TypeOK /\ CreditInv /\ EntitledInv)
    BY TypeCorrect, CreditSafe, EntitledSafe, PTL
  <1> QED
    BY <1>1, <1>2, <1>3, PTL DEF Spec, Entitled, E!Spec
=============================================================================
