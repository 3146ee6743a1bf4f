-------------------------- MODULE TenantQuotaProofs --------------------------
(***************************************************************************)
(* What a tenant whose requests follow one another is granted and gives    *)
(* back: theorems about TenantOrders beyond what Entitlement promises, for *)
(* every set of orders, refunds and failures.                              *)
(***************************************************************************)
EXTENDS EntitlementProofs

\* Nothing is given back just when the console says so of no order.
LEMMA CalmIsNoRefund == Returning(console) <=> ~NoRefund
  BY DEF Returning, NoRefund

\* While nothing is given back, a tenant whose resources SetOverMode admitted
\* has the base order's and the last paid expansion's, and not the package's.
THEOREM AdmittedHolds == Serial => (Spec => []AdmittedIsGranted)
  <1> SUFFICES ASSUME Serial PROVE Spec => []AdmittedIsGranted
    OBVIOUS
  <1>1. EntitledInv => AdmittedIsGranted
    <2> SUFFICES ASSUME EntitledInv, account.overMode = "success", NoRefund
                 PROVE  AdmittedIsGranted
      BY DEF AdmittedIsGranted
    <2>1. Orderly(account)
      BY CalmIsNoRefund DEF EntitledInv, Good
    <2>2. Admitted(account)
      BY <2>1 DEF Orderly, Unbought, BaseBought, ExpansionBought
    <2> QED
      BY <2>1, <2>2 DEF Orderly, Admitted, HoldsBase, AdmittedIsGranted
  <1> QED
    BY <1>1, EntitledSafe, PTL

\* No login, check or notice brings the package back into a quota that a
\* payment has locked: what Entitlement lets happen to a quota while nothing
\* is given back never adds the package.
THEOREM PurchaseIsKept == Serial => (Spec => PurchaseKeepsQuota)
  <1> SUFFICES ASSUME Serial PROVE Spec => PurchaseKeepsQuota
    OBVIOUS
  <1>1. TypeOK /\ TypeOK' /\ CreditInv /\ EntitledInv /\ [Next]_vars
            => [account.locked /\ NoRefund
                    => account'.quota[Package] <= account.quota[Package]]_vars
    <2> SUFFICES ASSUME TypeOK, TypeOK', CreditInv, EntitledInv, [Next]_vars, NoRefund
                 PROVE  account'.quota[Package] <= account.quota[Package]
      OBVIOUS
    <2>1. /\ account.quota \in [Source -> Int] /\ account'.quota \in [Source -> Int]
          /\ Package \in Source /\ Order \subseteq Source
      BY DEF TypeOK, Account, Quota, Source
    <2>2. E!NoRefund
      BY DEF NoRefund, E!NoRefund
    <2>3. [E!Next]_(E!vars)
      BY NextEntitled
    <2>4. CASE account'.quota = account.quota
      BY <2>1, <2>4
    <2>5. ASSUME NEW o \in Order, E!GrantBase(o)
          PROVE  account'.quota[Package] <= account.quota[Package]
      BY <2>1, <2>5, NamesAssumption DEF E!GrantBase, E!Source, Source
    <2>6. ASSUME NEW o \in Order, E!GrantExpansion(o)
          PROVE  account'.quota[Package] <= account.quota[Package]
      BY <2>1, <2>6, NamesAssumption DEF E!GrantExpansion
    <2>7. ASSUME NEW o \in Order, E!Issue(o) \/ E!Pay(o) \/ E!Return(o) \/ E!Count(o)
          PROVE  account'.quota = account.quota
      BY <2>7 DEF E!Issue, E!Pay, E!Return, E!Count, E!Proceed
    <2> QED
      BY <2>2, <2>3, <2>4, <2>5, <2>6, <2>7 DEF E!Next, E!Rearrange, E!vars
  <1>2. Spec => [](TypeOK /\ CreditInv /\ EntitledInv)
    BY TypeCorrect, CreditSafe, EntitledSafe, PTL
  <1> QED
    BY <1>1, <1>2, PTL DEF Spec, PurchaseKeepsQuota

-----------------------------------------------------------------------------
(* Nothing is granted twice.                                               *)

\* An order that was issued stays issued.
Issued(c, d) == \A o \in Order : c[o] # "unissued" => d[o] # "unissued"

\* What the quotas hold once they hold once whatever the console does.
LEMMA OnceLater ==
    ASSUME NEW c, NEW d, Issued(c, d)
    PROVE  /\ \A a : OnceAccount(a, c) => OnceAccount(a, d)
           /\ \A u, a : OnceUser(u, a, c) => OnceUser(u, a, d)
  <1>1. \A q, a : Once(q, a, c) => Once(q, a, d)
    BY DEF Issued, Once
  <1> QED
    BY <1>1 DEF OnceAccount, OnceUser

\* A quota's expansions stay spent when neither the expansion handed to
\* admission nor the labelled one and its status change, or a labelled one
\* that the quota does not hold takes the label.
LEMMA OnceSame ==
    ASSUME NEW c, NEW a, NEW b, NEW q, Once(q, a, c),
           b.overRes = a.overRes \/ b.overRes = NoOrder,
           \/ b.expandSn = a.expandSn /\ b.expandStatus = a.expandStatus
           \/ b.expandSn \in Order /\ ~(q[b.expandSn] > 0)
    PROVE  Once(q, b, c)
  <1> SUFFICES ASSUME NEW o \in Order, ModeOf[o] = "expand", q[o] > 0
               PROVE  /\ c[o] # "unissued" /\ o # b.overRes
                      /\ b.expandSn = o => b.expandStatus = "paid"
    BY DEF Once
  <1>1. /\ c[o] # "unissued" /\ o # a.overRes
        /\ a.expandSn = o => a.expandStatus = "paid"
    BY DEF Once
  <1> QED
    BY <1>1, NamesAssumption

\* Labelling an account with an order that no quota holds.
LEMMA SetOrderOnce ==
    ASSUME NEW c, NEW a \in Account, NEW o \in Order, OnceAccount(a, c),
           c[o] # "unissued", a.quota[o] <= 0,
           a.returnInfo # NoReturn => a.returnInfo.res[o] <= 0,
           ModeOf[o] = "expand" => a.overMode = "success"
    PROVE  OnceAccount(SetOrder(a, o), c)
  <1> DEFINE b == SetOrder(a, o)
  <1>1. /\ b.quota = a.quota /\ b.overRes = a.overRes /\ b.overBase = a.overBase
        /\ b.returnInfo = a.returnInfo /\ b.overMode = a.overMode
        /\ \/ ModeOf[o] # "expand" /\ b.expandSn = a.expandSn /\ b.expandStatus = a.expandStatus
           \/ ModeOf[o] = "expand" /\ b.expandSn = o /\ b.expandStatus = "wait"
    BY ModeCases DEF SetOrder, Account
  <1> HIDE DEF b
  <1>2. /\ ~(a.quota[o] > 0)
        /\ a.returnInfo # NoReturn => ~(a.returnInfo.res[o] > 0)
    BY DEF Account, ReturnInfo, ReturnRecord, Quota, Source
  <1>3. Once(b.quota, b, c)
    BY <1>1, <1>2, OnceSame DEF OnceAccount
  <1>4. b.returnInfo # NoReturn => Once(b.returnInfo.res, b, c)
    BY <1>1, <1>2, OnceSame DEF OnceAccount
  <1> QED
    BY <1>1, <1>3, <1>4 DEF OnceAccount, b

\* SetOrderStatus hands an expansion to admission that no quota holds.
LEMMA StatusOnce ==
    ASSUME NEW c, NEW a \in Account, NEW o \in Order, NEW t, OnceAccount(a, c)
    PROVE  OnceAccount(SetOrderStatus(a, o, t), c)
  <1>1. CASE ModeOf[o] = "expand" /\ a.expandSn = o /\ a.expandStatus # "paid"
    <2> DEFINE b == [a EXCEPT !.expandStatus = "paid", !.overRes = o, !.overMode = "wait"]
    <2>1. SetOrderStatus(a, o, t) = b
      BY <1>1 DEF SetOrderStatus, SetExpandOrderPaid
    <2>2. /\ b.quota = a.quota /\ b.overRes = o /\ b.overBase = a.overBase
          /\ b.returnInfo = a.returnInfo /\ b.overMode = "wait"
          /\ b.expandSn = a.expandSn /\ b.expandStatus = "paid"
      BY DEF Account
    <2> HIDE DEF b
    <2>3. \A q : Once(q, a, c) => Once(q, b, c)
      BY <1>1, <2>2 DEF Once
    <2> QED
      BY <1>1, <2>1, <2>2, <2>3 DEF OnceAccount
  <1>2. CASE ModeOf[o] # "expand" /\ SetOrderStatus(a, o, t) # a
    <2> DEFINE b == SetOrderStatus(a, o, t)
    <2>1. /\ b.quota = a.quota /\ b.overRes = a.overRes /\ b.returnInfo = a.returnInfo
          /\ b.expandSn = a.expandSn /\ b.expandStatus = a.expandStatus
          /\ \/ b.overBase = a.overBase /\ b.overMode = a.overMode
             \/ b.overBase = o /\ ModeOf[o] = "base" /\ b.overMode = "wait"
      BY <1>2, ModeCases
         DEF SetOrderStatus, SetBaseOrderPaid, SetRenewOrderPaid, AddHours, Account
    <2> HIDE DEF b
    <2>2. \A q : Once(q, a, c) => Once(q, b, c)
      BY <2>1 DEF Once
    <2> QED
      BY <2>1, <2>2 DEF OnceAccount, b
  <1> QED
    BY <1>1, <1>2 DEF SetOrderStatus, SetExpandOrderPaid

\* Admission adds an expansion that the parsed quota does not hold yet.
LEMMA SetOverModeOnce ==
    ASSUME NEW c, NEW a \in Account, NEW u \in Views, OnceAccount(a, c), OnceUser(u, a, c),
           BackedOrder(u.overRes, c)
    PROVE  /\ OnceAccount(SetOverMode(a, u), c)
           /\ u.overRes = a.overRes => \/ u.overRes = SetOverMode(a, u).overRes
                                       \/ SetOverMode(a, u).overMode = "success"
           /\ \A q : Once(q, a, c) => Once(q, SetOverMode(a, u), c)
  <1> DEFINE b == SetOverMode(a, u)
  <1>1. /\ b.overBase = a.overBase /\ b.returnInfo = a.returnInfo
        /\ b.expandSn = a.expandSn /\ b.expandStatus = a.expandStatus
        /\ b.overRes = a.overRes \/ b.overRes = NoOrder
        /\ a.overMode = "success" => b.overRes = a.overRes /\ b.quota = a.quota
        /\ a.overMode # "success" => /\ b.overMode = "success" /\ b.quota = OverModeQuota(a, u)
                                     /\ IsExpand(a) => b.overRes = NoOrder
    BY DEF SetOverMode, Account
  <1>2. /\ \A p \in Quota, o \in OptOrder, r \in Order :
                Plus(p, Unit(o))[r] = IF r = o THEN p[r] + 1 ELSE p[r]
        /\ \A o \in OptOrder, r \in Order : Unit(o)[r] = IF r = o THEN 1 ELSE 0
    BY DEF Plus, Unit, Quota, Source
  <1>3. /\ u.quota \in Quota /\ u.overRes \in OptOrder /\ u.overBase \in OptOrder
        /\ \A q \in Quota, o \in Order : q[o] \in Int
    BY DEF Views, Quota, Source
  <1> HIDE DEF b
  <1>4. \A q : Once(q, a, c) => Once(q, b, c)
    BY <1>1, OnceSame
  <1>5. Once(b.quota, b, c) /\ (b.overRes \in Order => b.overRes = a.overRes /\ b.overMode = a.overMode)
    <2>1. CASE a.overMode = "success"
      BY <1>1, <1>4, <2>1, NamesAssumption DEF OnceAccount
    <2>2. CASE a.overMode # "success" /\ IsExpand(a)
      <3>1. b.quota = Plus(u.quota, Unit(u.overRes)) /\ u.overRes = a.overRes
        BY <1>1, <2>2 DEF OverModeQuota, OnceUser
      <3>2. Once(u.quota, a, c) /\ b.overRes = NoOrder
        BY <1>1, <2>2 DEF OnceUser
      <3>3. ASSUME NEW o \in Order
            PROVE  /\ b.quota[o] <= 1
                   /\ ModeOf[o] = "expand" /\ b.quota[o] > 0 =>
                        /\ c[o] # "unissued" /\ o # b.overRes
                        /\ b.expandSn = o => b.expandStatus = "paid"
        <4>1. u.quota[o] \in Int /\ b.quota[o] = IF o = u.overRes THEN u.quota[o] + 1 ELSE u.quota[o]
          BY <1>2, <1>3, <3>1
        <4>2. CASE o = u.overRes
          <5>1. ModeOf[o] = "expand" /\ ~(u.quota[o] > 0)
            BY <3>1, <3>2, <4>2 DEF OnceAccount, Once
          <5>2. c[o] # "unissued"
            BY <4>2 DEF BackedOrder, DueIn
          <5>3. b.expandStatus = "paid" /\ o # NoOrder
            BY <1>1, <2>2, NamesAssumption DEF IsExpand
          <5> QED
            BY <3>2, <4>1, <4>2, <5>1, <5>2, <5>3
        <4>3. CASE o # u.overRes
          <5>1. b.quota[o] = u.quota[o]
            BY <4>1, <4>3
          <5> QED
            BY <1>1, <3>2, <5>1, NamesAssumption DEF Once
        <4> QED
          BY <4>2, <4>3
      <3> QED
        BY <3>2, <3>3, NamesAssumption DEF Once
    <2>3. CASE a.overMode # "success" /\ ~IsExpand(a)
      <3>1. b.quota = Unit(u.overBase) /\ u.overBase = a.overBase
        BY <1>1, <2>3 DEF OverModeQuota, OnceUser
      <3>2. \A o \in Order : b.quota[o] <= 1 /\ (b.quota[o] > 0 => o = a.overBase)
        BY <1>2, <1>3, <3>1
      <3>3. Once(b.quota, b, c)
        BY <3>2 DEF Once, OnceAccount
      <3> QED
        BY <1>1, <2>3, <3>3, NamesAssumption DEF OnceAccount, IsExpand
    <2> QED
      BY <2>1, <2>2, <2>3
  <1>6. OnceAccount(b, c)
    BY <1>1, <1>4, <1>5 DEF OnceAccount
  <1> QED
    BY <1>1, <1>4, <1>6 DEF b, IsExpand, OnceAccount

\* The cost package holds no order.
LEMMA ReplaceQuotaOnce ==
    ASSUME NEW c, NEW a \in Account, OnceAccount(a, c)
    PROVE  LET b == ReplaceQuota(a)
           IN OnceAccount(b, c) /\ OnceUser(View(b), a, c) /\ OnceUser(View(b), b, c)
  <1> DEFINE b == ReplaceQuota(a)
  <1>1. /\ b.quota = a.quota \/ b.quota = Unit(Package)
        /\ b.overRes = a.overRes /\ b.overBase = a.overBase /\ b.overMode = a.overMode
        /\ b.returnInfo = a.returnInfo
        /\ b.expandSn = a.expandSn /\ b.expandStatus = a.expandStatus
    BY DEF ReplaceQuota, Account
  <1> HIDE DEF b
  <1>2. Once(Unit(Package), a, c)
    BY NamesAssumption DEF Once, Unit, Source
  <1>3. Once(b.quota, a, c)
    BY <1>1, <1>2 DEF OnceAccount
  <1>4. \A q : Once(q, a, c) => Once(q, b, c)
    BY <1>1 DEF Once
  <1>5. OnceAccount(b, c)
    BY <1>1, <1>3, <1>4 DEF OnceAccount
  <1>6. OnceUser(View(b), a, c) /\ OnceUser(View(b), b, c)
    BY <1>1, <1>3, <1>4 DEF OnceUser, View
  <1> QED
    BY <1>5, <1>6 DEF b

\* A refund records no more than the parsed quota holds.
LEMMA LockReturnOnce ==
    ASSUME NEW c, NEW a \in Account, NEW u \in Views, NEW o \in Order, NEW t,
           OnceAccount(a, c), OnceUser(u, a, c)
    PROVE  OnceAccount(LockReturn(a, u, o, t), c) /\ OnceUser(u, LockReturn(a, u, o, t), c)
  <1> DEFINE b == LockReturn(a, u, o, t)
             res == IF ModeOf[o] = "renew" THEN Zero ELSE Minus(u.quota, Unit(o))
  <1>1. /\ b.quota = a.quota /\ b.overRes = a.overRes /\ b.overBase = a.overBase
        /\ b.overMode = a.overMode /\ b.returnInfo.res = res
        /\ b.expandSn = a.expandSn /\ b.expandStatus = a.expandStatus
    BY DEF LockReturn, Account
  <1>2. u.quota \in Quota
    BY DEF Views
  <1>3. ASSUME NEW p \in Order
        PROVE  res[p] <= 1 /\ (res[p] > 0 => u.quota[p] > 0)
    <2>1. u.quota[p] \in Int /\ u.quota[p] <= 1 /\ p \in Source
      BY <1>2 DEF Quota, Source, OnceUser, Once
    <2>2. CASE ModeOf[o] = "renew"
      BY <2>1, <2>2 DEF Zero
    <2>3. CASE ModeOf[o] # "renew"
      <3>1. res[p] = u.quota[p] - Unit(o)[p] /\ Unit(o)[p] \in {0, 1}
        BY <2>1, <2>3 DEF Minus, Unit
      <3> HIDE DEF res
      <3> QED
        BY <2>1, <3>1
    <2> QED
      BY <2>2, <2>3
  <1> HIDE DEF b, res
  <1>4. Once(res, a, c)
    BY <1>3 DEF Once, OnceUser
  <1>5. \A q : Once(q, a, c) => Once(q, b, c)
    BY <1>1 DEF Once
  <1>6. OnceAccount(b, c)
    BY <1>1, <1>4, <1>5 DEF OnceAccount
  <1>7. OnceUser(u, b, c)
    BY <1>1, <1>5 DEF OnceUser
  <1> QED
    BY <1>6, <1>7 DEF b

\* Settling a refund grants an expansion that waits, as admission does, and
\* leaves a parsed copy that will not grant it again.
LEMMA ProcessReturnOnce ==
    ASSUME NEW c, NEW a \in Account, NEW u \in Views, OnceAccount(a, c), OnceUser(u, a, c),
           BackedOrder(u.overRes, c)
    PROVE  /\ OnceAccount(ProcessReturn(a, u), c)
           /\ u.overRes = a.overRes =>
                \A v : /\ v.quota = QuotaAfterReturn(a, u)
                       /\ v.overRes = u.overRes /\ v.overBase = u.overBase
                       => OnceUser(v, ProcessReturn(a, u), c)
  <1>1. CASE a.returnInfo = NoReturn
    BY <1>1 DEF ProcessReturn, QuotaAfterReturn, OnceUser
  <1>2. CASE a.returnInfo # NoReturn
    <2> DEFINE d == SetOverMode(a, u)
               b == [d EXCEPT !.expire = IF a.returnInfo.time > 0
                                         THEN LocalStamp(a.returnInfo.time) ELSE @,
                              !.returnInfo = NoReturn]
    <2>1. d \in Account /\ d.overBase = a.overBase
      <3>1. d \in Account
        BY SetOverModeType
      <3> QED
        BY <3>1 DEF SetOverMode, Account
    <2>2. /\ OnceAccount(d, c)
          /\ u.overRes = a.overRes => u.overRes = d.overRes \/ d.overMode = "success"
          /\ \A q : Once(q, a, c) => Once(q, d, c)
      BY SetOverModeOnce
    <2>3. ProcessReturn(a, u) = b
      BY <1>2 DEF ProcessReturn
    <2> HIDE DEF d
    <2>4. /\ b.quota = d.quota /\ b.overRes = d.overRes /\ b.overBase = d.overBase
          /\ b.overMode = d.overMode /\ b.returnInfo = NoReturn
          /\ b.expandSn = d.expandSn /\ b.expandStatus = d.expandStatus
      BY <2>1 DEF Account
    <2> HIDE DEF b
    <2>5. \A q : Once(q, d, c) => Once(q, b, c)
      BY <2>4 DEF Once
    <2>6. OnceAccount(b, c)
      BY <2>2, <2>4, <2>5 DEF OnceAccount
    <2>7. Once(QuotaAfterReturn(a, u), b, c)
      BY <1>2, <2>2, <2>5 DEF QuotaAfterReturn, OnceAccount
    <2> QED
      BY <2>1, <2>2, <2>3, <2>4, <2>6, <2>7 DEF OnceUser
  <1> QED
    BY <1>1, <1>2

\* A step of the only request.
LEMMA OnceStep ==
    ASSUME Serial, TypeOK, NEW r \in Req, NEW s, Become(r, s),
           OnceAccount(account', console'), OnceRequest(s, account', console')
    PROVE  OnceInv'
  <1>1. \A q \in Req : op'[q] = s
    BY DEF Serial, Become, TypeOK
  <1> QED
    BY <1>1 DEF OnceInv

\* A request that does nothing relies on nothing.
LEMMA OnceIdle == \A a, c : OnceRequest(Idle, a, c)
  BY DEF OnceRequest, Idle

\* The Get of a CreateOrPatch whose closure grants nothing twice.
LEMMA OncePatch ==
    ASSUME Serial, TypeOK, OnceInv, NEW r \in Req, NEW after \in Account, NEW next,
           BeginPatch(r, after, next), UNCHANGED <<account, console>>,
           OnceAccount(after, console),
           next # "idle" => OnceUser(op[r].user, after, console)
    PROVE  OnceInv'
  <1> DEFINE s == [op[r] EXCEPT !.step = "patching", !.mode = "base",
                               !.patch = Diff(account, after), !.next = next]
  <1>1. s.step = "patching" /\ s.user = op[r].user /\ s.next = next
        /\ s.patch = Diff(account, after)
    BY DEF TypeOK, OpType
  <1>2. Merge(account, s.patch) = after
    BY <1>1, MergeDiff DEF TypeOK
  <1>3. Become(r, s)
    BY DEF BeginPatch
  <1> HIDE DEF s
  <1>4. OnceRequest(s, account, console)
    BY <1>1, <1>2 DEF OnceRequest
  <1> QED
    BY <1>3, <1>4, OnceStep DEF OnceInv

\* Orders move on at the console while a request has its account in hand.
LEMMA OnceConsole ==
    ASSUME TypeOK, OnceInv, Issued(console, console'), UNCHANGED <<account, op>>
    PROVE  OnceInv'
  <1>1. OnceAccount(account, console')
    BY OnceLater DEF OnceInv
  <1>2. ASSUME NEW r \in Req PROVE OnceRequest(op[r], account, console')
    <2>1. OnceRequest(op[r], account, console) /\ OpType(op[r])
      BY DEF OnceInv, TypeOK
    <2>2. \A u, a : OnceUser(u, a, console) => OnceUser(u, a, console')
      BY OnceLater
    <2>3. op[r].step = "patching" => OnceAccount(Merge(account, op[r].patch), console')
      BY <2>1, OnceLater DEF OnceRequest
    <2>4. op[r].step = "labelling" => console'[op[r].order] # "unissued"
      BY <2>1 DEF OnceRequest, OpType, Issued
    <2> QED
      BY <2>1, <2>2, <2>3, <2>4 DEF OnceRequest
  <1> QED
    BY <1>1, <1>2 DEF OnceInv

\* Placing, labelling and crediting grant nothing.
LEMMA BuyingOnce ==
    ASSUME Serial, TypeOK, EntitledInv, OnceInv, NEW r \in Req, Buying(r)
    PROVE  OnceInv'
  <1>1. /\ account \in Account /\ OpType(op[r]) /\ OnceAccount(account, console)
        /\ OnceRequest(op[r], account, console) /\ Sound(account, console)
    BY DEF TypeOK, OnceInv, EntitledInv, Good
  <1>2. ASSUME NEW mode \in Mode, BeginBuy(r, mode) PROVE OnceInv'
    <2>1. mode = "expand" => account.overMode = "success"
      BY <1>2 DEF BeginBuy, CanBuy, CanExpand
    <2>2. OnceRequest([Idle EXCEPT !.step = "placing", !.mode = mode], account, console)
      BY <2>1 DEF OnceRequest, Idle
    <2> QED
      BY <1>1, <1>2, <2>2, OnceStep DEF BeginBuy
  <1>3. ASSUME NEW o \in Order, PlaceOrder(r, o) PROVE OnceInv'
    <2> DEFINE s == [Idle EXCEPT !.step = "labelling", !.order = o]
    <2>1. /\ console[o] = "unissued" /\ account' = account /\ Become(r, s)
          /\ console' \in [Order -> ConsoleStatus] /\ console'[o] # "unissued"
          /\ Issued(console, console')
          /\ op[r].step = "placing" /\ ModeOf[o] = op[r].mode
      BY <1>3 DEF PlaceOrder, At, TypeOK, ConsoleStatus, Issued
    <2>2. o \notin DueIn(console) /\ o \in Source
      BY <2>1 DEF DueIn, Source
    <2>3. account.quota[o] <= 0
      <3>1. account.quota[o] \in Int /\ ~(account.quota[o] > 0)
        BY <1>1, <2>2 DEF Account, Quota, Sound, SoundUser, View, Backed
      <3> QED
        BY <3>1
    <2>4. ASSUME account.returnInfo # NoReturn
          PROVE  account.returnInfo.res[o] <= 0
      <3>1. account.returnInfo.res \in [Source -> Int]
        BY <1>1, <2>4 DEF Account, ReturnInfo, ReturnRecord, Quota
      <3>2. account.returnInfo.res[o] \in Int /\ ~(account.returnInfo.res[o] > 0)
        BY <1>1, <2>2, <2>4, <3>1 DEF Sound, Backed
      <3> QED
        BY <3>2
    <2>5. OnceRequest(s, account, console')
      BY <1>1, <2>1, <2>3, <2>4 DEF OnceRequest, Idle
    <2>6. OnceAccount(account, console')
      BY <1>1, <2>1, OnceLater
    <2> HIDE DEF s
    <2> QED
      BY <2>1, <2>5, <2>6, OnceStep
  <1>4. ASSUME NEW o \in Order, Notify(r, o) PROVE OnceInv'
    <2>1. OnceRequest([Idle EXCEPT !.step = "notifying", !.order = o], account, console)
      BY DEF OnceRequest, Idle
    <2> QED
      BY <1>1, <1>4, <2>1, OnceStep DEF Notify
  <1>5. CASE RefuseOrder(r)
    BY <1>1, <1>5, OnceIdle, OnceStep DEF RefuseOrder
  <1>6. CASE LabelOrder(r)
    <2>1. op[r].order \in Order /\ op[r].step = "labelling"
      BY <1>1, <1>6 DEF LabelOrder, At, OpType
    <2>2. SetOrder(account, op[r].order) \in Account
      BY <1>1, <2>1, SetOrderType
    <2>3. OnceAccount(SetOrder(account, op[r].order), console)
      BY <1>1, <2>1, SetOrderOnce DEF OnceRequest
    <2> QED
      BY <1>6, <2>2, <2>3, OncePatch DEF LabelOrder
  <1>7. CASE CreditOrder(r)
    <2>1. op[r].order \in Order /\ now \in Nat
      BY <1>1, <1>7 DEF CreditOrder, At, OpType, TypeOK
    <2>2. SetOrderStatus(account, op[r].order, now) \in Account
      BY <1>1, <2>1, SetOrderStatusType
    <2>3. OnceAccount(SetOrderStatus(account, op[r].order, now), console)
      BY <1>1, <2>1, StatusOnce
    <2> QED
      BY <1>7, <2>2, <2>3, OncePatch DEF CreditOrder
  <1> QED
    BY <1>2, <1>3, <1>4, <1>5, <1>6, <1>7 DEF Buying

\* Admission grants what waits, once.
LEMMA AdmissionOnce ==
    ASSUME Serial, TypeOK, EntitledInv, OnceInv, NEW r \in Req, Admission(r)
    PROVE  OnceInv'
  <1>1. /\ account \in Account /\ OpType(op[r]) /\ OnceAccount(account, console)
        /\ OnceRequest(op[r], account, console)
        /\ BackedOrder(op[r].user.overRes, console)
    BY DEF TypeOK, OnceInv, EntitledInv, Reliable, SoundUser
  <1> DEFINE b == ReplaceQuota(account)
             s == [Idle EXCEPT !.step = "admitting", !.user = View(b)]
  <1>2. OnceAccount(b, console) /\ OnceUser(View(b), account, console)
        /\ OnceUser(View(b), b, console)
    BY <1>1, ReplaceQuotaOnce
  <1> HIDE DEF b
  <1>3. OnceRequest(s, account, console) /\ OnceRequest(s, b, console)
    BY <1>2 DEF OnceRequest, Idle
  <1>4. CASE CheckResource(r)
    BY <1>1, <1>3, <1>4, OnceStep DEF CheckResource, b
  <1>5. CASE Login(r)
    <2>1. account' = b /\ console' = console /\ op[r].step = "idle"
      BY <1>5 DEF Login, At, b
    <2>2. CASE UNCHANGED op
      <3>1. OnceRequest(op[r], account', console')
        BY <2>1 DEF OnceRequest
      <3>2. \A q \in Req : op'[q] = op[r]
        BY <2>2 DEF Serial
      <3> QED
        BY <1>2, <2>1, <3>1, <3>2 DEF OnceInv
    <2>3. CASE Become(r, s)
      BY <1>2, <1>3, <2>1, <2>3, OnceStep
    <2> QED
      BY <1>5, <2>1, <2>2, <2>3 DEF Login
  <1>6. CASE Admit(r)
    <2>1. op[r].user \in Views /\ SetOverMode(account, op[r].user) \in Account
      BY <1>1, SetOverModeType DEF OpType
    <2>2. OnceUser(op[r].user, account, console)
      BY <1>1, <1>6 DEF OnceRequest, Admit, At
    <2>3. OnceAccount(SetOverMode(account, op[r].user), console)
      BY <1>1, <2>1, <2>2, SetOverModeOnce
    <2> QED
      BY <1>6, <2>1, <2>3, OncePatch DEF Admit
  <1> QED
    BY <1>4, <1>5, <1>6 DEF Admission

\* A refund command works on a parsed copy that grants nothing again.
LEMMA RefundOnce ==
    ASSUME Serial, TypeOK, EntitledInv, OnceInv, NEW r \in Req, Refund(r)
    PROVE  OnceInv'
  <1>1. /\ account \in Account /\ OpType(op[r]) /\ now \in Nat
        /\ OnceAccount(account, console) /\ OnceRequest(op[r], account, console)
        /\ op[r].user \in Views /\ BackedOrder(op[r].user.overRes, console)
    BY DEF TypeOK, OnceInv, EntitledInv, Reliable, SoundUser, OpType
  <1>2. CASE RefundStart(r)
    <2>1. OnceUser(View(account), account, console)
      BY <1>1 DEF OnceUser, View, OnceAccount
    <2>2. \A o : /\ OnceRequest([Idle EXCEPT !.step = "finding", !.user = View(account)],
                                account, console)
                 /\ OnceRequest([Idle EXCEPT !.step = "finishing", !.next = "finding",
                                             !.user = View(account), !.order = o],
                                account, console)
      BY <2>1 DEF OnceRequest, Idle, View
    <2> QED
      BY <1>1, <1>2, <2>2, OnceStep DEF RefundStart
  <1>3. CASE RefundFind(r)
    <2>1. \A o : OnceRequest([op[r] EXCEPT !.step = "locking", !.order = o], account, console)
      BY <1>1, <1>3 DEF RefundFind, At, OnceRequest, OpType
    <2> QED
      BY <1>1, <1>3, <2>1, OnceIdle, OnceStep DEF RefundFind
  <1>4. CASE RefundLock(r)
    <2> DEFINE after == LockReturn(account, op[r].user, op[r].order, now)
    <2>1. op[r].order \in Order /\ OnceUser(op[r].user, account, console)
      BY <1>1, <1>4 DEF RefundLock, At, OpType, OnceRequest
    <2>2. after \in Account
      BY <1>1, <2>1, LockReturnType
    <2>3. OnceAccount(after, console) /\ OnceUser(op[r].user, after, console)
      BY <1>1, <2>1, LockReturnOnce
    <2> QED
      BY <1>4, <2>2, <2>3, OncePatch DEF RefundLock
  <1>5. CASE RefundFinish(r)
    <2> DEFINE s == [op[r] EXCEPT !.step = "processing"]
    <2>1. /\ account' = account /\ Become(r, s) /\ Issued(console, console')
          /\ op[r].step = "finishing"
      BY <1>5 DEF RefundFinish, At, TypeOK, Issued
    <2>2. OnceUser(op[r].user, account, console')
      BY <1>1, <2>1, OnceLater DEF OnceRequest
    <2>3. OnceRequest(s, account, console')
      BY <1>1, <2>1, <2>2 DEF OnceRequest, OpType
    <2>4. OnceAccount(account, console')
      BY <1>1, <2>1, OnceLater
    <2> HIDE DEF s
    <2> QED
      BY <2>1, <2>3, <2>4, OnceStep
  <1>6. CASE RefundProcess(r)
    <2> DEFINE after == ProcessReturn(account, op[r].user)
               q == QuotaAfterReturn(account, op[r].user)
               s == [op[r] EXCEPT !.step = "patching", !.user.quota = q,
                                  !.patch = Diff(account, after)]
    <2>1. OnceUser(op[r].user, account, console) /\ op[r].step = "processing"
      BY <1>1, <1>6 DEF RefundProcess, At, OnceRequest
    <2>2. after \in Account
      BY <1>1, ProcessReturnType
    <2>3. Merge(account, Diff(account, after)) = after
      BY <1>1, <2>2, MergeDiff
    <2>4. Become(r, s) /\ UNCHANGED <<account, console>>
      BY <1>6 DEF RefundProcess
    <2>5. /\ s.step = "patching" /\ s.patch = Diff(account, after) /\ s.user.quota = q
          /\ s.user.overRes = op[r].user.overRes /\ s.user.overBase = op[r].user.overBase
          /\ s.next = op[r].next
      BY <1>1 DEF OpType, Views
    <2> HIDE DEF s
    <2>6. /\ OnceAccount(after, console)
          /\ op[r].user.overRes = account.overRes => OnceUser(s.user, after, console)
      BY <1>1, <2>1, <2>5, ProcessReturnOnce
    <2>7. op[r].next # "idle" => op[r].user.overRes = account.overRes
      BY <1>1, <2>1 DEF OnceRequest
    <2> HIDE DEF after, q
    <2>8. OnceRequest(s, account, console)
      BY <2>3, <2>5, <2>6, <2>7 DEF OnceRequest
    <2> QED
      BY <1>1, <2>4, <2>8, OnceStep
  <1> QED
    BY <1>2, <1>3, <1>4, <1>5, <1>6 DEF Refund

\* Writing a patch.
LEMMA PatchOnce ==
    ASSUME Serial, TypeOK, OnceInv, NEW r \in Req, Patch(r)
    PROVE  OnceInv'
  <1> DEFINE s == [op[r] EXCEPT !.step = op[r].next, !.next = "idle", !.patch = EmptyPatch]
  <1>1. OpType(op[r]) /\ OnceRequest(op[r], account, console) /\ op[r].step = "patching"
    BY DEF TypeOK, OnceInv, Patch, At
  <1>2. account' = Merge(account, op[r].patch) /\ console' = console
        /\ (IF op[r].next = "idle" THEN Become(r, Idle) ELSE Become(r, s))
    BY DEF Patch
  <1>3. OnceAccount(account', console')
    BY <1>1, <1>2 DEF OnceRequest
  <1>4. CASE op[r].next = "idle"
    BY <1>2, <1>3, <1>4, OnceIdle, OnceStep
  <1>5. CASE op[r].next # "idle"
    <2>1. /\ s.step \in {"finding", "finishing"} /\ s.user = op[r].user /\ s.next = "idle"
      BY <1>1, <1>5 DEF OpType
    <2>2. OnceUser(op[r].user, account', console')
      BY <1>1, <1>2, <1>5 DEF OnceRequest
    <2> HIDE DEF s
    <2>3. OnceRequest(s, account', console')
      BY <2>1, <2>2 DEF OnceRequest
    <2> QED
      BY <1>2, <1>3, <1>5, <2>3, OnceStep
  <1> QED
    BY <1>4, <1>5

\* Every step keeps granting from happening twice.
LEMMA NextOnce == Serial /\ TypeOK /\ EntitledInv /\ OnceInv /\ [Next]_vars => OnceInv'
  <1> SUFFICES ASSUME Serial, TypeOK, EntitledInv, OnceInv, [Next]_vars
               PROVE  OnceInv'
    OBVIOUS
  <1>1. Issued(console, console)
    BY DEF Issued
  <1>2. CASE UNCHANGED vars \/ Tick
    BY <1>1, <1>2, OnceConsole DEF vars, Tick
  <1>3. ASSUME NEW r \in Req, Buying(r) \/ Admission(r) \/ Refund(r) \/ Patch(r)
        PROVE  OnceInv'
    BY <1>3, BuyingOnce, AdmissionOnce, RefundOnce, PatchOnce
  <1>4. ASSUME NEW r \in Req, Abort(r)
        PROVE  OnceInv'
    BY <1>4, OnceIdle, OnceStep DEF Abort, OnceInv
  <1>5. ASSUME NEW o \in Order, Pay(o) \/ RequestRefund(o)
        PROVE  OnceInv'
    <2>1. Issued(console, console') /\ UNCHANGED <<account, op>>
      BY <1>5 DEF Pay, RequestRefund, Issued, TypeOK
    <2> QED
      BY <2>1, OnceConsole
  <1> QED
    BY <1>2, <1>3, <1>4, <1>5 DEF Next

\* A tenant starts with the package only.
LEMMA InitOnce == Init => OnceInv
  <1> SUFFICES ASSUME Init PROVE OnceInv
    OBVIOUS
  <1>1. /\ account.quota = Unit(Package) /\ account.overRes = NoOrder
        /\ account.overBase = NoOrder /\ account.returnInfo = NoReturn
    BY DEF Init, Registered
  <1>2. Once(Unit(Package), account, console)
    BY NamesAssumption DEF Once, Unit, Source
  <1>3. \A r \in Req : op[r] = Idle
    BY DEF Init
  <1> QED
    BY <1>1, <1>2, <1>3, OnceIdle, NamesAssumption DEF OnceInv, OnceAccount

\* The invariant behind GrantedOnce: what is in a quota, a recorded refund or
\* a parsed copy is not handed to admission any more.
THEOREM OnceSafe == Serial => (Spec => []OnceInv)
  <1> SUFFICES ASSUME Serial PROVE Spec => []OnceInv
    OBVIOUS
  <1>1. TypeOK /\ EntitledInv /\ OnceInv /\ [Next]_vars => OnceInv'
    BY NextOnce
  <1>2. Spec => [](TypeOK /\ EntitledInv)
    BY TypeCorrect, EntitledSafe, PTL
  <1> QED
    BY <1>1, <1>2, InitOnce, PTL DEF Spec

\* No order's resources are in the quota more than once, however often orders
\* are given back and whatever fails in between.
THEOREM GrantOnce == Serial => (Spec => []GrantedOnce)
  <1>1. OnceInv => GrantedOnce
    BY DEF OnceInv, OnceAccount, Once, GrantedOnce
  <1> QED
    BY <1>1, OnceSafe, PTL

-----------------------------------------------------------------------------
(* The record of a refund.                                                 *)

\* No method but those of refunds touches the record.
LEMMA RecordUntouched ==
    ASSUME NEW a \in Account
    PROVE  /\ \A o \in Order : \A t :
                /\ SetOrder(a, o).returnInfo = a.returnInfo
                /\ SetOrderStatus(a, o, t).returnInfo = a.returnInfo
           /\ \A u : SetOverMode(a, u).returnInfo = a.returnInfo
           /\ ReplaceQuota(a).returnInfo = a.returnInfo
  <1>1. ASSUME NEW o \in Order, NEW t
        PROVE  /\ SetOrder(a, o).returnInfo = a.returnInfo
               /\ SetOrderStatus(a, o, t).returnInfo = a.returnInfo
    <2>1. SetOrder(a, o).returnInfo = a.returnInfo
      BY ModeCases DEF SetOrder, Account
    <2>2. /\ SetBaseOrderPaid(a, o, t).returnInfo = a.returnInfo
          /\ SetRenewOrderPaid(a, o, t).returnInfo = a.returnInfo
          /\ SetExpandOrderPaid(a, o).returnInfo = a.returnInfo
      BY DEF SetBaseOrderPaid, SetRenewOrderPaid, SetExpandOrderPaid, AddHours, Account
    <2> QED
      BY <2>1, <2>2, ModeCases DEF SetOrderStatus
  <1> QED
    BY <1>1 DEF SetOverMode, ReplaceQuota, Account

\* What is recorded when a refund begins and when it is settled.
LEMMA RecordWritten ==
    ASSUME NEW a \in Account, NEW u \in Views
    PROVE  /\ \A o \in Order, t \in Nat :
                /\ LockReturn(a, u, o, t).returnInfo # NoReturn
                /\ LockReturn(a, u, o, t).returnInfo.sn = o
           /\ ProcessReturn(a, u).returnInfo = NoReturn
  <1>1. ASSUME NEW o \in Order, NEW t \in Nat
        PROVE  /\ LockReturn(a, u, o, t).returnInfo # NoReturn
               /\ LockReturn(a, u, o, t).returnInfo.sn = o
    <2> DEFINE b == LockReturn(a, u, o, t)
               res == IF ModeOf[o] = "renew" THEN Zero ELSE Minus(u.quota, Unit(o))
               time == IF a.expire # NoTime /\ ModeOf[o] = "base" THEN t ELSE a.expire
    <2>1. b.returnInfo = [sn |-> o, res |-> res, time |-> time]
      BY DEF LockReturn, Account
    <2>2. res \in Quota /\ time \in Time
      BY QuotaType DEF Views, Account, Time
    <2> HIDE DEF b, res, time
    <2>3. b.returnInfo \in ReturnRecord
      BY <2>1, <2>2 DEF ReturnRecord
    <2> QED
      BY <2>1, <2>3, ReturnAssumption DEF b
  <1>2. CASE a.returnInfo = NoReturn
    BY <1>1, <1>2 DEF ProcessReturn
  <1>3. CASE a.returnInfo # NoReturn
    <2>1. SetOverMode(a, u) \in Account
      BY SetOverModeType
    <2>2. ProcessReturn(a, u).returnInfo = NoReturn
      BY <1>3, <2>1 DEF ProcessReturn, Account
    <2> QED
      BY <1>1, <2>2
  <1> QED
    BY <1>2, <1>3

\* An order that is being given back, or was, stays so.
Given(c, d) == \A o \in Order : c[o] \in {"refunding", "returned"} => d[o] = c[o]

LEMMA RecordedLater ==
    ASSUME NEW c, NEW d, Given(c, d), NEW a \in Account, Recorded(a, c)
    PROVE  Recorded(a, d)
  BY DEF Given, Recorded, RecordOf, Account, ReturnInfo, ReturnRecord

\* A step of the only request.
LEMMA RecordStep ==
    ASSUME Serial, TypeOK, NEW r \in Req, NEW s, Become(r, s),
           Recorded(account', console'), RecordRequest(s, account', console')
    PROVE  RecordInv'
  <1>1. \A q \in Req : op'[q] = s
    BY DEF Serial, Become, TypeOK
  <1> QED
    BY <1>1 DEF RecordInv

LEMMA RecordIdle == \A a, c : RecordRequest(Idle, a, c)
  BY DEF RecordRequest, Idle

\* The Get of a CreateOrPatch that leaves the record alone or makes it.
LEMMA RecordPatch ==
    ASSUME Serial, TypeOK, RecordInv, NEW r \in Req, NEW after \in Account, NEW next,
           BeginPatch(r, after, next), UNCHANGED <<account, console>>,
           \/ after.returnInfo = account.returnInfo /\ next = "idle"
           \/ /\ account.returnInfo = NoReturn /\ next = "finishing"
              /\ RecordOf(after, op[r].order, console)
    PROVE  RecordInv'
  <1> DEFINE s == [op[r] EXCEPT !.step = "patching", !.mode = "base",
                               !.patch = Diff(account, after), !.next = next]
  <1>1. /\ s.step = "patching" /\ s.order = op[r].order /\ s.next = next
        /\ s.patch = Diff(account, after)
    BY DEF TypeOK, OpType
  <1>2. Merge(account, s.patch) = after
    BY <1>1, MergeDiff DEF TypeOK
  <1>3. Become(r, s)
    BY DEF BeginPatch
  <1> HIDE DEF s
  <1>4. RecordRequest(s, account, console)
    BY <1>1, <1>2 DEF RecordRequest
  <1> QED
    BY <1>3, <1>4, RecordStep DEF RecordInv

\* Orders move on at the console while a request has its account in hand.
LEMMA RecordConsole ==
    ASSUME TypeOK, RecordInv, Given(console, console'), UNCHANGED <<account, op>>
    PROVE  RecordInv'
  <1>1. \A a, o : o \in Order /\ RecordOf(a, o, console) => RecordOf(a, o, console')
    BY DEF Given, RecordOf
  <1>2. account.returnInfo # NoReturn => account.returnInfo.sn \in Order
    BY DEF TypeOK, Account, ReturnInfo, ReturnRecord
  <1>3. Recorded(account, console')
    BY RecordedLater DEF RecordInv, TypeOK
  <1>4. ASSUME NEW r \in Req PROVE RecordRequest(op[r], account, console')
    <2>1. /\ RecordRequest(op[r], account, console)
          /\ op[r].step \in {"locking", "finishing", "processing"} => op[r].order \in Order
      <3>1. op[r].step = "processing" => op[r].order \in Order
        BY <1>2 DEF RecordInv, RecordRequest, RecordOf
      <3> QED
        BY <3>1 DEF RecordInv, TypeOK, OpType
    <2>2. /\ op[r].step = "locking" => console'[op[r].order] = "refunding"
          /\ op[r].step \in {"finishing", "processing"}
                => RecordOf(account, op[r].order, console')
          /\ op[r].step = "processing" => console'[op[r].order] = "returned"
      BY <1>1, <2>1 DEF RecordRequest, Given
    <2>3. CASE op[r].step = "patching"
      <3> DEFINE after == Merge(account, op[r].patch)
      <3>1. \/ after.returnInfo = account.returnInfo /\ op[r].next = "idle"
            \/ /\ account.returnInfo = NoReturn
               /\ RecordOf(after, op[r].order, console) /\ op[r].next = "finishing"
            \/ /\ RecordOf(account, op[r].order, console) /\ console[op[r].order] = "returned"
               /\ after.returnInfo = NoReturn /\ op[r].next # "finishing"
        BY <2>1, <2>3 DEF RecordRequest
      <3>2. op[r].next = "finishing" => op[r].order \in Order
        BY DEF TypeOK, OpType
      <3>3. RecordOf(account, op[r].order, console) => op[r].order \in Order
        BY <1>2 DEF RecordOf
      <3> HIDE DEF after
      <3>4. \/ after.returnInfo = account.returnInfo /\ op[r].next = "idle"
            \/ /\ account.returnInfo = NoReturn
               /\ RecordOf(after, op[r].order, console') /\ op[r].next = "finishing"
            \/ /\ RecordOf(account, op[r].order, console') /\ console'[op[r].order] = "returned"
               /\ after.returnInfo = NoReturn /\ op[r].next # "finishing"
        BY <1>1, <3>1, <3>2, <3>3 DEF Given
      <3> QED
        BY <2>3, <3>4 DEF RecordRequest, after
    <2> QED
      BY <2>1, <2>2, <2>3 DEF RecordRequest
  <1> QED
    BY <1>3, <1>4 DEF RecordInv

\* Purchases and admission leave the record alone.
LEMMA PurchaseRecord ==
    ASSUME Serial, TypeOK, RecordInv, NEW r \in Req, Buying(r) \/ Admission(r)
    PROVE  /\ RecordInv' /\ account'.returnInfo = account.returnInfo
           /\ \A o \in Order : console[o] # "returned" => console'[o] # "returned"
  <1>1. /\ account \in Account /\ OpType(op[r]) /\ Recorded(account, console)
        /\ RecordRequest(op[r], account, console) /\ now \in Nat
    BY DEF TypeOK, RecordInv
  <1>2. \A step \in {"placing", "labelling", "notifying", "admitting"} : \A m, o, u, a, c :
            /\ RecordRequest([Idle EXCEPT !.step = step, !.mode = m], a, c)
            /\ RecordRequest([Idle EXCEPT !.step = step, !.order = o], a, c)
            /\ RecordRequest([Idle EXCEPT !.step = step, !.user = u], a, c)
    BY DEF RecordRequest, Idle
  <1>3. ASSUME NEW mode \in Mode, BeginBuy(r, mode)
        PROVE  RecordInv' /\ UNCHANGED <<account, console>>
    BY <1>1, <1>2, <1>3, RecordStep DEF BeginBuy
  <1>4. ASSUME NEW o \in Order, PlaceOrder(r, o)
        PROVE  /\ RecordInv' /\ account' = account
               /\ \A p \in Order : console[p] # "returned" => console'[p] # "returned"
    <2>1. /\ Given(console, console') /\ account' = account
          /\ \A p \in Order : console[p] # "returned" => console'[p] # "returned"
      BY <1>4 DEF PlaceOrder, Given, TypeOK
    <2>2. Recorded(account, console')
      BY <1>1, <2>1, RecordedLater
    <2> QED
      BY <1>2, <1>4, <2>1, <2>2, RecordStep DEF PlaceOrder
  <1>5. ASSUME NEW o \in Order, Notify(r, o)
        PROVE  RecordInv' /\ UNCHANGED <<account, console>>
    BY <1>1, <1>2, <1>5, RecordStep DEF Notify
  <1>6. CASE RefuseOrder(r)
    BY <1>1, <1>6, RecordIdle, RecordStep DEF RefuseOrder
  <1>7. CASE LabelOrder(r)
    <2>1. op[r].order \in Order
      BY <1>1, <1>7 DEF LabelOrder, At, OpType
    <2>2. SetOrder(account, op[r].order) \in Account
      BY <1>1, <2>1, SetOrderType
    <2> QED
      BY <1>1, <1>7, <2>1, <2>2, RecordUntouched, RecordPatch DEF LabelOrder
  <1>8. CASE CreditOrder(r)
    <2>1. op[r].order \in Order
      BY <1>1, <1>8 DEF CreditOrder, At, OpType
    <2>2. SetOrderStatus(account, op[r].order, now) \in Account
      BY <1>1, <2>1, SetOrderStatusType
    <2> QED
      BY <1>1, <1>8, <2>1, <2>2, RecordUntouched, RecordPatch DEF CreditOrder
  <1>9. CASE CheckResource(r)
    BY <1>1, <1>2, <1>9, RecordStep DEF CheckResource
  <1>10. CASE Login(r)
    <2>1. account'.returnInfo = account.returnInfo /\ console' = console /\ op[r].step = "idle"
      BY <1>1, <1>10, RecordUntouched DEF Login, At
    <2>2. Recorded(account', console')
      BY <1>1, <2>1 DEF Recorded, RecordOf
    <2>3. CASE UNCHANGED op
      <3>1. RecordRequest(op[r], account', console')
        BY <2>1 DEF RecordRequest
      <3>2. \A q \in Req : op'[q] = op[r]
        BY <2>3 DEF Serial
      <3> QED
        BY <2>1, <2>2, <3>1, <3>2 DEF RecordInv
    <2>4. CASE Become(r, [Idle EXCEPT !.step = "admitting", !.user = View(account')])
      BY <1>2, <2>1, <2>2, <2>4, RecordStep
    <2> QED
      BY <1>10, <2>1, <2>3, <2>4 DEF Login
  <1>11. CASE Admit(r)
    <2>1. SetOverMode(account, op[r].user) \in Account
      BY <1>1, SetOverModeType DEF OpType
    <2> QED
      BY <1>1, <1>11, <2>1, RecordUntouched, RecordPatch DEF Admit
  <1> QED
    BY <1>3, <1>4, <1>5, <1>6, <1>7, <1>8, <1>9, <1>10, <1>11 DEF Buying, Admission

\* What a step may do to the record and to the orders that are given back.
RecordKept ==
    /\ account.returnInfo # NoReturn /\ account'.returnInfo # account.returnInfo
            => console[account.returnInfo.sn] = "returned"
    /\ \A o \in Order : console[o] # "returned" /\ console'[o] = "returned"
            => account.returnInfo # NoReturn /\ account.returnInfo.sn = o

\* A refund is recorded first, then the console is told, then it is settled.
LEMMA RefundRecord ==
    ASSUME Serial, TypeOK, RecordInv, NEW r \in Req, Refund(r)
    PROVE  RecordInv' /\ RecordKept
  <1>1. /\ account \in Account /\ OpType(op[r]) /\ Recorded(account, console)
        /\ RecordRequest(op[r], account, console) /\ now \in Nat /\ op[r].user \in Views
    BY DEF TypeOK, RecordInv, OpType
  <1>2. UNCHANGED <<account, console>> => RecordKept
    BY DEF RecordKept
  <1>3. CASE RefundStart(r)
    <2>1. account.returnInfo = NoReturn =>
            RecordRequest([Idle EXCEPT !.step = "finding", !.user = View(account)],
                          account, console)
      BY DEF RecordRequest, Idle
    <2>2. account.returnInfo # NoReturn =>
            RecordRequest([Idle EXCEPT !.step = "finishing", !.next = "finding",
                                       !.user = View(account),
                                       !.order = account.returnInfo.sn],
                          account, console)
      BY <1>1 DEF RecordRequest, Idle, Recorded
    <2> QED
      BY <1>1, <1>2, <1>3, <2>1, <2>2, RecordStep DEF RefundStart
  <1>4. CASE RefundFind(r)
    <2>1. \A o : console[o] = "refunding" =>
            RecordRequest([op[r] EXCEPT !.step = "locking", !.order = o], account, console)
      BY <1>1, <1>4 DEF RefundFind, At, RecordRequest, OpType
    <2> QED
      BY <1>1, <1>2, <1>4, <2>1, RecordIdle, RecordStep DEF RefundFind
  <1>5. CASE RefundLock(r)
    <2> DEFINE after == LockReturn(account, op[r].user, op[r].order, now)
    <2>1. op[r].order \in Order /\ op[r].step = "locking"
      BY <1>1, <1>5 DEF RefundLock, At, OpType
    <2>2. after \in Account
      BY <1>1, <2>1, LockReturnType
    <2>3. RecordOf(after, op[r].order, console) /\ account.returnInfo = NoReturn
      BY <1>1, <2>1, RecordWritten DEF RecordOf, RecordRequest
    <2> QED
      BY <1>2, <1>5, <2>2, <2>3, RecordPatch DEF RefundLock
  <1>6. CASE RefundFinish(r)
    <2> DEFINE s == [op[r] EXCEPT !.step = "processing"]
               o == op[r].order
    <2>1. /\ account' = account /\ Become(r, s) /\ o \in Order /\ op[r].step = "finishing"
          /\ console' = [console EXCEPT ![o] = IF console[o] = "refunding" THEN "returned" ELSE console[o]]
          /\ RecordOf(account, o, console)
      BY <1>1, <1>6 DEF RefundFinish, At, OpType, RecordRequest
    <2>2. console'[o] = "returned" /\ \A p \in Order : p # o => console'[p] = console[p]
      BY <2>1 DEF TypeOK, RecordOf
    <2>3. RecordRequest(s, account, console')
      BY <1>1, <2>1, <2>2 DEF RecordRequest, OpType, RecordOf
    <2>4. Recorded(account, console') /\ RecordKept
      BY <2>1, <2>2 DEF Recorded, RecordOf, RecordKept
    <2> HIDE DEF s
    <2> QED
      BY <2>1, <2>3, <2>4, RecordStep
  <1>7. CASE RefundProcess(r)
    <2> DEFINE after == ProcessReturn(account, op[r].user)
               q == QuotaAfterReturn(account, op[r].user)
               s == [op[r] EXCEPT !.step = "patching", !.user.quota = q,
                                  !.patch = Diff(account, after)]
    <2>1. after \in Account /\ after.returnInfo = NoReturn
      BY <1>1, ProcessReturnType, RecordWritten
    <2>2. Merge(account, Diff(account, after)) = after
      BY <1>1, <2>1, MergeDiff
    <2>3. /\ Become(r, s) /\ UNCHANGED <<account, console>>
          /\ RecordOf(account, op[r].order, console) /\ console[op[r].order] = "returned"
      BY <1>1, <1>7 DEF RefundProcess, At, RecordRequest
    <2>4. s.step = "patching" /\ s.patch = Diff(account, after) /\ s.order = op[r].order
          /\ s.next = op[r].next
      BY <1>1 DEF OpType
    <2>5. op[r].next # "finishing"
      BY <1>1, <1>7 DEF RefundProcess, At, RecordRequest
    <2> HIDE DEF s, after
    <2>6. RecordRequest(s, account, console)
      BY <2>1, <2>2, <2>3, <2>4, <2>5 DEF RecordRequest
    <2> QED
      BY <1>1, <1>2, <2>3, <2>6, RecordStep
  <1> QED
    BY <1>3, <1>4, <1>5, <1>6, <1>7 DEF Refund

\* Writing a patch.
LEMMA PatchRecord ==
    ASSUME Serial, TypeOK, RecordInv, NEW r \in Req, Patch(r)
    PROVE  RecordInv' /\ RecordKept
  <1> DEFINE s == [op[r] EXCEPT !.step = op[r].next, !.next = "idle", !.patch = EmptyPatch]
             after == Merge(account, op[r].patch)
  <1>1. /\ OpType(op[r]) /\ RecordRequest(op[r], account, console) /\ op[r].step = "patching"
        /\ Recorded(account, console)
    BY DEF TypeOK, RecordInv, Patch, At
  <1>2. account' = after /\ console' = console
        /\ (IF op[r].next = "idle" THEN Become(r, Idle) ELSE Become(r, s))
    BY DEF Patch
  <1>3. \/ after.returnInfo = account.returnInfo /\ op[r].next = "idle"
        \/ /\ account.returnInfo = NoReturn
           /\ RecordOf(after, op[r].order, console) /\ op[r].next = "finishing"
        \/ /\ RecordOf(account, op[r].order, console) /\ console[op[r].order] = "returned"
           /\ after.returnInfo = NoReturn /\ op[r].next # "finishing"
    BY <1>1 DEF RecordRequest
  <1> HIDE DEF after
  <1>4. RecordKept
    BY <1>2, <1>3 DEF RecordKept, RecordOf
  <1>5. Recorded(account', console')
    BY <1>1, <1>2, <1>3 DEF Recorded, RecordOf
  <1>6. CASE op[r].next = "idle"
    BY <1>2, <1>4, <1>5, <1>6, RecordIdle, RecordStep
  <1>7. CASE op[r].next # "idle"
    <2>1. /\ s.step = op[r].next /\ s.order = op[r].order /\ s.next = "idle"
          /\ op[r].next \in {"finding", "finishing"}
      BY <1>1, <1>7 DEF OpType
    <2> HIDE DEF s
    <2>2. RecordRequest(s, account', console')
      BY <1>2, <1>3, <1>7, <2>1 DEF RecordRequest
    <2> QED
      BY <1>2, <1>4, <1>5, <1>7, <2>2, RecordStep
  <1> QED
    BY <1>6, <1>7

\* Every step keeps the record until the console knows.
LEMMA NextRecord ==
    Serial /\ TypeOK /\ RecordInv /\ [Next]_vars => RecordInv' /\ RecordKept
  <1> SUFFICES ASSUME Serial, TypeOK, RecordInv, [Next]_vars
               PROVE  RecordInv' /\ RecordKept
    OBVIOUS
  <1>1. Given(console, console) /\ (UNCHANGED <<account, console>> => RecordKept)
    BY DEF Given, RecordKept
  <1>2. CASE UNCHANGED vars \/ Tick
    BY <1>1, <1>2, RecordConsole DEF vars, Tick
  <1>3. ASSUME NEW r \in Req, Buying(r) \/ Admission(r)
        PROVE  RecordInv' /\ RecordKept
    BY <1>3, PurchaseRecord DEF RecordKept
  <1>4. ASSUME NEW r \in Req, Refund(r) \/ Patch(r)
        PROVE  RecordInv' /\ RecordKept
    BY <1>4, RefundRecord, PatchRecord
  <1>5. ASSUME NEW r \in Req, Abort(r)
        PROVE  RecordInv' /\ RecordKept
    BY <1>1, <1>5, RecordIdle, RecordStep DEF Abort, RecordInv
  <1>6. ASSUME NEW o \in Order, Pay(o) \/ RequestRefund(o)
        PROVE  RecordInv' /\ RecordKept
    <2>1. /\ Given(console, console') /\ UNCHANGED <<account, op>>
          /\ \A p \in Order : console[p] # "returned" => console'[p] # "returned"
      BY <1>6 DEF Pay, RequestRefund, Given, TypeOK
    <2> QED
      BY <2>1, RecordConsole DEF RecordKept
  <1> QED
    BY <1>2, <1>3, <1>4, <1>5, <1>6 DEF Next

\* The invariant behind RefundRecordKept: every step of a refund command finds
\* the record and the console as the step before left them.
THEOREM RecordSafe == Serial => (Spec => []RecordInv)
  <1> SUFFICES ASSUME Serial PROVE Spec => []RecordInv
    OBVIOUS
  <1>1. Init => RecordInv
    BY RecordIdle DEF Init, Registered, RecordInv, Recorded
  <1>2. TypeOK /\ RecordInv /\ [Next]_vars => RecordInv'
    BY NextRecord
  <1> QED
    BY <1>1, <1>2, TypeCorrect, PTL DEF Spec

\* Across errors and crashes between any two steps, a recorded refund is
\* neither dropped nor replaced before the console has been told, and the
\* console is told of recorded refunds only.
THEOREM RefundRecordIsKept == Serial => (Spec => RefundRecordKept)
  <1> SUFFICES ASSUME Serial PROVE Spec => RefundRecordKept
    OBVIOUS
  <1>1. TypeOK /\ RecordInv /\ [Next]_vars => [RecordKept]_vars
    BY NextRecord
  <1>2. Spec => [](TypeOK /\ RecordInv)
    BY TypeCorrect, RecordSafe, PTL
  <1>3. Spec => [][RecordKept]_vars
    BY <1>1, <1>2, PTL DEF Spec
  <1> QED
    BY <1>3, PTL DEF RefundRecordKept, RecordKept

-----------------------------------------------------------------------------
(* The tenant's time.                                                      *)

\* The hours bought are a sum of the kind TenantAccountProofs has facts about.
LEMMA SumIsTotal == \A S : Sum(S) = Total(Hours, S)
  BY DEF Sum, Total

\* The time that TimeAccount allows.
Most(a, c, t) == t + Sum(CountedIn(a)) + Zone * (1 + Cardinality(Settled(a, c)))

\* Only so many orders were issued, and none is counted before.
FewIssued(c) == IsFiniteSet({o \in Order : c[o] # "unissued"})
CountsIssued(a, c) == \A o \in CountedIn(a) : c[o] # "unissued"

\* So that hours and settled refunds can be added up.
LEMMA MostType ==
    ASSUME NEW c, NEW a, NEW t \in Int, FewIssued(c), CountsIssued(a, c)
    PROVE  /\ IsFiniteSet(CountedIn(a)) /\ Sum(CountedIn(a)) \in Nat
           /\ IsFiniteSet(Settled(a, c)) /\ Cardinality(Settled(a, c)) \in Nat
           /\ Most(a, c, t) \in Int /\ t + Zone <= Most(a, c, t)
  <1> DEFINE issued == {o \in Order : c[o] # "unissued"}
  <1>1. CountedIn(a) \subseteq issued /\ Settled(a, c) \subseteq issued /\ IsFiniteSet(issued)
    BY DEF CountsIssued, CountedIn, Settled, FewIssued
  <1>2. /\ IsFiniteSet(CountedIn(a)) /\ IsFiniteSet(Settled(a, c))
        /\ Cardinality(Settled(a, c)) \in Nat
    <2> HIDE DEF issued
    <2> QED
      BY <1>1, FS_Subset, FS_CardinalityType
  <1>3. \A o \in CountedIn(a) : Hours[o] \in Nat
    BY OrderAssumption DEF CountedIn
  <1>4. Sum(CountedIn(a)) \in Int
    BY <1>2, <1>3, SumIsTotal, TotalType
  <1>5. 0 <= Sum(CountedIn(a))
    <2>1. Sum({}) = 0
      BY SumIsTotal, TotalPick, FS_EmptySet
    <2>2. Sum({}) <= Sum(CountedIn(a))
      BY <1>2, <1>3, SumIsTotal, TotalGrows
    <2> QED
      BY <2>1, <2>2
  <1>6. \A n \in Nat : Zone * (1 + n) \in Nat /\ Zone <= Zone * (1 + n)
    BY TimeAssumption
  <1>7. /\ Zone * (1 + Cardinality(Settled(a, c))) \in Nat
        /\ Zone <= Zone * (1 + Cardinality(Settled(a, c)))
    BY <1>2, <1>6
  <1> QED
    BY <1>2, <1>4, <1>5, <1>7, TimeAssumption DEF Most

\* An account that counts the same hours and has settled the same refunds.
LEMMA TimeSame ==
    ASSUME NEW a \in Account, NEW c, NEW b \in Account, NEW d, NEW t \in Int, NEW n \in Int,
           FewIssued(c), CountsIssued(a, c), TimeAccount(a, c, t), t <= n,
           b.credit = a.credit, b.expire = a.expire, b.returnInfo = a.returnInfo,
           \A o \in Order : c[o] = "returned" <=> d[o] = "returned"
    PROVE  TimeAccount(b, d, n)
  <1>1. CountedIn(b) = CountedIn(a) /\ Settled(b, d) = Settled(a, c)
    BY DEF CountedIn, Settled
  <1>2. /\ Sum(CountedIn(a)) \in Nat /\ Cardinality(Settled(a, c)) \in Nat
        /\ Zone * (1 + Cardinality(Settled(a, c))) \in Int
    BY MostType, TimeAssumption
  <1>3. a.expire \in Int /\ (a.returnInfo # NoReturn => a.returnInfo.time \in Int)
    BY DEF Account, ReturnInfo, ReturnRecord, Time, NoTime
  <1> QED
    BY <1>1, <1>2, <1>3 DEF TimeAccount

\* An order that is credited for the first time brings as many hours as the
\* expiry time moves, and the zone's offset when that starts from now.
LEMMA StatusTime ==
    ASSUME NEW c, NEW a \in Account, NEW t \in Nat, NEW o \in Order,
           FewIssued(c), CountsIssued(a, c), TimeAccount(a, c, t), c[o] # "unissued",
           a.credit[o] = 0 \/ a[Sn(o)] # o \/ a[St(o)] = "paid"
    PROVE  TimeAccount(SetOrderStatus(a, o, t), c, t)
  <1> DEFINE b == SetOrderStatus(a, o, t)
  <1>1. b \in Account
    BY SetOrderStatusType
  <1>2. \/ b.credit = a.credit /\ b.expire = a.expire /\ b.returnInfo = a.returnInfo
        \/ /\ ModeOf[o] # "expand" /\ a.credit[o] = 0
           /\ b.credit = [a.credit EXCEPT ![o] = a.credit[o] + 1]
           /\ b.expire = ExpireAfter(a, Hours[o], t) /\ b.returnInfo = a.returnInfo
    <2>1. CASE ModeOf[o] = "base"
      BY <2>1 DEF SetOrderStatus, SetBaseOrderPaid, AddHours, Sn, St, Account
    <2>2. CASE ModeOf[o] = "renew"
      BY <2>2 DEF SetOrderStatus, SetRenewOrderPaid, AddHours, Sn, St, Account
    <2>3. CASE ModeOf[o] = "expand"
      BY <2>3 DEF SetOrderStatus, SetExpandOrderPaid, Account
    <2> QED
      BY <2>1, <2>2, <2>3, ModeCases
  <1> HIDE DEF b
  <1>3. CASE b.credit = a.credit /\ b.expire = a.expire /\ b.returnInfo = a.returnInfo
    BY <1>1, <1>3, TimeSame DEF b
  <1>4. CASE /\ ModeOf[o] # "expand" /\ a.credit[o] = 0
             /\ b.credit = [a.credit EXCEPT ![o] = a.credit[o] + 1]
             /\ b.expire = ExpireAfter(a, Hours[o], t) /\ b.returnInfo = a.returnInfo
    <2>1. CountedIn(b) = CountedIn(a) \cup {o} /\ o \notin CountedIn(a)
      BY <1>4 DEF CountedIn, Account
    <2>2. Settled(b, c) = Settled(a, c)
      BY <1>4 DEF Settled
    <2>3. CountsIssued(b, c)
      BY <2>1 DEF CountsIssued
    <2>4. Sum(CountedIn(b)) = Hours[o] + Sum(CountedIn(a))
      <3>1. \A p \in CountedIn(b) : Hours[p] \in Int
        BY OrderAssumption DEF CountedIn
      <3>2. IsFiniteSet(CountedIn(b))
        BY <2>3, MostType
      <3>3. CountedIn(a) = CountedIn(b) \ {o} /\ o \in CountedIn(b)
        BY <2>1
      <3>4. Total(Hours, CountedIn(b)) = Hours[o] + Total(Hours, CountedIn(b) \ {o})
        BY <3>1, <3>2, <3>3, TotalElement
      <3> QED
        BY <3>3, <3>4, SumIsTotal
    <2>5. /\ Sum(CountedIn(a)) \in Nat /\ t + Zone <= Most(a, c, t) /\ Most(a, c, t) \in Int
          /\ Zone * (1 + Cardinality(Settled(a, c))) \in Int
      BY MostType, TimeAssumption
    <2>6. Hours[o] \in Nat /\ a.expire \in Int /\ Zone \in Nat
          /\ (a.returnInfo # NoReturn => a.returnInfo.time \in Int)
      BY OrderAssumption, TimeAssumption DEF Account, ReturnInfo, ReturnRecord, Time, NoTime
    <2>7. Most(b, c, t) = Most(a, c, t) + Hours[o]
      BY <2>2, <2>4, <2>5, <2>6 DEF Most
    <2>8. a.expire <= Most(a, c, t) /\ (a.returnInfo # NoReturn => a.returnInfo.time <= Most(a, c, t))
      BY DEF TimeAccount, Most
    <2>9. b.expire <= Most(a, c, t) + Hours[o]
      BY <1>4, <2>5, <2>6, <2>8 DEF ExpireAfter, LocalStamp
    <2>10. b.returnInfo # NoReturn => b.returnInfo.time <= Most(b, c, t)
      BY <1>4, <2>5, <2>6, <2>7, <2>8
    <2>11. \A p \in CountedIn(b) : ModeOf[p] # "expand"
      BY <1>4, <2>1 DEF TimeAccount
    <2> QED
      BY <2>7, <2>9, <2>10, <2>11 DEF TimeAccount, Most, b
  <1> QED
    BY <1>2, <1>3, <1>4

\* A recorded refund ends the time now or leaves it as it is.
LEMMA LockReturnTime ==
    ASSUME NEW c, NEW a \in Account, NEW t \in Nat, NEW o \in Order, NEW u \in Views,
           FewIssued(c), CountsIssued(a, c), TimeAccount(a, c, t),
           a.returnInfo = NoReturn, c[o] = "refunding"
    PROVE  TimeAccount(LockReturn(a, u, o, t), c, t)
  <1> DEFINE b == LockReturn(a, u, o, t)
  <1>1. /\ b.credit = a.credit /\ b.expire = a.expire
        /\ b.returnInfo.sn = o /\ b.returnInfo.time \in {t, a.expire}
    BY DEF LockReturn, Account
  <1>2. b.returnInfo # NoReturn
    BY LockReturnType, RecordWritten
  <1> HIDE DEF b
  <1>3. CountedIn(b) = CountedIn(a) /\ Settled(b, c) = Settled(a, c)
    BY <1>1, <1>2 DEF CountedIn, Settled
  <1>4. t + Zone <= Most(a, c, t) /\ Most(a, c, t) \in Int /\ Zone \in Nat
    BY MostType, TimeAssumption
  <1>5. t <= Most(a, c, t) /\ a.expire <= Most(a, c, t)
    BY <1>4 DEF TimeAccount, Most
  <1> QED
    BY <1>1, <1>3, <1>5 DEF TimeAccount, Most, b

\* Settling it writes the recorded time with the zone's offset, once for
\* each order that is given back.
LEMMA ProcessReturnTime ==
    ASSUME NEW c, NEW a \in Account, NEW t \in Nat, NEW u \in Views,
           FewIssued(c), CountsIssued(a, c), TimeAccount(a, c, t),
           a.returnInfo # NoReturn, c[a.returnInfo.sn] = "returned"
    PROVE  TimeAccount(ProcessReturn(a, u), c, t)
  <1> DEFINE b == ProcessReturn(a, u)
             o == a.returnInfo.sn
  <1>1. /\ b.credit = a.credit /\ b.returnInfo = NoReturn
        /\ b.expire \in {a.expire, a.returnInfo.time + Zone}
    <2> DEFINE d == SetOverMode(a, u)
               e == IF a.returnInfo.time > 0 THEN LocalStamp(a.returnInfo.time) ELSE d.expire
    <2>1. d \in Account /\ d.credit = a.credit /\ d.expire = a.expire
      <3>1. d \in Account
        BY SetOverModeType
      <3> QED
        BY <3>1 DEF SetOverMode, Account
    <2>2. b = [d EXCEPT !.expire = e, !.returnInfo = NoReturn]
      BY Zenon DEF ProcessReturn
    <2>3. e \in {a.expire, a.returnInfo.time + Zone}
      BY <2>1 DEF LocalStamp
    <2> HIDE DEF b, d, e
    <2> QED
      BY <2>1, <2>2, <2>3 DEF Account
  <1>2. o \in Order
    BY DEF Account, ReturnInfo, ReturnRecord
  <1> HIDE DEF b
  <1>3. /\ CountedIn(b) = CountedIn(a) /\ CountsIssued(b, c)
        /\ Settled(b, c) = Settled(a, c) \cup {o} /\ o \notin Settled(a, c)
    BY <1>1, <1>2 DEF CountedIn, CountsIssued, Settled
  <1>4. Cardinality(Settled(b, c)) = Cardinality(Settled(a, c)) + 1
    <2>1. IsFiniteSet(Settled(a, c))
      BY MostType
    <2> QED
      BY <1>3, <2>1, FS_AddElement
  <1>5. \A n \in Nat : Zone * (1 + (n + 1)) = Zone * (1 + n) + Zone /\ Zone * (1 + n) \in Int
    BY TimeAssumption
  <1>6. Most(b, c, t) = Most(a, c, t) + Zone /\ Most(a, c, t) \in Int /\ Zone \in Nat
    <2>1. /\ Sum(CountedIn(a)) \in Nat /\ Cardinality(Settled(a, c)) \in Nat
          /\ Most(a, c, t) \in Int
      BY MostType
    <2>2. Zone * (1 + Cardinality(Settled(b, c))) = Zone * (1 + Cardinality(Settled(a, c))) + Zone
      BY <1>4, <1>5, <2>1
    <2> QED
      BY <1>3, <1>5, <2>1, <2>2, TimeAssumption DEF Most
  <1>7. a.expire \in Int /\ a.returnInfo.time \in Int
    BY DEF Account, ReturnInfo, ReturnRecord, Time, NoTime
  <1>8. a.expire <= Most(a, c, t) /\ a.returnInfo.time <= Most(a, c, t)
    BY DEF TimeAccount, Most
  <1>9. b.expire <= Most(b, c, t)
    BY <1>1, <1>6, <1>7, <1>8
  <1> QED
    BY <1>1, <1>3, <1>9 DEF TimeAccount, Most, b

\* Labelling, admission and login touch neither hours nor record.
LEMMA TimeUntouched ==
    ASSUME NEW a \in Account, NEW b,
           \/ \E o \in Order : b = SetOrder(a, o)
           \/ \E u : b = SetOverMode(a, u)
           \/ b = ReplaceQuota(a)
    PROVE  b.credit = a.credit /\ b.expire = a.expire /\ b.returnInfo = a.returnInfo
  <1>1. ASSUME NEW o \in Order
        PROVE  LET d == SetOrder(a, o)
               IN d.credit = a.credit /\ d.expire = a.expire /\ d.returnInfo = a.returnInfo
    BY ModeCases DEF SetOrder, Account
  <1>2. ASSUME NEW u
        PROVE  LET d == SetOverMode(a, u)
               IN d.credit = a.credit /\ d.expire = a.expire /\ d.returnInfo = a.returnInfo
    BY DEF SetOverMode, Account
  <1>3. LET d == ReplaceQuota(a)
        IN d.credit = a.credit /\ d.expire = a.expire /\ d.returnInfo = a.returnInfo
    BY DEF ReplaceQuota, Account
  <1> QED
    BY <1>1, <1>2, <1>3

\* Only issued orders are counted, in the account and in a patched one.
LEMMA CountedAreIssued ==
    ASSUME TypeOK, EntitledInv
    PROVE  /\ CountsIssued(account, console)
           /\ \A r \in Req : /\ Merge(account, op[r].patch) \in Account
                             /\ op[r].step = "patching" =>
                                    CountsIssued(Merge(account, op[r].patch), console)
  <1>1. \A a, c : Good(a, c) => CountsIssued(a, c)
    BY DEF Good, Sound, CountsIssued, CountedIn, DueIn
  <1>2. \A r \in Req : Merge(account, op[r].patch) \in Account
    BY MergeType, RegisteredType DEF TypeOK, OpType, PatchType
  <1> QED
    BY <1>1, <1>2 DEF EntitledInv, Reliable

\* A step of the only request.
LEMMA TimeStep ==
    ASSUME Serial, TypeOK, NEW r \in Req, NEW s, Become(r, s),
           TimeAccount(account', console', now'),
           s.step = "patching" => TimeAccount(Merge(account', s.patch), console', now')
    PROVE  TimeInv'
  <1>1. \A q \in Req : op'[q] = s
    BY DEF Serial, Become, TypeOK
  <1> QED
    BY <1>1 DEF TimeInv, At

\* The Get of a CreateOrPatch.
LEMMA TimePatch ==
    ASSUME Serial, TypeOK, TimeInv, NEW r \in Req, NEW after \in Account, NEW next,
           BeginPatch(r, after, next), UNCHANGED <<account, console, now>>,
           TimeAccount(after, console, now)
    PROVE  TimeInv'
  <1> DEFINE s == [op[r] EXCEPT !.step = "patching", !.mode = "base",
                               !.patch = Diff(account, after), !.next = next]
  <1>1. s.patch = Diff(account, after)
    BY DEF TypeOK, OpType
  <1>2. Merge(account, s.patch) = after
    BY <1>1, MergeDiff DEF TypeOK
  <1>3. Become(r, s)
    BY DEF BeginPatch
  <1> HIDE DEF s
  <1> QED
    BY <1>2, <1>3, TimeStep DEF TimeInv

\* The console and the clock move on while no refund is finished.
LEMMA TimeConsole ==
    ASSUME TypeOK, TypeOK', EntitledInv, FewIssued(console), TimeInv,
           UNCHANGED <<account, op>>, now <= now',
           \A o \in Order : console[o] = "returned" <=> console'[o] = "returned"
    PROVE  TimeInv'
  <1>1. account \in Account /\ now \in Int /\ now' \in Int
    BY DEF TypeOK
  <1>2. TimeAccount(account, console', now')
    BY <1>1, CountedAreIssued, TimeSame DEF TimeInv
  <1>3. ASSUME NEW r \in Req, At(r, "patching")
        PROVE  TimeAccount(Merge(account, op[r].patch), console', now')
    <2> DEFINE after == Merge(account, op[r].patch)
    <2>1. after \in Account /\ CountsIssued(after, console) /\ TimeAccount(after, console, now)
      BY <1>3, CountedAreIssued DEF TimeInv, At
    <2> HIDE DEF after
    <2>2. TimeAccount(after, console', now')
      BY <1>1, <2>1, TimeSame
    <2> QED
      BY <2>2 DEF after
  <1> QED
    BY <1>2, <1>3 DEF TimeInv, At

\* Purchases and admission: only a credited order adds hours.
LEMMA PurchaseTime ==
    ASSUME Serial, TypeOK, TypeOK', CreditInv, EntitledInv, FewIssued(console), TimeInv,
           NEW r \in Req, Buying(r) \/ Admission(r)
    PROVE  TimeInv'
  <1>1. /\ account \in Account /\ OpType(op[r]) /\ now \in Nat
        /\ CountsIssued(account, console) /\ TimeAccount(account, console, now)
        /\ Reliable(op[r], account, console)
    BY CountedAreIssued DEF TypeOK, TimeInv, EntitledInv
  <1>2. \A step \in {"placing", "labelling", "notifying", "admitting"} : \A m, o, u :
            /\ [Idle EXCEPT !.step = step, !.mode = m].step # "patching"
            /\ [Idle EXCEPT !.step = step, !.order = o].step # "patching"
            /\ [Idle EXCEPT !.step = step, !.user = u].step # "patching"
            /\ Idle.step # "patching"
    BY DEF Idle
  <1>3. ASSUME NEW after \in Account,
               \/ \E o \in Order : after = SetOrder(account, o)
               \/ \E u : after = SetOverMode(account, u)
               \/ after = ReplaceQuota(account)
        PROVE  TimeAccount(after, console, now)
    BY <1>1, <1>3, TimeUntouched, TimeSame
  <1>4. ASSUME NEW mode \in Mode, BeginBuy(r, mode)
        PROVE  TimeInv'
    BY <1>1, <1>2, <1>4, TimeStep DEF BeginBuy
  <1>5. ASSUME NEW o \in Order, PlaceOrder(r, o)
        PROVE  TimeInv'
    <2>1. /\ UNCHANGED <<account, now>>
          /\ \A p \in Order : console[p] = "returned" <=> console'[p] = "returned"
      BY <1>5 DEF PlaceOrder, TypeOK
    <2>2. TimeAccount(account, console', now)
      BY <1>1, <2>1, TimeSame
    <2> QED
      BY <1>2, <1>5, <2>1, <2>2, TimeStep DEF PlaceOrder
  <1>6. ASSUME NEW o \in Order, Notify(r, o)
        PROVE  TimeInv'
    BY <1>1, <1>2, <1>6, TimeStep DEF Notify
  <1>7. CASE RefuseOrder(r)
    BY <1>1, <1>2, <1>7, TimeStep DEF RefuseOrder
  <1>8. CASE LabelOrder(r)
    <2>1. op[r].order \in Order
      BY <1>1, <1>8 DEF LabelOrder, At, OpType
    <2>2. SetOrder(account, op[r].order) \in Account
      BY <1>1, <2>1, SetOrderType
    <2> QED
      BY <1>3, <1>8, <2>1, <2>2, TimePatch DEF LabelOrder
  <1>9. CASE CreditOrder(r)
    <2> DEFINE o == op[r].order
    <2>1. o \in Order /\ console[o] # "unissued"
      BY <1>1, <1>9 DEF CreditOrder, At, OpType, Reliable, DueIn
    <2>2. account.credit[o] = 0 \/ account[Sn(o)] # o \/ account[St(o)] = "paid"
      <3>1. account.credit[o] \in Nat /\ OrderInv(o)
        BY <1>1, <2>1 DEF Account, CreditInv
      <3> QED
        BY <3>1 DEF OrderInv, Labelled
    <2>3. SetOrderStatus(account, o, now) \in Account
      BY <1>1, <2>1, SetOrderStatusType
    <2> HIDE DEF o
    <2>4. TimeAccount(SetOrderStatus(account, o, now), console, now)
      BY <1>1, <2>1, <2>2, StatusTime
    <2> QED
      BY <1>9, <2>3, <2>4, TimePatch DEF CreditOrder, o
  <1>10. CASE CheckResource(r)
    BY <1>1, <1>2, <1>10, TimeStep DEF CheckResource
  <1>11. CASE Login(r)
    <2>1. /\ account' = ReplaceQuota(account) /\ UNCHANGED <<console, now>>
          /\ op[r].step = "idle"
          /\ \/ UNCHANGED op
             \/ Become(r, [Idle EXCEPT !.step = "admitting", !.user = View(account')])
      BY <1>11 DEF Login, At
    <2>2. TimeAccount(account', console', now')
      BY <1>3, <2>1 DEF TypeOK
    <2>3. CASE UNCHANGED op
      <3>1. \A q \in Req : op'[q].step = "idle"
        BY <2>1, <2>3 DEF Serial
      <3> QED
        BY <2>2, <3>1 DEF TimeInv, At
    <2> QED
      BY <1>2, <2>1, <2>2, <2>3, TimeStep
  <1>12. CASE Admit(r)
    <2>1. SetOverMode(account, op[r].user) \in Account
      BY <1>1, SetOverModeType DEF OpType
    <2> QED
      BY <1>3, <1>12, <2>1, TimePatch DEF Admit
  <1> QED
    BY <1>4, <1>5, <1>6, <1>7, <1>8, <1>9, <1>10, <1>11, <1>12 DEF Buying, Admission

\* Refunds: the order that the console has just been told of still has its
\* record, and the record is settled once.
LEMMA RefundTime ==
    ASSUME Serial, TypeOK, EntitledInv, RecordInv, FewIssued(console), TimeInv,
           NEW r \in Req, Refund(r)
    PROVE  TimeInv'
  <1>1. /\ account \in Account /\ OpType(op[r]) /\ now \in Nat
        /\ CountsIssued(account, console) /\ TimeAccount(account, console, now)
        /\ RecordRequest(op[r], account, console) /\ op[r].user \in Views
    BY CountedAreIssued DEF TypeOK, TimeInv, RecordInv, OpType
  <1>2. CASE RefundStart(r) \/ RefundFind(r)
    <2>1. UNCHANGED <<account, console, now>>
      BY <1>2 DEF RefundStart, RefundFind
    <2>2. ASSUME NEW s, Become(r, s), s.step # "patching" PROVE TimeInv'
      BY <1>1, <2>1, <2>2, TimeStep
    <2>3. CASE RefundStart(r)
      <3>1. /\ [Idle EXCEPT !.step = "finding", !.user = View(account)].step # "patching"
            /\ [Idle EXCEPT !.step = "finishing", !.next = "finding", !.user = View(account),
                            !.order = account.returnInfo.sn].step # "patching"
        BY DEF Idle
      <3> QED
        BY <2>2, <2>3, <3>1 DEF RefundStart
    <2>4. CASE RefundFind(r)
      <3>1. /\ \A o : [op[r] EXCEPT !.step = "locking", !.order = o].step # "patching"
            /\ Idle.step # "patching"
        BY <1>1 DEF OpType, Idle
      <3> QED
        BY <2>2, <2>4, <3>1 DEF RefundFind
    <2> QED
      BY <1>2, <2>3, <2>4
  <1>3. CASE RefundLock(r)
    <2> DEFINE after == LockReturn(account, op[r].user, op[r].order, now)
    <2>1. /\ op[r].order \in Order /\ account.returnInfo = NoReturn
          /\ console[op[r].order] = "refunding"
      BY <1>1, <1>3 DEF RefundLock, At, OpType, RecordRequest
    <2>2. after \in Account /\ TimeAccount(after, console, now)
      BY <1>1, <2>1, LockReturnType, LockReturnTime
    <2> QED
      BY <1>3, <2>2, TimePatch DEF RefundLock
  <1>4. CASE RefundFinish(r)
    <2> DEFINE s == [op[r] EXCEPT !.step = "processing"]
               o == op[r].order
    <2>1. /\ UNCHANGED <<account, now>> /\ Become(r, s) /\ o \in Order
          /\ RecordOf(account, o, console)
          /\ console' = [console EXCEPT ![o] = IF console[o] = "refunding" THEN "returned" ELSE console[o]]
      BY <1>1, <1>4 DEF RefundFinish, At, OpType, RecordRequest
    <2>2. Settled(account, console') = Settled(account, console)
      BY <2>1 DEF Settled, RecordOf, TypeOK
    <2>3. TimeAccount(account, console', now)
      BY <1>1, <2>2 DEF TimeAccount
    <2>4. s.step = "processing"
      BY <1>1 DEF OpType
    <2> HIDE DEF s
    <2> QED
      BY <2>1, <2>3, <2>4, TimeStep
  <1>5. CASE RefundProcess(r)
    <2> DEFINE after == ProcessReturn(account, op[r].user)
               q == QuotaAfterReturn(account, op[r].user)
               s == [op[r] EXCEPT !.step = "patching", !.user.quota = q,
                                  !.patch = Diff(account, after)]
    <2>1. /\ account.returnInfo # NoReturn /\ console[account.returnInfo.sn] = "returned"
          /\ Become(r, s) /\ UNCHANGED <<account, console, now>>
      BY <1>1, <1>5 DEF RefundProcess, At, RecordRequest, RecordOf
    <2>2. after \in Account /\ TimeAccount(after, console, now)
      BY <1>1, <2>1, ProcessReturnType, ProcessReturnTime
    <2>3. s.patch = Diff(account, after)
      BY <1>1 DEF OpType
    <2> HIDE DEF s, after
    <2>4. Merge(account, s.patch) = after
      BY <1>1, <2>2, <2>3, MergeDiff
    <2> QED
      BY <1>1, <2>1, <2>2, <2>4, TimeStep
  <1> QED
    BY <1>2, <1>3, <1>4, <1>5 DEF Refund

\* Every step keeps the bound.
LEMMA NextTime ==
    Serial /\ TypeOK /\ TypeOK' /\ CreditInv /\ EntitledInv /\ RecordInv /\ FewIssued(console)
        /\ TimeInv /\ [Next]_vars => TimeInv'
  <1> SUFFICES ASSUME Serial, TypeOK, TypeOK', CreditInv, EntitledInv, RecordInv,
                      FewIssued(console), TimeInv, [Next]_vars
               PROVE  TimeInv'
    OBVIOUS
  <1>1. now \in Nat /\ account \in Account
    BY DEF TypeOK
  <1>2. CASE UNCHANGED vars \/ Tick
    BY <1>1, <1>2, TimeConsole DEF vars, Tick
  <1>3. ASSUME NEW r \in Req, Buying(r) \/ Admission(r) \/ Refund(r)
        PROVE  TimeInv'
    BY <1>3, PurchaseTime, RefundTime
  <1>4. ASSUME NEW r \in Req, Patch(r)
        PROVE  TimeInv'
    <2> DEFINE s == [op[r] EXCEPT !.step = op[r].next, !.next = "idle", !.patch = EmptyPatch]
    <2>1. /\ account' = Merge(account, op[r].patch) /\ UNCHANGED <<console, now>>
          /\ op[r].step = "patching"
          /\ (IF op[r].next = "idle" THEN Become(r, Idle) ELSE Become(r, s))
      BY <1>4 DEF Patch, At
    <2>2. s.step # "patching" /\ Idle.step # "patching"
      BY DEF TypeOK, OpType, Idle
    <2>3. TimeAccount(account', console', now')
      BY <2>1 DEF TimeInv, At
    <2> HIDE DEF s
    <2> QED
      BY <2>1, <2>2, <2>3, TimeStep
  <1>5. ASSUME NEW r \in Req, Abort(r)
        PROVE  TimeInv'
    BY <1>5, TimeStep DEF Abort, Idle, TimeInv
  <1>6. ASSUME NEW o \in Order, Pay(o) \/ RequestRefund(o)
        PROVE  TimeInv'
    <2>1. /\ UNCHANGED <<account, op, now>>
          /\ \A p \in Order : console[p] = "returned" <=> console'[p] = "returned"
      BY <1>6 DEF Pay, RequestRefund, TypeOK
    <2> QED
      BY <1>1, <2>1, TimeConsole
  <1> QED
    BY <1>2, <1>3, <1>4, <1>5, <1>6 DEF Next

\* A step issues one order at most.
LEMMA NextFewIssued == TypeOK /\ FewIssued(console) /\ [Next]_vars => FewIssued(console')
  <1> SUFFICES ASSUME TypeOK, FewIssued(console), [Next]_vars
               PROVE  FewIssued(console')
    OBVIOUS
  <1>1. \E o : {p \in Order : console'[p] # "unissued"}
                    \subseteq {p \in Order : console[p] # "unissued"} \cup {o}
    <2>1. CASE console' = console
      BY <2>1
    <2>2. ASSUME NEW o, NEW status, console' = [console EXCEPT ![o] = status]
          PROVE  {p \in Order : console'[p] # "unissued"}
                    \subseteq {p \in Order : console[p] # "unissued"} \cup {o}
      BY <2>2 DEF TypeOK
    <2>3. ASSUME NEW r \in Req, NEW o \in Order, PlaceOrder(r, o)
          PROVE  \E status : console' = [console EXCEPT ![o] = status]
      BY <2>3 DEF PlaceOrder
    <2>4. ASSUME NEW r \in Req, RefundFinish(r)
          PROVE  \E o, status : console' = [console EXCEPT ![o] = status]
      BY <2>4 DEF RefundFinish
    <2>5. ASSUME NEW o \in Order, Pay(o) \/ RequestRefund(o)
          PROVE  \E status : console' = [console EXCEPT ![o] = status]
      BY <2>5 DEF Pay, RequestRefund
    <2>6. ASSUME NEW r \in Req, Buying(r) \/ Admission(r), \A o \in Order : ~PlaceOrder(r, o)
          PROVE  console' = console
      BY <2>6 DEF Buying, Admission, BeginBuy, Notify, RefuseOrder, LabelOrder, CreditOrder,
                  CheckResource, Login, Admit
    <2>7. ASSUME NEW r \in Req, Refund(r) \/ Patch(r) \/ Abort(r), ~RefundFinish(r)
          PROVE  console' = console
      BY <2>7 DEF Refund, RefundStart, RefundFind, RefundLock, RefundProcess, Patch, Abort
    <2>8. CASE Tick \/ UNCHANGED vars
      BY <2>8 DEF Tick, vars
    <2> QED
      BY <2>1, <2>2, <2>3, <2>4, <2>5, <2>6, <2>7, <2>8 DEF Next
  <1>2. PICK o : {p \in Order : console'[p] # "unissued"}
                    \subseteq {p \in Order : console[p] # "unissued"} \cup {o}
    BY <1>1
  <1>3. IsFiniteSet({p \in Order : console[p] # "unissued"} \cup {o})
    BY FS_AddElement DEF FewIssued
  <1> QED
    BY <1>2, <1>3, FS_Subset DEF FewIssued

\* Nothing is bought and nothing is counted when the tenant registers.
LEMMA InitTime == Init => FewIssued(console) /\ TimeInv
  <1> SUFFICES ASSUME Init PROVE FewIssued(console) /\ TimeInv
    OBVIOUS
  <1>1. /\ account = Registered /\ now = 1 /\ \A o \in Order : console[o] = "unissued"
        /\ \A r \in Req : op[r].step # "patching"
    BY DEF Init, Idle
  <1>2. {o \in Order : console[o] # "unissued"} = {}
    BY <1>1
  <1>3. FewIssued(console)
    BY <1>2, FS_EmptySet DEF FewIssued
  <1>4. /\ account.expire = NoTime /\ account.returnInfo = NoReturn
        /\ CountedIn(account) = {} /\ CountsIssued(account, console)
    BY <1>1 DEF Registered, CountedIn, CountsIssued
  <1>5. now + Zone <= Most(account, console, now) /\ Most(account, console, now) \in Int
    BY <1>1, <1>3, <1>4, MostType
  <1>6. account.expire <= Most(account, console, now)
    BY <1>1, <1>4, <1>5, TimeAssumption DEF NoTime
  <1>7. TimeAccount(account, console, now)
    BY <1>4, <1>6 DEF TimeAccount, Most
  <1> QED
    BY <1>1, <1>3, <1>7 DEF TimeInv, At

\* The invariant behind ExpireBacked: an account and a patch account for the
\* hours they hold and for each offset of the zone that they contain.
THEOREM TimeSafe == Serial => (Spec => []TimeInv)
  <1> SUFFICES ASSUME Serial PROVE Spec => []TimeInv
    OBVIOUS
  <1>1. TypeOK /\ TypeOK' /\ CreditInv /\ EntitledInv /\ RecordInv
            /\ FewIssued(console) /\ TimeInv /\ [Next]_vars
            => FewIssued(console)' /\ TimeInv'
    BY NextTime, NextFewIssued
  <1>2. Spec => [](TypeOK /\ CreditInv /\ EntitledInv /\ RecordInv)
    BY TypeCorrect, CreditSafe, EntitledSafe, RecordSafe, PTL
  <1> QED
    BY <1>1, <1>2, InitTime, PTL DEF Spec

\* What a tenant whose requests follow one another holds is backed by paid
\* orders, however many refunds, failures and repeated notices there are.
THEOREM ExpireIsBacked == Serial => (Spec => []ExpireBacked)
  <1> SUFFICES ASSUME Serial PROVE Spec => []ExpireBacked
    OBVIOUS
  <1>1. TypeOK /\ EntitledInv /\ FewIssued(console) /\ TimeInv => ExpireBacked
    <2> SUFFICES ASSUME TypeOK, EntitledInv, FewIssued(console), TimeInv
                 PROVE  ExpireBacked
      OBVIOUS
    <2> DEFINE returned == {o \in Order : console[o] = "returned"}
               issued == {o \in Order : console[o] # "unissued"}
    <2>1. CountedIn(account) \subseteq Bought /\ Settled(account, console) \subseteq returned
      <3>1. \A o \in CountedIn(account) : ModeOf[o] # "expand" /\ o \in DueIn(console)
        BY DEF TimeInv, TimeAccount, EntitledInv, Good, Sound, CountedIn
      <3> QED
        BY <3>1 DEF CountedIn, Settled, Bought, DueIn
    <2>2. IsFiniteSet(Bought) /\ IsFiniteSet(returned)
      <3>1. Bought \subseteq issued /\ returned \subseteq issued /\ IsFiniteSet(issued)
        BY DEF FewIssued, Bought
      <3> HIDE DEF issued, returned
      <3> QED
        BY <3>1, FS_Subset
    <2> HIDE DEF returned
    <2>3. Sum(CountedIn(account)) <= Sum(Bought) /\ Sum(Bought) \in Int
      <3>1. \A o \in Bought : Hours[o] \in Nat
        BY OrderAssumption DEF Bought
      <3> QED
        BY <2>1, <2>2, <3>1, SumIsTotal, TotalType, TotalGrows
    <2>4. Zone * (1 + Cardinality(Settled(account, console))) <= Zone * (1 + Cardinality(returned))
      <3>1. /\ Cardinality(Settled(account, console)) <= Cardinality(returned)
            /\ Cardinality(returned) \in Nat /\ Cardinality(Settled(account, console)) \in Nat
        BY <2>1, <2>2, FS_Subset, FS_CardinalityType
      <3>2. \A m, n \in Nat : m <= n => Zone * (1 + m) <= Zone * (1 + n)
        BY TimeAssumption
      <3> QED
        BY <3>1, <3>2
    <2>5. /\ Most(account, console, now) \in Int /\ Sum(CountedIn(account)) \in Nat
          /\ Cardinality(Settled(account, console)) \in Nat /\ Cardinality(returned) \in Nat
      BY <2>2, CountedAreIssued, MostType, FS_CardinalityType DEF TypeOK
    <2>6. \A n \in Nat : Zone * (1 + n) \in Int
      BY TimeAssumption
    <2>7. account.expire \in Int /\ now \in Int /\ account.expire <= Most(account, console, now)
      BY DEF TimeInv, TimeAccount, Most, TypeOK, Account, Time, NoTime
    <2>8. account.expire <= now + Sum(Bought) + Zone * (1 + Cardinality(returned))
      BY <2>3, <2>4, <2>5, <2>6, <2>7 DEF Most
    <2> QED
      BY <2>8 DEF ExpireBacked, returned
  <1>2. Spec => []FewIssued(console)
    <2>1. TypeOK /\ FewIssued(console) /\ [Next]_vars => FewIssued(console)'
      BY NextFewIssued
    <2> QED
      BY <2>1, InitTime, TypeCorrect, PTL DEF Spec
  <1> QED
    BY <1>1, <1>2, TypeCorrect, EntitledSafe, TimeSafe, PTL
=============================================================================
