------------------------- MODULE TenantOrdersProofs -------------------------
(***************************************************************************)
(* Theorems about TenantOrders, for every number of concurrent requests,   *)
(* every set of orders, and however requests interleave, fail and repeat.  *)
(***************************************************************************)
EXTENDS TenantOrders, TenantAccountProofs

-----------------------------------------------------------------------------
(* Type correctness.                                                       *)

\* A request that does nothing has the type of requests.
LEMMA IdleType == OpType(Idle)
  <1>1. NoUser \in Views
    BY QuotaType, Values DEF NoUser, Views
  <1>2. PatchType(EmptyPatch)
    <2>1. Merge(Registered, EmptyPatch) = Registered
      BY RegisteredType DEF Merge, EmptyPatch, Registered, Field
    <2> QED
      BY <2>1, RegisteredType DEF PatchType, EmptyPatch
  <1> QED
    BY <1>1, <1>2, Values DEF OpType, Idle, Step, Mode

\* Changing what one request does keeps the type of all.
LEMMA BecomeType ==
    ASSUME TypeOK, NEW r \in Req, NEW s, OpType(s), Become(r, s)
    PROVE  DOMAIN op' = Req /\ \A q \in Req : OpType(op'[q])
  BY DEF TypeOK, Become

\* Computing a patch keeps the type of all requests.
LEMMA BeginPatchType ==
    ASSUME TypeOK, NEW r \in Req, NEW after \in Account,
           NEW next \in {"idle", "finishing"},
           next = "finishing" => op[r].order \in Order,
           BeginPatch(r, after, next)
    PROVE  DOMAIN op' = Req /\ \A q \in Req : OpType(op'[q])
  <1> DEFINE s == [op[r] EXCEPT !.step = "patching", !.mode = "base",
                               !.patch = Diff(account, after), !.next = next]
  <1>1. PatchType(Diff(account, after))
    BY DiffType, RegisteredType DEF PatchType, TypeOK
  <1>2. OpType(op[r])
    BY DEF TypeOK
  <1>3. OpType(s)
    BY <1>1, <1>2 DEF OpType, Step, Mode
  <1> QED
    BY <1>3, BecomeType DEF BeginPatch

\* The initial state is type correct.
LEMMA InitType == Init => TypeOK
  BY IdleType, RegisteredType DEF Init, TypeOK, ConsoleStatus

\* Every step keeps the types.
LEMMA NextType == TypeOK /\ [Next]_vars => TypeOK'
  <1> SUFFICES ASSUME TypeOK, [Next]_vars
               PROVE  TypeOK'
    OBVIOUS
  <1>1. CASE UNCHANGED vars
    BY <1>1 DEF TypeOK, vars
  <1>2. ASSUME NEW r \in Req, Patch(r)
        PROVE  TypeOK'
    <2> DEFINE s == [op[r] EXCEPT !.step = op[r].next, !.next = "idle",
                                  !.patch = EmptyPatch]
    <2>1. OpType(op[r])
      BY DEF TypeOK
    <2>2. Merge(account, op[r].patch) \in Account
      BY <2>1, MergeType, RegisteredType DEF OpType, PatchType, TypeOK
    <2>3. OpType(s)
      BY <2>1, IdleType DEF OpType, Step, Idle
    <2>4. DOMAIN op' = Req /\ \A q \in Req : OpType(op'[q])
      BY <1>2, <2>3, IdleType, BecomeType DEF Patch
    <2> QED
      BY <1>2, <2>2, <2>4 DEF Patch, TypeOK
  <1>3. ASSUME NEW r \in Req, Abort(r)
        PROVE  TypeOK'
    BY <1>3, IdleType, BecomeType DEF Abort, TypeOK
  <1>4. ASSUME NEW r \in Req, Buying(r)
        PROVE  TypeOK'
    <2>1. OpType(op[r])
      BY DEF TypeOK
    <2>2. ASSUME NEW mode \in Mode, BeginBuy(r, mode)
          PROVE  TypeOK'
      <3>1. OpType([Idle EXCEPT !.step = "placing", !.mode = mode])
        BY IdleType DEF OpType, Step
      <3> QED
        BY <2>2, <3>1, BecomeType DEF BeginBuy, TypeOK
    <2>3. ASSUME NEW o \in Order, PlaceOrder(r, o)
          PROVE  TypeOK'
      <3>1. OpType([Idle EXCEPT !.step = "labelling", !.order = o])
        BY IdleType, Values DEF OpType, Step
      <3>2. console' \in [Order -> ConsoleStatus]
        BY <2>3 DEF PlaceOrder, TypeOK, ConsoleStatus
      <3> QED
        BY <2>3, <3>1, <3>2, BecomeType DEF PlaceOrder, TypeOK
    <2>4. ASSUME NEW o \in Order, Notify(r, o)
          PROVE  TypeOK'
      <3>1. OpType([Idle EXCEPT !.step = "notifying", !.order = o])
        BY IdleType, Values DEF OpType, Step
      <3> QED
        BY <2>4, <3>1, BecomeType DEF Notify, TypeOK
    <2>5. CASE RefuseOrder(r)
      BY <2>5, IdleType, BecomeType DEF RefuseOrder, TypeOK
    <2>6. CASE LabelOrder(r)
      <3>1. op[r].order \in Order
        BY <2>1, <2>6 DEF LabelOrder, At, OpType
      <3>2. SetOrder(account, op[r].order) \in Account
        BY <3>1, SetOrderType DEF TypeOK
      <3> QED
        BY <2>6, <3>2, BeginPatchType DEF LabelOrder, TypeOK
    <2>7. CASE CreditOrder(r)
      <3>1. op[r].order \in Order
        BY <2>1, <2>7 DEF CreditOrder, At, OpType
      <3>2. SetOrderStatus(account, op[r].order, now) \in Account
        BY <3>1, SetOrderStatusType DEF TypeOK
      <3> QED
        BY <2>7, <3>2, BeginPatchType DEF CreditOrder, TypeOK
    <2> QED
      BY <1>4, <2>2, <2>3, <2>4, <2>5, <2>6, <2>7 DEF Buying
  <1>5. ASSUME NEW r \in Req, Admission(r)
        PROVE  TypeOK'
    <2>1. OpType(op[r]) /\ ReplaceQuota(account) \in Account
      BY ReplaceQuotaType DEF TypeOK
    <2>2. \A u \in Views : OpType([Idle EXCEPT !.step = "admitting", !.user = u])
      BY IdleType DEF OpType, Step
    <2>3. CASE CheckResource(r)
      BY <2>1, <2>2, <2>3, ViewType, BecomeType DEF CheckResource, TypeOK
    <2>4. CASE Login(r)
      <3>1. account' \in Account
        BY <2>1, <2>4 DEF Login
      <3>2. DOMAIN op' = Req /\ \A q \in Req : OpType(op'[q])
        BY <2>2, <2>4, <3>1, ViewType, BecomeType DEF Login, TypeOK
      <3> QED
        BY <2>4, <3>1, <3>2 DEF Login, TypeOK
    <2>5. CASE Admit(r)
      <3>1. SetOverMode(account, op[r].user) \in Account
        BY <2>1, SetOverModeType DEF OpType, TypeOK
      <3> QED
        BY <2>5, <3>1, BeginPatchType DEF Admit, TypeOK
    <2> QED
      BY <1>5, <2>3, <2>4, <2>5 DEF Admission
  <1>6. ASSUME NEW r \in Req, Refund(r)
        PROVE  TypeOK'
    <2>1. OpType(op[r])
      BY DEF TypeOK
    <2>2. CASE RefundStart(r)
      <3>1. View(account) \in Views
        BY ViewType DEF TypeOK
      <3>2. account.returnInfo # NoReturn => account.returnInfo.sn \in Order
        BY DEF TypeOK, Account, ReturnInfo, ReturnRecord
      <3>3. \A o \in Order : OpType([Idle EXCEPT !.step = "finishing",
                !.next = "finding", !.user = View(account), !.order = o])
        BY <3>1, IdleType, Values DEF OpType, Step
      <3>4. OpType([Idle EXCEPT !.step = "finding", !.user = View(account)])
        BY <3>1, IdleType DEF OpType, Step
      <3> QED
        BY <2>2, <3>2, <3>3, <3>4, BecomeType DEF RefundStart, TypeOK
    <2>3. CASE RefundFind(r)
      <3>1. \A o \in Order : OpType([op[r] EXCEPT !.step = "locking", !.order = o])
        BY <2>1, Values DEF OpType, Step
      <3> QED
        BY <2>3, <3>1, IdleType, BecomeType DEF RefundFind, TypeOK
    <2>4. CASE RefundLock(r)
      <3>1. op[r].order \in Order /\ op[r].user \in Views
        BY <2>1, <2>4 DEF RefundLock, At, OpType
      <3>2. LockReturn(account, op[r].user, op[r].order, now) \in Account
        BY <3>1, LockReturnType DEF TypeOK
      <3> QED
        BY <2>4, <3>1, <3>2, BeginPatchType DEF RefundLock, TypeOK
    <2>5. CASE RefundFinish(r)
      <3>1. op[r].order \in Order
        BY <2>1, <2>5 DEF RefundFinish, At, OpType
      <3>2. console' \in [Order -> ConsoleStatus]
        BY <2>5, <3>1 DEF RefundFinish, TypeOK, ConsoleStatus
      <3>3. OpType([op[r] EXCEPT !.step = "processing"])
        BY <2>1 DEF OpType, Step
      <3> QED
        BY <2>5, <3>2, <3>3, BecomeType DEF RefundFinish, TypeOK
    <2>6. CASE RefundProcess(r)
      <3>1. op[r].user \in Views
        BY <2>1 DEF OpType
      <3>2. ProcessReturn(account, op[r].user) \in Account
            /\ QuotaAfterReturn(account, op[r].user) \in Quota
        BY <3>1, ProcessReturnType DEF TypeOK
      <3>3. PatchType(Diff(account, ProcessReturn(account, op[r].user)))
        BY <3>2, DiffType, RegisteredType DEF PatchType, TypeOK
      <3>4. \A p, q : q \in Quota /\ PatchType(p) =>
                OpType([op[r] EXCEPT !.step = "patching", !.user.quota = q, !.patch = p])
        BY <2>1 DEF OpType, Step, Views
      <3> QED
        BY <2>6, <3>2, <3>3, <3>4, BecomeType DEF RefundProcess, TypeOK
    <2> QED
      BY <1>6, <2>2, <2>3, <2>4, <2>5, <2>6 DEF Refund
  <1>7. ASSUME NEW o \in Order, Pay(o) \/ RequestRefund(o)
        PROVE  TypeOK'
    BY <1>7 DEF Pay, RequestRefund, TypeOK, ConsoleStatus
  <1>8. CASE Tick
    BY <1>8 DEF Tick, TypeOK
  <1> QED
    BY <1>1, <1>2, <1>3, <1>4, <1>5, <1>6, <1>7, <1>8 DEF Next

\* The account keeps its type, and so do the patches that requests compute,
\* whatever requests run at the same time.
THEOREM TypeCorrect == Spec => []TypeOK
  BY InitType, NextType, PTL DEF Spec
-----------------------------------------------------------------------------
(* No paid order is credited twice.                                        *)

\* The state of a request that neither labels nor credits an order.
Quiet(s) ==
    /\ s.step # "labelling"
    /\ s.step # "patching" => DOMAIN s.patch = {}
    /\ DOMAIN s.patch \cap PurchaseField = {}

\* A step that keeps the purchase fields, issues no order, and leaves every
\* request as it is or quiet, preserves CreditInv.
LEMMA QuietStep ==
    ASSUME TypeOK, CreditInv, Same(account, account'),
           \A o \in Order : console'[o] = "unissued" => console[o] = "unissued",
           \A q \in Req : op'[q] = op[q] \/ Quiet(op'[q])
    PROVE  CreditInv'
  <1>1. \A o \in Order : /\ account'[Sn(o)] = account[Sn(o)]
                         /\ account'[St(o)] = account[St(o)]
                         /\ account'.credit[o] = account.credit[o]
    BY LabelFields DEF Same
  <1>2. \A q \in Req, o \in Order : Creating(q, o)' => Creating(q, o)
    BY LabelFields DEF Creating, At, Quiet
  <1>3. \A q \in Req, o \in Order :
            Credits(op'[q].patch, o, 1) => Credits(op[q].patch, o, 1) /\ op'[q] = op[q]
    BY LabelFields DEF Credits, Quiet
  <1>4. ASSUME NEW q \in Req PROVE PatchInv(q)'
    <2>1. CASE op'[q] = op[q]
      BY <1>1, <2>1 DEF CreditInv, PatchInv, Labelled, At
    <2>2. CASE Quiet(op'[q])
      BY <2>2, LabelFields DEF PatchInv, Quiet, Credits, At
    <2> QED
      BY <2>1, <2>2
  <1>5. ASSUME NEW o \in Order PROVE OrderInv(o)'
    <2>1. Uncredited(o) => Uncredited(o)'
      BY <1>1, <1>3 DEF Uncredited, Labelled
    <2> QED
      BY <1>1, <1>2, <2>1 DEF CreditInv, OrderInv, Labelled
  <1> QED
    BY <1>4, <1>5 DEF CreditInv

\* CreditInv holds before the first purchase.
LEMMA InitCredit == Init => CreditInv
  <1> SUFFICES ASSUME Init PROVE CreditInv
    OBVIOUS
  <1>1. \A r \in Req : DOMAIN op[r].patch = {} /\ op[r].step = "idle"
    BY DEF Init, Idle, EmptyPatch
  <1>2. \A o \in Order : account[Sn(o)] # o /\ account.credit[o] = 0
    BY ModeCases, NamesAssumption DEF Init, Registered, Sn
  <1> QED
    BY <1>1, <1>2 DEF CreditInv, PatchInv, OrderInv, Uncredited, Creating, Credits, Labelled, At

\* Issuing an order preserves CreditInv: one request holds the number.
LEMMA PlaceOrderCredit ==
    ASSUME TypeOK, CreditInv, NEW r \in Req, NEW o \in Order, PlaceOrder(r, o)
    PROVE  CreditInv'
  <1>1. /\ op'[r].step = "labelling" /\ op'[r].order = o /\ DOMAIN op'[r].patch = {}
        /\ \A q \in Req \ {r} : op'[q] = op[q]
        /\ account' = account
    BY DEF PlaceOrder, Become, TypeOK, Idle, EmptyPatch
  <1>2. \A q \in Req, c \in Order : Credits(op'[q].patch, c, 1) => Credits(op[q].patch, c, 1)
    BY <1>1 DEF Credits
  <1>3. \A c \in Order : /\ console'[c] = "unissued" => console[c] = "unissued" /\ c # o
                         /\ console[o] = "unissued"
    BY DEF PlaceOrder, TypeOK
  <1>4. \A q \in Req, c \in Order : Creating(q, c)' => Creating(q, c) \/ (q = r /\ c = o)
    BY <1>1 DEF Creating, At
  <1>5. ASSUME NEW q \in Req PROVE PatchInv(q)'
    <2>1. CASE q = r
      BY <1>1, <2>1 DEF PatchInv, Credits, At
    <2>2. CASE q # r
      BY <1>1, <2>2 DEF CreditInv, PatchInv, Labelled, At
    <2> QED
      BY <2>1, <2>2
  <1>6. ASSUME NEW c \in Order PROVE OrderInv(c)'
    <2>1. Uncredited(c) => Uncredited(c)'
      BY <1>1, <1>2 DEF Uncredited, Labelled
    <2> QED
      BY <1>1, <1>3, <1>4, <2>1 DEF CreditInv, OrderInv, Labelled
  <1> QED
    BY <1>5, <1>6 DEF CreditInv

\* The patch with a new order's label preserves CreditInv.
LEMMA LabelOrderCredit ==
    ASSUME TypeOK, CreditInv, NEW r \in Req, LabelOrder(r)
    PROVE  CreditInv'
  <1> DEFINE o == op[r].order
             after == SetOrder(account, o)
             p == Diff(account, after)
  <1>1. o \in Order /\ account \in Account
    BY DEF LabelOrder, TypeOK, OpType, At
  <1>2. /\ op'[r].patch = p /\ op'[r].order = o /\ op'[r].step = "patching"
        /\ \A q \in Req \ {r} : op'[q] = op[q]
        /\ account' = account /\ console' = console
    BY DEF LabelOrder, BeginPatch, Become, TypeOK, OpType
  <1>3. Creating(r, o)
    BY DEF Creating, LabelOrder
  <1>4. Uncredited(o)
    BY <1>1, <1>3 DEF CreditInv, OrderInv
  <1>5. /\ Sn(o) \in DOMAIN p /\ p[Sn(o)] = o
        /\ "credit" \notin DOMAIN p
        /\ \A c \in Order : Sn(c) # Sn(o) => Sn(c) \notin DOMAIN p /\ St(c) \notin DOMAIN p
    BY <1>1, <1>4, SetOrderEffect, LabelFields DEF Diff, Uncredited, Labelled
  <1> HIDE DEF p
  <1>6. \A q \in Req, c \in Order : Creating(q, c)' => Creating(q, c)
    BY <1>1, <1>2, <1>3, <1>5 DEF Creating, At
  <1>7. \A q \in Req, c \in Order : Credits(op'[q].patch, c, 1) => Credits(op[q].patch, c, 1)
    BY <1>2, <1>5 DEF Credits
  <1>8. ASSUME NEW q \in Req PROVE PatchInv(q)'
    <2>1. CASE q = r
      BY <1>1, <1>2, <1>5, <2>1 DEF PatchInv, At, Credits
    <2>2. CASE q # r
      BY <1>2, <2>2 DEF CreditInv, PatchInv, Labelled, At
    <2> QED
      BY <2>1, <2>2
  <1>9. ASSUME NEW c \in Order PROVE OrderInv(c)'
    <2>1. Uncredited(c) => Uncredited(c)'
      BY <1>2, <1>7 DEF Uncredited, Labelled
    <2> QED
      BY <1>2, <1>6, <2>1 DEF CreditInv, OrderInv, Labelled
  <1> QED
    BY <1>8, <1>9 DEF CreditInv

\* The patch with a paid order's hours preserves CreditInv.
LEMMA CreditOrderCredit ==
    ASSUME TypeOK, CreditInv, NEW r \in Req, CreditOrder(r)
    PROVE  CreditInv'
  <1> DEFINE o == op[r].order
             after == SetOrderStatus(account, o, now)
             p == Diff(account, after)
  <1>1. o \in Order /\ account \in Account /\ now \in Nat
    BY DEF CreditOrder, TypeOK, OpType, At
  <1>2. /\ op'[r].patch = p /\ op'[r].order = o /\ op'[r].step = "patching"
        /\ \A q \in Req \ {r} : op'[q] = op[q]
        /\ account' = account /\ console' = console
    BY DEF CreditOrder, BeginPatch, Become, TypeOK, OpType
  <1>3. \A f \in Field : f \in DOMAIN p <=> after[f] # account[f]
    BY DEF Diff
  <1>4. \A f \in DOMAIN p : p[f] = after[f]
    BY DEF Diff
  <1> HIDE DEF p, after
  <1>5. \/ Same(account, after)
        \/ /\ Labelled(o) /\ account[St(o)] # "paid" /\ after[St(o)] = "paid"
           /\ \A f \in PurchaseField \ {St(o), "credit"} : after[f] = account[f]
           /\ \A c \in Order \ {o} : after.credit[c] = account.credit[c]
           /\ after.credit[o] \in {account.credit[o], account.credit[o] + 1}
    BY <1>1, SetOrderStatusEffect DEF after, Labelled
  <1>6. \A c \in Order :
            /\ Sn(c) \notin DOMAIN p
            /\ St(c) \in DOMAIN p => p[St(c)] = "paid"
    BY <1>1, <1>3, <1>4, <1>5, LabelFields DEF Same
  <1>7. \A c \in Order : account.credit[c] \in Nat
    BY <1>1 DEF Account
  <1>8. ASSUME NEW c \in Order, "credit" \in DOMAIN p
        PROVE  /\ p.credit[c] <= 1
               /\ Uncredited(c) => p.credit[c] = 0
               /\ p.credit[c] = 1 /\ Labelled(c) => account[St(c)] = "paid" \/ St(c) \in DOMAIN p
    <2>1. ~Same(account, after) /\ p.credit = after.credit
      BY <1>3, <1>4, <1>8, LabelFields DEF Same
    <2>2. CASE c = o
      <3>1. account.credit[o] = 0
        BY <1>1, <1>5, <1>7, <2>1 DEF CreditInv, OrderInv
      <3>2. St(o) \in DOMAIN p
        BY <1>1, <1>3, <1>5, <2>1, LabelFields
      <3> QED
        BY <1>5, <2>1, <2>2, <3>1, <3>2 DEF Uncredited
    <2>3. CASE c # o
      BY <1>5, <2>1, <2>3 DEF CreditInv, OrderInv, Uncredited
    <2> QED
      BY <2>2, <2>3
  <1>9. ASSUME NEW q \in Req PROVE PatchInv(q)'
    <2>1. CASE q = r
      BY <1>2, <1>6, <1>8, <2>1 DEF PatchInv, Labelled, Credits, At
    <2>2. CASE q # r
      BY <1>2, <2>2 DEF CreditInv, PatchInv, Labelled, At
    <2> QED
      BY <2>1, <2>2
  <1>10. ASSUME NEW c \in Order PROVE OrderInv(c)'
    <2>1. Uncredited(c) => Uncredited(c)'
      BY <1>2, <1>8 DEF Uncredited, Labelled, Credits
    <2>2. \A q \in Req : Creating(q, c)' => Creating(q, c)
      BY <1>2, <1>6 DEF Creating, At
    <2> QED
      BY <1>2, <2>1, <2>2 DEF CreditInv, OrderInv, Labelled
  <1> QED
    BY <1>9, <1>10 DEF CreditInv

\* Writing a patch preserves CreditInv, however old its Get is.
LEMMA PatchCredit ==
    ASSUME TypeOK, CreditInv, NEW r \in Req, Patch(r)
    PROVE  CreditInv'
  <1> DEFINE p == op[r].patch
             o == op[r].order
  <1>1. /\ DOMAIN op'[r].patch = {} /\ op'[r].step # "labelling"
        /\ \A q \in Req \ {r} : op'[q] = op[q]
        /\ console' = console
    BY DEF Patch, Become, TypeOK, OpType, Idle, EmptyPatch
  <1>2. \A f \in Field : account'[f] = IF f \in DOMAIN p THEN p[f] ELSE account[f]
    BY MergeFields DEF Patch
  <1>3. \A c \in Order : /\ account.credit[c] \in Nat
                         /\ "credit" \in DOMAIN p => p.credit[c] \in Nat
    <2>1. "credit" \in DOMAIN p => Merge(Registered, p).credit = p.credit
      BY MergeFields, LabelFields
    <2>2. Merge(Registered, p) \in Account /\ account \in Account
      BY DEF TypeOK, OpType, PatchType
    <2> QED
      BY <2>1, <2>2 DEF Account
  <1>4. PatchInv(r)
    BY DEF CreditInv
  <1> HIDE DEF p
  <1>5. ASSUME NEW c \in Order, Sn(c) \in DOMAIN p, Labelled(c)'
        PROVE  /\ Creating(r, c) /\ Uncredited(c) /\ account'.credit[c] = 0
    <2>1. c = o /\ "credit" \notin DOMAIN p
      BY <1>2, <1>4, <1>5, LabelFields DEF PatchInv, Labelled, p
    <2>2. Creating(r, c)
      BY <1>5, <2>1 DEF Creating, p
    <2> QED
      BY <1>2, <2>1, <2>2, LabelFields DEF CreditInv, OrderInv, Uncredited
  <1>6. ASSUME NEW c \in Order, Sn(c) \notin DOMAIN p
        PROVE  /\ Labelled(c)' => Labelled(c)
               /\ account[St(c)] = "paid" \/ St(c) \in DOMAIN p => account'[St(c)] = "paid"
    BY <1>2, <1>4, <1>6, LabelFields DEF PatchInv, Labelled, p
  <1>7. ASSUME NEW c \in Order, Uncredited(c), ~Creating(r, c)
        PROVE  Uncredited(c)'
    <2>1. ~Labelled(c)'
      BY <1>5, <1>6, <1>7 DEF Uncredited
    <2>2. account'.credit[c] = 0
      BY <1>2, <1>3, <1>4, <1>7, LabelFields DEF Uncredited, PatchInv, Credits, p
    <2>3. \A q \in Req : ~Credits(op'[q].patch, c, 1)
      BY <1>1, <1>7 DEF Uncredited, Credits
    <2> QED
      BY <2>1, <2>2, <2>3 DEF Uncredited
  <1>8. ASSUME NEW q \in Req PROVE PatchInv(q)'
    <2>1. CASE q = r
      BY <1>1, <2>1 DEF PatchInv, Credits
    <2>2. CASE q # r
      <3>1. op'[q] = op[q] /\ PatchInv(q)
        BY <1>1, <2>2 DEF CreditInv
      <3>2. ASSUME NEW c \in Order, Credits(op[q].patch, c, 1), Labelled(c)'
            PROVE  account'[St(c)] = "paid" \/ St(c) \in DOMAIN op[q].patch
        <4>1. Sn(c) \notin DOMAIN p
          BY <1>5, <3>2 DEF Uncredited
        <4> QED
          BY <1>6, <3>1, <3>2, <4>1 DEF PatchInv
      <3> QED
        BY <3>1, <3>2 DEF PatchInv, At
    <2> QED
      BY <2>1, <2>2
  <1>9. ASSUME NEW c \in Order PROVE OrderInv(c)'
    <2>1. account'.credit[c] <= 1
      BY <1>2, <1>4, LabelFields DEF CreditInv, OrderInv, PatchInv, p
    <2>2. account'.credit[c] = 1 /\ Labelled(c)' => account'[St(c)] = "paid"
      <3>1. CASE Sn(c) \in DOMAIN p
        BY <1>5, <3>1
      <3>2. CASE Sn(c) \notin DOMAIN p
        <4> SUFFICES ASSUME account'.credit[c] = 1, Labelled(c)'
                     PROVE  account[St(c)] = "paid" \/ St(c) \in DOMAIN p
          BY <1>6, <3>2
        <4>1. Labelled(c)
          BY <1>6, <3>2
        <4>2. CASE "credit" \in DOMAIN p
          BY <1>2, <1>4, <4>1, <4>2, LabelFields DEF PatchInv, Credits, p
        <4>3. CASE "credit" \notin DOMAIN p
          BY <1>2, <4>1, <4>3, LabelFields DEF CreditInv, OrderInv
        <4> QED
          BY <4>2, <4>3
      <3> QED
        BY <3>1, <3>2
    <2>3. \A q \in Req : Creating(q, c)' => Creating(q, c) /\ q # r
      BY <1>1 DEF Creating, At
    <2>4. console'[c] = "unissued" => Uncredited(c)' /\ \A q \in Req : ~Creating(q, c)'
      BY <1>1, <1>7, <2>3 DEF CreditInv, OrderInv
    <2>5. ASSUME NEW q \in Req, Creating(q, c)'
          PROVE  Uncredited(c)' /\ \A s \in Req : Creating(s, c)' => s = q
      BY <1>7, <2>3, <2>5 DEF CreditInv, OrderInv
    <2> QED
      BY <2>1, <2>2, <2>4, <2>5 DEF OrderInv
  <1> QED
    BY <1>8, <1>9 DEF CreditInv

\* A write that leaves labels, statuses and credits alone makes a quiet state.
LEMMA QuietPatch ==
    ASSUME NEW r, NEW after, NEW next, Same(account, after), r \in DOMAIN op,
           BeginPatch(r, after, next), DOMAIN op[r] = DOMAIN Idle
    PROVE  Quiet(op'[r]) /\ \A q \in DOMAIN op \ {r} : op'[q] = op[q]
  BY DiffSame DEF BeginPatch, Become, Quiet, Idle

\* A request that turns quiet leaves the others as they are.
LEMMA BecomeQuiet ==
    ASSUME DOMAIN op = Req, NEW r \in Req, NEW s, Quiet(s), Become(r, s)
    PROVE  \A q \in Req : op'[q] = op[q] \/ Quiet(op'[q])
  BY DEF Become

\* An idle request is quiet.
LEMMA QuietIdle ==
    ASSUME NEW m, NEW o, NEW u, NEW n
    PROVE  /\ Quiet([Idle EXCEPT !.step = "placing", !.mode = m])
           /\ Quiet([Idle EXCEPT !.step = "notifying", !.order = o])
           /\ Quiet([Idle EXCEPT !.step = "admitting", !.user = u])
           /\ Quiet([Idle EXCEPT !.step = "finding", !.user = u])
           /\ Quiet([Idle EXCEPT !.step = "finishing", !.next = n, !.user = u, !.order = o])
           /\ Quiet(Idle)
  BY DEF Quiet, Idle, EmptyPatch

\* The steps that touch neither labels nor credits are quiet.
LEMMA QuietActions ==
    ASSUME TypeOK, CreditInv, NEW r \in Req,
           \/ \E mode \in Mode : BeginBuy(r, mode)
           \/ \E o \in Order : Notify(r, o)
           \/ RefuseOrder(r)
           \/ Admission(r)
           \/ Refund(r)
           \/ Abort(r)
    PROVE  /\ Same(account, account')
           /\ \A o \in Order : console'[o] = "unissued" => console[o] = "unissued"
           /\ \A q \in Req : op'[q] = op[q] \/ Quiet(op'[q])
  <1>1. account \in Account /\ op[r].user \in Views /\ DOMAIN op = Req /\ DOMAIN op[r] = DOMAIN Idle
    BY DEF TypeOK, OpType, Idle
  <1>2. Same(account, account)
    BY DEF Same
  <1>3. op[r].step # "patching" => DOMAIN op[r].patch = {}
    BY DEF CreditInv, PatchInv, At
  <1>4. ASSUME NEW mode \in Mode, BeginBuy(r, mode)
        PROVE  account' = account /\ console' = console
               /\ \A q \in Req : op'[q] = op[q] \/ Quiet(op'[q])
    BY <1>1, <1>4, QuietIdle, BecomeQuiet DEF BeginBuy
  <1>5. ASSUME NEW o \in Order, Notify(r, o)
        PROVE  account' = account /\ console' = console
               /\ \A q \in Req : op'[q] = op[q] \/ Quiet(op'[q])
    BY <1>1, <1>5, QuietIdle, BecomeQuiet DEF Notify
  <1>6. CASE RefuseOrder(r) \/ Abort(r)
    BY <1>1, <1>2, <1>6, QuietIdle, BecomeQuiet DEF RefuseOrder, Abort
  <1>7. CASE Admission(r)
    <2>1. CASE CheckResource(r)
      BY <1>1, <1>2, <2>1, QuietIdle, BecomeQuiet DEF CheckResource
    <2>2. CASE Login(r)
      <3>1. Same(account, account')
        BY <1>1, <2>2, OthersSame DEF Login
      <3>2. op' = op \/ Become(r, [Idle EXCEPT !.step = "admitting", !.user = View(account')])
        BY <2>2 DEF Login
      <3>3. \A q \in Req : op'[q] = op[q] \/ Quiet(op'[q])
        BY <1>1, <3>2, QuietIdle, BecomeQuiet
      <3> QED
        BY <2>2, <3>1, <3>3 DEF Login
    <2>3. CASE Admit(r)
      <3>1. Same(account, SetOverMode(account, op[r].user))
        BY <1>1, OthersSame
      <3> QED
        BY <1>1, <1>2, <2>3, <3>1, QuietPatch DEF Admit
    <2> QED
      BY <1>7, <2>1, <2>2, <2>3 DEF Admission
  <1>8. CASE Refund(r)
    <2>1. CASE RefundStart(r)
      BY <1>1, <1>2, <2>1, QuietIdle, BecomeQuiet DEF RefundStart
    <2>2. CASE RefundFind(r)
      <3>1. DOMAIN op[r].patch = {}
        BY <1>3, <2>2 DEF RefundFind, At
      <3>2. \A o : Quiet([op[r] EXCEPT !.step = "locking", !.order = o])
        BY <1>1, <3>1 DEF Quiet, Idle
      <3> QED
        BY <1>1, <1>2, <2>2, <3>2, QuietIdle, BecomeQuiet DEF RefundFind
    <2>3. CASE RefundFinish(r)
      <3>1. DOMAIN op[r].patch = {}
        BY <1>3, <2>3 DEF RefundFinish, At
      <3>2. Quiet([op[r] EXCEPT !.step = "processing"])
        BY <1>1, <3>1 DEF Quiet, Idle
      <3>3. \A o \in Order : console'[o] = "unissued" => console[o] = "unissued"
        BY <2>3 DEF RefundFinish, TypeOK
      <3> QED
        BY <1>1, <1>2, <2>3, <3>2, <3>3, BecomeQuiet DEF RefundFinish
    <2>4. CASE RefundLock(r)
      <3>1. Same(account, LockReturn(account, op[r].user, op[r].order, now))
        BY <1>1, OthersSame
      <3> QED
        BY <1>1, <1>2, <2>4, <3>1, QuietPatch DEF RefundLock
    <2>5. CASE RefundProcess(r)
      <3>1. Same(account, ProcessReturn(account, op[r].user))
        BY <1>1, OthersSame
      <3>2. \A v : Quiet([op[r] EXCEPT
                !.step = "patching", !.user.quota = v,
                !.patch = Diff(account, ProcessReturn(account, op[r].user))])
        BY <1>1, <3>1, DiffSame DEF Quiet, Idle
      <3> QED
        BY <1>1, <1>2, <2>5, <3>2, BecomeQuiet DEF RefundProcess
    <2> QED
      BY <1>8, <2>1, <2>2, <2>3, <2>4, <2>5 DEF Refund
  <1> QED
    BY <1>2, <1>4, <1>5, <1>6, <1>7, <1>8

\* Every step preserves CreditInv.
LEMMA NextCredit == TypeOK /\ CreditInv /\ [Next]_vars => CreditInv'
  <1> SUFFICES ASSUME TypeOK, CreditInv, [Next]_vars PROVE CreditInv'
    OBVIOUS
  <1>1. Same(account, account)
    BY DEF Same
  <1>2. CASE UNCHANGED vars
    BY <1>1, <1>2, QuietStep DEF vars
  <1>3. ASSUME NEW r \in Req, Buying(r) PROVE CreditInv'
    BY <1>3, PlaceOrderCredit, LabelOrderCredit, CreditOrderCredit, QuietActions, QuietStep
       DEF Buying
  <1>4. ASSUME NEW r \in Req, Admission(r) \/ Refund(r) \/ Abort(r) PROVE CreditInv'
    BY <1>4, QuietActions, QuietStep
  <1>5. ASSUME NEW r \in Req, Patch(r) PROVE CreditInv'
    BY <1>5, PatchCredit
  <1>6. ASSUME NEW o \in Order, Pay(o) \/ RequestRefund(o) PROVE CreditInv'
    <2>1. \A c \in Order : console'[c] = "unissued" => console[c] = "unissued"
      BY <1>6 DEF Pay, RequestRefund, TypeOK
    <2> QED
      BY <1>1, <1>6, <2>1, QuietStep DEF Pay, RequestRefund
  <1>7. CASE Tick
    BY <1>1, <1>7, QuietStep DEF Tick
  <1> QED
    BY <1>2, <1>3, <1>4, <1>5, <1>6, <1>7 DEF Next

\* The invariant that explains why hours are credited once: labels are
\* written once, and an account or a patch that counts an order's hours goes
\* with the paid status.
THEOREM CreditSafe == Spec => []CreditInv
  <1>1. Init => TypeOK /\ CreditInv
    BY InitType, InitCredit
  <1>2. TypeOK /\ CreditInv /\ [Next]_vars => (TypeOK /\ CreditInv)'
    BY NextType, NextCredit
  <1> QED
    BY <1>1, <1>2, PTL DEF Spec

\* No paid order's hours are added to the expiry time twice, whatever
\* notices are handled at the same time, repeated or late.
THEOREM CreditOnce == Spec => []CreditedOnce
  <1>1. CreditInv => CreditedOnce
    BY DEF CreditInv, OrderInv, CreditedOnce
  <1> QED
    BY <1>1, CreditSafe, PTL
=============================================================================
