------------------------- MODULE TenantServerProofs -------------------------
(***************************************************************************)
(* For any number of concurrent updates, any quotas and any number of      *)
(* failures: the types, and that nothing starts the server of a paused     *)
(* tenant.                                                                 *)
(***************************************************************************)
EXTENDS TenantServer, TLAPS

-----------------------------------------------------------------------------
(* Updates *)

LEMMA NewType == ASSUME NEW u \in Updates PROVE New(u) \in Account
  BY DEF New, With, Updates, Account

LEMMA SettleType ==
  ASSUME NEW u \in Updates
  PROVE Settle(u) \in Updates \union {NoWrite}
  BY DEF Settle

LEMMA RunningType ==
  ASSUME TypeOK, NEW w \in Write, Running(w)
  PROVE write[w] \in Updates
  BY DEF TypeOK, Running

LEMMA OpenRuns ==
  ASSUME NEW w \in Write, Open(w)
  PROVE Running(w)
  BY DEF Open, Running, NoWrite

(* The StatefulSet *)

LEMMA HookType ==
  ASSUME NEW s \in Servers, seen \in Account
  PROVE HandleStatefulSet(s) \in Servers
<1> DEFINE template == IF s.create = "none" THEN s.template ELSE s.create
           replicas == IF s.create = "false" THEN 0 ELSE s.replicas
<1>1. Limits(seen) \in AnyLimits
  BY DEF AnyLimits
<1>2. template \in Annotation /\ replicas \in 0..1
  BY DEF Servers, Annotation
<1>3. HandleStatefulSet(s) = [s EXCEPT !.limits = Limits(seen), !.template = template,
                                       !.replicas = replicas]
  BY DEF HandleStatefulSet, Servers
<1> HIDE DEF template, replicas
<1>4. QED
  BY <1>1, <1>2, <1>3 DEF Servers

LEMMA WriteServerType ==
  ASSUME TypeOK, NEW s \in Servers, NEW hooked \in BOOLEAN, WriteServer(s, hooked)
  PROVE server' \in Servers /\ pod' \in Pods
<1>1. server' \in Servers
  BY HookType DEF WriteServer, TypeOK
<1>2. QED
  BY <1>1 DEF WriteServer, TypeOK, Pods

LEMMA AskedType ==
  ASSUME TypeOK, NEW hooked \in BOOLEAN, Asked(hooked)
  PROVE faults' \in Nat
  BY DEF Asked, Fail, TypeOK

-----------------------------------------------------------------------------
(* Types *)

LEMMA SettledType ==
  ASSUME TypeOK, NEW w \in Write, NEW u \in Updates,
         write' = [write EXCEPT ![w] = Settle(u)]
  PROVE write' \in [Write -> Updates \union {NoWrite}]
  BY SettleType DEF TypeOK

LEMMA BeginUpdateType ==
  ASSUME TypeOK, NEW w \in Write, NEW field \in Field, NEW to \in Account,
         NEW hooked \in BOOLEAN, BeginUpdate(w, field, to, hooked)
  PROVE TypeOK'
<1>1. write' \in [Write -> Updates \union {NoWrite}]
  BY DEF BeginUpdate, TypeOK, Updates
<1>2. changes' \in Nat
  BY DEF BeginUpdate, TypeOK
<1>3. faults' \in Nat
  BY AskedType DEF BeginUpdate
<1>4. QED
  BY <1>1, <1>2, <1>3 DEF BeginUpdate, TypeOK

LEMMA HandleServiceAccountType ==
  ASSUME TypeOK, NEW w \in Write, HandleServiceAccount(w)
  PROVE TypeOK'
<1> DEFINE armed == IF QuotaChanged(write[w]) THEN write[w].armed + 1 ELSE write[w].armed
           step == IF PauseChanged(write[w]) THEN "pause" ELSE "done"
           u == [write[w] EXCEPT !.armed = armed, !.step = step]
<1>1. write[w] \in Updates
  BY RunningType DEF HandleServiceAccount, At
<1>2. armed \in Nat /\ step \in {"pause", "done"}
  BY <1>1 DEF Updates
<1>3. write' = [write EXCEPT ![w] = Settle(u)]
  BY <1>1 DEF HandleServiceAccount, TypeOK
<1>4. u \in Updates
  <2> HIDE DEF armed, step
  <2>1. QED
    BY <1>1, <1>2 DEF Updates
<1> HIDE DEF u
<1>5. write' \in [Write -> Updates \union {NoWrite}]
  BY <1>3, <1>4, SettledType
<1>6. QED
  BY <1>5 DEF HandleServiceAccount, TypeOK

LEMMA DoPauseType ==
  ASSUME TypeOK, NEW w \in Write, NEW hooked \in BOOLEAN, DoPause(w, hooked)
  PROVE TypeOK'
<1> DEFINE paused == New(write[w]).pause
           val == CreatePod(paused)
           create == IF seenServer.create = val THEN server.create ELSE val
           template == IF seenServer.template = val THEN server.template ELSE val
           diff == [server EXCEPT !.create = create, !.template = template, !.own = FALSE]
           u == [write[w] EXCEPT !.step = IF paused THEN "delete" ELSE "done"]
<1>1. write[w] \in Updates
  BY RunningType DEF DoPause, At
<1>2. u \in Updates
  BY <1>1 DEF Updates
<1>3. write' = [write EXCEPT ![w] = Settle(u)]
  BY <1>1 DEF DoPause, TypeOK
<1>4. create \in Annotation /\ template \in Annotation
  BY DEF TypeOK, Servers, Annotation, CreatePod
<1>5. diff \in Servers
  <2> HIDE DEF create, template
  <2>1. QED
    BY <1>4 DEF TypeOK, Servers
<1>6. \/ UNCHANGED <<server, pod, faults>>
      \/ Asked(hooked) /\ WriteServer(diff, hooked)
  BY DEF DoPause
<1> HIDE DEF diff, u
<1>7. server' \in Servers /\ pod' \in Pods /\ faults' \in Nat
  BY <1>5, <1>6, WriteServerType, AskedType DEF TypeOK
<1>8. write' \in [Write -> Updates \union {NoWrite}]
  BY <1>2, <1>3, SettledType
<1>9. missed' \subseteq {"pause", "quota"}
  BY DEF DoPause, TypeOK
<1>10. QED
  BY <1>7, <1>8, <1>9 DEF DoPause, TypeOK

LEMMA DoPauseFailsType ==
  ASSUME TypeOK, NEW w \in Write, DoPauseFails(w)
  PROVE TypeOK'
<1> DEFINE u == [write[w] EXCEPT !.step = "done"]
<1>1. write[w] \in Updates
  BY RunningType DEF DoPauseFails, At
<1>2. u \in Updates
  BY <1>1 DEF Updates
<1>3. write' = [write EXCEPT ![w] = Settle(u)]
  BY DEF DoPauseFails, TypeOK
<1>4. write' \in [Write -> Updates \union {NoWrite}]
  BY <1>2, <1>3, SettledType
<1>5. QED
  BY <1>4 DEF DoPauseFails, TypeOK, Fail

LEMMA NoPodType == NoPod \in Pods
  BY DEF NoPod, Pods, AnyLimits

LEMMA DeletePodType ==
  ASSUME TypeOK, NEW w \in Write, DeletePod(w)
  PROVE TypeOK'
<1> DEFINE u == [write[w] EXCEPT !.step = "done"]
<1>1. write[w] \in Updates
  BY RunningType DEF DeletePod, At
<1>2. u \in Updates
  BY <1>1 DEF Updates
<1>3. write' = [write EXCEPT ![w] = Settle(u)]
  BY DEF DeletePod, TypeOK
<1>4. write' \in [Write -> Updates \union {NoWrite}]
  BY <1>2, <1>3, SettledType
<1>5. pod' \in Pods /\ faults' \in Nat
  BY NoPodType DEF DeletePod, TypeOK, Fail
<1>6. QED
  BY <1>4, <1>5 DEF DeletePod, TypeOK

LEMMA TimeOutType ==
  ASSUME TypeOK, NEW w \in Write, TimeOut(w)
  PROVE TypeOK'
<1>1. write[w] \in Updates
  BY RunningType DEF TimeOut
<1>2. [write[w] EXCEPT !.waits = FALSE] \in Updates
  BY <1>1 DEF Updates
<1>3. QED
  BY <1>2 DEF TimeOut, TypeOK, Fail

LEMMA StoreType ==
  ASSUME TypeOK, NEW w \in Write, Store(w)
  PROVE TypeOK'
<1>1. \A v \in Write : Open(v) => write[v] \in Updates
  BY RunningType, OpenRuns
<1>2. write[w] \in Updates
  BY <1>1 DEF Store, Answered
<1>3. [write[w] EXCEPT !.stage = "stored"] \in Updates
  BY <1>2 DEF Updates
<1>4. \A v \in Write : Open(v) =>
         [write[v] EXCEPT !.latest = @ /\ account' = account] \in Updates
  BY <1>1 DEF Updates
<1>5. write' \in [Write -> Updates \union {NoWrite}]
  <2>1. ASSUME NEW v \in Write PROVE write'[v] \in Updates \union {NoWrite}
    BY <1>3, <1>4, SettleType DEF Store, TypeOK
  <2>2. QED
    BY <2>1 DEF Store
<1>6. account' \in Account
  BY <1>2, NewType DEF Store
<1>7. missed' \subseteq {"pause", "quota"}
  BY DEF Store, TypeOK, Lost
<1>8. QED
  BY <1>5, <1>6, <1>7 DEF Store, TypeOK

LEMMA ReapplyType ==
  ASSUME TypeOK, NEW w \in Write, NEW hooked \in BOOLEAN, Reapply(w, hooked)
  PROVE TypeOK'
<1> DEFINE u == [write[w] EXCEPT !.old = account, !.latest = TRUE, !.waits = hooked,
                                 !.step = IF hooked THEN "admit" ELSE "skipped"]
<1>1. write[w] \in Updates
  BY RunningType, OpenRuns DEF Reapply, Conflict, Answered
<1>2. u \in Updates
  BY <1>1 DEF Updates, TypeOK
<1>3. write' = [write EXCEPT ![w] = u]
  BY DEF Reapply, TypeOK
<1>4. faults' \in Nat
  BY AskedType DEF Reapply
<1> HIDE DEF u
<1>5. write' \in [Write -> Updates \union {NoWrite}]
  BY <1>2, <1>3 DEF TypeOK
<1>6. missed' \subseteq {"pause", "quota"}
  BY DEF Reapply, Conflict, TypeOK
<1>7. QED
  BY <1>4, <1>5, <1>6 DEF Reapply, TypeOK

LEMMA RefuseType ==
  ASSUME TypeOK, NEW w \in Write, Refuse(w)
  PROVE TypeOK'
<1> DEFINE u == [write[w] EXCEPT !.stage = "refused"]
<1>1. write[w] \in Updates
  BY RunningType, OpenRuns DEF Refuse, Conflict, Answered
<1>2. u \in Updates
  BY <1>1 DEF Updates
<1>3. write' = [write EXCEPT ![w] = Settle(u)]
  BY DEF Refuse, TypeOK
<1>4. write' \in [Write -> Updates \union {NoWrite}]
  BY <1>2, <1>3, SettledType
<1>5. missed' \subseteq {"pause", "quota"}
  BY DEF Refuse, Conflict, TypeOK
<1>6. QED
  BY <1>4, <1>5 DEF Refuse, TypeOK

LEMMA RestartType ==
  ASSUME TypeOK, NEW w \in Write, NEW hooked \in BOOLEAN, Restart(w, hooked)
  PROVE TypeOK'
<1> DEFINE u == [write[w] EXCEPT !.armed = @ - 1]
           s == [server EXCEPT !.own = FALSE]
<1>1. write[w] \in Updates /\ write[w].armed > 0
  BY RunningType DEF Restart
<1>2. u \in Updates
  BY <1>1 DEF Updates
<1>3. write' = [write EXCEPT ![w] = Settle(u)]
  BY DEF Restart, TypeOK
<1>4. s \in Servers
  BY DEF TypeOK, Servers
<1>5. WriteServer(s, hooked)
  BY DEF Restart
<1> HIDE DEF s, u
<1>6. server' \in Servers /\ pod' \in Pods
  BY <1>4, <1>5, WriteServerType
<1>7. write' \in [Write -> Updates \union {NoWrite}]
  BY <1>2, <1>3, SettledType
<1>8. faults' \in Nat
  BY AskedType DEF Restart
<1>9. missed' \subseteq {"pause", "quota"}
  BY DEF Restart, TypeOK
<1>10. QED
  BY <1>6, <1>7, <1>8, <1>9 DEF Restart, TypeOK

LEMMA RestartFailsType ==
  ASSUME TypeOK, NEW w \in Write, RestartFails(w)
  PROVE TypeOK'
<1> DEFINE u == [write[w] EXCEPT !.armed = @ - 1]
<1>1. write[w] \in Updates /\ write[w].armed > 0
  BY RunningType DEF RestartFails
<1>2. u \in Updates
  BY <1>1 DEF Updates
<1>3. write' = [write EXCEPT ![w] = Settle(u)]
  BY DEF RestartFails, TypeOK
<1>4. write' \in [Write -> Updates \union {NoWrite}]
  BY <1>2, <1>3, SettledType
<1>5. QED
  BY <1>4 DEF RestartFails, TypeOK, Fail

LEMMA OperatorType ==
  ASSUME TypeOK, NEW hooked \in BOOLEAN, Operator(hooked)
  PROVE TypeOK'
<1> DEFINE fresh == [create |-> server.create, own |-> TRUE, template |-> Plain.template,
                     limits |-> Plain.limits, replicas |-> Plain.replicas]
<1>1. fresh \in Servers
  BY DEF TypeOK, Servers, Plain, AnyLimits, Annotation
<1>2. WriteServer(fresh, hooked)
  BY DEF Operator
<1> HIDE DEF fresh
<1>3. server' \in Servers /\ pod' \in Pods
  BY <1>1, <1>2, WriteServerType
<1>4. faults' \in Nat
  BY AskedType DEF Operator
<1>5. missed' \subseteq {"pause", "quota"}
  BY DEF Operator, TypeOK
<1>6. QED
  BY <1>3, <1>4, <1>5 DEF Operator, TypeOK

LEMMA CreateServerPodType ==
  ASSUME TypeOK, NEW hooked \in BOOLEAN, CreateServerPod(hooked)
  PROVE TypeOK'
<1>1. pod' \in Pods
  BY DEF CreateServerPod, TypeOK, Pods, Servers, Account
<1>2. faults' \in Nat
  BY AskedType DEF CreateServerPod
<1>3. missed' \subseteq {"pause", "quota"}
  BY DEF CreateServerPod, TypeOK
<1>4. QED
  BY <1>1, <1>2, <1>3 DEF CreateServerPod, TypeOK

LEMMA CrashedType ==
  ASSUME NEW u \in Updates \union {NoWrite}
  PROVE Crashed(u) \in Updates \union {NoWrite}
<1> DEFINE v == [u EXCEPT !.armed = 0,
                          !.step = IF @ \in {"delete", "done"} THEN "done" ELSE "skipped",
                          !.waits = @ /\ u.step \notin {"admit", "pause"}]
<1>1. CASE u = NoWrite
  BY <1>1 DEF Crashed
<1>2. CASE u # NoWrite
  <2>1. v \in Updates
    BY <1>2 DEF Updates
  <2>2. Crashed(u) = Settle(v)
    BY <1>2 DEF Crashed
  <2> HIDE DEF v
  <2>3. QED
    BY <2>1, <2>2, SettleType
<1>3. QED
  BY <1>1, <1>2

LEMMA CrashType == ASSUME TypeOK, Crash PROVE TypeOK'
<1>1. write' \in [Write -> Updates \union {NoWrite}]
  BY CrashedType DEF Crash, TypeOK
<1>2. missed' \subseteq {"pause", "quota"}
  BY DEF Crash, TypeOK, LostInCrash, Lost
<1>3. /\ up' \in BOOLEAN
      /\ UNCHANGED <<account, seen, server, seenServer, pod, changes>>
  BY DEF Crash
<1>4. faults' \in Nat
  BY DEF Crash, Fail, TypeOK
<1>5. QED
  BY <1>1, <1>2, <1>3, <1>4 DEF TypeOK

LEMMA SyncType ==
  ASSUME TypeOK, SyncAccount \/ SyncServer \/ Recover \/ DeleteServerPod
  PROVE TypeOK'
<1>1. Cached(server) \in [create : Annotation, template : Annotation]
  BY DEF Cached, TypeOK, Servers
<1>2. QED
  BY <1>1, NoPodType DEF SyncAccount, SyncServer, Recover, DeleteServerPod, TypeOK

\* A step by its action.
LEMMA NextCases ==
  ASSUME Next
  PROVE \/ \E w \in Write, field \in Field, to \in Account, h \in BOOLEAN :
              BeginUpdate(w, field, to, h)
        \/ \E w \in Write : \/ HandleServiceAccount(w) \/ DeletePod(w) \/ DoPauseFails(w)
                            \/ TimeOut(w) \/ Store(w) \/ Refuse(w) \/ RestartFails(w)
        \/ \E w \in Write, h \in BOOLEAN : DoPause(w, h) \/ Reapply(w, h) \/ Restart(w, h)
        \/ \E h \in BOOLEAN : Operator(h) \/ CreateServerPod(h)
        \/ DeleteServerPod \/ SyncAccount \/ SyncServer \/ Recover \/ Crash
  BY DEF Next, Handle, Decide

LEMMA InitType == Init => TypeOK
<1> SUFFICES ASSUME Init PROVE TypeOK
  OBVIOUS
<1>1. account \in Account /\ account.hard \in Hard
  BY DEF Init, Account
<1>2. Limits(account) \in AnyLimits
  BY <1>1 DEF AnyLimits
<1>3. server \in Servers /\ pod \in Pods
  BY <1>1, <1>2 DEF Init, Servers, Pods, Annotation
<1>4. changes \in Nat /\ faults \in Nat
  BY BoundAssumption DEF Init
<1>5. QED
  BY <1>1, <1>3, <1>4 DEF Init, TypeOK, Annotation

LEMMA NextType == TypeOK /\ [Next]_vars => TypeOK'
<1> SUFFICES ASSUME TypeOK, [Next]_vars PROVE TypeOK'
  OBVIOUS
<1>1. CASE UNCHANGED vars
  BY <1>1 DEF vars, TypeOK
<1>2. CASE Next
  BY <1>2, NextCases, BeginUpdateType, HandleServiceAccountType, DeletePodType,
     DoPauseFailsType, TimeOutType, StoreType, RefuseType, RestartFailsType, DoPauseType,
     ReapplyType, RestartType, OperatorType, CreateServerPodType, SyncType, CrashType
<1>3. QED
  BY <1>1, <1>2

\* Whatever updates, failures and restarts come together, the state keeps its
\* types, and the StatefulSet has limits that some account asks for: they are
\* computed from the account alone (types.go:70-101, statefulset.go:133-145).
THEOREM ServerTypes == Spec => []TypeOK
  BY InitType, NextType, PTL DEF Spec

-----------------------------------------------------------------------------
(* The server of a paused tenant *)

LEMMA SameChange ==
  ASSUME NEW u, NEW v, v.field = u.field, v.to = u.to, v.old = u.old
  PROVE New(v) = New(u) /\ (PauseChanged(v) <=> PauseChanged(u))
  BY DEF New, PauseChanged

LEMMA AfterSettle ==
  ASSUME TypeOK, NEW w \in Write, NEW u \in Updates,
         write' = [write EXCEPT ![w] = Settle(u)]
  PROVE /\ write'[w] # NoWrite => write'[w] = u
        /\ u.stage = "open" => write'[w] = u
        /\ \A v \in Write : v # w => write'[v] = write[v]
  BY DEF Settle, TypeOK

\* A step of the handler or of a timer, that is about an update which goes on
\* as u: what is left to show is what becomes of the StatefulSet.
Goes(u, w) ==
    /\ u \in Updates /\ write' = [write EXCEPT ![w] = Settle(u)]
    /\ u.stage = write[w].stage /\ u.field = write[w].field /\ u.to = write[w].to
    /\ u.old = write[w].old /\ u.latest = write[w].latest /\ u.waits = write[w].waits

LEMMA GoesShaped ==
  ASSUME TypeOK, DownInv, UNCHANGED account, NEW w \in Write, Running(w), NEW u, Goes(u, w),
         \/ u.step = write[w].step
         \/ u.step = "done"
         \/ ~Open(w) => ~write[w].waits,
         u.step \in {"pause", "delete"} => PauseChanged(write[w])
  PROVE \A v \in Write : Shaped(v)'
<1> SUFFICES ASSUME NEW v \in Write PROVE Shaped(v)'
  OBVIOUS
<1>1. CASE v # w
  <2>1. write'[v] = write[v]
    BY <1>1, AfterSettle DEF Goes
  <2>2. QED
    BY <2>1 DEF DownInv, Shaped, Open, Running
<1>2. CASE v = w /\ write'[w] # NoWrite
  <2>1. write'[w] = u
    BY <1>2, AfterSettle DEF Goes
  <2>2. PauseChanged(u) <=> PauseChanged(write[w])
    BY SameChange DEF Goes
  <2>3. QED
    BY <1>2, <2>1, <2>2 DEF DownInv, Shaped, Open, Running, Goes
<1>3. CASE v = w /\ write'[w] = NoWrite
  BY <1>3 DEF Shaped, Open, Running, NoWrite
<1>4. QED
  BY <1>1, <1>2, <1>3

\* The same for the second part, when the step does not set the pause.
LEMMA GoesDown ==
  ASSUME TypeOK, DownInv, UNCHANGED account, NEW w \in Write, Running(w), NEW u, Goes(u, w),
         "pause" \in missed => "pause" \in missed',
         Kept => Down',
         Unpausing(w) => u.step = "done",
         /\ Open(w) /\ write[w].latest /\ u.step \in {"delete", "done"}
         /\ PauseChanged(write[w]) /\ New(write[w]).pause
         => write[w].step \in {"delete", "done"} \/ Down'
  PROVE account'.pause \/ (\E v \in Write : Pausing(v)') => Down'
<1>1. New(u) = New(write[w]) /\ (PauseChanged(u) <=> PauseChanged(write[w]))
  BY SameChange DEF Goes
<1>2. ASSUME NEW v \in Write, Unpausing(v) PROVE Unpausing(v)'
  <2>1. CASE v = w
    <3>1. write'[w] = u
      BY <1>2, <2>1, AfterSettle DEF Goes, Unpausing, Open
    <3>2. u.stage = "open" /\ u.step = "done" /\ PauseChanged(u) /\ ~New(u).pause
      BY <1>1, <1>2, <2>1 DEF Goes, Unpausing, Open
    <3>3. QED
      BY <2>1, <3>1, <3>2 DEF Unpausing, Open, At, Running, NoWrite
  <2>2. CASE v # w
    <3>1. write'[v] = write[v]
      BY <2>2, AfterSettle DEF Goes
    <3>2. QED
      BY <1>2, <3>1 DEF Unpausing, Open, At, Running
  <2>3. QED
    BY <2>1, <2>2
<1>3. Down => Down'
  BY <1>2 DEF Down
<1>4. ASSUME NEW v \in Write, Pausing(v)' PROVE Pausing(v) \/ Down'
  <2>1. CASE v = w
    <3> write'[w].stage = "open"
      BY <1>4, <2>1 DEF Pausing, Open
    <3> write'[w] # NoWrite
      BY DEF NoWrite
    <3>1. write'[w] = u
      BY AfterSettle DEF Goes
    <3>2. /\ u.stage = "open" /\ u.latest /\ u.step \in {"delete", "done"}
          /\ PauseChanged(u) /\ New(u).pause
      BY <1>4, <2>1, <3>1 DEF Pausing, Open
    <3>3. /\ Open(w) /\ write[w].latest
          /\ PauseChanged(write[w]) /\ New(write[w]).pause
      BY <1>1, <3>2 DEF Goes, Open
    <3>4. QED
      BY <2>1, <3>2, <3>3 DEF Pausing
  <2>2. CASE v # w
    <3>1. write'[v] = write[v]
      BY <2>2, AfterSettle DEF Goes
    <3>2. QED
      BY <1>4, <3>1 DEF Pausing, Open
  <2>3. QED
    BY <2>1, <2>2
<1>5. QED
  BY <1>3, <1>4 DEF DownInv

LEMMA WriteKept ==
  ASSUME NEW s \in Servers, NEW hooked \in BOOLEAN, WriteServer(s, hooked),
         s.create = "false", hooked \/ s.template = "false"
  PROVE Kept'
<1>1. HandleStatefulSet(s).create = "false" /\ HandleStatefulSet(s).template = "false"
  BY DEF HandleStatefulSet, Servers
<1>2. QED
  BY <1>1 DEF WriteServer, Kept

LEMMA HandleServiceAccountDown ==
  ASSUME TypeOK, DownInv, NEW w \in Write, HandleServiceAccount(w)
  PROVE DownInv'
<1> DEFINE armed == IF QuotaChanged(write[w]) THEN write[w].armed + 1 ELSE write[w].armed
           step == IF PauseChanged(write[w]) THEN "pause" ELSE "done"
           u == [write[w] EXCEPT !.armed = armed, !.step = step]
<1>1. write[w] \in Updates /\ Running(w) /\ write[w].step = "admit" /\ UNCHANGED account
  BY RunningType DEF HandleServiceAccount, At
<1>2. armed \in Nat /\ step \in {"pause", "done"}
  BY <1>1 DEF Updates
<1>3. write' = [write EXCEPT ![w] = Settle(u)]
  BY <1>1 DEF HandleServiceAccount, TypeOK
<1>4. Goes(u, w) /\ u.step = step
  <2> HIDE DEF armed, step
  <2>1. QED
    BY <1>1, <1>2, <1>3 DEF Goes, Updates
<1> HIDE DEF u
<1>5. ~Open(w) => ~write[w].waits
  BY <1>1 DEF DownInv, Shaped
<1>6. \A v \in Write : Shaped(v)'
  BY <1>1, <1>4, <1>5, GoesShaped
<1>7. "pause" \in missed => "pause" \in missed'
  BY DEF HandleServiceAccount
<1>8. Kept => Down'
  BY DEF HandleServiceAccount, Kept, Down
<1>9. ~Unpausing(w)
  BY <1>1 DEF Unpausing, At
<1>10. account'.pause \/ (\E v \in Write : Pausing(v)') => Down'
  BY <1>1, <1>4, <1>7, <1>8, <1>9, GoesDown
<1>11. QED
  BY <1>6, <1>10 DEF DownInv

LEMMA DoPauseDown ==
  ASSUME TypeOK, DownInv, NEW w \in Write, NEW hooked \in BOOLEAN, DoPause(w, hooked)
  PROVE DownInv'
<1> DEFINE paused == New(write[w]).pause
           u == [write[w] EXCEPT !.step = IF paused THEN "delete" ELSE "done"]
<1>1. write[w] \in Updates /\ Running(w) /\ write[w].step = "pause" /\ UNCHANGED account
  BY RunningType DEF DoPause, At
<1>2. write' = [write EXCEPT ![w] = Settle(u)]
  BY DEF DoPause, TypeOK
<1>3. Goes(u, w) /\ u.step = IF paused THEN "delete" ELSE "done"
  BY <1>1, <1>2 DEF Goes, Updates
<1>4. PauseChanged(write[w]) /\ (~Open(w) => ~write[w].waits)
  BY <1>1 DEF DownInv, Shaped
<1>5. New(u) = New(write[w]) /\ (PauseChanged(u) <=> PauseChanged(write[w]))
  BY <1>3, SameChange DEF Goes
<1> HIDE DEF u
<1>6. \A v \in Write : Shaped(v)'
  BY <1>1, <1>3, <1>4, GoesShaped
<1>7. CASE "pause" \in missed'
  BY <1>6, <1>7 DEF DownInv, Down
<1>8. CASE "pause" \notin missed'
  <2>1. server'.create = CreatePod(paused) /\ server'.template = CreatePod(paused)
        /\ write[w].waits
    BY <1>8 DEF DoPause
  <2>2. CASE paused
    <3>1. Kept'
      BY <2>1, <2>2 DEF Kept, CreatePod
    <3>2. QED
      BY <1>6, <3>1 DEF DownInv, Down
  <2>3. CASE ~paused
    <3>1. u.stage = "open" /\ u.step = "done"
      BY <1>3, <1>4, <2>1, <2>3 DEF Goes, Open
    <3>2. write'[w] = u
      BY <1>3, <3>1, AfterSettle DEF Goes
    <3>3. PauseChanged(u) /\ ~New(u).pause
      BY <1>4, <1>5, <2>3
    <3>4. Unpausing(w)'
      BY <3>1, <3>2, <3>3 DEF Unpausing, Open, At, Running, NoWrite
    <3>5. QED
      BY <1>6, <3>4 DEF DownInv, Down
  <2>4. QED
    BY <2>2, <2>3
<1>9. QED
  BY <1>7, <1>8

LEMMA DoPauseFailsDown ==
  ASSUME TypeOK, DownInv, NEW w \in Write, DoPauseFails(w)
  PROVE DownInv'
<1> DEFINE u == [write[w] EXCEPT !.step = "done"]
<1>1. write[w] \in Updates /\ Running(w) /\ UNCHANGED account
  BY RunningType DEF DoPauseFails, At
<1>2. Goes(u, w) /\ u.step = "done"
  BY <1>1 DEF Goes, Updates, DoPauseFails, TypeOK
<1> HIDE DEF u
<1>3. \A v \in Write : Shaped(v)'
  BY <1>1, <1>2, GoesShaped
<1>4. Down'
  BY DEF DoPauseFails, Down
<1>5. QED
  BY <1>3, <1>4 DEF DownInv

LEMMA DeletePodDown ==
  ASSUME TypeOK, DownInv, NEW w \in Write, DeletePod(w)
  PROVE DownInv'
<1> DEFINE u == [write[w] EXCEPT !.step = "done"]
<1>1. write[w] \in Updates /\ Running(w) /\ write[w].step = "delete"
      /\ UNCHANGED <<account, server, missed>>
  BY RunningType DEF DeletePod, At
<1>2. Goes(u, w) /\ u.step = "done"
  BY <1>1 DEF Goes, Updates, DeletePod, TypeOK
<1> HIDE DEF u
<1>3. \A v \in Write : Shaped(v)'
  BY <1>1, <1>2, GoesShaped
<1>4. Kept => Down'
  BY <1>1 DEF Kept, Down
<1>5. account'.pause \/ (\E v \in Write : Pausing(v)') => Down'
  BY <1>1, <1>2, <1>4, GoesDown
<1>6. QED
  BY <1>3, <1>5 DEF DownInv

LEMMA RestartDown ==
  ASSUME TypeOK, DownInv, NEW w \in Write, NEW hooked \in BOOLEAN,
         Restart(w, hooked) \/ RestartFails(w)
  PROVE DownInv'
<1> DEFINE u == [write[w] EXCEPT !.armed = @ - 1]
           s == [server EXCEPT !.own = FALSE]
<1>1. write[w] \in Updates /\ Running(w) /\ write[w].armed > 0 /\ UNCHANGED account
  BY RunningType DEF Restart, RestartFails
<1>2. write' = [write EXCEPT ![w] = Settle(u)]
  BY DEF Restart, RestartFails, TypeOK
<1>3. Goes(u, w) /\ u.step = write[w].step
  BY <1>1, <1>2 DEF Goes, Updates
<1>4. s \in Servers /\ s.create = server.create /\ s.template = server.template
  BY DEF TypeOK, Servers
<1>5. server' = server \/ WriteServer(s, hooked)
  BY DEF Restart, RestartFails
<1> HIDE DEF u, s
<1>6. write[w].step \in {"pause", "delete"} => PauseChanged(write[w])
  BY <1>1 DEF DownInv, Shaped
<1>7. \A v \in Write : Shaped(v)'
  BY <1>1, <1>3, <1>6, GoesShaped
<1>8. Kept => Kept'
  BY <1>4, <1>5, WriteKept DEF Kept
<1>9. "pause" \in missed => "pause" \in missed'
  BY DEF Restart, RestartFails
<1>10. Unpausing(w) => u.step = "done"
  BY <1>3 DEF Unpausing, At
<1>11. account'.pause \/ (\E v \in Write : Pausing(v)') => Down'
  BY <1>1, <1>3, <1>8, <1>9, <1>10, GoesDown DEF Down
<1>12. QED
  BY <1>7, <1>11 DEF DownInv

LEMMA Carried ==
  ASSUME DownInv, UNCHANGED account,
         Kept => Down',
         "pause" \in missed => "pause" \in missed',
         \A v \in Write : Unpausing(v) => Unpausing(v)' \/ "pause" \in missed',
         \A v \in Write : Pausing(v)' => Pausing(v) \/ Down'
  PROVE account'.pause \/ (\E v \in Write : Pausing(v)') => Down'
<1>1. Down => Down'
  BY DEF Down
<1>2. QED
  BY <1>1 DEF DownInv

\* An update that a step leaves alone.
LEMMA SameUpdate ==
  ASSUME NEW v \in Write, write'[v] = write[v], UNCHANGED account
  PROVE /\ Shaped(v) => Shaped(v)'
        /\ Unpausing(v) => Unpausing(v)'
        /\ Pausing(v)' => Pausing(v)
<1>1. /\ Open(v)' <=> Open(v)
      /\ Running(v)' <=> Running(v)
  BY DEF Open, Running
<1>2. /\ Shaped(v) => Shaped(v)'
      /\ Pausing(v)' => Pausing(v)
  BY <1>1 DEF Shaped, Pausing
<1>3. Unpausing(v) => Unpausing(v)'
  BY <1>1 DEF Unpausing, At
<1>4. QED
  BY <1>2, <1>3

LEMMA BeginUpdateDown ==
  ASSUME TypeOK, DownInv, NEW w \in Write, NEW field \in Field, NEW to \in Account,
         NEW hooked \in BOOLEAN, BeginUpdate(w, field, to, hooked)
  PROVE DownInv'
<1>1. UNCHANGED <<account, server, missed>> /\ ~Running(w)
  BY DEF BeginUpdate
<1>2. \A v \in Write : v # w => write'[v] = write[v]
  BY DEF BeginUpdate, TypeOK
<1>3. /\ write'[w].stage = "open" /\ write'[w].old = account
      /\ write'[w].step \in {"admit", "skipped"}
  BY DEF BeginUpdate, TypeOK
<1>4. Shaped(w)' /\ ~Pausing(w)' /\ ~Unpausing(w)
  BY <1>1, <1>3 DEF Shaped, Pausing, Unpausing, Open, At
<1>5. \A v \in Write : Shaped(v)'
  BY <1>1, <1>2, <1>4, SameUpdate DEF DownInv
<1>6. Kept => Down'
  BY <1>1 DEF Kept, Down
<1>7. account'.pause \/ (\E v \in Write : Pausing(v)') => Down'
  BY <1>1, <1>2, <1>4, <1>6, SameUpdate, Carried
<1>8. QED
  BY <1>5, <1>7 DEF DownInv

LEMMA TimeOutDown ==
  ASSUME TypeOK, DownInv, NEW w \in Write, TimeOut(w)
  PROVE DownInv'
<1> DEFINE u == [write[w] EXCEPT !.waits = FALSE]
<1>1. UNCHANGED <<account, server, missed>> /\ Running(w) /\ write[w].step # "done"
  BY DEF TimeOut
<1>2. write[w] \in Updates
  BY <1>1, RunningType
<1>3. write'[w] = u /\ \A v \in Write : v # w => write'[v] = write[v]
  BY DEF TimeOut, TypeOK
<1>4. /\ u.stage = write[w].stage /\ u.field = write[w].field /\ u.to = write[w].to
      /\ u.old = write[w].old /\ u.latest = write[w].latest /\ u.waits = FALSE
      /\ u.step = write[w].step
  BY <1>2 DEF Updates
<1>5. New(u) = New(write[w]) /\ (PauseChanged(u) <=> PauseChanged(write[w]))
  BY <1>4, SameChange
<1> HIDE DEF u
<1>6. Shaped(w)
  BY DEF DownInv
<1>7. Shaped(w)'
  BY <1>1, <1>3, <1>4, <1>5, <1>6 DEF Shaped, Open, Running
<1>8. ~Unpausing(w)
  BY <1>1 DEF Unpausing, At
<1>9. Pausing(w)' => Pausing(w)
  BY <1>3, <1>4, <1>5 DEF Pausing, Open
<1>10. \A v \in Write : Shaped(v)'
  BY <1>1, <1>3, <1>7, SameUpdate DEF DownInv
<1>11. Kept => Down'
  BY <1>1 DEF Kept, Down
<1>12. account'.pause \/ (\E v \in Write : Pausing(v)') => Down'
  BY <1>1, <1>3, <1>8, <1>9, <1>11, SameUpdate, Carried
<1>13. QED
  BY <1>10, <1>12 DEF DownInv

LEMMA ReapplyDown ==
  ASSUME TypeOK, DownInv, NEW w \in Write, NEW hooked \in BOOLEAN, Reapply(w, hooked)
  PROVE DownInv'
<1> DEFINE u == [write[w] EXCEPT !.old = account, !.latest = TRUE, !.waits = hooked,
                                 !.step = IF hooked THEN "admit" ELSE "skipped"]
<1>1. UNCHANGED <<account, server>> /\ Open(w) /\ Running(w)
  BY OpenRuns DEF Reapply, Conflict, Answered
<1>2. write[w] \in Updates
  BY <1>1, RunningType
<1>3. write'[w] = u /\ \A v \in Write : v # w => write'[v] = write[v]
  BY DEF Reapply, TypeOK
<1>4. u.stage = "open" /\ u.old = account /\ u.step \in {"admit", "skipped"}
  BY <1>1, <1>2 DEF Updates, Open
<1> HIDE DEF u
<1>5. Shaped(w)' /\ ~Pausing(w)'
  BY <1>1, <1>3, <1>4 DEF Shaped, Pausing, Open
<1>6. \A v \in Write : Shaped(v)'
  BY <1>1, <1>3, <1>5, SameUpdate DEF DownInv
<1>7. Kept => Down'
  BY <1>1 DEF Kept, Down
<1>8. /\ "pause" \in missed => "pause" \in missed'
      /\ Unpausing(w) => "pause" \in missed'
  BY DEF Reapply, Conflict, Unpausing, At
<1>9. account'.pause \/ (\E v \in Write : Pausing(v)') => Down'
  BY <1>1, <1>3, <1>5, <1>7, <1>8, SameUpdate, Carried
<1>10. QED
  BY <1>6, <1>9 DEF DownInv

LEMMA RefuseDown ==
  ASSUME TypeOK, DownInv, NEW w \in Write, Refuse(w)
  PROVE DownInv'
<1> DEFINE u == [write[w] EXCEPT !.stage = "refused"]
<1>1. /\ UNCHANGED <<account, server>> /\ Running(w)
      /\ write[w].waits => write[w].step = "done"
  BY OpenRuns DEF Refuse, Conflict, Answered
<1>2. write[w] \in Updates /\ write' = [write EXCEPT ![w] = Settle(u)]
  BY <1>1, RunningType DEF Refuse
<1>3. /\ u \in Updates /\ u.stage = "refused" /\ u.field = write[w].field
      /\ u.to = write[w].to /\ u.old = write[w].old /\ u.waits = write[w].waits
      /\ u.step = write[w].step
  BY <1>2 DEF Updates
<1>4. PauseChanged(u) <=> PauseChanged(write[w])
  BY <1>3, SameChange
<1> HIDE DEF u
<1>5. /\ write'[w] # NoWrite => write'[w] = u
      /\ \A v \in Write : v # w => write'[v] = write[v]
  BY <1>2, <1>3, AfterSettle
<1>6. Shaped(w)
  BY DEF DownInv
<1>7. ~Open(w)'
  BY <1>3, <1>5 DEF Open, NoWrite
<1>8. Shaped(w)'
  BY <1>1, <1>3, <1>4, <1>5, <1>6, <1>7 DEF Shaped, Running
<1>9. ~Pausing(w)'
  BY <1>7 DEF Pausing
<1>10. \A v \in Write : Shaped(v)'
  BY <1>1, <1>5, <1>8, SameUpdate DEF DownInv
<1>11. Kept => Down'
  BY <1>1 DEF Kept, Down
<1>12. /\ "pause" \in missed => "pause" \in missed'
       /\ Unpausing(w) => "pause" \in missed'
  BY DEF Refuse, Conflict, Unpausing, At
<1>13. account'.pause \/ (\E v \in Write : Pausing(v)') => Down'
  BY <1>1, <1>5, <1>9, <1>11, <1>12, SameUpdate, Carried
<1>14. QED
  BY <1>10, <1>13 DEF DownInv

LEMMA StoreDown ==
  ASSUME TypeOK, DownInv, NEW w \in Write, Store(w)
  PROVE DownInv'
<1> DEFINE u == [write[w] EXCEPT !.stage = "stored"]
           aged(v) == [write[v] EXCEPT !.latest = @ /\ account' = account]
<1>1. /\ server' = server /\ Open(w) /\ Running(w)
      /\ write[w].waits => write[w].step = "done"
      /\ write[w].latest /\ account' = New(write[w])
      /\ "pause" \in missed => "pause" \in missed'
  BY OpenRuns DEF Store, Answered
<1>2. write[w] \in Updates
  BY <1>1, RunningType
<1>3. write[w].old = account
  BY <1>1 DEF DownInv, Shaped
<1>4. account.pause \in BOOLEAN /\ account'.pause \in BOOLEAN
  BY <1>1, <1>2, NewType DEF TypeOK, Account
<1>5. PauseChanged(write[w]) <=> account'.pause # account.pause
  BY <1>1, <1>3 DEF PauseChanged
\* What becomes of the updates.
<1>6. /\ write'[w] = Settle(u)
      /\ \A v \in Write : v # w /\ Open(v) => write'[v] = aged(v)
      /\ \A v \in Write : v # w /\ ~Open(v) => write'[v] = write[v]
  BY DEF Store
<1>7. /\ u.stage = "stored" /\ u.waits = write[w].waits /\ u.step = write[w].step
      /\ u.field = write[w].field /\ u.to = write[w].to /\ u.old = write[w].old
  BY <1>2 DEF Updates
<1>8. PauseChanged(u) <=> PauseChanged(write[w])
  BY <1>7, SameChange
<1> HIDE DEF u
<1>9. write'[w] = u \/ write'[w] = NoWrite
  BY <1>6 DEF Settle
<1>10. ~Open(w)'
  BY <1>7, <1>9 DEF Open, NoWrite
<1>11. Shaped(w)'
  <2>1. Shaped(w)
    BY DEF DownInv
  <2>2. QED
    BY <1>1, <1>7, <1>8, <1>9, <1>10, <2>1 DEF Shaped, Running
<1>12. ASSUME NEW v \in Write, v # w, Open(v)
       PROVE /\ Shaped(v)'
             /\ Unpausing(v) => Unpausing(v)'
             /\ Pausing(v)' => Pausing(v) /\ account' = account
  <2> DEFINE a == aged(v)
  <2>1. write[v] \in Updates /\ Running(v) /\ Shaped(v)
    BY <1>12, OpenRuns, RunningType DEF DownInv
  <2>2. /\ a.stage = "open" /\ a.latest = (write[v].latest /\ account' = account)
        /\ a.step = write[v].step /\ a.field = write[v].field /\ a.to = write[v].to
        /\ a.old = write[v].old
    BY <1>12, <2>1 DEF Updates, Open
  <2>3. New(a) = New(write[v]) /\ (PauseChanged(a) <=> PauseChanged(write[v]))
    BY <2>2, SameChange
  <2>4. write'[v] = a
    BY <1>6, <1>12
  <2> HIDE DEF a
  <2>5. Open(v)' /\ Running(v)'
    BY <2>2, <2>4 DEF Open, Running, NoWrite
  <2>6. Shaped(v)'
    BY <1>12, <2>1, <2>2, <2>3, <2>4, <2>5 DEF Shaped
  <2>7. Unpausing(v) => Unpausing(v)'
    BY <2>2, <2>3, <2>4, <2>5 DEF Unpausing, At
  <2>8. Pausing(v)' => Pausing(v) /\ account' = account
    BY <1>12, <2>2, <2>3, <2>4 DEF Pausing
  <2>9. QED
    BY <2>6, <2>7, <2>8
<1>13. ASSUME NEW v \in Write, v # w, ~Open(v)
       PROVE Shaped(v)' /\ ~Unpausing(v) /\ ~Pausing(v)'
  <2>1. write'[v] = write[v] /\ Shaped(v)
    BY <1>6, <1>13 DEF DownInv
  <2>2. ~Open(v)' /\ (Running(v)' <=> Running(v))
    BY <1>13, <2>1 DEF Open, Running
  <2>3. Shaped(v)'
    BY <1>13, <2>1, <2>2 DEF Shaped
  <2>4. QED
    BY <1>13, <2>2, <2>3 DEF Unpausing, Pausing
<1>14. \A v \in Write : Shaped(v)'
  BY <1>11, <1>12, <1>13
<1>15. \A v \in Write : Pausing(v)' => Pausing(v) /\ account' = account
  BY <1>10, <1>12, <1>13 DEF Pausing
\* What becomes of the StatefulSet.
<1>16. ASSUME ~Unpausing(w), Down PROVE Down'
  <2>1. CASE Kept
    BY <1>1, <2>1 DEF Kept, Down
  <2>2. CASE "pause" \in missed
    BY <1>1, <2>2 DEF Down
  <2>3. CASE \E v \in Write : Unpausing(v)
    BY <1>12, <1>13, <1>16, <2>3 DEF Down
  <2>4. QED
    BY <1>16, <2>1, <2>2, <2>3 DEF Down
<1>17. CASE Unpausing(w)
  <2>1. ~account'.pause /\ account' # account
    BY <1>1, <1>4, <1>5, <1>17 DEF Unpausing
  <2>2. QED
    BY <1>14, <1>15, <2>1 DEF DownInv
<1>18. CASE ~Unpausing(w)
  <2>1. (\E v \in Write : Pausing(v)') => Down'
    BY <1>15, <1>16, <1>18 DEF DownInv
  <2>2. ASSUME account'.pause PROVE Down'
    <3>1. CASE account.pause
      BY <1>16, <1>18, <3>1 DEF DownInv
    <3>2. CASE ~account.pause /\ write[w].step \in {"delete", "done"}
      <4>1. Pausing(w)
        BY <1>1, <1>4, <1>5, <2>2, <3>2 DEF Pausing
      <4>2. QED
        BY <1>16, <1>18, <4>1 DEF DownInv
    <3>3. CASE ~account.pause /\ write[w].step \in {"admit", "pause", "skipped"}
      <4>1. PauseChanged(write[w])
        BY <1>4, <1>5, <2>2, <3>3
      <4>2. "pause" \in missed'
        BY <3>3, <4>1 DEF Store, Lost
      <4>3. QED
        BY <4>2 DEF Down
    <3>4. QED
      BY <1>2, <3>1, <3>2, <3>3 DEF Updates
  <2>3. QED
    BY <1>14, <2>1, <2>2 DEF DownInv
<1>19. QED
  BY <1>17, <1>18

LEMMA EnvironmentDown ==
  ASSUME TypeOK, DownInv, UNCHANGED <<account, write>>,
         Kept => Kept' \/ "pause" \in missed',
         "pause" \in missed => "pause" \in missed'
  PROVE DownInv'
<1>1. \A v \in Write : Shaped(v)'
  BY SameUpdate DEF DownInv
<1>2. Kept => Down'
  BY DEF Down
<1>3. account'.pause \/ (\E v \in Write : Pausing(v)') => Down'
  BY <1>2, SameUpdate, Carried
<1>4. QED
  BY <1>1, <1>3 DEF DownInv

LEMMA OperatorDown ==
  ASSUME TypeOK, DownInv, NEW hooked \in BOOLEAN, Operator(hooked)
  PROVE DownInv'
<1> DEFINE fresh == [create |-> server.create, own |-> TRUE, template |-> Plain.template,
                     limits |-> Plain.limits, replicas |-> Plain.replicas]
<1>1. fresh \in Servers /\ fresh.create = server.create
  BY DEF TypeOK, Servers, Plain, AnyLimits, Annotation
<1>2. WriteServer(fresh, hooked)
  BY DEF Operator
<1> HIDE DEF fresh
<1>3. Kept => Kept' \/ "pause" \in missed'
  <2>1. CASE hooked
    BY <1>1, <1>2, <2>1, WriteKept DEF Kept
  <2>2. CASE ~hooked
    BY <2>2 DEF Operator, Kept
  <2>3. QED
    BY <2>1, <2>2
<1>4. UNCHANGED <<account, write>> /\ ("pause" \in missed => "pause" \in missed')
  BY DEF Operator
<1>5. QED
  BY <1>3, <1>4, EnvironmentDown

LEMMA OthersDown ==
  ASSUME TypeOK, DownInv,
         \/ \E h \in BOOLEAN : CreateServerPod(h)
         \/ DeleteServerPod \/ SyncAccount \/ SyncServer \/ Recover
  PROVE DownInv'
<1>1. UNCHANGED <<account, write, server>> /\ ("pause" \in missed => "pause" \in missed')
  BY DEF CreateServerPod, DeleteServerPod, SyncAccount, SyncServer, Recover
<1>2. QED
  BY <1>1, EnvironmentDown DEF Kept

LEMMA CrashDown == ASSUME TypeOK, DownInv, Crash PROVE DownInv'
<1>1. UNCHANGED <<account, server>> /\ ("pause" \in missed => "pause" \in missed')
  BY DEF Crash
<1>2. \A v \in Write : write'[v] = Crashed(write[v])
  BY DEF Crash
<1>3. ASSUME NEW v \in Write, Running(v)
      PROVE /\ Shaped(v)'
            /\ Unpausing(v) => Unpausing(v)'
            /\ Pausing(v)' => Pausing(v)
  <2> DEFINE u == [write[v] EXCEPT !.armed = 0,
                     !.step = IF @ \in {"delete", "done"} THEN "done" ELSE "skipped",
                     !.waits = @ /\ write[v].step \notin {"admit", "pause"}]
  <2>1. write[v] \in Updates /\ Shaped(v)
    BY <1>3, RunningType DEF DownInv
  <2>2. /\ u.stage = write[v].stage /\ u.field = write[v].field /\ u.to = write[v].to
        /\ u.old = write[v].old /\ u.latest = write[v].latest
        /\ u.step \in {"done", "skipped"}
        /\ u.step = "done" <=> write[v].step \in {"delete", "done"}
    BY <2>1 DEF Updates
  <2>3. New(u) = New(write[v]) /\ (PauseChanged(u) <=> PauseChanged(write[v]))
    BY <2>2, SameChange
  <2>4. write'[v] = Settle(u)
    BY <1>2, <1>3 DEF Crashed, Running
  <2> HIDE DEF u
  <2>5. /\ write'[v] = u \/ write'[v] = NoWrite
        /\ u.stage = "open" => write'[v] = u
    BY <2>4 DEF Settle
  <2>6. CASE write'[v] = NoWrite
    <3>1. ~Open(v)' /\ ~Running(v)' /\ ~Open(v)
      BY <2>2, <2>5, <2>6 DEF Open, Running, NoWrite
    <3>2. QED
      BY <3>1 DEF Shaped, Pausing, Unpausing
  <2>7. CASE write'[v] = u
    <3>1. (Open(v)' <=> Open(v)) /\ write'[v].step \in {"done", "skipped"}
      BY <2>2, <2>7 DEF Open
    <3>2. Shaped(v)'
      BY <1>1, <2>1, <2>2, <2>7, <3>1 DEF Shaped
    <3>3. Pausing(v)' => Pausing(v)
      BY <2>2, <2>3, <2>7, <3>1 DEF Pausing
    <3>4. Unpausing(v) => Unpausing(v)'
      BY <2>2, <2>3, <2>7, <3>1 DEF Unpausing, At, Running, Open, NoWrite
    <3>5. QED
      BY <3>2, <3>3, <3>4
  <2>8. QED
    BY <2>5, <2>6, <2>7
<1>4. ASSUME NEW v \in Write, ~Running(v)
      PROVE Shaped(v)' /\ ~Unpausing(v) /\ ~Pausing(v)'
  <2>1. write'[v] = NoWrite
    BY <1>2, <1>4 DEF Crashed, Running
  <2>2. ~Open(v)' /\ ~Running(v)'
    BY <2>1 DEF Open, Running, NoWrite
  <2>3. QED
    BY <1>4, <2>2 DEF Shaped, Unpausing, Pausing, At
<1>5. \A v \in Write : Shaped(v)'
  BY <1>3, <1>4
<1>6. Kept => Down'
  BY <1>1 DEF Kept, Down
<1>7. account'.pause \/ (\E v \in Write : Pausing(v)') => Down'
  BY <1>1, <1>3, <1>4, <1>6, Carried
<1>8. QED
  BY <1>5, <1>7 DEF DownInv

LEMMA InitDown == Init => DownInv
<1> SUFFICES ASSUME Init PROVE DownInv
  OBVIOUS
<1>1. \A w \in Write : ~Open(w) /\ ~Running(w)
  BY DEF Init, Open, Running, NoWrite
<1>2. ~account.pause
  BY DEF Init
<1>3. QED
  BY <1>1, <1>2 DEF DownInv, Shaped, Pausing

LEMMA NextDown == TypeOK /\ DownInv /\ [Next]_vars => DownInv'
<1> SUFFICES ASSUME TypeOK, DownInv, [Next]_vars PROVE DownInv'
  OBVIOUS
<1>1. CASE UNCHANGED vars
  BY <1>1, EnvironmentDown DEF vars, Kept
<1>2. CASE Next
  BY <1>2, NextCases, BeginUpdateDown, HandleServiceAccountDown, DeletePodDown,
     DoPauseFailsDown, TimeOutDown, StoreDown, RefuseDown, DoPauseDown, ReapplyDown,
     RestartDown, OperatorDown, OthersDown, CrashDown
<1>3. QED
  BY <1>1, <1>2

\* The pause is in the StatefulSet from when the webhook has carried it out
\* (serviceaccount.go:75-94, statefulset.go:186-192) until it has carried out
\* its end, whatever else is updated, reapplied, refused or restarted.
THEOREM PauseIsKept == Spec => []DownInv
<1>1. Init => TypeOK /\ DownInv
  BY InitType, InitDown
<1>2. TypeOK /\ DownInv /\ [Next]_vars => TypeOK' /\ DownInv'
  BY NextType, NextDown
<1>3. QED
  BY <1>1, <1>2, PTL DEF Spec

\* The pod is created only by the StatefulSet controller, and a StatefulSet
\* that carries the pause lets it do so only without the webhook (pod.go:29-34).
LEMMA CreationAllowed ==
  ASSUME TypeOK, DownInv, [Next]_vars
  PROVE ~pod.runs /\ pod'.runs =>
          \/ ~account.pause
          \/ "pause" \in missed'
          \/ \E w \in Write : Unpausing(w)
<1> SUFFICES ASSUME ~pod.runs, pod'.runs, account.pause
             PROVE "pause" \in missed' \/ \E w \in Write : Unpausing(w)
  OBVIOUS
<1>1. ASSUME NEW s, NEW h \in BOOLEAN, WriteServer(s, h) PROVE FALSE
  BY <1>1 DEF WriteServer, TypeOK, Pods
<1>2. PICK h \in BOOLEAN : CreateServerPod(h)
  <2>1. CASE UNCHANGED vars
    BY <2>1 DEF vars
  <2>2. CASE Next
    <3>1. ASSUME NEW w \in Write, NEW h \in BOOLEAN, DoPause(w, h) PROVE FALSE
      BY <1>1, <3>1 DEF DoPause
    <3>2. ASSUME NEW w \in Write, NEW h \in BOOLEAN, Restart(w, h) PROVE FALSE
      BY <1>1, <3>2 DEF Restart
    <3>3. ASSUME NEW h \in BOOLEAN, Operator(h) PROVE FALSE
      BY <1>1, <3>3 DEF Operator
    <3>4. ASSUME \/ \E w \in Write, field \in Field, to \in Account, h \in BOOLEAN :
                      BeginUpdate(w, field, to, h)
                 \/ \E w \in Write : \/ HandleServiceAccount(w) \/ DeletePod(w)
                                     \/ DoPauseFails(w) \/ TimeOut(w) \/ Store(w)
                                     \/ Refuse(w) \/ RestartFails(w)
                 \/ \E w \in Write, h \in BOOLEAN : Reapply(w, h)
                 \/ DeleteServerPod \/ SyncAccount \/ SyncServer \/ Recover \/ Crash
          PROVE FALSE
      <4>1. ~NoPod.runs
        BY DEF NoPod
      <4>2. pod' = pod \/ pod' = NoPod
        BY <3>4 DEF BeginUpdate, HandleServiceAccount, DeletePod, DoPauseFails, TimeOut,
           Store, Refuse, RestartFails, Reapply, DeleteServerPod, SyncAccount, SyncServer,
           Recover, Crash
      <4>3. QED
        BY <4>1, <4>2
    <3>5. QED
      BY <2>2, <3>1, <3>2, <3>3, <3>4, NextCases
  <2>3. QED
    BY <2>1, <2>2
<1>3. Kept => "pause" \in missed'
  BY <1>2 DEF Kept, CreateServerPod
<1>4. "pause" \in missed => "pause" \in missed'
  BY <1>2 DEF CreateServerPod
<1>5. QED
  BY <1>3, <1>4 DEF DownInv, Down

\* Nothing starts the server of a paused tenant, unless a failure kept the
\* pause from it or its end is about to be stored.
THEOREM StaysDown == Spec => KeptDown
<1>1. TypeOK /\ DownInv /\ [Next]_vars =>
        [~pod.runs /\ pod'.runs =>
           \/ ~account.pause
           \/ "pause" \in missed'
           \/ \E w \in Write : Unpausing(w)]_vars
  BY CreationAllowed
<1>2. QED
  BY <1>1, ServerTypes, PauseIsKept, PTL DEF Spec, KeptDown
=============================================================================
