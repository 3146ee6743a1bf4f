---------------------------- MODULE TenantServer ----------------------------
(***************************************************************************)
(* The server of a tenant's cluster follows the tenant's account: it is    *)
(* stopped while the account is paused and has the account's limits.  All  *)
(* of that is done by the panel's admission webhook: when it is asked      *)
(* about an update of the account it changes the StatefulSet of the server *)
(* (handleServiceAccount), when it is asked about an update of the         *)
(* StatefulSet it puts the limits and the pause into it                    *)
(* (handleStatefulSet), and when it is asked about the pod it may deny it  *)
(* (handlePod).                                                            *)
(*                                                                         *)
(* The webhook acts before the update of the account is stored, and the    *)
(* API server goes on without it when it does not answer.  It reads        *)
(* accounts and StatefulSets from caches that lag behind.                  *)
(*                                                                         *)
(* cpu, memory and bandwidth are one number, the account's hard.  Of the   *)
(* cluster modes this is "virtual".  External, by what the webhook relies  *)
(* on: the k3k operator, which writes the specification of the StatefulSet *)
(* afresh when somebody else changed it, and the StatefulSet controller.   *)
(***************************************************************************)
EXTENDS Naturals, FiniteSets

CONSTANTS
    Write,      \* updates of the account in progress at the same time
    Hard,       \* the quotas an account may have
    Budgets     \* bounds: updates of the account, and crashes, timeouts and
                \* failed calls, of each instance

ASSUME QuotaAssumption == Hard \subseteq Nat \ {0} /\ Hard # {}
ASSUME BoundAssumption == Budgets \subseteq [changes : Nat, faults : Nat]

VARIABLES
    account,    \* the tenant's ServiceAccount
    seen,       \* ... in the webhook's cache
    write,      \* updates of the account on their way through admission
    server,     \* the StatefulSet
    seenServer, \* ... in the webhook's cache: what DoPause compares
    pod,        \* the pod of the server
    up,         \* the panel runs
    missed,     \* auxiliary: what a failure kept from the server
    changes,    \* updates of the account that are left
    faults      \* failures that are left

vars == <<account, seen, write, server, seenServer, pod, up, missed, changes, faults>>

-----------------------------------------------------------------------------
Account == [pause : BOOLEAN, hard : Hard, weihu : BOOLEAN]

\* getResourceLimit of a virtual cluster: maintenance doubles the limits.
Limits(a) == IF a.weihu THEN 2 * a.hard ELSE a.hard

NoLimits == 0

\* The annotation create-pod: on the StatefulSet and on its template.
CreatePod(paused) == IF paused THEN "false" ELSE "true"

\* The operator's own specification of the StatefulSet.
Plain == [template |-> "none", limits |-> NoLimits, replicas |-> 1]
Specified(s) == [template |-> s.template, limits |-> s.limits, replicas |-> s.replicas]

NoPod == [limits |-> NoLimits, band |-> 0, old |-> FALSE, runs |-> FALSE]

NoWrite == [stage |-> "none"]

Field == {"pause", "hard", "weihu"}

\* field and to: the field that is set and the account with it; old: the
\* account it is applied to; latest: that is still its version; step: the
\* webhook's handler; waits: the API server waits for it; armed: the timers
\* of a restart it has set.
Updates == [stage : {"open", "stored", "refused"}, field : Field, to : Account,
            old : Account, latest : BOOLEAN, waits : BOOLEAN, armed : Nat,
            step : {"admit", "pause", "delete", "done", "skipped"}]

With(a, field, to) ==
    [a EXCEPT !.pause = IF field = "pause" THEN to.pause ELSE @,
              !.hard = IF field = "hard" THEN to.hard ELSE @,
              !.weihu = IF field = "weihu" THEN to.weihu ELSE @]

New(u) == With(u.old, u.field, u.to)

\* handleServiceAccount: the conditions of DoPause and restartClusterServer.
\* Mutant: the end of a pause does not count as a change.
PauseBegins(u) == New(u).pause /\ ~u.old.pause
PauseChanged(u) == New(u).pause # u.old.pause
\* Mutant: maintenance mode does not count as a change.
QuotaOnly(u) == New(u).hard # u.old.hard
QuotaChanged(u) == New(u).hard # u.old.hard \/ New(u).weihu # u.old.weihu

\* What the server does not get when the webhook is not asked about u.
Lost(u) == {f \in {"pause", "quota"} : \/ f = "pause" /\ PauseChanged(u)
                                       \/ f = "quota" /\ QuotaChanged(u)}

\* An update is over when it is decided and nothing of the webhook is left.
Settle(u) ==
    IF u.stage # "open" /\ u.step \in {"done", "skipped"} /\ u.armed = 0 THEN NoWrite ELSE u

Running(w) == write[w] # NoWrite

Open(w) == write[w].stage = "open"
At(w, step) == Running(w) /\ write[w].step = step

Init ==
    /\ account \in {a \in Account : ~a.pause /\ ~a.weihu}
    /\ seen = account
    /\ write = [w \in Write |-> NoWrite]
    /\ server = [create |-> "none", template |-> "none", limits |-> Limits(account),
                 replicas |-> 1, own |-> TRUE]
    /\ seenServer = [create |-> "none", template |-> "none"]
    /\ pod = [limits |-> Limits(account), band |-> account.hard, old |-> FALSE, runs |-> TRUE]
    /\ up = TRUE
    /\ missed = {}
    /\ \E b \in Budgets : changes = b.changes /\ faults = b.faults

Fail == faults > 0 /\ faults' = faults - 1

\* failurePolicy Ignore: a request goes on when the webhook does not answer.
Asked(hooked) == IF hooked THEN up /\ UNCHANGED faults
                 ELSE \/ ~up /\ UNCHANGED faults
                      \/ up /\ Fail

-----------------------------------------------------------------------------
\* Mutants: the hook adds maintenance to the limits it finds; it takes the
\* pause from the template, which the operator writes afresh.
HookDoubles(s) ==
    [s EXCEPT !.limits = IF seen.weihu THEN @ + @ ELSE Limits(seen),
              !.template = IF s.create = "none" THEN @ ELSE s.create,
              !.replicas = IF s.create = "false" THEN 0 ELSE @]
HookByTemplate(s) ==
    [s EXCEPT !.limits = Limits(seen),
              !.replicas = IF s.template = "false" THEN 0 ELSE @]
\* handleStatefulSet: what the webhook makes of a written StatefulSet.
HandleStatefulSet(s) ==
    [s EXCEPT !.limits = Limits(seen),
              !.template = IF s.create = "none" THEN @ ELSE s.create,
              !.replicas = IF s.create = "false" THEN 0 ELSE @]

\* s is written to the StatefulSet; the pod of another template is old.
WriteServer(s, hooked) ==
    LET stored == IF hooked THEN HandleStatefulSet(s) ELSE s
        another == \/ ~s.own
                   \/ stored.own # server.own
                   \/ stored.template # server.template
                   \/ stored.limits # server.limits
    IN
    /\ server' = stored
    /\ pod' = [pod EXCEPT !.old = @ \/ (pod.runs /\ another)]

-----------------------------------------------------------------------------
(* Updates of the account *)

\* Somebody updates the account: the recycler pauses it or ends the pause, a
\* purchase changes the quota, a user switches maintenance mode.  The API
\* server applies the change and asks the webhook.
BeginUpdate(w, field, to, hooked) ==
    /\ ~Running(w) /\ changes > 0
    /\ to # account /\ to = With(account, field, to)
    /\ Asked(hooked)
    /\ write' = [write EXCEPT ![w] =
          [stage |-> "open", field |-> field, to |-> to, old |-> account, latest |-> TRUE,
           waits |-> hooked, armed |-> 0,
           step |-> IF hooked THEN "admit" ELSE "skipped"]]
    /\ changes' = changes - 1
    /\ UNCHANGED <<account, seen, server, seenServer, pod, up, missed>>

\* handleServiceAccount: the deferred calls run before it answers, the last
\* first: the timer of the restart, then DoPause.
HandleServiceAccount(w) ==
    /\ At(w, "admit")
    /\ write' = [write EXCEPT ![w] =
          Settle([write[w] EXCEPT !.armed = IF QuotaChanged(write[w]) THEN @ + 1 ELSE @,
                           !.step = IF PauseChanged(write[w]) THEN "pause" ELSE "done"])]
    /\ UNCHANGED <<account, seen, server, seenServer, pod, up, missed, changes, faults>>

\* DoPause's CreateOrPatch: what differs from the cached StatefulSet is sent.
\* A call that fails, or is not sent because the cache lags, is not made up
\* for, and one for a request that timed out may come too late.
DoPause(w, hooked) ==
    LET paused == New(write[w]).pause
        val == CreatePod(paused)
        diff == [server EXCEPT !.create = IF seenServer.create = val THEN @ ELSE val,
                               !.template = IF seenServer.template = val THEN @ ELSE val,
                               !.own = FALSE]
    IN
    /\ At(w, "pause")
    /\ IF seenServer.create = val /\ seenServer.template = val
       THEN hooked /\ UNCHANGED <<server, pod, faults>>
       ELSE Asked(hooked) /\ WriteServer(diff, hooked)
    /\ missed' = IF server'.create = val /\ server'.template = val /\ write[w].waits
                 THEN missed \ {"pause"} ELSE missed \union {"pause"}
    /\ write' = [write EXCEPT ![w] =
          Settle([write[w] EXCEPT !.step = IF paused THEN "delete" ELSE "done"])]
    /\ UNCHANGED <<account, seen, seenServer, up, changes>>

\* The StatefulSet cannot be read or patched: the error is only logged.
DoPauseFails(w) ==
    /\ At(w, "pause") /\ Fail
    /\ missed' = missed \union {"pause"}
    /\ write' = [write EXCEPT ![w] = Settle([write[w] EXCEPT !.step = "done"])]
    /\ UNCHANGED <<account, seen, server, seenServer, pod, up, changes>>

\* The end of DoPause, when it pauses: the pod is deleted, if that succeeds.
DeletePod(w) ==
    /\ At(w, "delete")
    /\ \/ pod' = NoPod /\ UNCHANGED faults
       \/ pod.runs /\ Fail /\ UNCHANGED pod
    /\ write' = [write EXCEPT ![w] = Settle([write[w] EXCEPT !.step = "done"])]
    /\ UNCHANGED <<account, seen, server, seenServer, up, missed, changes>>

\* The API server stops waiting for the webhook, whose calls go on.
TimeOut(w) ==
    /\ Running(w) /\ write[w].waits /\ write[w].step # "done" /\ Fail
    /\ write' = [write EXCEPT ![w].waits = FALSE]
    /\ UNCHANGED <<account, seen, server, seenServer, pod, up, missed, changes>>

Answered(w) == Open(w) /\ (write[w].waits => write[w].step = "done")

\* The update is stored, if the account is still the one it was applied to.
Store(w) ==
    /\ Answered(w) /\ write[w].latest
    /\ account' = New(write[w])
    /\ missed' = missed \union {f \in Lost(write[w]) :
                                  \/ write[w].step = "skipped"
                                  \/ f = "pause" /\ write[w].step \in {"admit", "pause"}}
    /\ write' = [v \in Write |->
          IF v = w THEN Settle([write[v] EXCEPT !.stage = "stored"])
          ELSE IF Open(v) THEN [write[v] EXCEPT !.latest = @ /\ account' = account]
          ELSE write[v]]
    /\ UNCHANGED <<seen, server, seenServer, pod, up, changes, faults>>

\* The account changed meanwhile: what DoPause did for w may be wrong.
Conflict(w) ==
    /\ Answered(w) /\ ~write[w].latest
    /\ missed' = IF write[w].step # "skipped" /\ PauseChanged(write[w])
                 THEN missed \union {"pause"} ELSE missed

\* A patch is applied again and the webhook is asked again, ...
Reapply(w, hooked) ==
    /\ Conflict(w)
    /\ write[w].waits \/ write[w].step = "skipped"
    /\ Asked(hooked)
    /\ write' = [write EXCEPT ![w].old = account, ![w].latest = TRUE,
                              ![w].waits = hooked,
                              ![w].step = IF hooked THEN "admit" ELSE "skipped"]
    /\ UNCHANGED <<account, seen, server, seenServer, pod, up, changes>>

\* ... an update with the version of the account is refused.
Refuse(w) ==
    /\ Conflict(w)
    /\ write' = [write EXCEPT ![w] = Settle([write[w] EXCEPT !.stage = "refused"])]
    /\ UNCHANGED <<account, seen, server, seenServer, pod, up, changes, faults>>

-----------------------------------------------------------------------------
\* restartClusterServer, some three seconds later: a new annotation of the
\* template, so that the webhook is asked and the pod is replaced.  It is too
\* early when the update, or the webhook's cache of it, takes longer.
Restart(w, hooked) ==
    /\ Running(w) /\ write[w].armed > 0 /\ up
    /\ Asked(hooked)
    /\ WriteServer([server EXCEPT !.own = FALSE], hooked)
    /\ missed' = IF /\ hooked
                    /\ \A v \in Write : Open(v) => ~QuotaChanged(write[v])
                    /\ seen.hard = account.hard /\ seen.weihu = account.weihu
                 THEN missed \ {"quota"} ELSE missed \union {"quota"}
    /\ write' = [write EXCEPT ![w] = Settle([write[w] EXCEPT !.armed = @ - 1])]
    /\ UNCHANGED <<account, seen, seenServer, up, changes>>

RestartFails(w) ==
    /\ Running(w) /\ write[w].armed > 0 /\ up /\ Fail
    /\ missed' = missed \union {"quota"}
    /\ write' = [write EXCEPT ![w] = Settle([write[w] EXCEPT !.armed = @ - 1])]
    /\ UNCHANGED <<account, seen, server, seenServer, pod, up, changes>>

-----------------------------------------------------------------------------
(* The environment *)

\* External: the k3k operator writes its own specification over another one.
\* The annotation of the StatefulSet stays.
Operator(hooked) ==
    LET fresh == [create |-> server.create, own |-> TRUE, template |-> Plain.template,
                  limits |-> Plain.limits, replicas |-> Plain.replicas]
    IN
    /\ Specified(server) # Plain
    /\ Asked(hooked)
    /\ WriteServer(fresh, hooked)
    /\ server' # server
    /\ missed' = IF hooked THEN missed
                 ELSE missed \union {f \in {"pause", "quota"} :
                                        f = "quota" \/ server.create = "false"}
    /\ UNCHANGED <<account, seen, write, seenServer, up, changes>>

\* External: the StatefulSet controller creates the pod, unless handlePod
\* denies it; the webhook also sets the bandwidth of the account.
CreateServerPod(hooked) ==
    /\ server.replicas = 1 /\ ~pod.runs
    /\ Asked(hooked)
    /\ hooked => server.template # "false"
    /\ pod' = [limits |-> server.limits, band |-> IF hooked THEN seen.hard ELSE 0,
               old |-> FALSE, runs |-> TRUE]
    /\ missed' = IF hooked THEN missed
                 ELSE missed \union {f \in {"pause", "quota"} :
                                        f = "quota" \/ server.template = "false"}
    /\ UNCHANGED <<account, seen, write, server, seenServer, up, changes>>

\* External: it deletes the pod of an old template, or that is not wanted.
DeleteServerPod ==
    /\ pod.runs /\ (pod.old \/ server.replicas = 0)
    /\ pod' = NoPod
    /\ UNCHANGED <<account, seen, write, server, seenServer, up, missed, changes, faults>>

\* The webhook's caches catch up.
SyncAccount ==
    /\ seen # account /\ seen' = account
    /\ UNCHANGED <<account, write, server, seenServer, pod, up, missed, changes, faults>>

Cached(s) == [create |-> s.create, template |-> s.template]

SyncServer ==
    /\ seenServer # Cached(server) /\ seenServer' = Cached(server)
    /\ UNCHANGED <<account, seen, write, server, pod, up, missed, changes, faults>>

\* The panel stops: its handlers and timers are gone.  Updates that wait for
\* a handler go on without it; of the others the rest of the handler is lost.
Crashed(u) ==
    IF u = NoWrite THEN u
    ELSE Settle([u EXCEPT !.armed = 0,
                          !.step = IF @ \in {"delete", "done"} THEN "done" ELSE "skipped",
                          !.waits = @ /\ u.step \notin {"admit", "pause"}])

LostInCrash(u) ==
    {f \in Lost(u) : \/ f = "quota" /\ u.armed > 0
                     \/ u.stage # "open" /\ u.step \in {"admit", "pause"}}

Crash ==
    /\ up /\ Fail
    /\ up' = FALSE
    /\ write' = [w \in Write |-> Crashed(write[w])]
    /\ missed' = missed \union UNION {LostInCrash(write[w]) : w \in {v \in Write : Running(v)}}
    /\ UNCHANGED <<account, seen, server, seenServer, pod, changes>>

\* It starts with filled caches.
Recover ==
    /\ ~up /\ up' = TRUE
    /\ seen' = account /\ seenServer' = Cached(server)
    /\ UNCHANGED <<account, write, server, pod, missed, changes, faults>>

-----------------------------------------------------------------------------
Handle(w) == HandleServiceAccount(w) \/ DeletePod(w) \/ \E h \in BOOLEAN : DoPause(w, h)
Decide(w) == Store(w) \/ Refuse(w) \/ \E h \in BOOLEAN : Reapply(w, h)

Next ==
    \/ \E w \in Write :
          \/ \E field \in Field, to \in Account, h \in BOOLEAN : BeginUpdate(w, field, to, h)
          \/ Handle(w) \/ DoPauseFails(w) \/ TimeOut(w) \/ Decide(w)
          \/ \E h \in BOOLEAN : Restart(w, h)
          \/ RestartFails(w)
    \/ \E h \in BOOLEAN : Operator(h) \/ CreateServerPod(h)
    \/ DeleteServerPod \/ SyncAccount \/ SyncServer
    \/ Crash \/ Recover

\* Every call ends, the caches catch up, a stopped panel is started again, the
\* operator answers a change of what it wrote, the controller does its work.
Fairness ==
    /\ \A w \in Write : /\ WF_vars(Handle(w))
                        /\ WF_vars(Decide(w))
                        /\ WF_vars(\E h \in BOOLEAN : Restart(w, h))
    /\ WF_vars(~server.own /\ \E h \in BOOLEAN : Operator(h))
    /\ WF_vars(\E h \in BOOLEAN : CreateServerPod(h))
    /\ WF_vars(DeleteServerPod)
    /\ WF_vars(SyncAccount) /\ WF_vars(SyncServer) /\ WF_vars(Recover)

Spec == Init /\ [][Next]_vars /\ Fairness

-----------------------------------------------------------------------------
Annotation == {"none", "true", "false"}
AnyLimits == {NoLimits} \union {Limits(a) : a \in Account}
Servers == [create : Annotation, template : Annotation, limits : AnyLimits,
            replicas : 0..1, own : BOOLEAN]
Pods == [limits : AnyLimits, band : {0} \union Hard, old : BOOLEAN, runs : BOOLEAN]

\* Types, and the limits on the StatefulSet are those of some account, never
\* computed from limits that were there before (types.go:93-98).
TypeOK ==
    /\ account \in Account /\ seen \in Account
    /\ write \in [Write -> Updates \union {NoWrite}]
    /\ server \in Servers
    /\ seenServer \in [create : Annotation, template : Annotation]
    /\ pod \in Pods
    /\ up \in BOOLEAN /\ missed \subseteq {"pause", "quota"}
    /\ changes \in Nat /\ faults \in Nat

\* The webhook has carried out the end of the pause, which is not stored yet.
Unpausing(w) == Open(w) /\ At(w, "done") /\ PauseChanged(write[w]) /\ ~New(write[w]).pause

\* While the account is paused nothing starts the server again: neither the
\* operator, which wants it to run, nor a restart for another quota.  Except
\* when a failure kept the pause from the server, or while the end of the
\* pause, carried out by the webhook before that, is about to be stored.
KeptDown ==
    [][~pod.runs /\ pod'.runs =>
         \/ ~account.pause
         \/ "pause" \in missed'
         \/ \E w \in Write : Unpausing(w)]_vars

\* The webhook has carried out the pause, which is not stored yet.
Pausing(w) ==
    /\ Open(w) /\ write[w].latest /\ write[w].step \in {"delete", "done"}
    /\ PauseChanged(write[w]) /\ New(write[w]).pause

\* The pause is in the StatefulSet, or there is an excuse.
Kept == server.create = "false" /\ server.template = "false"
Down == Kept \/ "pause" \in missed \/ \E w \in Write : Unpausing(w)

Shaped(w) ==
    /\ Open(w) /\ write[w].latest => write[w].old = account
    /\ Running(w) /\ ~Open(w) /\ write[w].waits => write[w].step \in {"done", "skipped"}
    /\ Running(w) /\ write[w].step \in {"pause", "delete"} => PauseChanged(write[w])

\* Why KeptDown holds: the StatefulSet carries the pause from when the webhook
\* has carried it out, before it is stored, until the end of the pause.
DownInv ==
    /\ \A w \in Write : Shaped(w)
    /\ account.pause \/ (\E w \in Write : Pausing(w)) => Down

\* In the end the server runs just when the account is not paused, however
\* pauses, ends of pauses, conflicts, restarts and the operator interleave,
\* unless the last change of the pause was kept from it by a failure.
PauseFollowed == <>[]("pause" \in missed \/ (pod.runs <=> ~account.pause))

\* In the end the server that runs has the quota of the account, twice that
\* in maintenance mode, unless a failure kept the last change from it.
QuotaReaches ==
    <>[](\/ "quota" \in missed
         \/ ~pod.runs
         \/ pod.limits = Limits(account) /\ pod.band = account.hard)
=============================================================================
