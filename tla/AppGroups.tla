------------------------------ MODULE AppGroups ------------------------------
(***************************************************************************)
(* Application groups: the controller that keeps one AppGroup per          *)
(* installed application, with the state of the application's workloads in *)
(* its status.  Informers feed one rate-limited queue; five workers take   *)
(* events from it, read the informers' caches, and write the group with    *)
(* the resource version they read.  Users install, upgrade and delete      *)
(* applications meanwhile, helm changes the workloads, and the panel may   *)
(* crash.                                                                  *)
(*                                                                         *)
(* Every watched object has a log of versions: the first is what the       *)
(* informer's cache holds, the last is what the API server holds, and the  *)
(* ones between are still to be delivered.                                 *)
(***************************************************************************)
EXTENDS Integers, Sequences, FiniteSets

CONSTANTS Group, Workload, Job, \* Job: the workloads that are Jobs
          GroupOf,     \* the group a workload belongs to (GetGroupName)
          ParentOf,    \* the group named by the w7.cc/parent label, or itself
          Kind,        \* how an application came: "zpk", "helm", "custom"
          NoGroup,     \* the group is not there
          Workers,     \* events handled at a time (5)
          MaxRetries,  \* maxRetries (3)
          Scenes       \* bound: which groups are there or are touched, and
                       \* how often users act and the panel crashes

ASSUME ShapeAssumption ==
    /\ Job \subseteq Workload
    /\ GroupOf \in [Workload -> Group]
    /\ ParentOf \in [Group -> Group]
    /\ \A g \in Group : ParentOf[ParentOf[g]] = ParentOf[g]
    /\ Kind \in [Group -> {"zpk", "helm", "custom"}]
    /\ \A w \in Job : Kind[GroupOf[w]] # "custom"
ASSUME NamesAssumption ==
    Group \cap Workload = {} /\ "secret" \notin Group \cup Workload
ASSUME BoundAssumption ==
    /\ Workers \in Nat \ {0} /\ MaxRetries \in Nat
    /\ Scenes \subseteq [groups : SUBSET Group, moves : Nat]

VARIABLES log,       \* the versions of every watched object, see above
          queue,     \* the events waiting for a worker
          later,     \* the workloads whose event is queued in a minute
          tasks,     \* the events being handled, with what is left to do
          requests,  \* the groups recorded by an install whose helm step is due
          released,  \* the groups that have a deployed helm release
          lost,      \* history: workloads whose last change was given up
          cleaned,   \* history: workloads, with their creation, whose deletion
                     \* a cleaning has called for
          scene,     \* the bounds of this behavior, one of Scenes
          moves      \* how many user actions and crashes there were

vars == <<log, queue, later, tasks, requests, released, lost, cleaned, scene, moves>>

Object == Group \cup Workload
Members(g) == {w \in Workload : GroupOf[w] = g}
HelmManaged(w) == Kind[GroupOf[w]] # "custom"

Cached(o) == log[o][1]
Stored(o) == log[o][Len(log[o])]
There(g) == Stored(g) # NoGroup
InStep(o) == Len(log[o]) = 1

\* A workload's versions have its state and how often it was created so far.
State(w) == Stored(w).st
Exists(o) == IF o \in Group THEN There(o) ELSE State(o) # "absent"

\* The store's next version of an object.
Push(o, v) == Append(log[o], v)
PushState(w, st) ==
    Push(w, [st |-> st,
             born |-> Stored(w).born + IF State(w) = "absent" THEN 1 ELSE 0])

\* DELETE: no resource version is given; the finalizer keeps the group, marked
\* as being deleted, until its cleaning is done.
Deleted(gs) ==
    [o \in Object |-> IF o \in gs /\ There(o) /\ ~Stored(o).deleting
                      THEN Push(o, [Stored(o) EXCEPT !.deleting = TRUE])
                      ELSE log[o]]

\* A write leaves whoever read the object before it with an old version.
Age(ts) == {[t EXCEPT !.fresh = {o \in @ : Len(log'[o]) <= Len(log[o])}] : t \in ts}
AgeTasks == tasks' = Age(tasks)

-----------------------------------------------------------------------------
(* The group as the wrapper changes it before it is written.               *)

\* The resources an install records: the rendered chart's workloads, or the
\* jobs that run helm.
Recorded(g) == IF Kind[g] = "zpk" THEN Members(g)
               ELSE IF Kind[g] = "helm" THEN Members(g) \cap Job ELSE {}

\* What a group shows of a workload: nothing, or whether it is ready, with its
\* creation time.
Out == [show |-> "out", born |-> 0]
Nowhere == [st |-> "absent", born |-> 0]
Shows(r) == {w \in Workload : r.items[w].show # "out"}

DeployStatus(st) == CASE st = "ready" -> "deployed"
                      [] st = "failed" -> "failed"
                      [] OTHER -> "deploying"

ComputeDeployStatus(r) ==
    LET states == {r.deploy[w] : w \in Workload} \ {"none"}
    IN IF "failed" \in states THEN "failed"
       ELSE IF states \subseteq {"deployed"} THEN "deployed" ELSE "deploying"

ComputeStatus(r) ==
    LET status == IF r.status = "deployed" THEN "deployed"
                  ELSE ComputeDeployStatus(r)
    IN [r EXCEPT !.status = status,
                 !.version = IF status = "deployed" /\ r.upgrading # 0
                             THEN r.upgrading ELSE @,
                 !.ready = \A w \in Workload : r.items[w].show # "unready"]

FixDeployItem(r, w, v) ==
    ComputeStatus(IF r.deploy[w] \in {"none", "deployed"} THEN r
                  ELSE [r EXCEPT !.deploy[w] = DeployStatus(v.st)])

\* A ready installed application is reported to the store it came from, and
\* marked as reported on the copy that is written next.
AddStatusItem(r, w, v) ==
    LET item == [show |-> IF v.st = "ready" THEN "ready" ELSE "unready", born |-> v.born]
        new  == FixDeployItem([r EXCEPT !.items[w] = item], w, v)
    IN [new EXCEPT !.settled = @ \/ (new.ready /\ new.ticket)]

RemoveStatusItem(r, w) ==
    ComputeStatus([r EXCEPT !.items[w] = Out, !.deploy[w] = "none"])

\* CreateAppGroup and the specification GetAppGroupWrapper, ToAppGroup and
\* releaseToAppGroup give it.  settled: the suffix is set, for a group that
\* grew from a workload; the installation is reported, for an installed one.
NewGroup(ticket) ==
    [items |-> [w \in Workload |-> Out], deploy |-> [w \in Workload |-> "none"],
     status |-> "", ready |-> FALSE, version |-> 0, upgrading |-> 0,
     settled |-> FALSE, ticket |-> ticket, child |-> FALSE, deleting |-> FALSE]

Installing(g) ==
    [w \in Workload |-> IF w \in Recorded(g) THEN "deploying" ELSE "none"]

-----------------------------------------------------------------------------
(* Users, helm and the workloads' own controllers.                         *)

\* The applications in \E installed were installed before and have settled.
Settled(g, installed) ==
    LET under == {g} \cup {i \in installed : ParentOf[i] = g}
        own == {w \in Workload \ Job : GroupOf[w] \in under}
    IN [NewGroup(Kind[g] # "custom") EXCEPT
          !.items = [w \in Workload |-> IF w \in own THEN [show |-> "ready", born |-> 1] ELSE Out],
          !.deploy = [w \in Workload |-> IF w \in Recorded(g) THEN "deployed" ELSE "none"],
          !.status = "deployed", !.ready = TRUE, !.settled = TRUE,
          !.version = IF Kind[g] = "custom" THEN 0 ELSE 1,
          !.child = ParentOf[g] # g]

Init ==
    /\ \E s \in Scenes, installed \in SUBSET Group :
         /\ scene = s /\ installed \subseteq s.groups
         /\ log = [o \in Object |->
              IF o \in Group
              THEN <<IF o \in installed THEN Settled(o, installed) ELSE NoGroup>>
              ELSE <<IF GroupOf[o] \in installed THEN [st |-> "ready", born |-> 1] ELSE Nowhere>>]
         /\ released = {g \in installed : Kind[g] # "custom"}
    /\ queue = {} /\ later = {} /\ tasks = {}
    /\ requests = {}
    /\ lost = {} /\ cleaned = {}
    /\ moves = 0

Act == moves < scene.moves /\ moves' = moves + 1 /\ UNCHANGED scene
Move(g) == g \in scene.groups /\ Act

\* Mutant: an upgrade leaves the deploy status as it is.
InstallOver(g) ==
    /\ Move(g) /\ Kind[g] # "custom" /\ (There(g) => Stored(g).ticket)
    /\ LET old  == Stored(g)
           base == IF There(g) THEN old
                   ELSE [NewGroup(TRUE) EXCEPT !.child = ParentOf[g] # g,
                                               !.status = "deploying"]
           next == base.version + 1
           new  == [base EXCEPT !.deploy = Installing(g),
                                !.settled = base.settled /\ Kind[g] # "helm",
                                !.version = IF There(g) THEN @ ELSE next,
                                !.upgrading = IF There(g) THEN next ELSE 0]
       IN log' = [log EXCEPT ![g] = Push(g, new)]
    /\ requests' = requests \cup {g}
    /\ AgeTasks
    /\ UNCHANGED <<queue, later, released, lost, cleaned>>

\* CreateOrUpdateGroup: the group is read from the API server and written
\* back with its resource version, so a success is as if both were one step;
\* an upgrade records the new version as the one being installed; one by a
\* job forgets that the installation was reported (persistGroup).
Install(g) ==
    /\ Move(g) /\ Kind[g] # "custom"
    /\ There(g) => Stored(g).ticket
    /\ LET old  == Stored(g)
           base == IF There(g) THEN old
                   ELSE [NewGroup(TRUE) EXCEPT !.child = ParentOf[g] # g]
           next == base.version + 1
           new  == [base EXCEPT !.deploy = Installing(g), !.status = "deploying",
                                !.settled = base.settled /\ Kind[g] # "helm",
                                !.version = IF There(g) THEN @ ELSE next,
                                !.upgrading = IF There(g) THEN next ELSE 0]
       IN log' = [log EXCEPT ![g] = Push(g, new)]
    /\ requests' = requests \cup {g}
    /\ AgeTasks
    /\ UNCHANGED <<queue, later, released, lost, cleaned>>

SecretEvent == [obj |-> "secret", del |-> FALSE, tries |-> 0]

\* The helm step of an install: the chart's workloads are created or changed
\* (the jobs that run helm, for a helm application), and the release's secret
\* is seen by its informer.  It may also fail.
Apply(g) ==
    /\ g \in requests
    /\ requests' = requests \ {g}
    /\ \/ /\ log' = [o \in Object |->
                IF o \in Recorded(g)
                THEN PushState(o, "rolling") ELSE log[o]]
          /\ released' = IF Kind[g] = "zpk" THEN released \cup {g} ELSE released
          /\ queue' = IF Kind[g] = "zpk" THEN queue \cup {SecretEvent} ELSE queue
       \/ UNCHANGED <<log, released, queue>>
    /\ AgeTasks
    /\ UNCHANGED <<later, lost, cleaned, scene, moves>>

\* A helm release made by the install's job, or by hand outside the panel.
Release(g) ==
    /\ Move(g) /\ Kind[g] = "helm" /\ g \notin released
    /\ released' = released \cup {g}
    /\ log' = [o \in Object |->
                IF o \in Members(g) \ Job
                THEN PushState(o, "rolling") ELSE log[o]]
    /\ queue' = queue \cup {SecretEvent}
    /\ AgeTasks
    /\ UNCHANGED <<later, requests, lost, cleaned>>

\* A workload's own controller, or a user's kubectl, changes it.
Change(w, st) ==
    /\ log' = [log EXCEPT ![w] = PushState(w, st)]
    /\ UNCHANGED <<queue, later, requests, released, lost, cleaned>>
    /\ AgeTasks

RollOut(w) ==
    /\ State(w) = "rolling"
    /\ \E st \in IF w \in Job THEN {"ready", "failed"} ELSE {"ready"} :
         Change(w, st)
    /\ UNCHANGED <<scene, moves>>

Restart(w) == Move(GroupOf[w]) /\ w \notin Job /\ State(w) = "ready" /\ Change(w, "rolling")

Create(w) == Move(GroupOf[w]) /\ ~HelmManaged(w) /\ State(w) = "absent" /\ Change(w, "rolling")

Remove(w) == Move(GroupOf[w]) /\ State(w) # "absent" /\ Change(w, "absent")

UserDelete(g) ==
    /\ Move(g) /\ There(g) /\ ~Stored(g).deleting
    /\ log' = Deleted({g})
    /\ UNCHANGED <<queue, later, requests, released, lost, cleaned>>
    /\ AgeTasks

-----------------------------------------------------------------------------
(* Informers and workers.                                                  *)

\* A version reaches the cache, and OnEvent queues it.
Deliver(o) ==
    /\ Len(log[o]) > 1
    /\ log' = [log EXCEPT ![o] = Tail(@)]
    /\ queue' = queue \cup {[obj |-> o, tries |-> 0,
                             del |-> o \in Workload /\ log[o][2].st = "absent"]}
    /\ UNCHANGED <<later, tasks, requests, released, lost, cleaned, scene, moves>>

\* What is left of handling an event: the write to make, the state the
\* workload was read in, what the parent's group needs afterwards, what a group
\* to be cleaned shows, and which of the objects read are still as read.
Plan(e, op, g) ==
    [ev |-> e, op |-> op, g |-> g, up |-> "none", shows |-> {},
     read |-> IF e.obj \in Workload THEN Cached(e.obj) ELSE Nowhere,
     fresh |-> {o \in {g, ParentOf[g], e.obj} : InStep(o)}]

Begin(plan) == tasks' = tasks \cup {plan} /\ UNCHANGED lost
GiveUp(w) == lost' = lost \cup {w} /\ UNCHANGED tasks

\* The parent the wrapper is given: the cached one.
HasParent(g) == Cached(g).child /\ Cached(ParentOf[g]) # NoGroup

\* HandleWorkload for a workload that is gone, or an event of its deletion: a
\* group left with nothing to show is deleted, unless it is a helm chart's.
HandleGone(e, w) ==
    LET g == GroupOf[w]
        p == ParentOf[g]
        OnlyItem(h) == Shows(Cached(h)) \subseteq {w} /\ Kind[h] # "helm"
    IN /\ e.del \/ Cached(w).st = "absent"
       /\ IF Cached(g) = NoGroup THEN GiveUp(w)
          ELSE IF OnlyItem(g) THEN Begin(Plan(e, "delete", g))
          ELSE Begin([Plan(e, "remove", g) EXCEPT
                        !.up = IF ~HasParent(g) THEN "none"
                               ELSE IF OnlyItem(p) THEN "delete" ELSE "remove"])

\* HandleWorkload for a workload that is there: a group is created only for
\* a workload of no release, and a Job only changes what an install recorded.
HandleLive(e, w) ==
    LET g == GroupOf[w]
    IN /\ ~e.del /\ Cached(w).st # "absent"
       /\ IF Cached(g) # NoGroup
          THEN Begin([Plan(e, "add", g) EXCEPT
                        !.up = IF w \notin Job /\ HasParent(g) THEN "add" ELSE @])
          ELSE IF HelmManaged(w) THEN GiveUp(w)
          ELSE Begin(Plan(e, "create", g))

\* Mutant: the finalizer is removed without the cleaning.
HandleAppGroupUncleaned(e, g) ==
    LET r == Cached(g)
        Nothing == UNCHANGED <<tasks, lost>>
    IN IF r = NoGroup THEN Nothing
       ELSE IF r.deleting
       THEN Begin([Plan(e, "finish", g) EXCEPT !.up = IF r.child THEN "label" ELSE @])
       ELSE \/ (r.settled \/ r.ticket) /\ Nothing
            \/ ~r.settled /\ (r.ticket => r.ready) /\ Begin(Plan(e, "settle", g))

\* Mutant: a group whose installation is not reported yet is not cleaned.
HandleAppGroupReportFirst(e, g) ==
    LET r == Cached(g)
        Nothing == UNCHANGED <<tasks, lost>>
    IN IF r = NoGroup THEN Nothing
       ELSE IF r.settled /\ r.deleting
       THEN Begin([Plan(e, "clean", g) EXCEPT
                     !.shows = Shows(r), !.up = IF r.child THEN "label" ELSE @])
       ELSE \/ (r.settled \/ r.ticket) /\ Nothing
            \/ ~r.settled /\ (r.ticket => r.ready) /\ Begin(Plan(e, "settle", g))

\* HandleAppGroup: a deleted group is cleaned; for the others the suffix is
\* set, or the installation is reported, which may fail.
HandleAppGroup(e, g) ==
    LET r == Cached(g)
        Nothing == UNCHANGED <<tasks, lost>>
    IN IF r = NoGroup THEN Nothing
       ELSE IF r.deleting
       THEN Begin([Plan(e, "clean", g) EXCEPT
                     !.shows = Shows(r), !.up = IF r.child THEN "label" ELSE @])
       ELSE \/ (r.settled \/ r.ticket) /\ Nothing
            \/ ~r.settled /\ (r.ticket => r.ready) /\ Begin(Plan(e, "settle", g))

\* A worker takes an event and reads the caches.
Take(e) ==
    /\ Cardinality(tasks) < Workers
    /\ queue' = queue \ {e}
    /\ \/ e.obj \in Workload /\ (HandleGone(e, e.obj) \/ HandleLive(e, e.obj))
       \/ e.obj \in Group /\ HandleAppGroup(e, e.obj)
    /\ UNCHANGED <<log, later, requests, released, cleaned, scene, moves>>

\* HelmWorkload.Sync: a group is created for every release whose group the
\* cache does not hold, and its workloads' events are queued again.
Sync(e) ==
    LET missing == {g \in released : Cached(g) = NoGroup}
        absent  == {g \in missing : ~There(g)}
        new(g)  == [NewGroup(FALSE) EXCEPT !.ready = TRUE, !.settled = TRUE]
    IN /\ e.obj = "secret"
       /\ Cardinality(tasks) < Workers
       /\ log' = [o \in Object |-> IF o \in absent THEN Push(o, new(o)) ELSE log[o]]
       /\ queue' = queue \ {e}
       /\ later' = later \cup {w \in Workload \ Job : GroupOf[w] \in missing}
       /\ AgeTasks
       /\ UNCHANGED <<requests, released, lost, cleaned, scene, moves>>

\* AddAfter(event, time.Minute): by then what was in flight has been handled.
Added(o) == [obj |-> o, del |-> FALSE, tries |-> 0]
Elapse ==
    /\ later # {} /\ queue = {} /\ tasks = {}
    /\ \A o \in Object : InStep(o)
    /\ queue' = {Added(w) : w \in later}
    /\ later' = {}
    /\ UNCHANGED <<log, tasks, requests, released, lost, cleaned, scene, moves>>

-----------------------------------------------------------------------------
(* The writes.                                                             *)

\* The workload an event is about, if any.
About(e) == {e.obj} \cap Workload

Forget(t) == tasks' = Age(tasks \ {t}) /\ UNCHANGED queue
Then(t, op) == tasks' = Age((tasks \ {t}) \cup {[t EXCEPT !.op = op]}) /\ UNCHANGED queue

\* Mutants: failed events come back for ever; failed events never come back.
RetryForever(t) ==
    /\ tasks' = tasks \ {t}
    /\ queue' = queue \cup {[t.ev EXCEPT !.tries = @ + 1]}
    /\ UNCHANGED lost
RetryNever(t) == tasks' = tasks \ {t} /\ UNCHANGED <<queue, lost>>

\* handleErr: requeued a bounded number of times, then dropped.
Retry(t) ==
    /\ tasks' = tasks \ {t}
    /\ IF t.ev.tries < MaxRetries
       THEN /\ queue' = queue \cup {[t.ev EXCEPT !.tries = @ + 1]}
            /\ UNCHANGED lost
       ELSE lost' = lost \cup About(t.ev) /\ UNCHANGED queue

\* History, when a group is written: an older state than the last one may be
\* written with no event left to correct it, as two workers can handle two
\* versions of one workload; and a deletion can be handled last.
Applied(t) ==
    LET left == queue \cup {u.ev : u \in {v \in tasks \ {t} : v.op # "parent"}}
        overtaken == {w \in About(t.ev) \ t.fresh :
                        InStep(w) /\ \A e \in left : e.obj # w}
        late == {w \in About(t.ev) : t.ev.del /\ Exists(w)}
    IN lost' = (lost \ (About(t.ev) \cap t.fresh)) \cup overtaken \cup late

Changed(r, op, w, v) ==
    CASE op = "add"    -> IF w \in Job THEN FixDeployItem(r, w, v)
                          ELSE AddStatusItem(r, w, v)
      [] op = "remove" -> RemoveStatusItem(r, w)
      [] op = "settle" -> [r EXCEPT !.settled = TRUE]

\* Persist of a group that is there.  When the resource version fits, what is
\* stored is what was read, with the change made to it; when nothing changed
\* no version is written.
Update(t, g, op) ==
    LET new == Changed(Stored(g), op, t.ev.obj, t.read)
    IN log' = IF new = Stored(g) THEN log ELSE [log EXCEPT ![g] = Push(g, new)]
\* Mutant: the write is made whatever version was read.
FitsAny(t, g) == There(g)
Fits(t, g) == There(g) /\ g \in t.fresh

UpdateGroup(t) ==
    /\ t.op \in {"add", "remove", "settle"}
    /\ IF Fits(t, t.g)
       THEN /\ Update(t, t.g, t.op) /\ Applied(t)
            /\ IF t.up = "none" THEN Forget(t) ELSE Then(t, "parent")
       ELSE UNCHANGED log /\ Retry(t)
    /\ UNCHANGED cleaned

\* Persist of the parent's group: whatever becomes of it is not reported.
PersistParent(t) ==
    LET p == ParentOf[t.g]
    IN /\ t.op = "parent"
       /\ IF t.up = "delete" THEN log' = Deleted({p})
          ELSE IF Fits(t, p) THEN Update(t, p, t.up)
          ELSE UNCHANGED log
       /\ Forget(t)
       /\ UNCHANGED <<lost, cleaned>>

CreateGroup(t) ==
    /\ t.op = "create"
    /\ IF There(t.g) THEN UNCHANGED log /\ Retry(t)
       ELSE /\ log' = [log EXCEPT ![t.g] =
                         Push(t.g, AddStatusItem(NewGroup(FALSE), t.ev.obj, t.read))]
            /\ Applied(t) /\ Forget(t)
    /\ UNCHANGED cleaned

\* DeleteAppGroup, for a group whose last workload went.
DeleteGroup(t) ==
    /\ t.op = "delete"
    /\ IF There(t.g) THEN log' = Deleted({t.g}) /\ Applied(t) /\ Forget(t)
       ELSE UNCHANGED log /\ Retry(t)
    /\ UNCHANGED cleaned

\* cleanAppGroup: the release is uninstalled, and the workloads the group
\* shows and the jobs that carry its name are deleted.  It takes a while.  A
\* call that fails is logged, and the cleaning goes on without it: what it was
\* for is kept, and nobody comes back for it.
CleanGroup(t) ==
    LET doomed == {w \in t.shows \cup {m \in Members(t.g) : HelmManaged(m)} : Exists(w)}
    IN /\ t.op = "clean"
       /\ \E kept \in SUBSET doomed :
            /\ log' = [o \in Object |-> IF o \in doomed \ kept
                                        THEN PushState(o, "absent") ELSE log[o]]
            /\ lost' = lost \cup kept
            /\ \/ kept = {} /\ released' = released \ {t.g} /\ UNCHANGED <<scene, moves>>
               \/ released' \in {released, released \ {t.g}} /\ Act
       /\ cleaned' = cleaned \cup {<<w, Stored(w).born>> : w \in doomed}
       /\ Then(t, "finish")

Children(g) == {i \in Group : /\ Cached(i) # NoGroup
                              /\ Cached(i).child /\ ParentOf[i] = g}

\* Update without the finalizer: the group goes.
Finalized(g) == [log EXCEPT ![g] = Push(g, NoGroup)]

\* The end of HandleAppGroup for a child: its finalizer is removed, and then
\* the group is looked up under its own name for the parent's.
FinishChild(t) ==
    /\ t.op = "finish" /\ t.up = "label"
    /\ IF Fits(t, t.g)
       THEN log' = Finalized(t.g) /\ Then(t, "lookup") /\ UNCHANGED lost
       ELSE UNCHANGED log /\ Retry(t)
    /\ UNCHANGED <<released, cleaned>>

\* cleanGroupChildren: the children not being deleted yet are deleted, and
\* when there is none the group's own finalizer is removed.
CleanChildren(t) ==
    LET live == {i \in Children(t.g) : ~Cached(i).deleting}
    IN IF live # {} THEN log' = Deleted(live) /\ Forget(t) /\ UNCHANGED lost
       ELSE IF Fits(t, t.g) THEN log' = Finalized(t.g) /\ Forget(t) /\ UNCHANGED lost
       ELSE UNCHANGED log /\ Retry(t)

FinishRoot(t) ==
    /\ t.op = "finish" /\ t.up = "none"
    /\ CleanChildren(t)
    /\ UNCHANGED <<released, cleaned>>

\* What the child's lookup finds is the child itself, or nothing.
LookUp(t) ==
    /\ t.op = "lookup"
    /\ IF Cached(t.g) = NoGroup THEN UNCHANGED <<log, lost>> /\ Forget(t)
       ELSE CleanChildren(t)
    /\ UNCHANGED <<released, cleaned>>

Step(t) ==
    /\ \/ /\ UpdateGroup(t) \/ PersistParent(t) \/ CreateGroup(t) \/ DeleteGroup(t)
          /\ UNCHANGED <<released, scene, moves>>
       \/ CleanGroup(t)
       \/ /\ FinishChild(t) \/ FinishRoot(t) \/ LookUp(t)
          /\ UNCHANGED <<scene, moves>>
    /\ UNCHANGED <<later, requests>>

\* The panel dies.  What it holds in memory is gone; the next one lists every
\* object, which its handlers see as added, and never hears of what was
\* deleted meanwhile.
Crash ==
    /\ Act
    /\ log' = [o \in Object |-> <<Stored(o)>>]
    /\ queue' = {Added(o) : o \in {p \in Object : Exists(p)}}
                 \cup (IF released = {} THEN {} ELSE {SecretEvent})
    /\ later' = {} /\ tasks' = {} /\ requests' = {}
    /\ lost' = lost \cup {w \in Workload : ~Exists(w)}
    /\ UNCHANGED <<released, cleaned>>

Controller == \/ \E o \in Object : Deliver(o)
              \/ \E e \in queue : Take(e) \/ Sync(e)
              \/ Elapse
              \/ \E t \in tasks : Step(t)

Next == \/ Controller
        \/ \E g \in Group : Install(g) \/ Apply(g) \/ Release(g) \/ UserDelete(g)
        \/ \E w \in Workload : RollOut(w) \/ Restart(w) \/ Create(w) \/ Remove(w)
        \/ Crash

\* The informers deliver and the workers run on; nobody has to use the panel.
Spec == Init /\ [][Next]_vars /\ WF_vars(Controller)

-----------------------------------------------------------------------------
Status == {"", "deploying", "failed", "deployed"}
GroupObject ==
    [items : [Workload -> [show : {"out", "unready", "ready"}, born : Nat]],
     deploy : [Workload -> {"none", "deploying", "failed", "deployed"}],
     status : Status, ready : BOOLEAN, version : Nat, upgrading : Nat,
     settled : BOOLEAN, ticket : BOOLEAN, child : BOOLEAN, deleting : BOOLEAN]
ASSUME NoGroupAssumption == NoGroup \notin GroupObject

Event == [obj : Object \cup {"secret"}, del : BOOLEAN, tries : 0..MaxRetries]
WorkloadObject == [st : {"absent", "rolling", "ready", "failed"}, born : Nat]
Version(o) == IF o \in Group THEN GroupObject \cup {NoGroup} ELSE WorkloadObject
Op == {"add", "remove", "settle", "parent", "create", "delete", "clean", "finish", "lookup"}
Task == [ev : Event, op : Op, g : Group,
         up : {"none", "add", "remove", "delete", "label"}, shows : SUBSET Workload,
         read : WorkloadObject, fresh : SUBSET Object]

\* Every watched object has a version, however many were delivered, and the
\* queue and the workers hold events that were tried a bounded number of times.
TypeOK ==
    /\ DOMAIN log = Object
    /\ \A o \in Object : log[o] \in Seq(Version(o)) /\ log[o] # <<>>
    /\ queue \subseteq Event /\ later \subseteq Workload
    /\ tasks \subseteq Task
    /\ requests \subseteq Group /\ released \subseteq Group
    /\ lost \subseteq Workload /\ cleaned \subseteq Workload \X Nat
    /\ scene \in Scenes /\ moves \in 0..scene.moves

\* A group called deployed has every recorded resource deployed, and carries
\* the version that was being installed: the status is sticky, so an install
\* has to restart it, whatever status writes it races with.
DeployedBacked ==
    \A g \in Group : There(g) =>
        LET r == Stored(g)
        IN r.status = "deployed" =>
             /\ \A w \in Workload : r.deploy[w] \in {"none", "deployed"}
             /\ r.upgrading # 0 => r.version = r.upgrading

\* The deletion of every workload that the group shows was called for, unless
\* the one it shows is gone.
Asked(g) ==
    \A w \in Shows(Stored(g)) :
        LET born == Stored(g).items[w].born
        IN State(w) = "absent" \/ Stored(w).born # born \/ <<w, born>> \in cleaned

\* A group only goes once a cleaning has called for the deletion of everything
\* it shows, though the calls may have failed: a worker that cleaned an older
\* version of the group, which showed less, does not remove the finalizer, and
\* no conflict, retry or crash leaves the cleaning out.
CleanedFirst == [][\A g \in Group : There(g) /\ ~There(g)' => Asked(g)]_vars

\* No group, worker or cache knows a workload that is not created yet ...
Dated ==
    /\ \A g \in Group : There(g) =>
         \A w \in Workload : Stored(g).items[w].born <= Stored(w).born
    /\ \A w \in Workload : \A i \in 1..Len(log[w]) : log[w][i].born <= Stored(w).born
    /\ \A t \in tasks : t.ev.obj \in Workload => t.read.born <= Stored(t.ev.obj).born

\* ... so that a worker whose copy of a group is the last version cleans all
\* that the group shows, and has called for it when it removes the finalizer.
CleanInv ==
    /\ Dated
    /\ \A t \in tasks : t.g \in t.fresh /\ There(t.g) =>
         /\ t.op = "clean" => t.shows = Shows(Stored(t.g))
         /\ t.op \in {"finish", "lookup"} => Asked(t.g)

Shown(w) ==
    LET r  == Stored(GroupOf[w])
        st == State(w)
    IN IF st = "absent" THEN r = NoGroup \/ r.deleting \/ w \notin Shows(r)
       ELSE \/ w \in Job
            \/ /\ r # NoGroup /\ w \in Shows(r)
               /\ st = "ready" <=> r.items[w].show = "ready"

\* Whatever order events are handled in, and however often they are retried,
\* in the end the group shows the workload as it is: unless its last change
\* was given up.
Converges == \A w \in Workload : <>[](w \in lost \/ Shown(w))

DeletionOf(g) == (There(g) /\ Stored(g).deleting) ~> ~There(g)

\* A group that is being deleted goes in the end, although conflicts drop
\* events: every conflict comes from a version whose own event is handled.
\* This is for groups that are nobody's parent.
DeletionEnds ==
    \A g \in {i \in Group : \A k \in Group \ {i} : ParentOf[k] # i} : DeletionOf(g)
=============================================================================
