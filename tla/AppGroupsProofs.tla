--------------------------- MODULE AppGroupsProofs ---------------------------
(***************************************************************************)
(* Theorems about AppGroups, for every set of groups, workloads and        *)
(* workers, any number of users' actions and crashes, and any order of     *)
(* events: the types, that a deployed group is backed by its resources,    *)
(* and that a group goes only after the deletion of what it shows was      *)
(* called for.                                                            *)
(***************************************************************************)
EXTENDS AppGroups, SequenceTheorems, TLAPS

-----------------------------------------------------------------------------
(* The group as the wrapper changes it.                                    *)

\* What DeployedBacked says of one version of a group.
Backed(r) ==
    r.status = "deployed" =>
        /\ \A w \in Workload : r.deploy[w] \in {"none", "deployed"}
        /\ r.upgrading # 0 => r.version = r.upgrading

\* ComputeStatus keeps the type, and calls deployed only what is.
LEMMA ComputeStatusBacked ==
    ASSUME NEW r \in GroupObject, Backed(r)
    PROVE  /\ ComputeStatus(r) \in GroupObject /\ Backed(ComputeStatus(r))
           /\ ComputeStatus(r).items = r.items
  <1> DEFINE status == IF r.status = "deployed" THEN "deployed" ELSE ComputeDeployStatus(r)
             version == IF status = "deployed" /\ r.upgrading # 0 THEN r.upgrading ELSE r.version
             ready == \A w \in Workload : r.items[w].show # "unready"
             c == ComputeStatus(r)
  <1>1. c = [r EXCEPT !.status = status, !.version = version, !.ready = ready]
    BY DEF ComputeStatus
  <1>2. status \in Status /\ version \in Nat /\ ready \in BOOLEAN
    BY DEF ComputeDeployStatus, Status, GroupObject
  <1>3. status = "deployed" => \A w \in Workload : r.deploy[w] \in {"none", "deployed"}
    BY DEF ComputeDeployStatus, Backed
  <1> HIDE DEF status, ready, c
  <1>4. c \in GroupObject
    BY <1>1, <1>2 DEF GroupObject
  <1>5. /\ c.status = status /\ c.version = version
        /\ c.deploy = r.deploy /\ c.upgrading = r.upgrading /\ c.items = r.items
    BY <1>1, <1>2 DEF GroupObject
  <1> QED
    BY <1>3, <1>4, <1>5 DEF Backed, c

\* FixDeployItem does: an item that is deployed stays so.
LEMMA FixDeployItemBacked ==
    ASSUME NEW r \in GroupObject, Backed(r), NEW w \in Workload, NEW v \in WorkloadObject
    PROVE  /\ FixDeployItem(r, w, v) \in GroupObject /\ Backed(FixDeployItem(r, w, v))
           /\ FixDeployItem(r, w, v).items = r.items
  <1> DEFINE d == [r EXCEPT !.deploy[w] = DeployStatus(v.st)]
  <1>1. CASE r.deploy[w] \in {"none", "deployed"}
    BY <1>1, ComputeStatusBacked DEF FixDeployItem
  <1>2. CASE r.deploy[w] \notin {"none", "deployed"}
    <2>1. DeployStatus(v.st) \in {"none", "deploying", "failed", "deployed"}
      BY DEF DeployStatus
    <2>2. d \in GroupObject /\ d.status = r.status /\ d.items = r.items
      BY <2>1 DEF GroupObject
    <2>3. Backed(d)
      BY <1>2, <2>2 DEF Backed
    <2> QED
      BY <1>2, <2>2, <2>3, ComputeStatusBacked DEF FixDeployItem
  <1> QED
    BY <1>1, <1>2

\* The workload shown is as new as the one that was read.
LEMMA AddStatusItemBacked ==
    ASSUME NEW r \in GroupObject, Backed(r), NEW w \in Workload, NEW v \in WorkloadObject
    PROVE  LET n == AddStatusItem(r, w, v)
           IN /\ n \in GroupObject /\ Backed(n)
              /\ \A x \in Workload : n.items[x].born = IF x = w THEN v.born ELSE r.items[x].born
  <1> DEFINE item == [show |-> IF v.st = "ready" THEN "ready" ELSE "unready",
                      born |-> v.born]
             s == [r EXCEPT !.items[w] = item]
             f == FixDeployItem(s, w, v)
             n == [f EXCEPT !.settled = @ \/ (f.ready /\ f.ticket)]
  <1>1. item \in [show : {"out", "unready", "ready"}, born : Nat] /\ item.born = v.born
    BY DEF WorkloadObject
  <1>2. AddStatusItem(r, w, v) = n
    BY DEF AddStatusItem
  <1> HIDE DEF item
  <1>3. s \in GroupObject /\ Backed(s) /\ s.items = [r.items EXCEPT ![w] = item]
    BY <1>1 DEF GroupObject, Backed
  <1> HIDE DEF s
  <1>4. f \in GroupObject /\ Backed(f) /\ f.items = s.items
    BY <1>3, FixDeployItemBacked
  <1> HIDE DEF f
  <1>5. n \in GroupObject /\ Backed(n) /\ n.items = f.items
    BY <1>4 DEF GroupObject, Backed
  <1>6. r.items \in [Workload -> [show : {"out", "unready", "ready"}, born : Nat]]
    BY DEF GroupObject
  <1> HIDE DEF n
  <1> QED
    BY <1>1, <1>2, <1>3, <1>4, <1>5, <1>6

\* A group shows no workload that is not created yet.
Dates(r) == \A x \in Workload : r.items[x].born <= Stored(x).born

\* Every change a worker makes to a group keeps it backed, and shows what was
\* read.
LEMMA ChangedBacked ==
    ASSUME NEW r \in GroupObject, Backed(r), NEW op \in {"add", "remove", "settle"},
           NEW w, op # "settle" => w \in Workload, NEW v \in WorkloadObject,
           \A x \in Workload : Stored(x).born \in Nat,
           Dates(r), op # "settle" => v.born <= Stored(w).born
    PROVE  /\ Changed(r, op, w, v) \in GroupObject /\ Backed(Changed(r, op, w, v))
           /\ Dates(Changed(r, op, w, v))
  <1>1. CASE op = "settle"
    <2> DEFINE s == [r EXCEPT !.settled = TRUE]
    <2>1. s \in GroupObject /\ Backed(s) /\ s.items = r.items
      BY DEF GroupObject, Backed
    <2> QED
      BY <1>1, <2>1 DEF Changed, Dates
  <1>2. CASE op = "remove"
    <2> DEFINE s == [r EXCEPT !.items[w] = Out, !.deploy[w] = "none"]
    <2>1. s \in GroupObject /\ Backed(s)
      BY <1>2 DEF GroupObject, Backed, Out
    <2>2. Changed(r, op, w, v) = ComputeStatus(s)
      BY <1>2 DEF Changed, RemoveStatusItem
    <2>3. \A x \in Workload : s.items[x] = IF x = w THEN Out ELSE r.items[x]
      BY DEF GroupObject
    <2> HIDE DEF s
    <2>4. /\ ComputeStatus(s) \in GroupObject /\ Backed(ComputeStatus(s))
          /\ ComputeStatus(s).items = s.items
      BY <2>1, ComputeStatusBacked
    <2>5. Dates(ComputeStatus(s))
      BY <2>3, <2>4 DEF Dates, Out
    <2> QED
      BY <2>2, <2>4, <2>5
  <1>3. CASE op = "add" /\ w \in Job
    <2>1. Changed(r, op, w, v) = FixDeployItem(r, w, v)
      BY <1>3 DEF Changed
    <2>2. /\ FixDeployItem(r, w, v) \in GroupObject /\ Backed(FixDeployItem(r, w, v))
          /\ FixDeployItem(r, w, v).items = r.items
      BY <1>3, FixDeployItemBacked
    <2> QED
      BY <2>1, <2>2 DEF Dates
  <1>4. CASE op = "add" /\ w \notin Job
    <2> DEFINE n == AddStatusItem(r, w, v)
    <2>1. /\ n \in GroupObject /\ Backed(n)
          /\ \A x \in Workload : n.items[x].born = IF x = w THEN v.born ELSE r.items[x].born
      BY <1>4, AddStatusItemBacked
    <2>2. Changed(r, op, w, v) = n
      BY <1>4 DEF Changed
    <2> HIDE DEF n
    <2>3. Dates(n)
      BY <1>4, <2>1 DEF Dates
    <2> QED
      BY <2>1, <2>2, <2>3
  <1> QED
    BY <1>1, <1>2, <1>3, <1>4

\* A new group is backed: it is not deployed.
LEMMA NewGroupBacked ==
    ASSUME NEW ticket \in BOOLEAN
    PROVE  /\ NewGroup(ticket) \in GroupObject /\ NewGroup(ticket).status = ""
           /\ NewGroup(ticket).upgrading = 0
           /\ \A x \in Workload : NewGroup(ticket).items[x].born = 0
  BY DEF NewGroup, GroupObject, Out, Status

-----------------------------------------------------------------------------
(* Versions.                                                               *)

\* A version v that may be written to the object o.
Fine(o, v) ==
    /\ o \in Group => \/ v = NoGroup /\ (Stored(o) = NoGroup \/ Asked(o))
                      \/ v # NoGroup /\ Backed(v) /\ Dates(v)
    /\ o \in Workload => /\ v.born >= Stored(o).born
                         /\ State(o) = "absent" => v.born > Stored(o).born

Written(o) ==
    \/ log'[o] = log[o]
    \/ \E v \in Version(o) : log'[o] = Append(log[o], v) /\ Fine(o, v)

LogOK(l) == DOMAIN l = Object /\ \A o \in Object : l[o] \in Seq(Version(o)) /\ l[o] # <<>>

\* The parts of CleanInv.
GroupDates == \A g \in Group : There(g) => Dates(Stored(g))
LogDates == \A w \in Workload : \A i \in 1..Len(log[w]) : log[w][i].born <= Stored(w).born

GoneClean == \A g \in Group : There(g) /\ ~There(g)' => Asked(g)

\* What the workers rely on of a step.
Moved ==
    /\ \A w \in Workload :
         /\ Stored(w).born \in Nat /\ Stored(w).born' \in Nat
         /\ Stored(w).born' >= Stored(w).born
         /\ State(w) = "absent" => State(w)' = "absent" \/ Stored(w).born' > Stored(w).born
    /\ \A g \in Group : Len(log'[g]) <= Len(log[g]) => Stored(g)' = Stored(g)

\* Appending a version to a log.
LEMMA AppendLast ==
    ASSUME NEW S, NEW l \in Seq(S), NEW v \in S
    PROVE  /\ Append(l, v) \in Seq(S) /\ Append(l, v) # <<>>
           /\ Len(Append(l, v)) = Len(l) + 1 /\ Append(l, v)[Len(Append(l, v))] = v
           /\ \A i \in 1..Len(l) : Append(l, v)[i] = l[i]
  OBVIOUS

\* A workload's last version.
LEMMA StoredWorkload ==
    ASSUME TypeOK, NEW w \in Workload
    PROVE  /\ Stored(w) \in WorkloadObject /\ Stored(w).born \in Nat
           /\ w \in Object /\ w \notin Group
  <1>1. w \in Object /\ w \notin Group
    BY NamesAssumption DEF Object
  <1>2. log[w] \in Seq(WorkloadObject) /\ log[w] # <<>>
    BY <1>1 DEF TypeOK, Version
  <1>3. log[w][Len(log[w])] \in WorkloadObject
    BY <1>2
  <1> QED
    BY <1>1, <1>3 DEF Stored, WorkloadObject

\* Writes keep the logs, the deployed groups, the dates and the finalizers.
LEMMA WriteStep ==
    ASSUME TypeOK, DeployedBacked, GroupDates, LogDates,
           DOMAIN log' = Object, \A o \in Object : Written(o)
    PROVE  /\ LogOK(log') /\ DeployedBacked' /\ GroupDates' /\ LogDates'
           /\ GoneClean /\ Moved
  <1>1. ASSUME NEW o \in Object
        PROVE  /\ log'[o] \in Seq(Version(o)) /\ log'[o] # <<>>
               /\ \/ log'[o] = log[o] /\ Stored(o)' = Stored(o)
                  \/ /\ Stored(o)' \in Version(o) /\ Fine(o, Stored(o)')
                     /\ Len(log[o]) \in Nat /\ Len(log'[o]) = Len(log[o]) + 1
                     /\ log'[o][Len(log'[o])] = Stored(o)'
                     /\ \A i \in 1..Len(log[o]) : log'[o][i] = log[o][i]
    <2>1. log[o] \in Seq(Version(o)) /\ log[o] # <<>>
      BY DEF TypeOK
    <2>2. CASE log'[o] = log[o]
      BY <2>1, <2>2 DEF Stored
    <2>3. ASSUME NEW v \in Version(o), log'[o] = Append(log[o], v), Fine(o, v)
          PROVE  /\ log'[o] \in Seq(Version(o)) /\ log'[o] # <<>>
                 /\ Stored(o)' = v /\ Len(log[o]) \in Nat
                 /\ Len(log'[o]) = Len(log[o]) + 1
                 /\ \A i \in 1..Len(log[o]) : log'[o][i] = log[o][i]
      BY <2>1, <2>3, AppendLast DEF Stored
    <2>4. Stored(o)' = log'[o][Len(log'[o])]
      BY DEF Stored
    <2> QED
      BY <2>2, <2>3, <2>4 DEF Written
  <1>2. LogOK(log')
    BY <1>1 DEF LogOK
  <1>3. \A g \in Group : g \in Object
    BY DEF Object
  <1>4. DeployedBacked'
    <2> SUFFICES ASSUME NEW g \in Group, There(g)'
                 PROVE  Backed(Stored(g)')
      BY DEF DeployedBacked, Backed
    <2> QED
      BY <1>1, <1>3 DEF DeployedBacked, Backed, There, Fine
  <1>5. GoneClean
    <2> SUFFICES ASSUME NEW g \in Group, There(g), ~There(g)'
                 PROVE  Asked(g)
      BY DEF GoneClean
    <2> QED
      BY <1>1, <1>3 DEF There, Fine
  <1>6. ASSUME NEW w \in Workload
        PROVE  /\ Stored(w).born \in Nat /\ Stored(w).born' \in Nat
               /\ Stored(w).born' >= Stored(w).born
               /\ State(w) = "absent" => State(w)' = "absent" \/ Stored(w).born' > Stored(w).born
    <2>1. Stored(w).born \in Nat /\ w \in Object /\ w \notin Group
      BY StoredWorkload
    <2>2. CASE Stored(w)' = Stored(w)
      BY <2>1, <2>2 DEF State
    <2>3. CASE Stored(w)' \in Version(w) /\ Fine(w, Stored(w)')
      BY <2>1, <2>3 DEF Version, WorkloadObject, Fine
    <2> QED
      BY <1>1, <2>1, <2>2, <2>3
  <1>7. \A g \in Group : Len(log'[g]) <= Len(log[g]) => Stored(g)' = Stored(g)
    <2> SUFFICES ASSUME NEW g \in Group, Len(log'[g]) <= Len(log[g])
                 PROVE  Stored(g)' = Stored(g)
      OBVIOUS
    <2> QED
      BY <1>1, <1>3
  <1>8. Moved
    BY <1>6, <1>7 DEF Moved
  <1>9. GroupDates'
    <2> SUFFICES ASSUME NEW g \in Group, There(g)', NEW x \in Workload
                 PROVE  Stored(g)'.items[x].born <= Stored(x).born'
      BY DEF GroupDates, Dates
    <2>1. Stored(g)' \in GroupObject /\ Dates(Stored(g)')
      <3>1. Stored(g)' \in GroupObject \cup {NoGroup}
        <4>1. log'[g] \in Seq(GroupObject \cup {NoGroup}) /\ log'[g] # <<>>
          BY <1>1, <1>3 DEF Version
        <4>2. log'[g][Len(log'[g])] \in GroupObject \cup {NoGroup}
          BY <4>1
        <4> QED
          BY <4>2 DEF Stored
      <3>2. Dates(Stored(g)')
        BY <1>1, <1>3 DEF GroupDates, There, Fine
      <3> QED
        BY <3>1, <3>2 DEF There
    <2>2. Stored(g)'.items[x].born <= Stored(x).born /\ Stored(g)'.items[x].born \in Nat
      BY <2>1 DEF Dates, GroupObject
    <2> QED
      BY <1>6, <2>2
  <1>10. LogDates'
    <2> SUFFICES ASSUME NEW w \in Workload, NEW i \in 1..Len(log'[w])
                 PROVE  log'[w][i].born <= Stored(w).born'
      BY DEF LogDates
    <2>1. w \in Object /\ w \notin Group
      BY StoredWorkload
    <2>2. ASSUME i \in 1..Len(log[w]), log'[w][i] = log[w][i]
          PROVE  log'[w][i].born <= Stored(w).born'
      <3>1. log[w] \in Seq(WorkloadObject)
        BY <2>1 DEF TypeOK, Version
      <3>2. log[w][i] \in WorkloadObject /\ log[w][i].born <= Stored(w).born
        BY <2>2, <3>1 DEF LogDates
      <3>3. log[w][i].born \in Nat
        BY <3>2 DEF WorkloadObject
      <3> QED
        BY <1>6, <2>2, <3>2, <3>3
    <2>3. CASE log'[w] = log[w]
      BY <2>2, <2>3
    <2>4. CASE /\ Len(log[w]) \in Nat /\ Len(log'[w]) = Len(log[w]) + 1
               /\ log'[w][Len(log'[w])] = Stored(w)'
               /\ \A j \in 1..Len(log[w]) : log'[w][j] = log[w][j]
      <3>1. CASE i \in 1..Len(log[w])
        BY <2>2, <2>4, <3>1
      <3>2. CASE i = Len(log'[w])
        <4>1. log'[w][i].born = Stored(w).born'
          BY <2>4, <3>2
        <4> QED
          BY <1>6, <4>1
      <3> QED
        BY <2>4, <3>1, <3>2
    <2> QED
      BY <1>1, <2>1, <2>3, <2>4
  <1> QED
    BY <1>2, <1>4, <1>5, <1>8, <1>9, <1>10

\* A group that is there.
LEMMA StoredGroup ==
    ASSUME TypeOK, DeployedBacked, GroupDates, NEW g \in Group, There(g)
    PROVE  /\ Stored(g) \in GroupObject /\ Backed(Stored(g)) /\ Dates(Stored(g))
           /\ g \in Object
  <1>1. log[g] \in Seq(GroupObject \cup {NoGroup}) /\ log[g] # <<>>
    BY DEF TypeOK, Version, Object
  <1>2. log[g][Len(log[g])] \in GroupObject \cup {NoGroup}
    BY <1>1
  <1> QED
    BY <1>2 DEF There, Stored, Object, DeployedBacked, Backed, GroupDates

-----------------------------------------------------------------------------
(* Workers.                                                                *)

\* What a worker has left to do fits the event it took.
TaskShape(t) ==
    /\ t.op \in {"add", "remove", "parent", "create", "delete"} =>
            t.ev.obj \in Workload /\ t.up \in {"none", "add", "remove", "delete"}
    /\ t.op = "parent" => t.up # "none"
    /\ t.op = "settle" => t.up = "none"

\* A worker has read a workload that was there.
Reads(t) == t.ev.obj \in Workload => t.read.born <= Stored(t.ev.obj).born

\* A worker whose copy of a group is the last version cleans all that the group
\* shows, and has called for it when it removes the finalizer.
Covers(t) ==
    t.g \in t.fresh /\ There(t.g) =>
        /\ t.op = "clean" => t.shows = Shows(Stored(t.g))
        /\ t.op \in {"finish", "lookup"} => Asked(t.g)

TaskOK(t) == TaskShape(t) /\ Reads(t) /\ Covers(t)
TaskInv == \A t \in tasks : TaskOK(t)

\* What a step has to leave a worker, so that it can rely on it.
Kept(t) == /\ TaskShape(t) /\ Reads(t)'
           /\ Covers(t)' \/ Len(log'[t.g]) > Len(log[t.g])

\* Workers whose copies age keep what they rely on.
LEMMA AgedTasks ==
    ASSUME NEW ts, ts \subseteq Task, \A o \in Object : Len(log[o]) \in Nat /\ Len(log'[o]) \in Nat,
           \A t \in ts : Kept(t)
    PROVE  Age(ts) \subseteq Task /\ \A u \in Age(ts) : TaskOK(u)'
  <1> SUFFICES ASSUME NEW u, u \in Age(ts)
               PROVE  u \in Task /\ TaskOK(u)'
    OBVIOUS
  <1>1. PICK t \in ts : u = [t EXCEPT !.fresh = {o \in @ : Len(log'[o]) <= Len(log[o])}]
    BY DEF Age
  <1>2. /\ u \in Task /\ u.op = t.op /\ u.ev = t.ev /\ u.up = t.up /\ u.g = t.g
        /\ u.fresh = {o \in t.fresh : Len(log'[o]) <= Len(log[o])}
        /\ u.read = t.read /\ u.shows = t.shows
    BY <1>1 DEF Task
  <1>3. t.g \in Object
    BY DEF Task, Object
  <1>4. TaskShape(u)
    BY <1>2 DEF TaskShape, Kept
  <1>5. Reads(u)'
    BY <1>2 DEF Reads, Kept
  <1>6. Covers(u)'
    BY <1>2, <1>3 DEF Covers, Kept
  <1> QED
    BY <1>2, <1>4, <1>5, <1>6 DEF TaskOK, TaskShape

\* What a group shows stays called for.
LEMMA AskedStays ==
    ASSUME TypeOK, DeployedBacked, GroupDates, Moved, cleaned \subseteq cleaned',
           NEW g \in Group, There(g), Stored(g)' = Stored(g), Asked(g)
    PROVE  Asked(g)'
  <1> SUFFICES ASSUME NEW w \in Shows(Stored(g))
               PROVE  LET born == Stored(g).items[w].born
                      IN \/ State(w)' = "absent" \/ Stored(w).born' # born
                         \/ <<w, born>> \in cleaned'
    BY DEF Asked
  <1> DEFINE born == Stored(g).items[w].born
  <1>1. w \in Workload
    BY DEF Shows
  <1>2. born \in Nat /\ born <= Stored(w).born
    BY <1>1, StoredGroup DEF GroupObject, Dates
  <1>3. State(w) = "absent" \/ Stored(w).born # born \/ <<w, born>> \in cleaned
    BY DEF Asked
  <1> HIDE DEF born
  <1> QED
    BY <1>1, <1>2, <1>3 DEF Moved, born

\* Every step keeps what the workers rely on.
LEMMA KeptTasks ==
    ASSUME TypeOK, DeployedBacked, GroupDates, TaskInv, Moved, cleaned \subseteq cleaned',
           \A o \in Object : Len(log[o]) \in Nat /\ Len(log'[o]) \in Nat
    PROVE  \A t \in tasks : Kept(t)
  <1> SUFFICES ASSUME NEW t \in tasks
               PROVE  Kept(t)
    OBVIOUS
  <1>1. t \in Task /\ t.g \in Group /\ t.read.born \in Nat
    BY DEF TypeOK, Task, WorkloadObject
  <1>2. TaskShape(t) /\ Reads(t) /\ Covers(t)
    BY DEF TaskInv, TaskOK
  <1>3. Reads(t)'
    BY <1>1, <1>2 DEF Reads, Moved
  <1>4. CASE Len(log'[t.g]) <= Len(log[t.g])
    <2>1. Stored(t.g)' = Stored(t.g)
      BY <1>1, <1>4 DEF Moved
    <2>2. There(t.g) => (Asked(t.g) => Asked(t.g)')
      BY <1>1, <2>1, AskedStays
    <2> QED
      BY <1>2, <1>3, <2>1, <2>2 DEF Kept, Covers, There
  <1>5. CASE ~(Len(log'[t.g]) <= Len(log[t.g]))
    <2>1. Len(log[t.g]) \in Nat /\ Len(log'[t.g]) \in Nat
      BY <1>1 DEF Object
    <2>2. Len(log'[t.g]) > Len(log[t.g])
      BY <1>5, <2>1
    <2> QED
      BY <1>2, <1>3, <2>2 DEF Kept
  <1> QED
    BY <1>4, <1>5

\* The lengths of logs.
LEMMA Lengths ==
    ASSUME NEW l, LogOK(l)
    PROVE  \A o \in Object : Len(l[o]) \in Nat /\ Len(l[o]) > 0
  BY DEF LogOK

\* The types but those of log and tasks.
RestOK ==
    /\ queue \subseteq Event /\ later \subseteq Workload
    /\ requests \subseteq Group /\ released \subseteq Group
    /\ lost \subseteq Workload /\ cleaned \subseteq Workload \X Nat
    /\ scene \in Scenes /\ moves \in 0..scene.moves

\* Everything that is proved of the steps.
GroupsInv == TypeOK /\ DeployedBacked /\ GroupDates /\ LogDates /\ TaskInv

\* A step that writes versions and lets the workers' copies age.
LEMMA AgingStep ==
    ASSUME GroupsInv, RestOK', DOMAIN log' = Object, \A o \in Object : Written(o),
           cleaned \subseteq cleaned',
           NEW ts, tasks' = Age(ts), ts \subseteq Task,
           \A t \in ts : t \in tasks \/ Kept(t)
    PROVE  GroupsInv' /\ GoneClean
  <1>1. /\ LogOK(log') /\ DeployedBacked' /\ GroupDates' /\ LogDates'
        /\ GoneClean /\ Moved /\ LogOK(log)
    BY WriteStep DEF GroupsInv, TypeOK, LogOK
  <1>2. \A t \in ts : Kept(t)
    BY <1>1, Lengths, KeptTasks DEF GroupsInv
  <1>3. tasks' \subseteq Task /\ TaskInv'
    BY <1>1, <1>2, Lengths, AgedTasks DEF TaskInv
  <1> QED
    BY <1>1, <1>3 DEF GroupsInv, TypeOK, LogOK, RestOK

\* A step that writes nothing.
LEMMA StillStep ==
    ASSUME GroupsInv, RestOK', LogOK(log'), \A o \in Object : Stored(o)' = Stored(o),
           LogDates', cleaned' = cleaned, tasks' \subseteq Task,
           \A t \in tasks' : t \in tasks \/ TaskOK(t)
    PROVE  GroupsInv' /\ GoneClean
  <1>1. (\A g \in Group : Stored(g)' = Stored(g)) /\ (\A w \in Workload : Stored(w)' = Stored(w))
    BY DEF Object
  <1>2. \A w \in Workload : State(w)' = State(w)
    BY <1>1 DEF State
  <1>3. DeployedBacked' /\ GoneClean
    BY <1>1 DEF GroupsInv, DeployedBacked, There, GoneClean
  <1>4. GroupDates'
    BY <1>1 DEF GroupsInv, GroupDates, Dates, There
  <1>5. TaskInv'
    <2> SUFFICES ASSUME NEW t, t \in tasks'
                 PROVE  TaskOK(t)'
      BY DEF TaskInv
    <2>1. TaskOK(t)
      BY DEF GroupsInv, TaskInv
    <2>2. t.g \in Group
      BY DEF Task
    <2>3. Reads(t)'
      BY <1>1, <2>1 DEF TaskOK, Reads
    <2>4. Stored(t.g)' = Stored(t.g)
      BY <1>1, <2>2
    <2>5. \A w \in Shows(Stored(t.g)) : w \in Workload
      BY DEF Shows
    <2>6. Asked(t.g) => Asked(t.g)'
      BY <1>1, <1>2, <2>4, <2>5 DEF Asked
    <2>7. Covers(t)'
      BY <2>1, <2>4, <2>6 DEF TaskOK, Covers, There
    <2> QED
      BY <2>1, <2>3, <2>7 DEF TaskOK, TaskShape
  <1> QED
    BY <1>3, <1>4, <1>5 DEF GroupsInv, TypeOK, LogOK, RestOK

-----------------------------------------------------------------------------
(* Users, helm and the workloads' own controllers.                         *)

\* A group that shows no workload knows none that is not created yet.
LEMMA UndatedShown ==
    ASSUME TypeOK, NEW r, NEW m \in GroupObject, r.items = m.items,
           \A x \in Workload : m.items[x].born = 0
    PROVE  Dates(r)
  <1> SUFFICES ASSUME NEW x \in Workload
               PROVE  r.items[x].born <= Stored(x).born
    BY DEF Dates
  <1>1. r.items[x].born = 0
    OBVIOUS
  <1>2. Stored(x).born \in Nat
    BY StoredWorkload
  <1> QED
    BY <1>1, <1>2

\* A workload's new state is a version of it.
LEMMA PushedState ==
    ASSUME TypeOK, NEW w \in Workload, NEW st \in {"absent", "rolling", "ready", "failed"},
           log'[w] = PushState(w, st)
    PROVE  Written(w)
  <1> DEFINE v == [st |-> st, born |-> Stored(w).born + IF State(w) = "absent" THEN 1 ELSE 0]
  <1>1. /\ v \in WorkloadObject /\ v.born >= Stored(w).born
        /\ State(w) = "absent" => v.born > Stored(w).born
    BY StoredWorkload DEF WorkloadObject
  <1>2. log'[w] = Append(log[w], v)
    BY DEF PushState, Push
  <1> QED
    BY <1>1, <1>2, StoredWorkload DEF Written, Fine, Version

\* A group's new version is one of it.
LEMMA PushedGroup ==
    ASSUME TypeOK, NEW g \in Group, NEW r \in GroupObject, Backed(r), Dates(r),
           log'[g] = Push(g, r)
    PROVE  Written(g)
  <1>1. g \in Object /\ log[g] \in Seq(Version(g))
    BY DEF TypeOK, Object
  <1>2. log'[g] = Append(log[g], r) /\ r \in Version(g)
    BY DEF Push, Version
  <1> QED
    BY <1>1, <1>2, NoGroupAssumption, NamesAssumption DEF Written, Fine

\* A group may go once the deletion of all it shows was called for.
LEMMA PushedEnd ==
    ASSUME TypeOK, NEW g \in Group, Asked(g), log' = Finalized(g)
    PROVE  DOMAIN log' = Object /\ \A o \in Object : Written(o)
  <1>1. DOMAIN log = Object /\ g \in Object
    BY DEF TypeOK, Object
  <1>2. DOMAIN log' = Object /\ log'[g] = Append(log[g], NoGroup)
    BY <1>1 DEF Finalized, Push
  <1>3. \A o \in Object \ {g} : log'[o] = log[o]
    BY <1>1 DEF Finalized
  <1>4. NoGroup \in Version(g) /\ Fine(g, NoGroup)
    BY NamesAssumption DEF Version, Fine
  <1> QED
    BY <1>2, <1>3, <1>4 DEF Written

\* A deletion marks groups that are there.
LEMMA DeletedWritten ==
    ASSUME TypeOK, DeployedBacked, GroupDates, NEW gs, gs \subseteq Group, log' = Deleted(gs)
    PROVE  DOMAIN log' = Object /\ \A o \in Object : Written(o)
  <1>1. DOMAIN log' = Object
    BY DEF Deleted
  <1>2. ASSUME NEW o \in Object PROVE Written(o)
    <2>1. CASE o \in gs /\ There(o) /\ ~Stored(o).deleting
      <3> DEFINE r == [Stored(o) EXCEPT !.deleting = TRUE]
      <3>1. Stored(o) \in GroupObject /\ Backed(Stored(o)) /\ Dates(Stored(o))
        BY <2>1, StoredGroup
      <3>2. r \in GroupObject /\ Backed(r) /\ Dates(r)
        BY <3>1 DEF GroupObject, Backed, Dates
      <3>3. log'[o] = Push(o, r)
        BY <2>1 DEF Deleted
      <3> QED
        BY <2>1, <3>2, <3>3, PushedGroup
    <2>2. CASE ~(o \in gs /\ There(o) /\ ~Stored(o).deleting)
      BY <2>2 DEF Deleted, Written
    <2> QED
      BY <2>1, <2>2
  <1> QED
    BY <1>1, <1>2

\* The bound on users' actions.
LEMMA Acting ==
    ASSUME TypeOK, Act
    PROVE  scene' \in Scenes /\ moves' \in 0..scene'.moves
  <1>1. scene \in Scenes /\ scene.moves \in Nat /\ moves \in Nat
    BY BoundAssumption DEF TypeOK
  <1> QED
    BY <1>1 DEF Act

\* The events that the panel makes.
LEMMA MadeEvents ==
    SecretEvent \in Event /\ \A o \in Object : Added(o) \in Event
  BY BoundAssumption DEF SecretEvent, Added, Event

\* The tasks there are stay.
LEMMA SameTasks ==
    ASSUME GroupsInv
    PROVE  tasks \subseteq Task
  BY DEF GroupsInv, TypeOK

\* An install restarts the status, so that the group is backed.
LEMMA InstallKeeps ==
    ASSUME GroupsInv, NEW g \in Group, Install(g)
    PROVE  GroupsInv' /\ GoneClean
  <1> USE DEF GroupsInv
  <1> DEFINE old  == Stored(g)
             base == IF There(g) THEN old
                     ELSE [NewGroup(TRUE) EXCEPT !.child = ParentOf[g] # g]
             next == base.version + 1
             new  == [base EXCEPT !.deploy = Installing(g), !.status = "deploying",
                                  !.settled = base.settled /\ Kind[g] # "helm",
                                  !.version = IF There(g) THEN @ ELSE next,
                                  !.upgrading = IF There(g) THEN next ELSE 0]
  <1>1. log' = [log EXCEPT ![g] = Push(g, new)] /\ DOMAIN log = Object /\ g \in Object
    BY DEF Install, TypeOK, Object
  <1>2. base \in GroupObject /\ Dates(base)
    <2> DEFINE n == [NewGroup(TRUE) EXCEPT !.child = ParentOf[g] # g]
    <2>1. n \in GroupObject /\ n.items = NewGroup(TRUE).items
      BY NewGroupBacked DEF GroupObject
    <2>2. Dates(n)
      BY <2>1, NewGroupBacked, UndatedShown
    <2> HIDE DEF n
    <2>3. CASE There(g)
      BY <2>3, StoredGroup
    <2>4. CASE ~There(g)
      BY <2>1, <2>2, <2>4 DEF n
    <2> QED
      BY <2>3, <2>4
  <1>3. Installing(g) \in [Workload -> {"none", "deploying", "failed", "deployed"}]
    BY DEF Installing
  <1> HIDE DEF base
  <1>4. next \in Nat
    BY <1>2 DEF GroupObject
  <1> HIDE DEF next
  <1>5. new \in GroupObject /\ Backed(new) /\ Dates(new)
    <2>1. new \in GroupObject /\ Backed(new)
      BY <1>2, <1>3, <1>4 DEF GroupObject, Backed, Status
    <2>2. new.items = base.items
      BY <1>2 DEF GroupObject
    <2> QED
      BY <1>2, <2>1, <2>2 DEF Dates
  <1> HIDE DEF new
  <1>6. log'[g] = Push(g, new) /\ DOMAIN log' = Object
        /\ \A o \in Object \ {g} : log'[o] = log[o]
    BY <1>1
  <1>7. Written(g)
    BY <1>5, <1>6, PushedGroup
  <1>8. \A o \in Object : Written(o)
    BY <1>6, <1>7 DEF Written
  <1>9. RestOK'
    BY Acting DEF RestOK, Install, Move, TypeOK
  <1> QED
    BY <1>6, <1>8, <1>9, AgingStep, SameTasks DEF Install, AgeTasks

\* Workloads changed by helm, by their controllers or by users: what the
\* panel keeps about the groups does not change.
LEMMA WorkloadsKeep ==
    ASSUME GroupsInv, RestOK', DOMAIN log' = Object, AgeTasks, cleaned' = cleaned,
           NEW st \in {"absent", "rolling", "ready", "failed"},
           \A o \in Object : \/ log'[o] = log[o]
                             \/ o \in Workload /\ log'[o] = PushState(o, st)
    PROVE  GroupsInv' /\ GoneClean
  <1>1. \A o \in Object : Written(o)
    BY PushedState DEF GroupsInv, Written
  <1> QED
    BY <1>1, AgingStep, SameTasks DEF AgeTasks

LEMMA ApplyKeeps ==
    ASSUME GroupsInv, NEW g \in Group, Apply(g)
    PROVE  GroupsInv' /\ GoneClean
  <1>1. RestOK'
    BY MadeEvents DEF RestOK, Apply, GroupsInv, TypeOK
  <1>2. DOMAIN log' = Object
    BY DEF Apply, GroupsInv, TypeOK
  <1>3. \A o \in Object : \/ log'[o] = log[o]
                          \/ o \in Workload /\ log'[o] = PushState(o, "rolling")
    BY DEF Apply, Recorded, Members
  <1>4. AgeTasks /\ cleaned' = cleaned
    BY DEF Apply
  <1> QED
    BY <1>1, <1>2, <1>3, <1>4, WorkloadsKeep

LEMMA ReleaseKeeps ==
    ASSUME GroupsInv, NEW g \in Group, Release(g)
    PROVE  GroupsInv' /\ GoneClean
  <1>1. RestOK'
    BY MadeEvents, Acting DEF RestOK, Release, Move, GroupsInv, TypeOK
  <1>2. DOMAIN log' = Object
    BY DEF Release
  <1>3. \A o \in Object : \/ log'[o] = log[o]
                          \/ o \in Workload /\ log'[o] = PushState(o, "rolling")
    BY DEF Release, Members
  <1>4. AgeTasks /\ cleaned' = cleaned
    BY DEF Release
  <1> QED
    BY <1>1, <1>2, <1>3, <1>4, WorkloadsKeep

LEMMA ChangeKeeps ==
    ASSUME GroupsInv, NEW w \in Workload, NEW st \in {"absent", "rolling", "ready", "failed"},
           Change(w, st), Act \/ UNCHANGED <<scene, moves>>
    PROVE  GroupsInv' /\ GoneClean
  <1>1. RestOK'
    BY Acting DEF RestOK, Change, GroupsInv, TypeOK
  <1>2. DOMAIN log' = Object
    BY DEF Change, GroupsInv, TypeOK
  <1>3. \A o \in Object : \/ log'[o] = log[o]
                          \/ o \in Workload /\ log'[o] = PushState(o, st)
    BY DEF Change, GroupsInv, TypeOK
  <1>4. AgeTasks /\ cleaned' = cleaned
    BY DEF Change
  <1> QED
    BY <1>1, <1>2, <1>3, <1>4, WorkloadsKeep

LEMMA UserDeleteKeeps ==
    ASSUME GroupsInv, NEW g \in Group, UserDelete(g)
    PROVE  GroupsInv' /\ GoneClean
  <1>1. RestOK'
    BY Acting DEF RestOK, UserDelete, Move, GroupsInv, TypeOK
  <1>2. DOMAIN log' = Object /\ \A o \in Object : Written(o)
    BY DeletedWritten DEF GroupsInv, UserDelete
  <1> QED
    BY <1>1, <1>2, AgingStep, SameTasks DEF UserDelete, AgeTasks

-----------------------------------------------------------------------------
(* Informers and workers.                                                  *)

\* What is left of a log after its first version.
LEMMA TailLast ==
    ASSUME NEW S, NEW l \in Seq(S), Len(l) > 1
    PROVE  /\ Tail(l) \in Seq(S) /\ Tail(l) # <<>> /\ Tail(l)[Len(Tail(l))] = l[Len(l)]
           /\ \A i \in 1..Len(Tail(l)) : i + 1 \in 1..Len(l) /\ Tail(l)[i] = l[i + 1]
  <1>1. /\ Tail(l) \in Seq(S) /\ Len(Tail(l)) = Len(l) - 1
        /\ \A i \in 1..Len(Tail(l)) : Tail(l)[i] = l[i + 1]
    <2>1. l # <<>>
      BY EmptySeq
    <2> QED
      BY <2>1, HeadTailProperties
  <1>2. Len(l) \in Nat /\ Len(Tail(l)) \in Nat /\ Len(Tail(l)) > 0
    BY <1>1, LenProperties
  <1>3. Tail(l) # <<>>
    <2> DEFINE m == Tail(l)
    <2>1. Len(m) > 0
      BY <1>2
    <2> HIDE DEF m
    <2>2. m # <<>>
      BY <2>1
    <2> QED
      BY <2>2 DEF m
  <1> QED
    BY <1>1, <1>2, <1>3

\* A delivery takes a version from the front of a log, never the last one.
LEMMA DeliverKeeps ==
    ASSUME GroupsInv, NEW o \in Object, Deliver(o)
    PROVE  GroupsInv' /\ GoneClean
  <1>1. log[o] \in Seq(Version(o)) /\ Len(log[o]) > 1 /\ DOMAIN log = Object
    BY DEF GroupsInv, TypeOK, Deliver
  <1>2. /\ Tail(log[o]) \in Seq(Version(o)) /\ Tail(log[o]) # <<>>
        /\ Tail(log[o])[Len(Tail(log[o]))] = log[o][Len(log[o])]
        /\ \A i \in 1..Len(Tail(log[o])) :
             i + 1 \in 1..Len(log[o]) /\ Tail(log[o])[i] = log[o][i + 1]
    BY <1>1, TailLast
  <1>3. log' = [log EXCEPT ![o] = Tail(log[o])]
    BY DEF Deliver
  <1>4. LogOK(log') /\ (\A p \in Object : Stored(p)' = Stored(p)) /\ LogDates'
    <2>1. DOMAIN log' = Object /\ log'[o] = Tail(log[o])
          /\ \A p \in Object \ {o} : log'[p] = log[p]
      BY <1>1, <1>3
    <2>2. \A p \in Object : log[p] \in Seq(Version(p)) /\ log[p] # <<>>
      BY DEF GroupsInv, TypeOK
    <2>3. LogOK(log') /\ \A p \in Object : Stored(p)' = Stored(p)
      BY <1>2, <2>1, <2>2 DEF LogOK, Stored
    <2>4. ASSUME NEW w \in Workload, NEW i \in 1..Len(log'[w])
          PROVE  log'[w][i].born <= Stored(w).born'
      <3>1. w \in Object
        BY DEF Object
      <3>2. Stored(w).born' = Stored(w).born
        BY <2>3, <3>1
      <3>3. CASE w = o
        <4>1. i + 1 \in 1..Len(log[w]) /\ log'[w][i] = log[w][i + 1]
          BY <1>2, <2>1, <3>3
        <4> QED
          BY <3>2, <4>1 DEF GroupsInv, LogDates
      <3>4. CASE w # o
        <4>1. log'[w] = log[w]
          BY <2>1, <3>1, <3>4
        <4> QED
          BY <3>2, <4>1 DEF GroupsInv, LogDates
      <3> QED
        BY <3>3, <3>4
    <2> QED
      BY <2>3, <2>4 DEF LogDates
  <1>5. RestOK'
    <2> DEFINE e == [obj |-> o, tries |-> 0,
                     del |-> o \in Workload /\ log[o][2].st = "absent"]
    <2>1. e \in Event
      BY BoundAssumption DEF Event
    <2>2. queue' = queue \cup {e}
      BY DEF Deliver
    <2> HIDE DEF e
    <2> QED
      BY <2>1, <2>2 DEF RestOK, Deliver, GroupsInv, TypeOK
  <1> QED
    BY <1>4, <1>5, StillStep, SameTasks DEF Deliver

\* A worker's plan, for a state of a workload that it read.
LEMMA PlanShape ==
    ASSUME TypeOK, LogDates, NEW e \in queue, e.obj \in Object,
           NEW op \in Op, NEW g \in Group
    PROVE  /\ Plan(e, op, g) \in Task
           /\ Plan(e, op, g).ev = e /\ Plan(e, op, g).op = op /\ Plan(e, op, g).up = "none"
           /\ Plan(e, op, g).g = g /\ Reads(Plan(e, op, g))
           /\ g \in Plan(e, op, g).fresh => Cached(g) = Stored(g)
  <1>1. e \in Event
    BY DEF TypeOK
  <1>2. e.obj \in Workload =>
          Cached(e.obj) \in WorkloadObject /\ Cached(e.obj).born <= Stored(e.obj).born
    <2>1. SUFFICES ASSUME e.obj \in Workload
                   PROVE  /\ Cached(e.obj) \in WorkloadObject
                          /\ Cached(e.obj).born <= Stored(e.obj).born
      OBVIOUS
    <2>2. log[e.obj] \in Seq(WorkloadObject) /\ log[e.obj] # <<>>
      BY <2>1, NamesAssumption DEF TypeOK, Version
    <2>3. Cached(e.obj) \in WorkloadObject /\ 1 \in 1..Len(log[e.obj])
      BY <2>2 DEF Cached
    <2> QED
      BY <2>1, <2>3 DEF Cached, LogDates
  <1>3. Nowhere \in WorkloadObject
    BY DEF Nowhere, WorkloadObject
  <1>4. ParentOf[g] \in Object /\ g \in Object
    BY ShapeAssumption DEF Object
  <1>5. {o \in {g, ParentOf[g], e.obj} : InStep(o)} \subseteq Object
    BY <1>4
  <1>6. Plan(e, op, g) \in Task
    BY <1>1, <1>2, <1>3, <1>5 DEF Plan, Task
  <1>7. Reads(Plan(e, op, g))
    BY <1>2 DEF Plan, Reads
  <1> QED
    BY <1>6, <1>7 DEF Plan, InStep, Cached, Stored

\* What a worker that took an event plans fits the event.
LEMMA TakePlans ==
    ASSUME TypeOK, LogDates, NEW e \in queue, Take(e)
    PROVE  /\ lost' \subseteq Workload
           /\ \/ tasks' = tasks
              \/ \E t \in Task : tasks' = tasks \cup {t} /\ TaskOK(t)
  <1>1. \A w \in Workload : w \in Object /\ GroupOf[w] \in Group
    BY ShapeAssumption DEF Object
  <1>2. \A g \in Group : g \in Object
    BY DEF Object
  <1>3. lost \subseteq Workload
    BY DEF TypeOK
  <1>4. CASE e.obj \in Workload /\ HandleGone(e, e.obj)
    <2> DEFINE g == GroupOf[e.obj]
    <2>1. g \in Group /\ e.obj \in Object
      BY <1>1, <1>4
    <2>2. CASE GiveUp(e.obj)
      BY <1>3, <1>4, <2>2 DEF GiveUp
    <2>3. CASE Begin(Plan(e, "delete", g))
      BY <1>3, <1>4, <2>1, <2>3, PlanShape DEF Begin, TaskShape, TaskOK, Covers, Op
    <2>4. ASSUME NEW up \in {"none", "delete", "remove"},
                 Begin([Plan(e, "remove", g) EXCEPT !.up = up])
          PROVE  \E t \in Task : tasks' = tasks \cup {t} /\ TaskOK(t)
      <3> DEFINE p == Plan(e, "remove", g)
                 t == [p EXCEPT !.up = up]
      <3>1. p \in Task /\ p.ev = e /\ p.op = "remove" /\ Reads(p)
        BY <2>1, PlanShape DEF Op
      <3> HIDE DEF p
      <3>2. t \in Task /\ t.ev = e /\ t.op = "remove" /\ t.up = up /\ t.read = p.read
        BY <3>1 DEF Task
      <3>3. tasks' = tasks \cup {t}
        BY <2>4 DEF Begin, p
      <3> QED
        BY <1>4, <3>1, <3>2, <3>3 DEF TaskShape, TaskOK, Reads, Covers
    <2>5. GiveUp(e.obj) \/ Begin(Plan(e, "delete", g))
          \/ \E up \in {"none", "delete", "remove"} :
                Begin([Plan(e, "remove", g) EXCEPT !.up = up])
      BY <1>4 DEF HandleGone
    <2>6. lost' \subseteq Workload
      BY <1>3, <1>4, <2>5 DEF GiveUp, Begin
    <2> QED
      BY <2>2, <2>3, <2>4, <2>5, <2>6
  <1>5. CASE e.obj \in Workload /\ HandleLive(e, e.obj)
    <2> DEFINE g == GroupOf[e.obj]
    <2>1. g \in Group /\ e.obj \in Object
      BY <1>1, <1>5
    <2>2. CASE GiveUp(e.obj)
      BY <1>3, <1>5, <2>2 DEF GiveUp
    <2>3. CASE Begin(Plan(e, "create", g))
      BY <1>3, <1>5, <2>1, <2>3, PlanShape DEF Begin, TaskShape, TaskOK, Covers, Op
    <2>4. ASSUME NEW up \in {"none", "add"},
                 Begin([Plan(e, "add", g) EXCEPT !.up = up])
          PROVE  \E t \in Task : tasks' = tasks \cup {t} /\ TaskOK(t)
      <3> DEFINE p == Plan(e, "add", g)
                 t == [p EXCEPT !.up = up]
      <3>1. p \in Task /\ p.ev = e /\ p.op = "add" /\ Reads(p)
        BY <2>1, PlanShape DEF Op
      <3> HIDE DEF p
      <3>2. t \in Task /\ t.ev = e /\ t.op = "add" /\ t.up = up /\ t.read = p.read
        BY <3>1 DEF Task
      <3>3. tasks' = tasks \cup {t}
        BY <2>4 DEF Begin, p
      <3> QED
        BY <1>5, <3>1, <3>2, <3>3 DEF TaskShape, TaskOK, Reads, Covers
    <2>5. GiveUp(e.obj) \/ Begin(Plan(e, "create", g))
          \/ \E up \in {"none", "add"} :
                Begin([Plan(e, "add", g) EXCEPT !.up = up])
      <3>1. Plan(e, "add", g).up = "none"
        BY <2>1, PlanShape DEF Op
      <3> QED
        BY <1>5, <3>1 DEF HandleLive
    <2>6. lost' \subseteq Workload
      BY <1>3, <1>5, <2>5 DEF GiveUp, Begin
    <2> QED
      BY <2>2, <2>3, <2>4, <2>5, <2>6
  <1>6. CASE e.obj \in Group /\ HandleAppGroup(e, e.obj)
    <2> DEFINE g == e.obj
               r == Cached(g)
               up == IF r.child THEN "label" ELSE "none"
               p == Plan(e, "clean", g)
               t == [p EXCEPT !.shows = Shows(r), !.up = up]
    <2>1. g \in Object
      BY <1>2, <1>6
    <2>2. /\ p \in Task /\ p.ev = e /\ p.op = "clean" /\ p.up = "none" /\ p.g = g
          /\ Reads(p) /\ (g \in p.fresh => r = Stored(g))
      BY <1>6, <2>1, PlanShape DEF Op
    <2>3. UNCHANGED <<tasks, lost>> \/ Begin(t) \/ Begin(Plan(e, "settle", g))
      BY <1>6, <2>2 DEF HandleAppGroup
    <2>4. lost' \subseteq Workload
      BY <1>3, <2>3 DEF Begin
    <2>5. CASE Begin(t)
      <3>1. Shows(r) \subseteq Workload /\ up \in {"none", "label"}
        BY DEF Shows
      <3> HIDE DEF p, up
      <3>2. /\ t \in Task /\ t.op = "clean" /\ t.ev = e /\ t.read = p.read
            /\ t.g = g /\ t.fresh = p.fresh /\ t.shows = Shows(r)
        BY <2>2, <3>1 DEF Task
      <3>3. tasks' = tasks \cup {t}
        BY <2>5 DEF Begin
      <3> HIDE DEF t
      <3>4. TaskOK(t)
        BY <2>2, <3>2 DEF TaskOK, TaskShape, Reads, Covers
      <3> QED
        BY <2>4, <3>2, <3>3, <3>4
    <2>6. CASE Begin(Plan(e, "settle", g))
      BY <1>6, <2>1, <2>4, <2>6, PlanShape DEF Begin, TaskShape, TaskOK, Covers, Op
    <2> QED
      BY <2>3, <2>4, <2>5, <2>6
  <1> QED
    BY <1>4, <1>5, <1>6 DEF Take

\* A step that leaves the logs as they are.
LEMMA SameLogs ==
    ASSUME GroupsInv, log' = log
    PROVE  LogOK(log') /\ (\A o \in Object : Stored(o)' = Stored(o)) /\ LogDates'
  BY DEF GroupsInv, LogOK, TypeOK, Stored, LogDates

LEMMA TakeKeeps ==
    ASSUME GroupsInv, NEW e \in queue, Take(e)
    PROVE  GroupsInv' /\ GoneClean
  <1>1. TypeOK /\ LogDates
    BY DEF GroupsInv
  <1>2. RestOK'
    BY <1>1, TakePlans DEF RestOK, Take, TypeOK
  <1>3. /\ tasks' \subseteq Task
        /\ \A t \in tasks' : t \in tasks \/ TaskOK(t)
    BY <1>1, TakePlans, SameTasks
  <1>4. log' = log /\ cleaned' = cleaned
    BY DEF Take
  <1>5. LogOK(log') /\ (\A o \in Object : Stored(o)' = Stored(o)) /\ LogDates'
    BY <1>4, SameLogs
  <1> QED
    BY <1>2, <1>3, <1>4, <1>5, StillStep

LEMMA ElapseKeeps ==
    ASSUME GroupsInv, Elapse
    PROVE  GroupsInv' /\ GoneClean
  <1>1. RestOK'
    <2>1. \A w \in later : Added(w) \in Event
      BY MadeEvents DEF GroupsInv, TypeOK, Object
    <2> QED
      BY <2>1 DEF RestOK, Elapse, GroupsInv, TypeOK
  <1>2. log' = log /\ cleaned' = cleaned /\ tasks' = tasks
    BY DEF Elapse
  <1> QED
    BY <1>1, <1>2, SameLogs, StillStep, SameTasks

\* A restarted panel has no worker and holds every object's last version.
LEMMA CrashKeeps ==
    ASSUME GroupsInv, Crash
    PROVE  GroupsInv' /\ GoneClean
  <1>1. ASSUME NEW o \in Object
        PROVE  Stored(o) \in Version(o)
    <2>1. log[o] \in Seq(Version(o)) /\ log[o] # <<>>
      BY DEF GroupsInv, TypeOK
    <2> QED
      BY <2>1 DEF Stored
  <1>2. LogOK(log') /\ (\A o \in Object : Stored(o)' = Stored(o)) /\ LogDates'
    <2>1. log' = [o \in Object |-> <<Stored(o)>>]
      BY DEF Crash
    <2>2. \A o \in Object : log'[o] = <<Stored(o)>> /\ Stored(o)' = Stored(o)
      BY <2>1 DEF Stored
    <2>3. LogOK(log')
      BY <1>1, <2>1, <2>2 DEF LogOK
    <2>4. LogDates'
      <3> SUFFICES ASSUME NEW w \in Workload, NEW i \in 1..Len(log'[w])
                   PROVE  log'[w][i].born <= Stored(w).born'
        BY DEF LogDates
      <3>1. w \in Object /\ Stored(w).born \in Nat
        BY StoredWorkload DEF GroupsInv
      <3>2. log'[w] = <<Stored(w)>> /\ Stored(w)' = Stored(w)
        BY <2>2, <3>1
      <3>3. log'[w][i] = Stored(w)
        BY <3>2
      <3> QED
        BY <3>1, <3>2, <3>3
    <2> QED
      BY <2>2, <2>3, <2>4
  <1>3. RestOK'
    BY MadeEvents, Acting DEF RestOK, Crash, GroupsInv, TypeOK
  <1>4. tasks' = {} /\ cleaned' = cleaned
    BY DEF Crash
  <1> QED
    BY <1>2, <1>3, <1>4, StillStep

\* Sync creates groups where there is none.
LEMMA SyncKeeps ==
    ASSUME GroupsInv, NEW e \in queue, Sync(e)
    PROVE  GroupsInv' /\ GoneClean
  <1> DEFINE missing == {g \in released : Cached(g) = NoGroup}
             absent  == {g \in missing : ~There(g)}
             new     == [NewGroup(FALSE) EXCEPT !.ready = TRUE, !.settled = TRUE]
  <1>1. TypeOK /\ released \subseteq Group
    BY DEF GroupsInv, TypeOK
  <1>2. /\ log' = [o \in Object |-> IF o \in absent THEN Push(o, new) ELSE log[o]]
        /\ cleaned' = cleaned
    BY DEF Sync
  <1>3. new \in GroupObject /\ Backed(new) /\ Dates(new)
    <2>1. new \in GroupObject /\ Backed(new) /\ new.items = NewGroup(FALSE).items
      BY NewGroupBacked DEF GroupObject, Backed
    <2> QED
      BY <1>1, <2>1, NewGroupBacked, UndatedShown
  <1> HIDE DEF new
  <1>4. absent \subseteq Group /\ absent \subseteq Object
    BY <1>1 DEF Object
  <1> HIDE DEF absent
  <1>5. DOMAIN log' = Object
        /\ \A o \in Object : IF o \in absent THEN log'[o] = Push(o, new) ELSE log'[o] = log[o]
    BY <1>2
  <1>6. \A o \in absent : Written(o)
    BY <1>1, <1>3, <1>4, <1>5, PushedGroup
  <1>7. \A o \in Object : Written(o)
    BY <1>5, <1>6 DEF Written
  <1>8. RestOK'
    BY <1>1, <1>2 DEF RestOK, Sync, TypeOK
  <1> QED
    BY <1>2, <1>5, <1>7, <1>8, AgingStep, SameTasks DEF Sync, AgeTasks

-----------------------------------------------------------------------------
(* The writes.                                                             *)

\* A worker's event.
LEMMA TaskTypes ==
    ASSUME GroupsInv, NEW t \in tasks
    PROVE  /\ t \in Task /\ t.ev \in Event /\ t.g \in Group /\ t.g \in Object
           /\ t.read \in WorkloadObject /\ About(t.ev) \subseteq Workload
           /\ ParentOf[t.g] \in Group
           /\ TaskShape(t) /\ Reads(t) /\ Covers(t)
  BY ShapeAssumption DEF GroupsInv, TypeOK, TaskInv, TaskOK, Task, Object, About

\* A failed event is queued again or given up; nothing is written.
LEMMA RetryKeeps ==
    ASSUME GroupsInv, NEW t \in tasks, Retry(t),
           UNCHANGED <<log, later, requests, released, cleaned, scene, moves>>
    PROVE  GroupsInv' /\ GoneClean
  <1>1. RestOK'
    <2>1. t.ev.tries < MaxRetries => [t.ev EXCEPT !.tries = @ + 1] \in Event
      BY TaskTypes, BoundAssumption DEF Event
    <2> QED
      BY <2>1, TaskTypes DEF Retry, RestOK, GroupsInv, TypeOK
  <1>2. tasks' \subseteq tasks
    BY DEF Retry
  <1> QED
    BY <1>1, <1>2, SameLogs, StillStep, SameTasks

\* What is noted of a written event.
LEMMA AppliedTypes ==
    ASSUME GroupsInv, NEW t \in tasks, Applied(t)
    PROVE  lost' \subseteq Workload
  <1>1. lost \subseteq Workload
    BY DEF GroupsInv, TypeOK
  <1> QED
    BY <1>1, TaskTypes DEF Applied

\* A worker that wrote, and has done.
LEMMA ForgetKeeps ==
    ASSUME GroupsInv, NEW t \in tasks, Forget(t), lost' \subseteq Workload,
           DOMAIN log' = Object, \A o \in Object : Written(o),
           UNCHANGED <<later, requests, released, cleaned, scene, moves>>
    PROVE  GroupsInv' /\ GoneClean
  <1>1. RestOK'
    BY DEF Forget, RestOK, GroupsInv, TypeOK
  <1> DEFINE ts == tasks \ {t}
  <1>2. ts \subseteq Task /\ tasks' = Age(ts) /\ \A u \in ts : u \in tasks
    BY SameTasks DEF Forget
  <1> HIDE DEF ts
  <1> QED
    BY <1>1, <1>2, AgingStep

\* A worker that wrote, and has more to do.
LEMMA ThenKeeps ==
    ASSUME GroupsInv, NEW t \in tasks, NEW op \in Op, Then(t, op),
           lost' \subseteq Workload, released' \subseteq Group,
           DOMAIN log' = Object, \A o \in Object : Written(o),
           cleaned \subseteq cleaned', cleaned' \subseteq Workload \X Nat,
           UNCHANGED <<later, requests>>, Act \/ UNCHANGED <<scene, moves>>,
           Kept([t EXCEPT !.op = op])
    PROVE  GroupsInv' /\ GoneClean
  <1>1. RestOK'
    BY TaskTypes, Acting DEF Then, RestOK, GroupsInv, TypeOK
  <1> DEFINE n == [t EXCEPT !.op = op]
             ts == (tasks \ {t}) \cup {n}
  <1>2. n \in Task /\ Kept(n)
    BY TaskTypes DEF Task
  <1>3. tasks' = Age(ts)
    BY DEF Then
  <1> HIDE DEF n
  <1>4. ts \subseteq Task /\ \A u \in ts : u \in tasks \/ Kept(u)
    BY <1>2, SameTasks
  <1> HIDE DEF ts
  <1> QED
    BY <1>1, <1>3, <1>4, AgingStep

\* A worker's change of a group writes a version of it.
LEMMA UpdateWrites ==
    ASSUME GroupsInv, NEW t \in tasks, NEW g \in Group, There(g),
           NEW op \in {"add", "remove", "settle"},
           op # "settle" => t.ev.obj \in Workload, Update(t, g, op)
    PROVE  DOMAIN log' = Object /\ \A o \in Object : Written(o)
  <1> DEFINE new == Changed(Stored(g), op, t.ev.obj, t.read)
  <1>1. new \in GroupObject /\ Backed(new) /\ Dates(new)
    <2>1. TypeOK /\ DeployedBacked /\ GroupDates
      BY DEF GroupsInv
    <2>2. Stored(g) \in GroupObject /\ Backed(Stored(g)) /\ Dates(Stored(g))
      BY <2>1, StoredGroup
    <2>3. \A x \in Workload : Stored(x).born \in Nat
      BY <2>1, StoredWorkload
    <2>4. op # "settle" => t.read.born <= Stored(t.ev.obj).born
      BY TaskTypes DEF Reads
    <2> QED
      BY <2>2, <2>3, <2>4, ChangedBacked, TaskTypes
  <1>2. log' = log \/ log' = [log EXCEPT ![g] = Push(g, new)]
    BY DEF Update
  <1> HIDE DEF new
  <1>3. DOMAIN log = Object /\ g \in Object
    BY DEF GroupsInv, TypeOK, Object
  <1>4. CASE log' = log
    BY <1>3, <1>4 DEF Written
  <1>5. CASE log' = [log EXCEPT ![g] = Push(g, new)]
    <2>1. DOMAIN log' = Object /\ log'[g] = Push(g, new)
          /\ \A o \in Object \ {g} : log'[o] = log[o]
      BY <1>3, <1>5
    <2>2. Written(g)
      BY <1>1, <2>1, PushedGroup DEF GroupsInv
    <2> QED
      BY <2>1, <2>2 DEF Written
  <1> QED
    BY <1>2, <1>4, <1>5

\* A step that leaves the logs writes nothing.
LEMMA NothingWritten ==
    ASSUME GroupsInv, log' = log
    PROVE  DOMAIN log' = Object /\ \A o \in Object : Written(o)
  BY DEF GroupsInv, TypeOK, Written

LEMMA UpdateGroupKeeps ==
    ASSUME GroupsInv, NEW t \in tasks, UpdateGroup(t),
           UNCHANGED <<later, requests, released, scene, moves>>
    PROVE  GroupsInv' /\ GoneClean
  <1>1. t.op \in {"add", "remove", "settle"} /\ cleaned' = cleaned
    BY DEF UpdateGroup
  <1>2. CASE ~Fits(t, t.g)
    BY <1>1, <1>2, RetryKeeps DEF UpdateGroup
  <1>3. CASE Fits(t, t.g)
    <2>1. t.op # "settle" => t.ev.obj \in Workload
      BY <1>1, TaskTypes DEF TaskShape
    <2>2. There(t.g) /\ t.g \in Group /\ Update(t, t.g, t.op)
      BY <1>3, TaskTypes DEF Fits, UpdateGroup
    <2>3. DOMAIN log' = Object /\ \A o \in Object : Written(o)
      BY <1>1, <2>1, <2>2, UpdateWrites
    <2>4. lost' \subseteq Workload
      BY <1>3, AppliedTypes DEF UpdateGroup
    <2>5. CASE t.up = "none"
      BY <1>1, <1>3, <2>3, <2>4, <2>5, ForgetKeeps DEF UpdateGroup
    <2>6. CASE t.up # "none"
      <3>1. Then(t, "parent")
        BY <1>3, <2>6 DEF UpdateGroup
      <3> DEFINE n == [t EXCEPT !.op = "parent"]
      <3>2. n.op = "parent" /\ n.ev = t.ev /\ n.up = t.up /\ n.read = t.read
        BY TaskTypes DEF Task
      <3> HIDE DEF n
      <3>3. \A w \in Workload : Stored(w)'.born >= Stored(w).born /\ Stored(w)'.born \in Nat
                                /\ Stored(w).born \in Nat
        BY <2>3, WriteStep DEF GroupsInv, Moved
      <3>4. Kept(n)
        BY <1>1, <2>1, <2>6, <3>2, <3>3, TaskTypes DEF TaskShape, Kept, Reads, Covers, WorkloadObject
      <3>5. released' \subseteq Group /\ "parent" \in Op /\ cleaned' \subseteq Workload \X Nat
        BY <1>1 DEF GroupsInv, TypeOK, Op
      <3> QED
        BY <1>1, <2>3, <2>4, <3>1, <3>4, <3>5, ThenKeeps DEF n
    <2> QED
      BY <2>5, <2>6
  <1> QED
    BY <1>2, <1>3

LEMMA PersistParentKeeps ==
    ASSUME GroupsInv, NEW t \in tasks, PersistParent(t),
           UNCHANGED <<later, requests, released, scene, moves>>
    PROVE  GroupsInv' /\ GoneClean
  <1> DEFINE p == ParentOf[t.g]
  <1>1. t.op = "parent" /\ Forget(t) /\ cleaned' = cleaned /\ lost' = lost
    BY DEF PersistParent
  <1>2. t.ev.obj \in Workload /\ t.up \in {"add", "remove", "delete"}
    BY <1>1, TaskTypes DEF TaskShape
  <1>3. lost' \subseteq Workload
    BY <1>1 DEF GroupsInv, TypeOK
  <1>4. CASE log' = Deleted({p})
    BY <1>4, DeletedWritten, TaskTypes, <1>1, <1>3, ForgetKeeps DEF GroupsInv
  <1>5. CASE t.up # "delete" /\ Fits(t, p) /\ Update(t, p, t.up)
    <2>1. DOMAIN log' = Object /\ \A o \in Object : Written(o)
      BY <1>2, <1>5, UpdateWrites, TaskTypes DEF Fits
    <2> QED
      BY <1>1, <1>3, <2>1, ForgetKeeps
  <1>6. CASE log' = log
    BY <1>1, <1>3, <1>6, NothingWritten, ForgetKeeps
  <1> QED
    BY <1>4, <1>5, <1>6 DEF PersistParent

LEMMA CreateGroupKeeps ==
    ASSUME GroupsInv, NEW t \in tasks, CreateGroup(t),
           UNCHANGED <<later, requests, released, scene, moves>>
    PROVE  GroupsInv' /\ GoneClean
  <1> DEFINE new == AddStatusItem(NewGroup(FALSE), t.ev.obj, t.read)
  <1>1. t.op = "create" /\ t.ev.obj \in Workload
    BY TaskTypes DEF CreateGroup, TaskShape
  <1>2. CASE There(t.g)
    BY <1>2, RetryKeeps DEF CreateGroup
  <1>3. CASE ~There(t.g)
    <2>1. new \in GroupObject /\ Backed(new) /\ Dates(new)
      <3> DEFINE r == NewGroup(FALSE)
      <3>1. r \in GroupObject /\ Backed(r) /\ \A x \in Workload : r.items[x].born = 0
        BY NewGroupBacked DEF Backed
      <3> HIDE DEF r
      <3>2. /\ new \in GroupObject /\ Backed(new)
            /\ \A x \in Workload : new.items[x].born =
                 IF x = t.ev.obj THEN t.read.born ELSE r.items[x].born
        BY <1>1, <3>1, AddStatusItemBacked, TaskTypes DEF r
      <3>3. t.read.born <= Stored(t.ev.obj).born
        BY <1>1, TaskTypes DEF Reads
      <3>4. \A x \in Workload : Stored(x).born \in Nat
        BY StoredWorkload DEF GroupsInv
      <3> HIDE DEF new
      <3>5. ASSUME NEW x \in Workload PROVE new.items[x].born <= Stored(x).born
        <4>1. CASE x = t.ev.obj
          BY <3>2, <3>3, <4>1
        <4>2. CASE x # t.ev.obj
          <5>1. new.items[x].born = 0
            BY <3>1, <3>2, <4>2
          <5> QED
            BY <3>4, <5>1
        <4> QED
          BY <4>1, <4>2
      <3> QED
        BY <3>2, <3>5 DEF Dates
    <2>2. /\ log' = [log EXCEPT ![t.g] = Push(t.g, new)] /\ cleaned' = cleaned
          /\ Forget(t) /\ Applied(t)
      BY <1>3 DEF CreateGroup
    <2> HIDE DEF new
    <2>3. DOMAIN log' = Object /\ log'[t.g] = Push(t.g, new)
          /\ \A o \in Object \ {t.g} : log'[o] = log[o]
      BY <2>2, TaskTypes DEF GroupsInv, TypeOK
    <2>4. Written(t.g)
      BY <2>1, <2>3, PushedGroup, TaskTypes DEF GroupsInv
    <2>5. \A o \in Object : Written(o)
      BY <2>3, <2>4 DEF Written
    <2> QED
      BY <2>2, <2>3, <2>5, AppliedTypes, ForgetKeeps
  <1> QED
    BY <1>2, <1>3

LEMMA DeleteGroupKeeps ==
    ASSUME GroupsInv, NEW t \in tasks, DeleteGroup(t),
           UNCHANGED <<later, requests, released, scene, moves>>
    PROVE  GroupsInv' /\ GoneClean
  <1>1. CASE ~There(t.g)
    BY <1>1, RetryKeeps DEF DeleteGroup
  <1>2. CASE There(t.g)
    <2>1. log' = Deleted({t.g}) /\ Applied(t) /\ Forget(t) /\ cleaned' = cleaned
      BY <1>2 DEF DeleteGroup
    <2>2. DOMAIN log' = Object /\ \A o \in Object : Written(o)
      BY <2>1, DeletedWritten, TaskTypes DEF GroupsInv
    <2> QED
      BY <2>1, <2>2, AppliedTypes, ForgetKeeps
  <1> QED
    BY <1>1, <1>2

\* A worker that cleaned the last version of a group may remove its finalizer:
\* the deletion of everything the group shows was called for, as it shows no
\* workload that was not there.
LEMMA CleanedIsAsked ==
    ASSUME GroupsInv, NEW t \in tasks, CleanGroup(t),
           t.g \in t.fresh, There(t.g), Stored(t.g)' = Stored(t.g), Moved,
           \A w \in Workload : Stored(w)'.born = Stored(w).born
    PROVE  Asked(t.g)'
  <1> DEFINE doomed == {w \in t.shows \cup {m \in Members(t.g) : HelmManaged(m)} : Exists(w)}
  <1>1. t.shows = Shows(Stored(t.g))
    BY TaskTypes DEF Covers, CleanGroup
  <1>2. cleaned' = cleaned \cup {<<w, Stored(w).born>> : w \in doomed}
    BY DEF CleanGroup
  <1> SUFFICES ASSUME NEW w \in Shows(Stored(t.g))
               PROVE  LET born == Stored(t.g).items[w].born
                      IN \/ State(w)' = "absent" \/ Stored(w)'.born # born
                         \/ <<w, born>> \in cleaned'
    BY DEF Asked
  <1>3. w \in Workload /\ w \notin Group
    BY StoredWorkload DEF Shows, GroupsInv
  <1>4. CASE State(w) = "absent"
    BY <1>3, <1>4 DEF Moved
  <1>5. CASE State(w) # "absent"
    <2>1. w \in doomed
      BY <1>1, <1>3, <1>5 DEF Exists
    <2> HIDE DEF doomed
    <2>2. <<w, Stored(w).born>> \in cleaned'
      BY <1>2, <2>1
    <2> QED
      BY <1>3, <2>2
  <1> QED
    BY <1>4, <1>5

LEMMA CleanGroupKeeps ==
    ASSUME GroupsInv, NEW t \in tasks, CleanGroup(t), UNCHANGED <<later, requests>>
    PROVE  GroupsInv' /\ GoneClean
  <1> DEFINE n == [t EXCEPT !.op = "finish"]
             doomed == {w \in t.shows \cup {m \in Members(t.g) : HelmManaged(m)} : Exists(w)}
  <1>1. PICK kept \in SUBSET doomed :
          /\ log' = [o \in Object |-> IF o \in doomed \ kept
                                      THEN PushState(o, "absent") ELSE log[o]]
          /\ lost' = lost \cup kept
          /\ released' \in {released, released \ {t.g}}
          /\ Act \/ UNCHANGED <<scene, moves>>
    BY DEF CleanGroup
  <1>2. /\ cleaned' = cleaned \cup {<<w, Stored(w).born>> : w \in doomed}
        /\ Then(t, "finish") /\ t.op = "clean"
    BY DEF CleanGroup
  <1>3. doomed \subseteq Workload /\ \A w \in doomed : Exists(w)
    BY TaskTypes DEF Members, Task
  <1> HIDE DEF doomed
  <1>4. TypeOK /\ \A w \in Workload : Stored(w).born \in Nat /\ w \in Object /\ w \notin Group
    BY StoredWorkload DEF GroupsInv
  <1>5. DOMAIN log' = Object /\ \A o \in Object : Written(o)
    BY <1>1, <1>3, <1>4, PushedState DEF Written
  <1>6. LogOK(log) /\ LogOK(log') /\ Moved
    BY <1>5, WriteStep DEF GroupsInv, TypeOK, LogOK
  <1>7. cleaned \subseteq cleaned' /\ cleaned' \subseteq Workload \X Nat
    BY <1>2, <1>3, <1>4 DEF TypeOK
  <1>8. ASSUME NEW w \in Workload PROVE Stored(w)'.born = Stored(w).born
    <2>1. CASE log'[w] = log[w]
      BY <2>1 DEF Stored
    <2>2. CASE w \in doomed /\ log'[w] = PushState(w, "absent")
      <3> DEFINE v == [st |-> "absent",
                       born |-> Stored(w).born + IF State(w) = "absent" THEN 1 ELSE 0]
      <3>1. State(w) # "absent"
        BY <1>3, <1>4, <2>2 DEF Exists
      <3>2. v \in WorkloadObject /\ v.born = Stored(w).born
        BY <1>4, <3>1 DEF WorkloadObject
      <3>3. log[w] \in Seq(WorkloadObject) /\ log'[w] = Append(log[w], v)
        BY <1>4, <2>2 DEF TypeOK, Version, PushState, Push
      <3> HIDE DEF v
      <3>4. log'[w][Len(log'[w])] = v
        BY <3>2, <3>3, AppendLast
      <3> QED
        BY <3>2, <3>4 DEF Stored
    <2> QED
      BY <1>1, <1>4, <2>1, <2>2
  <1>9. Stored(t.g)' = Stored(t.g)
    <2>1. t.g \in Object /\ t.g \notin doomed
      BY <1>3, <1>4, TaskTypes
    <2> QED
      BY <1>1, <2>1 DEF Stored
  <1>10. /\ n.op = "finish" /\ n.g = t.g /\ n.fresh = t.fresh /\ n.ev = t.ev
         /\ n.read = t.read /\ n.up = t.up
    BY TaskTypes DEF Task
  <1> HIDE DEF n
  <1>11. Kept(n)
    <2>1. TaskShape(n)
      BY <1>10 DEF TaskShape
    <2>2. Reads(n)'
      BY <1>8, <1>10, TaskTypes DEF Reads
    <2>3. t.g \in t.fresh /\ There(t.g) => Asked(t.g)'
      BY <1>6, <1>8, <1>9, CleanedIsAsked
    <2>4. Covers(n)'
      BY <1>9, <1>10, <2>3 DEF Covers, There
    <2> QED
      BY <2>1, <2>2, <2>4 DEF Kept
  <1>12. "finish" \in Op /\ lost' \subseteq Workload /\ released' \subseteq Group
    BY <1>1, <1>3 DEF Op, GroupsInv, TypeOK
  <1> QED
    BY <1>1, <1>2, <1>5, <1>7, <1>11, <1>12, ThenKeeps DEF n

\* A worker that removes a finalizer has cleaned the group as it is: its copy is
\* the last version.
LEMMA FinalizedWrites ==
    ASSUME GroupsInv, NEW t \in tasks, t.op \in {"finish", "lookup"}, Fits(t, t.g),
           log' = Finalized(t.g)
    PROVE  DOMAIN log' = Object /\ \A o \in Object : Written(o)
  BY TaskTypes, PushedEnd DEF Fits, Covers, GroupsInv

LEMMA FinishChildKeeps ==
    ASSUME GroupsInv, NEW t \in tasks, FinishChild(t),
           UNCHANGED <<later, requests, scene, moves>>
    PROVE  GroupsInv' /\ GoneClean
  <1>1. t.op = "finish" /\ released' = released /\ cleaned' = cleaned
    BY DEF FinishChild
  <1>2. CASE ~Fits(t, t.g)
    BY <1>1, <1>2, RetryKeeps DEF FinishChild
  <1>3. CASE Fits(t, t.g)
    <2> DEFINE n == [t EXCEPT !.op = "lookup"]
    <2>1. log' = Finalized(t.g) /\ Then(t, "lookup") /\ lost' = lost
      BY <1>3 DEF FinishChild
    <2>2. DOMAIN log' = Object /\ \A o \in Object : Written(o)
      BY <1>1, <1>3, <2>1, FinalizedWrites
    <2>3. n.op = "lookup" /\ n.g = t.g /\ n.ev = t.ev /\ n.read = t.read
      BY TaskTypes DEF Task
    <2> HIDE DEF n
    <2>4. \A w \in Workload : Stored(w)' = Stored(w)
      <3>1. \A w \in Workload : w \in Object /\ w \notin Group
        BY StoredWorkload DEF GroupsInv
      <3> QED
        BY <2>1, <3>1, TaskTypes DEF Finalized, Stored, GroupsInv, TypeOK
    <2>5. Len(log'[t.g]) > Len(log[t.g])
      <3>1. log[t.g] \in Seq(GroupObject \cup {NoGroup}) /\ DOMAIN log = Object
        BY TaskTypes DEF GroupsInv, TypeOK, Version
      <3>2. log'[t.g] = Append(log[t.g], NoGroup)
        BY <2>1, <3>1, TaskTypes DEF Finalized, Push
      <3>3. Len(log'[t.g]) = Len(log[t.g]) + 1 /\ Len(log[t.g]) \in Nat
        BY <3>1, <3>2
      <3> QED
        BY <3>3
    <2>6. Kept(n)
      BY <2>3, <2>4, <2>5, TaskTypes DEF TaskShape, Kept, Reads
    <2>7. /\ "lookup" \in Op /\ lost' \subseteq Workload /\ released' \subseteq Group
          /\ cleaned' \subseteq Workload \X Nat
      BY <1>1, <2>1 DEF Op, GroupsInv, TypeOK
    <2> QED
      BY <1>1, <2>1, <2>2, <2>6, <2>7, ThenKeeps DEF n
  <1> QED
    BY <1>2, <1>3

LEMMA CleanChildrenKeeps ==
    ASSUME GroupsInv, NEW t \in tasks, t.op \in {"finish", "lookup"}, CleanChildren(t),
           UNCHANGED <<later, requests, released, cleaned, scene, moves>>
    PROVE  GroupsInv' /\ GoneClean
  <1> DEFINE live == {i \in Children(t.g) : ~Cached(i).deleting}
  <1>1. live \subseteq Group
    BY DEF Children
  <1>2. lost \subseteq Workload
    BY DEF GroupsInv, TypeOK
  <1>3. \/ log' = Deleted(live) /\ Forget(t) /\ lost' = lost
        \/ Fits(t, t.g) /\ log' = Finalized(t.g) /\ Forget(t) /\ lost' = lost
        \/ log' = log /\ Retry(t)
    BY DEF CleanChildren
  <1> HIDE DEF live
  <1>4. CASE log' = Deleted(live) /\ Forget(t) /\ lost' = lost
    BY <1>1, <1>2, <1>4, DeletedWritten, ForgetKeeps DEF GroupsInv
  <1>5. CASE Fits(t, t.g) /\ log' = Finalized(t.g) /\ Forget(t) /\ lost' = lost
    BY <1>2, <1>5, FinalizedWrites, ForgetKeeps
  <1>6. CASE log' = log /\ Retry(t)
    BY <1>6, RetryKeeps
  <1> QED
    BY <1>3, <1>4, <1>5, <1>6

\* Every step of a worker keeps the invariant.
LEMMA StepKeeps ==
    ASSUME GroupsInv, NEW t \in tasks, Step(t)
    PROVE  GroupsInv' /\ GoneClean
  <1> DEFINE Bounds == UNCHANGED <<scene, moves>>
  <1>1. UNCHANGED <<later, requests>>
    BY DEF Step
  <1>2. CASE UpdateGroup(t) /\ released' = released /\ Bounds
    BY <1>1, <1>2, UpdateGroupKeeps
  <1>3. CASE PersistParent(t) /\ released' = released /\ Bounds
    BY <1>1, <1>3, PersistParentKeeps
  <1>4. CASE CreateGroup(t) /\ released' = released /\ Bounds
    BY <1>1, <1>4, CreateGroupKeeps
  <1>5. CASE DeleteGroup(t) /\ released' = released /\ Bounds
    BY <1>1, <1>5, DeleteGroupKeeps
  <1>6. CASE CleanGroup(t)
    BY <1>1, <1>6, CleanGroupKeeps
  <1>7. CASE FinishChild(t) /\ Bounds
    BY <1>1, <1>7, FinishChildKeeps
  <1>8. CASE FinishRoot(t) /\ Bounds
    BY <1>1, <1>8, CleanChildrenKeeps DEF FinishRoot
  <1>9. CASE LookUp(t) /\ Bounds
    <2>1. CASE CleanChildren(t)
      BY <1>1, <1>9, <2>1, CleanChildrenKeeps DEF LookUp
    <2>2. CASE UNCHANGED <<log, lost>> /\ Forget(t)
      <3>1. lost' \subseteq Workload
        BY <2>2 DEF GroupsInv, TypeOK
      <3> QED
        BY <1>1, <1>9, <2>2, <3>1, NothingWritten, ForgetKeeps DEF LookUp
    <2> QED
      BY <1>9, <2>1, <2>2 DEF LookUp
  <1> QED
    BY <1>2, <1>3, <1>4, <1>5, <1>6, <1>7, <1>8, <1>9 DEF Step

-----------------------------------------------------------------------------
(* The theorems.                                                           *)

\* A group that was installed long ago is backed.
LEMMA SettledBacked ==
    ASSUME NEW installed \in SUBSET Group, NEW g \in installed
    PROVE  /\ Settled(g, installed) \in GroupObject /\ Backed(Settled(g, installed))
           /\ \A w \in Workload :
                Settled(g, installed).items[w].born = IF GroupOf[w] \in installed /\ w \notin Job
                  /\ (GroupOf[w] = g \/ ParentOf[GroupOf[w]] = g) THEN 1 ELSE 0
  <1> DEFINE under == {g} \cup {i \in installed : ParentOf[i] = g}
             own == {w \in Workload \ Job : GroupOf[w] \in under}
             items == [w \in Workload |-> IF w \in own THEN [show |-> "ready", born |-> 1] ELSE Out]
             deploy == [w \in Workload |-> IF w \in Recorded(g) THEN "deployed" ELSE "none"]
             ticket == Kind[g] # "custom"
             version == IF Kind[g] = "custom" THEN 0 ELSE 1
             child == ParentOf[g] # g
             new == NewGroup(ticket)
             s == [new EXCEPT !.items = items, !.deploy = deploy, !.status = "deployed",
                              !.ready = TRUE, !.settled = TRUE, !.version = version,
                              !.child = child]
  <1>1. Settled(g, installed) = s
    BY DEF Settled
  <1>2. ticket \in BOOLEAN /\ version \in Nat /\ child \in BOOLEAN
    OBVIOUS
  <1>3. /\ items \in [Workload -> [show : {"out", "unready", "ready"}, born : Nat]]
        /\ \A w \in Workload : items[w].born =
             IF GroupOf[w] \in installed /\ w \notin Job
                /\ (GroupOf[w] = g \/ ParentOf[GroupOf[w]] = g) THEN 1 ELSE 0
    BY DEF Out
  <1>4. /\ deploy \in [Workload -> {"none", "deploying", "failed", "deployed"}]
        /\ \A w \in Workload : deploy[w] \in {"none", "deployed"}
    OBVIOUS
  <1>5. new \in GroupObject /\ new.upgrading = 0
    BY <1>2, NewGroupBacked
  <1> HIDE DEF new, items, deploy, version, child
  <1>6. s \in GroupObject
    BY <1>2, <1>3, <1>4, <1>5 DEF GroupObject, Status
  <1>7. s.deploy = deploy /\ s.upgrading = new.upgrading /\ s.items = items
    BY <1>5 DEF GroupObject
  <1>8. Backed(s)
    BY <1>4, <1>5, <1>7 DEF Backed
  <1> QED
    BY <1>1, <1>3, <1>6, <1>7, <1>8

LEMMA InitHolds == Init => GroupsInv
  <1> SUFFICES ASSUME Init PROVE GroupsInv
    OBVIOUS
  <1>1. PICK s \in Scenes, installed \in SUBSET Group :
          /\ scene = s
          /\ log = [o \in Object |->
               IF o \in Group
               THEN <<IF o \in installed THEN Settled(o, installed) ELSE NoGroup>>
               ELSE <<IF GroupOf[o] \in installed THEN [st |-> "ready", born |-> 1] ELSE Nowhere>>]
          /\ released = {g \in installed : Kind[g] # "custom"}
    BY DEF Init
  <1>2. ASSUME NEW o \in Object
        PROVE  /\ log[o] \in Seq(Version(o)) /\ log[o] # <<>>
               /\ o \in Group => Stored(o) = NoGroup \/ Backed(Stored(o))
    <2>1. CASE o \in Group
      <3> DEFINE v == IF o \in installed THEN Settled(o, installed) ELSE NoGroup
      <3>1. v \in Version(o) /\ (v = NoGroup \/ Backed(v))
        BY <2>1, SettledBacked DEF Version
      <3>2. log[o] = <<v>>
        BY <1>1, <2>1
      <3> HIDE DEF v
      <3> QED
        BY <3>1, <3>2 DEF Stored
    <2>2. CASE o \notin Group
      <3> DEFINE v == IF GroupOf[o] \in installed THEN [st |-> "ready", born |-> 1] ELSE Nowhere
      <3>1. v \in Version(o)
        BY <2>2 DEF Version, WorkloadObject, Nowhere
      <3>2. log[o] = <<v>>
        BY <1>1, <2>2
      <3> HIDE DEF v
      <3> QED
        BY <2>2, <3>1, <3>2
    <2> QED
      BY <2>1, <2>2
  <1>3. DOMAIN log = Object
    BY <1>1
  <1>4. scene.moves \in Nat
    BY <1>1, BoundAssumption
  <1>5. TypeOK
    BY <1>1, <1>2, <1>3, <1>4 DEF Init, TypeOK
  <1>6. DeployedBacked
    <2> SUFFICES ASSUME NEW g \in Group, There(g)
                 PROVE  Backed(Stored(g))
      BY DEF DeployedBacked, Backed
    <2> QED
      BY <1>2 DEF There, Object
  <1>7. TaskInv
    BY DEF Init, TaskInv
  <1>8. ASSUME NEW w \in Workload
        PROVE  /\ Stored(w).born = IF GroupOf[w] \in installed THEN 1 ELSE 0
               /\ \A i \in 1..Len(log[w]) : log[w][i] = Stored(w)
    <2>1. w \in Object /\ w \notin Group
      BY <1>5, StoredWorkload
    <2> DEFINE v == IF GroupOf[w] \in installed THEN [st |-> "ready", born |-> 1] ELSE Nowhere
    <2>2. log[w] = <<v>> /\ v.born = IF GroupOf[w] \in installed THEN 1 ELSE 0
      BY <1>1, <2>1 DEF Nowhere
    <2> HIDE DEF v
    <2> QED
      BY <2>2 DEF Stored
  <1>9. LogDates
    BY <1>8 DEF LogDates
  <1>10. GroupDates
    <2> SUFFICES ASSUME NEW g \in Group, There(g)
                 PROVE  Dates(Stored(g))
      BY DEF GroupDates
    <2>1. log[g] = <<IF g \in installed THEN Settled(g, installed) ELSE NoGroup>>
      BY <1>1 DEF Object
    <2>2. g \in installed /\ Stored(g) = Settled(g, installed)
      BY <2>1 DEF There, Stored
    <2> QED
      BY <1>8, <2>2, SettledBacked DEF Dates
  <1> QED
    BY <1>5, <1>6, <1>7, <1>9, <1>10 DEF GroupsInv

\* Every step does what is proved of the steps.
LEMMA NextKeeps ==
    ASSUME GroupsInv, [Next]_vars
    PROVE  GroupsInv' /\ [\A g \in Group : There(g) /\ ~There(g)' => Asked(g)]_vars
  <1>1. CASE UNCHANGED vars
    <2>1. GroupsInv'
      <3>1. log' = log /\ tasks' = tasks /\ cleaned' = cleaned /\ RestOK'
        BY <1>1 DEF vars, GroupsInv, TypeOK, RestOK
      <3> QED
        BY <3>1, SameLogs, SameTasks, StillStep
    <2> QED
      BY <1>1, <2>1
  <1>2. CASE Next
    <2>1. GroupsInv' /\ GoneClean
      <3>1. ASSUME NEW o \in Object, Deliver(o) PROVE GroupsInv' /\ GoneClean
        BY <3>1, DeliverKeeps
      <3>2. ASSUME NEW e \in queue, Take(e) \/ Sync(e) PROVE GroupsInv' /\ GoneClean
        BY <3>2, TakeKeeps, SyncKeeps
      <3>3. CASE Elapse
        BY <3>3, ElapseKeeps
      <3>4. ASSUME NEW t \in tasks, Step(t) PROVE GroupsInv' /\ GoneClean
        BY <3>4, StepKeeps
      <3>5. ASSUME NEW g \in Group, Install(g) \/ Apply(g) \/ Release(g) \/ UserDelete(g)
            PROVE  GroupsInv' /\ GoneClean
        BY <3>5, InstallKeeps, ApplyKeeps, ReleaseKeeps, UserDeleteKeeps
      <3>6. ASSUME NEW w \in Workload, RollOut(w) \/ Restart(w) \/ Create(w) \/ Remove(w)
            PROVE  GroupsInv' /\ GoneClean
        BY <3>6, ChangeKeeps DEF RollOut, Restart, Create, Remove, Move
      <3>7. CASE Crash
        BY <3>7, CrashKeeps
      <3> QED
        BY <1>2, <3>1, <3>2, <3>3, <3>4, <3>5, <3>6, <3>7 DEF Next, Controller
    <2> QED
      BY <2>1 DEF GoneClean
  <1> QED
    BY <1>1, <1>2

LEMMA GroupsInvariant == Spec => []GroupsInv
  <1>1. GroupsInv /\ [Next]_vars => GroupsInv'
    BY NextKeeps
  <1> QED
    BY InitHolds, <1>1, PTL DEF Spec

\* Whatever the workers, users and crashes do, the groups, logs and events
\* have their types; an event is never tried more often than maxRetries.
THEOREM GroupTypes == Spec => []TypeOK
  BY GroupsInvariant, PTL DEF GroupsInv

\* A group called deployed has every recorded resource deployed, in every
\* interleaving of installs, upgrades and status writes.
THEOREM DeployedIsBacked == Spec => []DeployedBacked
  BY GroupsInvariant, PTL DEF GroupsInv

\* A worker that holds the last version of a group cleans all that it shows,
\* and has called for it when it comes to remove the finalizer (HandleAppGroup).
THEOREM CleaningIsComplete == Spec => []CleanInv
  <1>1. GroupsInv => CleanInv
    <2> SUFFICES ASSUME GroupsInv
                 PROVE  CleanInv
      OBVIOUS
    <2>1. Dated
      BY DEF GroupsInv, GroupDates, Dates, LogDates, TaskInv, TaskOK, Reads, Dated
    <2> QED
      BY <2>1 DEF GroupsInv, TaskInv, TaskOK, Covers, CleanInv
  <1> QED
    BY GroupsInvariant, <1>1, PTL

\* A group goes only after a cleaning called for the deletion of everything it
\* shows, whatever became of those calls, in every interleaving of workers,
\* users and crashes.
THEOREM CleaningComesFirst == Spec => CleanedFirst
  <1>1. GroupsInv /\ [Next]_vars
          => [\A g \in Group : There(g) /\ ~There(g)' => Asked(g)]_vars
    BY NextKeeps
  <1> QED
    BY GroupsInvariant, <1>1, PTL DEF Spec, CleanedFirst
=============================================================================
