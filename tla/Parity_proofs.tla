---------------------------- MODULE Parity_proofs ----------------------------
(***************************************************************************)
(* Proofs about Parity, for any sets of arrays, nodes and mount points and *)
(* any bounds.                                                             *)
(*                                                                         *)
(* The order of the CronJobs is not inductive by itself. It follows from   *)
(* what a pass knows: no CronJob is ahead of the schedule (Behind), and    *)
(* while a pass is under way, the CronJobs of its array it has been        *)
(* through are at the version it has read and none is past that version    *)
(* (Through), however long ago it has read it.                             *)
(*                                                                         *)
(* That what becomes Ready is configured rests on what a pass of the       *)
(* ArrayReconciler carries from its first request to its second (Carried): *)
(* as long as it holds the latest version of the Array, it has read its    *)
(* spec, and while it is to report Ready, no other pass has written the    *)
(* ConfigMap of its node.                                                  *)
(***************************************************************************)
EXTENDS Parity, TLAPS

Indices == DOMAIN Ops

ConfigsTyped == conf \in [Nodes -> CachedObjects(Configs)]

CronsTyped ==
    /\ DOMAIN cron = Scheduled
    /\ \A a \in Scheduled :
          /\ DOMAIN cron[a] = Indices
          /\ \A i \in Indices : cron[a][i] \in CachedObjects(CronJobs(Ops[i]))

SpecsTyped ==
    /\ layout \in [Arrays -> Layouts]
    /\ node \in [Arrays -> Nodes \cup {""}]
    /\ schedule \in [Scheduled -> Schedules]
    /\ phase \in [Arrays -> {"", "Ready", "Degraded"}]
    /\ pass \in Passes \cup {NoPass}

CountersTyped ==
    /\ changes \in 0..MaxChanges
    /\ failures \in 0..MaxFailures
    /\ restarts \in 0..MaxRestarts

(* Every version was an edit; none is lost.                                *)
Counted == \A a \in Scheduled : schedule[a].version <= changes

(* What a CronJob that exists is made of.                                  *)
At(a, i, v) == cron[a][i].data # None => cron[a][i].data.version = v
UpTo(a, i, v) == cron[a][i].data # None => cron[a][i].data.version <= v

Behind == \A a \in Scheduled, i \in Indices : UpTo(a, i, schedule[a].version)

Through ==
    pass # NoPass =>
        /\ pass.schedule.version <= schedule[pass.array].version
        /\ \A i \in Indices :
              /\ UpTo(pass.array, i, pass.schedule.version)
              /\ i < pass.op => At(pass.array, i, pass.schedule.version)

Typed == SpecsTyped /\ ConfigsTyped /\ CronsTyped /\ CountersTyped

Ordered == Counted /\ Behind /\ Through /\ UpdatedInOrder

IInv == Typed /\ Ordered

ArrayTyped ==
    /\ shown \in [Arrays -> BOOLEAN]
    /\ arrayPass \in ArrayPasses \cup {NoArrayPass}
    /\ applied \in [Nodes -> Configs \cup {None}]

(* What a pass of the ArrayReconciler carries between its two requests.    *)
Carried ==
    arrayPass # NoArrayPass =>
        /\ arrayPass.current => SameSpec(arrayPass.layout, layout[arrayPass.array])
        /\ arrayPass.phase = "Ready" /\ arrayPass.layout.data # <<>> =>
              /\ arrayPass.node # ""
              /\ applied[arrayPass.node] = Rendering(arrayPass.layout)

AInv == ArrayTyped /\ Carried

(* The content of a CronJob does not depend on what the cache shows.       *)
SameJobs == \A a \in Scheduled, i \in Indices : cron'[a][i].data \in {cron[a][i].data, None}

-----------------------------------------------------------------------------
(* The objects.                                                            *)

LEMMA Bounds == MaxChanges \in Nat /\ MaxFailures \in Nat /\ MaxRestarts \in Nat
    BY ParityAssumption, Zenon DEF ParityAssumption

LEMMA Named == "" \notin Nodes
    BY ParityAssumption, Zenon DEF ParityAssumption

LEMMA WrittenTyped ==
    ASSUME NEW C, NEW o \in CachedObjects(C), NEW c \in C
    PROVE  Written(o, c) \in CachedObjects(C) /\ Written(o, c).data = c
<1>1. o.fresh \in BOOLEAN /\ o.data = o.data
    BY DEF CachedObjects
<1>2. (o.fresh /\ o.data = c) \in BOOLEAN
    BY <1>1
<1> DEFINE f == o.fresh /\ o.data = c
<1>3. Written(o, c) = [o EXCEPT !.data = c, !.fresh = f]
    BY DEF Written
<1>4. f \in BOOLEAN
    BY <1>2
<1> HIDE DEF f
<1> QED BY <1>3, <1>4 DEF CachedObjects

LEMMA RemovedTyped ==
    ASSUME NEW C, NEW o \in CachedObjects(C)
    PROVE  Removed(o) \in CachedObjects(C) /\ Removed(o).data = None
    BY DEF CachedObjects, Removed

LEMMA SyncedTyped ==
    ASSUME NEW C, NEW o \in CachedObjects(C)
    PROVE  Synced(o) \in CachedObjects(C) /\ Synced(o).data = o.data
<1> DEFINE s == o.data # None
<1>1. Synced(o) = [o EXCEPT !.seen = s, !.fresh = TRUE] /\ s \in BOOLEAN
    BY DEF Synced
<1> HIDE DEF s
<1> QED BY <1>1 DEF CachedObjects

LEMMA IndicesKnown == Indices = 1..3 /\ Len(Ops) = 3
    BY DEF Indices, Ops

LEMMA CronJobTyped ==
    ASSUME NEW op, NEW s \in Schedules, NEW n \in Nodes
    PROVE  CronJob(op, s, n) \in CronJobs(op) /\ CronJob(op, s, n).version = s.version
<1> DEFINE p == IF op = "scrub" THEN ScrubPct(s) ELSE 0
<1>1. p \in IF op = "scrub" THEN {50, 100} ELSE {0}
    BY DEF ScrubPct, Schedules
<1>2. s.version \in 0..MaxChanges
    BY DEF Schedules
<1>3. CronJob(op, s, n) = [version |-> s.version, config |-> n, percent |-> p]
    BY DEF CronJob
<1> HIDE DEF p
<1> QED BY <1>1, <1>2, <1>3 DEF CronJobs

LEMMA PassFields ==
    ASSUME SpecsTyped, pass # NoPass
    PROVE  /\ pass.array \in Scheduled /\ pass.schedule \in Schedules
           /\ pass.node \in Nodes /\ pass.op \in Indices
           /\ pass \in Passes
    BY DEF SpecsTyped, Passes, Indices

LEMMA VersionsAreNumbers ==
    ASSUME Typed
    PROVE  /\ \A a \in Scheduled : schedule[a].version \in Nat
           /\ pass # NoPass => pass.schedule.version \in Nat
           /\ \A a \in Scheduled, i \in Indices :
                 cron[a][i].data # None => cron[a][i].data.version \in Nat
<1>1. \A s \in Schedules : s.version \in Nat
    BY DEF Schedules
<1>2. \A a \in Scheduled : schedule[a].version \in Nat
    BY <1>1 DEF Typed, SpecsTyped
<1>3. pass # NoPass => pass.schedule.version \in Nat
    BY <1>1, PassFields DEF Typed
<1>4. ASSUME NEW a \in Scheduled, NEW i \in Indices, cron[a][i].data # None
      PROVE  cron[a][i].data.version \in Nat
    <2>1. cron[a][i].data \in CronJobs(Ops[i])
        BY <1>4 DEF Typed, CronsTyped, CachedObjects
    <2> QED BY <2>1 DEF CronJobs
<1> QED BY <1>2, <1>3, <1>4

LEMMA ArrayPassFields ==
    ASSUME ArrayTyped, arrayPass # NoArrayPass
    PROVE  /\ arrayPass \in ArrayPasses /\ arrayPass.array \in Arrays
           /\ arrayPass.layout \in Layouts /\ arrayPass.node \in Nodes \cup {""}
           /\ arrayPass.current \in BOOLEAN /\ arrayPass.phase \in {"", "Ready", "Degraded"}
    BY DEF ArrayTyped, ArrayPasses

LEMMA UnderWay == arrayPass.phase # "none" => arrayPass # NoArrayPass
    BY DEF NoArrayPass

(* A ConfigMap is applied with the rendering of what the pass has read.    *)
LEMMA ApplyTyped ==
    ASSUME ConfigsTyped, ArrayTyped, arrayPass # NoArrayPass, Applicable,
           Apply(Written(conf[arrayPass.node], Rendering(arrayPass.layout)))
    PROVE  /\ ConfigsTyped' /\ arrayPass.node \in Nodes
           /\ applied' \in [Nodes -> Configs \cup {None}]
           /\ applied'[arrayPass.node] = Rendering(arrayPass.layout)
           /\ arrayPass' = [arrayPass EXCEPT !.phase = "Ready"]
<1> DEFINE n == arrayPass.node
           o == Written(conf[n], Rendering(arrayPass.layout))
<1>1. n \in Nodes /\ Rendering(arrayPass.layout) \in Configs
    BY ArrayPassFields DEF Applicable, Configs
<1>2. conf[n] \in CachedObjects(Configs)
    BY <1>1 DEF ConfigsTyped
<1>3. o \in CachedObjects(Configs) /\ o.data = Rendering(arrayPass.layout)
    BY <1>1, <1>2, WrittenTyped
<1>4. /\ conf' = [conf EXCEPT ![n] = o]
      /\ applied' = [applied EXCEPT ![n] = o.data]
      /\ arrayPass' = [arrayPass EXCEPT !.phase = "Ready"]
    BY DEF Apply
<1> HIDE DEF n, o
<1>5. ConfigsTyped'
    BY <1>1, <1>3, <1>4 DEF ConfigsTyped
<1>6. /\ applied' \in [Nodes -> Configs \cup {None}]
      /\ applied'[n] = Rendering(arrayPass.layout)
    BY <1>1, <1>3, <1>4 DEF ArrayTyped
<1> QED BY <1>1, <1>4, <1>5, <1>6 DEF n

-----------------------------------------------------------------------------
(* Changes of CronJobs. One object is replaced.                            *)
Replace(a, i, o) == cron' = [cron EXCEPT ![a][i] = o]

LEMMA ReplaceTyped ==
    ASSUME CronsTyped, NEW a \in Scheduled, NEW i \in Indices,
           NEW o \in CachedObjects(CronJobs(Ops[i])), Replace(a, i, o)
    PROVE  /\ CronsTyped' /\ cron'[a][i] = o
           /\ \A b \in Scheduled, j \in Indices :
                 <<b, j>> # <<a, i>> => cron'[b][j] = cron[b][j]
<1>1. /\ DOMAIN cron' = Scheduled
      /\ \A b \in Scheduled \ {a} : cron'[b] = cron[b]
      /\ cron'[a] = [cron[a] EXCEPT ![i] = o]
    BY DEF Replace, CronsTyped
<1>2. /\ DOMAIN cron'[a] = Indices /\ cron'[a][i] = o
      /\ \A j \in Indices \ {i} : cron'[a][j] = cron[a][j]
    BY <1>1 DEF CronsTyped
<1>3. ASSUME NEW b \in Scheduled
      PROVE  /\ DOMAIN cron'[b] = Indices
             /\ \A j \in Indices : cron'[b][j] \in CachedObjects(CronJobs(Ops[j]))
    <2>1. CASE b = a
        BY <1>2, <2>1 DEF CronsTyped
    <2>2. CASE b # a
        BY <1>1, <2>2 DEF CronsTyped
    <2> QED BY <2>1, <2>2
<1>4. \A b \in Scheduled, j \in Indices : <<b, j>> # <<a, i>> => cron'[b][j] = cron[b][j]
    BY <1>1, <1>2
<1> QED BY <1>1, <1>2, <1>3, <1>4 DEF CronsTyped

(* What is only dropped or synchronised stays in order, as long as pass    *)
(* and schedules do not change, or the pass ends.                          *)
LEMMA SameJobsOrdered ==
    ASSUME Ordered, SameJobs, UNCHANGED schedule, changes' \in Nat, changes \in Nat,
           changes <= changes', pass' \in {pass, NoPass}, Typed
    PROVE  Ordered'
<1>0. \A a \in Scheduled, i \in Indices :
          cron'[a][i].data # None => cron'[a][i].data = cron[a][i].data
    BY DEF SameJobs
<1>1. Counted'
    BY VersionsAreNumbers DEF Ordered, Counted
<1>2. Behind'
    BY <1>0 DEF Ordered, Behind, UpTo
<1>3. Through'
    <2>1. CASE pass' = NoPass
        BY <2>1 DEF Through
    <2>2. CASE pass' = pass /\ pass # NoPass
        BY <1>0, <2>2, PassFields DEF Typed, Ordered, Through, UpTo, At
    <2> QED BY <2>1, <2>2
<1>4. UpdatedInOrder'
    BY <1>0 DEF Ordered, UpdatedInOrder, Indices
<1> QED BY <1>1, <1>2, <1>3, <1>4 DEF Ordered

(* The step of a pass.                                                     *)
LEMMA EnsureOrdered ==
    ASSUME IInv, pass # NoPass, Replace(pass.array, pass.op, Ensured(cron[pass.array][pass.op])),
           pass' \in {NoPass, [pass EXCEPT !.op = @ + 1]}, UNCHANGED <<schedule, changes>>
    PROVE  CronsTyped' /\ Ordered'
<1> DEFINE a == pass.array
           k == pass.op
           v == pass.schedule.version
           new == Ensured(cron[a][k])
<1>0. /\ a \in Scheduled /\ k \in Indices /\ v \in Nat /\ pass \in Passes
      /\ pass.schedule \in Schedules /\ pass.node \in Nodes
    BY PassFields, VersionsAreNumbers DEF IInv, Typed
<1>1. /\ Desired \in CronJobs(Ops[k]) /\ Desired.version = v
    BY <1>0, CronJobTyped DEF Desired
<1>2. new \in CachedObjects(CronJobs(Ops[k])) /\ new.data = Desired
    BY <1>0, <1>1, WrittenTyped DEF Ensured, IInv, Typed, CronsTyped
<1>3. Replace(a, k, new)
    OBVIOUS
<1> HIDE DEF new
<1>4. /\ CronsTyped' /\ cron'[a][k] = new
      /\ \A b \in Scheduled, j \in Indices : <<b, j>> # <<a, k>> => cron'[b][j] = cron[b][j]
    BY <1>0, <1>2, <1>3, ReplaceTyped DEF IInv, Typed
<1>5. cron'[a][k].data.version = v
    BY <1>1, <1>2, <1>4
<1>6. \A i \in Indices :
          cron[a][i].data # None =>
              /\ cron[a][i].data.version <= v
              /\ i < k => cron[a][i].data.version = v
    BY DEF IInv, Ordered, Through, UpTo, At
<1>7. v <= schedule[a].version /\ schedule[a].version \in Nat
    BY <1>0, VersionsAreNumbers DEF IInv, Ordered, Through
<1>8. \A i \in Indices : cron'[a][i].data # None =>
          /\ cron'[a][i].data.version <= v
          /\ i <= k => cron'[a][i].data.version = v
    <2> TAKE i \in Indices
    <2>1. CASE i = k
        BY <1>0, <1>5, <2>1
    <2>2. CASE i # k
        <3>1. cron'[a][i] = cron[a][i]
            BY <1>0, <1>4, <2>2
        <3>2. i <= k => i < k
            BY <1>0, <2>2, IndicesKnown
        <3> QED BY <1>6, <3>1, <3>2
    <2> QED BY <2>1, <2>2
<1>9. Counted'
    BY DEF IInv, Ordered, Counted
<1>10. Behind'
    <2> SUFFICES ASSUME NEW b \in Scheduled, NEW i \in Indices, cron'[b][i].data # None
                 PROVE  cron'[b][i].data.version <= schedule[b].version
        BY DEF Behind, UpTo
    <2>1. CASE b = a
        <3>1. cron'[a][i].data.version <= v
            BY <1>8, <2>1
        <3>2. cron'[a][i].data.version \in Nat
            <4>1. cron'[a][i].data \in CronJobs(Ops[i])
                BY <1>0, <1>4, <2>1 DEF CronsTyped, CachedObjects
            <4> QED BY <4>1 DEF CronJobs
        <3> QED BY <1>0, <1>7, <2>1, <3>1, <3>2
    <2>2. CASE b # a
        BY <1>0, <1>4, <2>2 DEF IInv, Ordered, Behind, UpTo
    <2> QED BY <2>1, <2>2
<1>11. Through'
    <2>1. CASE pass' = NoPass
        BY <2>1 DEF Through
    <2>2. CASE pass' = [pass EXCEPT !.op = k + 1]
        <3>1. /\ pass'.array = a /\ pass'.schedule = pass.schedule /\ pass'.op = k + 1
            BY <1>0, <2>2 DEF Passes
        <3>2. \A i \in Indices : i < k + 1 => i <= k
            BY <1>0, IndicesKnown
        <3> QED BY <1>7, <1>8, <3>1, <3>2 DEF Through, UpTo, At
    <2> QED BY <2>1, <2>2
<1>12. UpdatedInOrder'
    <2> SUFFICES ASSUME NEW b \in Scheduled, NEW i \in Indices, NEW j \in Indices, i < j,
                        cron'[b][i].data # None, cron'[b][j].data # None
                 PROVE  cron'[b][i].data.version >= cron'[b][j].data.version
        BY DEF UpdatedInOrder, Indices
    <2>1. CASE b # a
        BY <1>0, <1>4, <2>1 DEF IInv, Ordered, UpdatedInOrder, Indices
    <2>2. CASE b = a /\ i <= k
        <3>1. cron'[a][i].data.version = v /\ cron'[a][j].data.version <= v
            BY <1>8, <2>2
        <3> QED BY <1>0, <2>2, <3>1
    <2>3. CASE b = a /\ ~(i <= k)
        <3>1. i # k /\ j # k
            BY <1>0, <2>3, IndicesKnown
        <3>2. cron'[a][i] = cron[a][i] /\ cron'[a][j] = cron[a][j]
            BY <1>0, <1>4, <3>1
        <3> QED BY <2>3, <3>2 DEF IInv, Ordered, UpdatedInOrder, Indices
    <2> QED BY <2>1, <2>2, <2>3
<1> QED BY <1>4, <1>9, <1>10, <1>11, <1>12 DEF Ordered

-----------------------------------------------------------------------------
(* The invariant.                                                          *)

LEMMA InitInv == Init => IInv
<1> SUFFICES ASSUME Init PROVE IInv
    OBVIOUS
<1>0. /\ schedule = [a \in Scheduled |-> [version |-> 0, percent |-> 0]]
      /\ conf = [n \in Nodes |-> Missing]
      /\ cron = [a \in Scheduled |-> [i \in DOMAIN Ops |-> Missing]]
      /\ pass = NoPass
      /\ changes = 0 /\ failures = 0 /\ restarts = 0
    BY Zenon DEF Init
<1>1. SpecsTyped
    <2>1. schedule \in [Scheduled -> Schedules]
        BY <1>0, Bounds DEF Schedules
    <2>2. layout \in [Arrays -> Layouts]
        BY DEF Init
    <2>3. node \in [Arrays -> Nodes \cup {""}]
        BY ParityAssumption DEF Init
    <2>4. phase \in [Arrays -> {"", "Ready", "Degraded"}]
        BY DEF Init
    <2> QED BY <1>0, <2>1, <2>2, <2>3, <2>4 DEF SpecsTyped
<1>2. \A C : Missing \in CachedObjects(C) /\ Missing.data = None
    BY DEF Missing, CachedObjects
<1>3. ConfigsTyped
    BY <1>0, <1>2 DEF ConfigsTyped
<1>4. CronsTyped /\ \A a \in Scheduled, i \in Indices : cron[a][i].data = None
    BY <1>0, <1>2 DEF CronsTyped, Indices
<1>5. CountersTyped
    BY <1>0, Bounds DEF CountersTyped
<1>6. Counted
    BY <1>0 DEF Counted
<1>7. Behind /\ Through /\ UpdatedInOrder
    BY <1>0, <1>4 DEF Behind, UpTo, Through, UpdatedInOrder, Indices
<1> QED BY <1>1, <1>3, <1>4, <1>5, <1>6, <1>7 DEF IInv, Typed, Ordered

LEMMA Changed ==
    ASSUME CountersTyped, Change, UNCHANGED <<failures, restarts>>
    PROVE  CountersTyped' /\ changes \in Nat /\ changes' \in Nat /\ changes <= changes'
    BY Bounds DEF CountersTyped, Change

LEMMA StepInv == IInv /\ ArrayTyped /\ [Next]_vars => IInv'
<1> SUFFICES ASSUME IInv, ArrayTyped, [Next]_vars PROVE IInv'
    OBVIOUS
<1>0. Typed /\ Ordered /\ SpecsTyped /\ ConfigsTyped /\ CronsTyped /\ CountersTyped
    BY DEF IInv, Typed
<1>n. changes \in Nat /\ failures \in Nat /\ restarts \in Nat
    BY <1>0 DEF CountersTyped
<1>s. cron' = cron => SameJobs
    BY DEF SameJobs
<1>1. CASE \E a \in Arrays : EditArray(a) \/ MovePrimary(a)
    <2>1. Change /\ UNCHANGED <<schedule, conf, cron, pass, failures, restarts, phase>>
        BY <1>1 DEF EditArray, MovePrimary
    <2>2. layout' \in [Arrays -> Layouts] /\ node' \in [Arrays -> Nodes \cup {""}]
        BY <1>0, <1>1 DEF EditArray, MovePrimary, SpecsTyped
    <2>3. Ordered'
        BY <1>0, <1>s, <2>1, Changed, SameJobsOrdered
    <2> QED BY <1>0, <2>1, <2>2, <2>3, Changed DEF IInv, Typed, SpecsTyped, ConfigsTyped, CronsTyped
<1>2. CASE \E a \in Scheduled : EditSchedule(a)
    <2>1. PICK a \in Scheduled : EditSchedule(a)
        BY <1>2
    <2>2. PICK p \in {0, 50} :
              schedule' = [schedule EXCEPT ![a] = [version |-> schedule[a].version + 1, percent |-> p]]
        BY <2>1 DEF EditSchedule
    <2>3. Change /\ UNCHANGED <<layout, node, phase, conf, cron, pass, failures, restarts>>
        BY <2>1 DEF EditSchedule, arrayVars
    <2>4. /\ schedule[a].version \in Nat /\ schedule[a].version <= changes
          /\ changes' = changes + 1 /\ changes' \in 0..MaxChanges
        BY <1>0, <2>3, Changed, VersionsAreNumbers
        DEF Change, CountersTyped, Ordered, Counted
    <2>5. [version |-> schedule[a].version + 1, percent |-> p] \in Schedules
        <3> DEFINE v == schedule[a].version + 1
        <3>1. v \in 0..MaxChanges
            BY <1>n, <2>4, Bounds
        <3> HIDE DEF v
        <3>2. [version |-> v, percent |-> p] \in Schedules
            BY <3>1 DEF Schedules
        <3> QED BY <3>2 DEF v
    <2>6. schedule' \in [Scheduled -> Schedules]
        BY <1>0, <2>2, <2>5 DEF SpecsTyped
    <2>7. /\ schedule'[a].version = schedule[a].version + 1
          /\ \A b \in Scheduled \ {a} : schedule'[b] = schedule[b]
        BY <1>0, <2>2 DEF SpecsTyped
    <2>8. \A b \in Scheduled : /\ schedule[b].version \in Nat /\ schedule'[b].version \in Nat
                               /\ schedule[b].version <= schedule'[b].version
        BY <1>0, <2>4, <2>7, VersionsAreNumbers
    <2>9. Counted'
        BY <1>0, <1>n, <2>4, <2>7, <2>8 DEF Ordered, Counted
    <2>10. Behind'
        BY <1>0, <2>3, <2>8, VersionsAreNumbers DEF Ordered, Behind, UpTo
    <2>11. Through'
        <3>1. CASE pass = NoPass
            BY <2>3, <3>1 DEF Through
        <3>2. CASE pass # NoPass
            <4>1. pass.array \in Scheduled /\ pass.schedule.version \in Nat
                BY <1>0, <3>2, PassFields, VersionsAreNumbers
            <4>2. pass.schedule.version <= schedule'[pass.array].version
                BY <1>0, <2>8, <3>2, <4>1 DEF Ordered, Through
            <4> QED BY <1>0, <2>3, <3>2, <4>2 DEF Ordered, Through, UpTo, At
        <3> QED BY <3>1, <3>2
    <2>12. UpdatedInOrder'
        BY <1>0, <2>3 DEF Ordered, UpdatedInOrder
    <2> QED BY <1>0, <2>3, <2>6, <2>9, <2>10, <2>11, <2>12, Changed
        DEF IInv, Typed, SpecsTyped, ConfigsTyped, CronsTyped, Ordered
<1>3. CASE DropObject
    <2>1. Change /\ UNCHANGED <<specVars, phase, pass, failures, restarts>>
        BY <1>3 DEF DropObject, arrayVars
    <2>2. CASE UNCHANGED cron /\ \E n \in Nodes : conf' = [conf EXCEPT ![n] = Removed(conf[n])]
        <3>1. ConfigsTyped'
            BY <1>0, <2>2, RemovedTyped DEF ConfigsTyped
        <3>2. Ordered'
            BY <1>0, <1>s, <2>1, <2>2, Changed, SameJobsOrdered DEF specVars
        <3> QED BY <1>0, <2>1, <2>2, <3>1, <3>2, Changed
            DEF IInv, Typed, SpecsTyped, CronsTyped, specVars
    <2>3. CASE UNCHANGED conf /\ \E a \in Scheduled, i \in Indices :
                                    Replace(a, i, Removed(cron[a][i]))
        <3>1. PICK a \in Scheduled, i \in Indices : Replace(a, i, Removed(cron[a][i]))
            BY <2>3
        <3>2. /\ Removed(cron[a][i]) \in CachedObjects(CronJobs(Ops[i]))
              /\ Removed(cron[a][i]).data = None
            BY <1>0, RemovedTyped DEF CronsTyped
        <3>3. CronsTyped' /\ SameJobs
            BY <1>0, <3>1, <3>2, ReplaceTyped DEF SameJobs
        <3>4. Ordered'
            BY <1>0, <2>1, <3>3, Changed, SameJobsOrdered DEF specVars
        <3> QED BY <1>0, <2>1, <2>3, <3>3, <3>4, Changed
            DEF IInv, Typed, SpecsTyped, ConfigsTyped, specVars
    <2> QED BY <1>3, <2>2, <2>3 DEF DropObject, Replace, Indices
<1>4. CASE \E n \in Nodes : SyncConfig(n)
    <2>1. ConfigsTyped'
        BY <1>0, <1>4, SyncedTyped DEF SyncConfig, ConfigsTyped
    <2>2. UNCHANGED <<specVars, phase, cron, pass, boundVars>>
        BY <1>4 DEF SyncConfig, arrayVars
    <2>3. Ordered'
        BY <1>0, <1>n, <1>s, <2>2, SameJobsOrdered DEF specVars, boundVars
    <2> QED BY <1>0, <2>1, <2>2, <2>3
        DEF IInv, Typed, SpecsTyped, CronsTyped, CountersTyped, specVars, boundVars
<1>5. CASE \E a \in Scheduled, i \in DOMAIN Ops : SyncCronJob(a, i)
    <2>1. PICK a \in Scheduled, i \in Indices : SyncCronJob(a, i)
        BY <1>5 DEF Indices
    <2>2. Replace(a, i, Synced(cron[a][i])) /\ UNCHANGED <<specVars, phase, conf, pass, boundVars>>
        BY <2>1 DEF SyncCronJob, Replace, arrayVars
    <2>3. /\ Synced(cron[a][i]) \in CachedObjects(CronJobs(Ops[i]))
          /\ Synced(cron[a][i]).data = cron[a][i].data
        BY <1>0, SyncedTyped DEF CronsTyped
    <2>4. CronsTyped' /\ SameJobs
        BY <1>0, <2>2, <2>3, ReplaceTyped DEF SameJobs
    <2>5. Ordered'
        BY <1>0, <1>n, <2>2, <2>4, SameJobsOrdered DEF specVars, boundVars
    <2> QED BY <1>0, <2>2, <2>4, <2>5
        DEF IInv, Typed, SpecsTyped, ConfigsTyped, CountersTyped, specVars, boundVars
<1>6. CASE OperatorRestart
    <2>1. /\ conf' = [n \in Nodes |-> Synced(conf[n])]
          /\ cron' = [a \in Scheduled |-> [i \in Indices |-> Synced(cron[a][i])]]
          /\ pass' = NoPass /\ restarts < MaxRestarts /\ restarts' = restarts + 1
          /\ UNCHANGED <<layout, node, schedule, phase, changes, failures>>
        BY <1>6 DEF OperatorRestart, specVars, Indices
    <2>2. ConfigsTyped'
        BY <1>0, <2>1, SyncedTyped DEF ConfigsTyped
    <2>3. ASSUME NEW a \in Scheduled, NEW i \in Indices
          PROVE  /\ cron'[a][i] = Synced(cron[a][i])
                 /\ Synced(cron[a][i]) \in CachedObjects(CronJobs(Ops[i]))
                 /\ Synced(cron[a][i]).data = cron[a][i].data
        BY <1>0, <2>1, SyncedTyped DEF CronsTyped
    <2>4. CronsTyped' /\ SameJobs
        BY <2>1, <2>3 DEF CronsTyped, SameJobs
    <2>5. Ordered'
        BY <1>0, <1>n, <2>1, <2>4, SameJobsOrdered
    <2>6. CountersTyped'
        BY <1>0, <2>1, Bounds DEF CountersTyped
    <2> QED BY <1>0, <2>1, <2>2, <2>4, <2>5, <2>6 DEF IInv, Typed, SpecsTyped
<1>7. CASE ApplySnapraidConfig
    <2>1. UNCHANGED <<specVars, phase, cron, pass, changes, restarts>>
        BY <1>7 DEF ApplySnapraidConfig
    <2>2. arrayPass # NoArrayPass
        BY <1>7, UnderWay DEF ApplySnapraidConfig
    <2>3. ConfigsTyped'
        <3>1. CASE Applicable /\ Apply(Written(conf[arrayPass.node], Rendering(arrayPass.layout)))
            BY <1>0, <2>2, <3>1, ApplyTyped
        <3>2. CASE UNCHANGED conf
            BY <1>0, <3>2 DEF ConfigsTyped
        <3> QED BY <1>7, <3>1, <3>2 DEF ApplySnapraidConfig, Report
    <2>4. CountersTyped'
        <3>1. Fail \/ UNCHANGED failures
            BY <1>7 DEF ApplySnapraidConfig
        <3> QED BY <1>0, <2>1, <3>1, Bounds DEF CountersTyped, Fail
    <2>5. Ordered'
        BY <1>0, <1>n, <1>s, <2>1, SameJobsOrdered DEF specVars
    <2> QED BY <1>0, <2>1, <2>3, <2>4, <2>5 DEF IInv, Typed, SpecsTyped, CronsTyped, specVars
<1>11. CASE SetArrayPhase
    <2>1. UNCHANGED <<specVars, conf, cron, pass, changes, restarts>>
        BY <1>11 DEF SetArrayPhase
    <2>2. phase' \in [Arrays -> {"", "Ready", "Degraded"}]
        BY <1>0, <1>11 DEF SetArrayPhase, SpecsTyped
    <2>3. CountersTyped'
        <3>1. Fail \/ UNCHANGED failures
            BY <1>11 DEF SetArrayPhase
        <3> QED BY <1>0, <2>1, <3>1, Bounds DEF CountersTyped, Fail
    <2>4. Ordered'
        BY <1>0, <1>n, <1>s, <2>1, SameJobsOrdered DEF specVars
    <2> QED BY <1>0, <2>1, <2>2, <2>3, <2>4
        DEF IInv, Typed, SpecsTyped, ConfigsTyped, CronsTyped, specVars
<1>12. CASE \E a \in Arrays : ReadArray(a) \/ SyncArray(a)
    <2>1. UNCHANGED <<specVars, phase, conf, cron, pass, boundVars>>
        BY <1>12 DEF ReadArray, SyncArray
    <2>2. Ordered'
        BY <1>0, <1>n, <1>s, <2>1, SameJobsOrdered DEF specVars, boundVars
    <2> QED BY <1>0, <2>1, <2>2
        DEF IInv, Typed, SpecsTyped, ConfigsTyped, CronsTyped, CountersTyped, specVars, boundVars
<1>8. CASE \E a \in Scheduled : StartPass(a)
    <2>1. PICK a \in Scheduled : StartPass(a)
        BY <1>8
    <2>2. /\ pass' = [array |-> a, schedule |-> schedule[a], node |-> node[a], op |-> 1]
          /\ node[a] # "" /\ UNCHANGED <<specVars, phase, conf, cron, boundVars>>
        BY <2>1 DEF StartPass, Resolvable, arrayVars
    <2>a. UNCHANGED <<layout, node, schedule, phase, conf, cron, changes, failures, restarts>>
        BY <2>2, Zenon DEF specVars, boundVars
    <2>b. a \in Arrays
        BY ParityAssumption, Zenon DEF ParityAssumption
    <2>c. node[a] \in Nodes \cup {""}
        BY <1>0, <2>b, Zenon DEF SpecsTyped
    <2>d. node[a] \in Nodes
        BY <2>2, <2>c, Zenon
    <2>e. schedule[a] \in Schedules /\ 1 \in Indices
        <3>1. schedule[a] \in Schedules
            BY <1>0, Zenon DEF SpecsTyped
        <3>2. 1 \in Indices
            BY IndicesKnown
        <3> QED BY <3>1, <3>2
    <2>3. node[a] \in Nodes /\ schedule[a] \in Schedules /\ 1 \in Indices
        BY <2>d, <2>e
    <2>4. pass' \in Passes
        BY <2>2, <2>3 DEF Passes, Indices
    <2>5. SpecsTyped'
        BY <1>0, <2>2, <2>4 DEF SpecsTyped, specVars
    <2>6. Through'
        <3>1. /\ pass'.array = a /\ pass'.schedule = schedule[a] /\ pass'.op = 1
              /\ schedule[a].version \in Nat
            BY <1>0, <2>2, VersionsAreNumbers
        <3>2. \A i \in Indices : ~(i < 1)
            BY IndicesKnown
        <3>3. \A i \in Indices : UpTo(a, i, schedule[a].version)
            BY <1>0 DEF Ordered, Behind
        <3> QED BY <2>a, <3>1, <3>2, <3>3 DEF Through, UpTo
    <2>7. Counted' /\ Behind' /\ UpdatedInOrder'
        BY <1>0, <2>2 DEF Ordered, Counted, Behind, UpTo, UpdatedInOrder, specVars, boundVars
    <2> QED BY <1>0, <2>2, <2>5, <2>6, <2>7
        DEF IInv, Typed, Ordered, ConfigsTyped, CronsTyped, CountersTyped, boundVars
<1>9. CASE EnsureCronJob
    <2>1. pass # NoPass /\ UNCHANGED <<layout, node, schedule, phase, conf, changes, restarts>>
        BY <1>9 DEF EnsureCronJob, specVars, arrayVars
    <2>2. CountersTyped'
        <3>1. Fail \/ UNCHANGED failures
            BY <1>9 DEF EnsureCronJob
        <3> QED BY <1>0, <2>1, <3>1, Bounds DEF CountersTyped, Fail
    <2>3. pass' \in Passes \cup {NoPass}
        <3>1. pass \in Passes /\ pass.op \in 1..3
            BY <1>0, <2>1, PassFields, IndicesKnown
        <3>2. pass' = NoPass \/ (pass.op # 3 /\ pass' = [pass EXCEPT !.op = pass.op + 1])
            BY <1>9, IndicesKnown DEF EnsureCronJob
        <3>3. pass.op # 3 => pass.op + 1 \in DOMAIN Ops
            BY <3>1, IndicesKnown DEF Indices
        <3> QED BY <3>1, <3>2, <3>3 DEF Passes
    <2>4. SpecsTyped' /\ ConfigsTyped'
        BY <1>0, <2>1, <2>3 DEF SpecsTyped, ConfigsTyped
    <2>5. CronsTyped' /\ Ordered'
        <3>1. CASE Replace(pass.array, pass.op, Ensured(cron[pass.array][pass.op]))
                   /\ pass' \in {NoPass, [pass EXCEPT !.op = @ + 1]}
            BY <2>1, <3>1, EnsureOrdered
        <3>2. CASE UNCHANGED cron /\ pass' = NoPass
            <4>1. Ordered'
                BY <1>0, <1>n, <1>s, <2>1, <3>2, SameJobsOrdered
            <4> QED BY <1>0, <3>2, <4>1 DEF CronsTyped
        <3> QED BY <1>9, <3>1, <3>2 DEF EnsureCronJob, Replace
    <2> QED BY <2>2, <2>4, <2>5 DEF IInv, Typed
<1>10. CASE UNCHANGED vars
    <2>1. UNCHANGED <<layout, node, schedule, phase, conf, cron, pass, changes, failures, restarts>>
        BY <1>10 DEF vars, specVars, arrayVars, boundVars
    <2>2. Ordered'
        BY <1>0, <1>n, <1>s, <2>1, SameJobsOrdered
    <2> QED BY <1>0, <2>1, <2>2 DEF IInv, Typed, SpecsTyped, ConfigsTyped, CronsTyped, CountersTyped
<1> QED BY <1>1, <1>2, <1>3, <1>4, <1>5, <1>6, <1>7, <1>8, <1>9, <1>10, <1>11, <1>12 DEF Next

-----------------------------------------------------------------------------
(* The pass of the ArrayReconciler.                                        *)

LEMMA InitArray == Init => AInv
    BY DEF Init, AInv, ArrayTyped, Carried

LEMMA SameSpecReflexive == \A l : SameSpec(l, l)
    BY DEF SameSpec

LEMMA EditedArray ==
    ASSUME IInv, AInv, NEW a \in Arrays, UNCHANGED applied,
           \/ NewVersion(a)
           \/ SameVersion /\ (SameSpec(layout'[a], layout[a]) \/ layout' = layout),
           \A b \in Arrays \ {a} : layout'[b] = layout[b]
    PROVE  AInv'
<1>1. CASE NewVersion(a) /\ arrayPass # NoArrayPass /\ arrayPass.array = a
    <2>1. arrayPass' = [arrayPass EXCEPT !.current = FALSE]
        BY <1>1 DEF NewVersion
    <2>2. ~arrayPass'.current /\ arrayPass'.phase = arrayPass.phase
          /\ arrayPass'.layout = arrayPass.layout /\ arrayPass'.node = arrayPass.node
          /\ arrayPass' \in ArrayPasses
        BY <1>1, <2>1, ArrayPassFields DEF AInv, ArrayPasses
    <2>3. ArrayTyped'
        BY <1>1, <2>2 DEF AInv, ArrayTyped, NewVersion
    <2> QED BY <1>1, <2>2, <2>3 DEF AInv, Carried
<1>2. CASE NewVersion(a) /\ ~(arrayPass # NoArrayPass /\ arrayPass.array = a)
    <2>1. arrayPass' = arrayPass /\ ArrayTyped'
        BY <1>2 DEF NewVersion, AInv, ArrayTyped
    <2>2. arrayPass # NoArrayPass => layout'[arrayPass.array] = layout[arrayPass.array]
        BY <1>2, ArrayPassFields DEF AInv
    <2> QED BY <2>1, <2>2 DEF AInv, Carried
<1>3. CASE SameVersion /\ (SameSpec(layout'[a], layout[a]) \/ layout' = layout)
    <2>1. ArrayTyped' /\ arrayPass' = arrayPass
        BY <1>3 DEF SameVersion, AInv, ArrayTyped
    <2>2. ASSUME arrayPass # NoArrayPass, arrayPass.current
          PROVE  SameSpec(arrayPass.layout, layout'[arrayPass.array])
        <3>1. SameSpec(arrayPass.layout, layout[arrayPass.array]) /\ arrayPass.array \in Arrays
            BY <2>2, ArrayPassFields DEF AInv, Carried
        <3>2. CASE arrayPass.array = a
            BY <1>3, <3>1, <3>2 DEF SameSpec
        <3>3. CASE arrayPass.array # a
            BY <3>1, <3>3
        <3> QED BY <3>2, <3>3
    <2> QED BY <2>1, <2>2 DEF AInv, Carried
<1> QED BY <1>1, <1>2, <1>3

LEMMA StepArray == IInv /\ AInv /\ [Next]_vars => AInv'
<1> SUFFICES ASSUME IInv, AInv, [Next]_vars PROVE AInv'
    OBVIOUS
<1>0. ArrayTyped /\ Carried /\ SpecsTyped /\ ConfigsTyped
    BY DEF AInv, IInv, Typed
<1>1. CASE \E a \in Arrays : EditArray(a)
    <2> SUFFICES ASSUME NEW a \in Arrays, NEW l \in Layouts, UNCHANGED applied,
                        layout' = [layout EXCEPT ![a] = l],
                        NewVersion(a) \/ (SameSpec(l, layout[a]) /\ SameVersion)
                 PROVE  AInv'
        BY <1>1 DEF EditArray
    <2>1. layout \in [Arrays -> Layouts]
        BY <1>0, Zenon DEF SpecsTyped
    <2>2. layout'[a] = l /\ \A b \in Arrays \ {a} : layout'[b] = layout[b]
        BY <2>1
    <2>3. NewVersion(a) \/ (SameVersion /\ SameSpec(layout'[a], layout[a]))
        BY <2>2
    <2> QED BY <2>2, <2>3, EditedArray
<1>2. CASE \E a \in Arrays : MovePrimary(a)
    BY <1>2, EditedArray DEF MovePrimary
<1>3. CASE \E a \in Arrays : ReadArray(a)
    <2>1. PICK a \in Arrays : ReadArray(a)
        BY <1>3
    <2> DEFINE p == IF layout[a].data = <<>> THEN "Ready" ELSE ""
    <2>2. /\ arrayPass' = [array |-> a, layout |-> layout[a], node |-> node[a],
                           current |-> shown[a], phase |-> p]
          /\ UNCHANGED <<layout, shown, applied>>
        BY <2>1 DEF ReadArray, specVars
    <2>3. p \in {"", "Ready"} /\ (p = "Ready" => layout[a].data = <<>>)
        OBVIOUS
    <2> HIDE DEF p
    <2>4. /\ arrayPass' \in ArrayPasses
          /\ arrayPass'.array = a /\ arrayPass'.layout = layout[a] /\ arrayPass'.phase = p
        BY <1>0, <2>2, <2>3 DEF ArrayPasses, SpecsTyped, ArrayTyped
    <2>5. ArrayTyped'
        BY <1>0, <2>2, <2>4 DEF ArrayTyped
    <2>6. Carried'
        BY <2>2, <2>3, <2>4, SameSpecReflexive DEF Carried
    <2> QED BY <2>5, <2>6 DEF AInv
<1>4. CASE ApplySnapraidConfig
    <2>1. arrayPass # NoArrayPass /\ UNCHANGED <<layout, shown>>
        BY <1>4, UnderWay DEF ApplySnapraidConfig, specVars
    <2>2. CASE Applicable /\ Apply(Written(conf[arrayPass.node], Rendering(arrayPass.layout)))
        <3>1. /\ arrayPass.node \in Nodes
              /\ applied' \in [Nodes -> Configs \cup {None}]
              /\ applied'[arrayPass.node] = Rendering(arrayPass.layout)
              /\ arrayPass' = [arrayPass EXCEPT !.phase = "Ready"]
            BY <1>0, <2>1, <2>2, ApplyTyped
        <3>2. /\ arrayPass' \in ArrayPasses /\ arrayPass'.node = arrayPass.node
              /\ arrayPass'.layout = arrayPass.layout /\ arrayPass'.array = arrayPass.array
              /\ arrayPass'.current = arrayPass.current
            BY <1>0, <2>1, <3>1, ArrayPassFields DEF ArrayPasses
        <3>3. ArrayTyped'
            BY <1>0, <2>1, <3>1, <3>2 DEF ArrayTyped
        <3>4. Carried'
            BY <1>0, <2>1, <3>1, <3>2, Named DEF Carried
        <3> QED BY <3>3, <3>4 DEF AInv
    <2>3. CASE Report("Degraded")
        <3>1. arrayPass' = [arrayPass EXCEPT !.phase = "Degraded"] /\ UNCHANGED applied
            BY <2>3 DEF Report
        <3>2. /\ arrayPass' \in ArrayPasses /\ arrayPass'.phase = "Degraded"
              /\ arrayPass'.layout = arrayPass.layout /\ arrayPass'.array = arrayPass.array
              /\ arrayPass'.current = arrayPass.current
            BY <1>0, <2>1, <3>1, ArrayPassFields DEF ArrayPasses
        <3>3. ArrayTyped'
            BY <1>0, <2>1, <3>1, <3>2 DEF ArrayTyped
        <3>4. Carried'
            BY <1>0, <2>1, <3>2 DEF Carried
        <3> QED BY <3>3, <3>4 DEF AInv
    <2> QED BY <1>4, <2>2, <2>3 DEF ApplySnapraidConfig
<1>5. CASE SetArrayPhase
    <2>1. arrayPass' = NoArrayPass /\ UNCHANGED applied
        BY <1>5 DEF SetArrayPhase
    <2>2. shown' \in [Arrays -> BOOLEAN]
        BY <1>0, <1>5 DEF SetArrayPhase, ArrayTyped
    <2> QED BY <1>0, <2>1, <2>2 DEF AInv, ArrayTyped, Carried
<1>6. CASE \E a \in Arrays : SyncArray(a)
    <2>1. UNCHANGED <<layout, arrayPass, applied>> /\ shown' \in [Arrays -> BOOLEAN]
        BY <1>0, <1>6 DEF SyncArray, ArrayTyped, specVars
    <2> QED BY <1>0, <2>1 DEF AInv, ArrayTyped, Carried
<1>7. CASE OperatorRestart
    <2>1. arrayPass' = NoArrayPass /\ UNCHANGED applied /\ shown' \in [Arrays -> BOOLEAN]
        BY <1>7 DEF OperatorRestart
    <2> QED BY <1>0, <2>1 DEF AInv, ArrayTyped, Carried
<1>8. CASE \/ \E a \in Scheduled : EditSchedule(a) \/ StartPass(a)
           \/ DropObject \/ EnsureCronJob
           \/ \E n \in Nodes : SyncConfig(n)
           \/ \E a \in Scheduled, i \in DOMAIN Ops : SyncCronJob(a, i)
           \/ UNCHANGED vars
    <2>1. UNCHANGED <<layout, shown, arrayPass, applied>>
        BY <1>8 DEF EditSchedule, StartPass, DropObject, EnsureCronJob, SyncConfig,
                    SyncCronJob, vars, specVars, arrayVars
    <2> QED BY <1>0, <2>1 DEF AInv, ArrayTyped, Carried
<1> QED BY <1>1, <1>2, <1>3, <1>4, <1>5, <1>6, <1>7, <1>8 DEF Next

-----------------------------------------------------------------------------
(* The strengthened invariant: how far a pass is and how old its schedule, *)
(* and what a pass of the ArrayReconciler carries.                         *)
THEOREM Invariance == Spec => [](IInv /\ AInv)
<1>1. Init => IInv /\ AInv
    BY InitInv, InitArray
<1>2. (IInv /\ AInv) /\ [Next]_vars => (IInv /\ AInv)'
    BY StepInv, StepArray DEF AInv
<1> QED BY <1>1, <1>2, PTL DEF Spec

(* The type invariant of Parity (the objects of ApplySnapraidConfig and    *)
(* buildCronJob).                                                          *)
THEOREM TypeCorrect == Spec => []TypeOK
<1>1. IInv /\ AInv => TypeOK
    BY DEF IInv, Typed, TypeOK, SpecsTyped, ConfigsTyped, CronsTyped, CountersTyped, Indices,
           AInv, ArrayTyped
<1> QED BY <1>1, Invariance, PTL

(* No check or scrub is ahead of the sync before it, wherever a pass is    *)
(* cut short (the loop of ParityReconciler.Reconcile).                     *)
THEOREM OrderCorrect == Spec => []UpdatedInOrder
<1>1. IInv => UpdatedInOrder
    BY DEF IInv, Ordered
<1> QED BY <1>1, Invariance, PTL

(* An Array becomes Ready only on the spec its pass has read, and after    *)
(* the API server accepted the rendering for the node of the first disk,   *)
(* whatever happens between the two requests (ArrayReconciler.Reconcile,   *)
(* ApplySnapraidConfig, setArrayPhase).                                    *)
THEOREM ReadyCorrect == Spec => ReadyIsConfigured
<1> DEFINE Good == \A a \in Arrays : phase'[a] = "Ready" /\ phase[a] # "Ready" =>
               /\ arrayPass.array = a
               /\ SameSpec(arrayPass.layout, layout[a])
               /\ arrayPass.layout.data # <<>> =>
                     /\ arrayPass.node # ""
                     /\ applied[arrayPass.node] = Rendering(arrayPass.layout)
<1>1. IInv /\ AInv /\ [Next]_vars => [Good]_vars
    <2> SUFFICES ASSUME IInv, AInv, Next, NEW a \in Arrays, phase'[a] = "Ready",
                        phase[a] # "Ready"
                 PROVE  /\ arrayPass.array = a
                        /\ SameSpec(arrayPass.layout, layout[a])
                        /\ arrayPass.layout.data # <<>> =>
                              /\ arrayPass.node # ""
                              /\ applied[arrayPass.node] = Rendering(arrayPass.layout)
        OBVIOUS
    <2>1. phase' # phase
        OBVIOUS
    <2>2. SetArrayPhase
        BY <2>1 DEF Next, EditArray, MovePrimary, EditSchedule, StartPass, DropObject,
                    OperatorRestart, SyncConfig, SyncCronJob, EnsureCronJob, ReadArray,
                    SyncArray, ApplySnapraidConfig, arrayVars
    <2>3. /\ arrayPass # NoArrayPass /\ arrayPass.current
          /\ phase' = [phase EXCEPT ![arrayPass.array] = arrayPass.phase]
        BY <2>1, <2>2, UnderWay DEF SetArrayPhase
    <2>4. arrayPass.array = a /\ arrayPass.phase = "Ready"
        BY <2>3, ArrayPassFields DEF AInv, IInv, Typed, SpecsTyped
    <2> QED BY <2>3, <2>4 DEF AInv, Carried
<1> QED BY <1>1, Invariance, PTL DEF Spec, ReadyIsConfigured
=============================================================================
