------------------------------- MODULE Parity -------------------------------
(***************************************************************************)
(* SnapRAID as the operator drives it. The ArrayReconciler renders the     *)
(* configuration of an Array into a ConfigMap that is named after the node *)
(* of its first data disk. The ParityReconciler keeps three CronJobs per   *)
(* ParitySchedule, whose pods mount that ConfigMap by name. The two share  *)
(* nothing but the name of the node, and each works through its own        *)
(* informer caches.                                                        *)
(*                                                                         *)
(* Specs of Arrays, Disks and ParitySchedules are what the caches show of  *)
(* them, and change in any way. A schedule is in the operator's namespace, *)
(* where the ConfigMaps are. There is one worker per reconciler; a pass is *)
(* a few requests in a row, with steps of the environment and of the other *)
(* worker between them.                                                    *)
(***************************************************************************)
EXTENDS Naturals, Sequences, SequencesExt, FiniteSets, CachedObject

CONSTANTS Arrays,
          Scheduled,    \* those with a ParitySchedule
          Nodes,
          Mounts,       \* mount points of data disks
          ParityMounts, \* mount points of parity disks
          Contents,     \* content files an Array may name
          FirstNodes,   \* where first disks are at the start,
          FirstMounts,  \* and where they are mounted
          MaxChanges,   \* changes of specs and objects by others
          MaxFailures,  \* failed API requests
          MaxRestarts   \* restarts of the operator

ASSUME ParityAssumption ==
    /\ Scheduled \subseteq Arrays
    /\ Nodes # {} /\ "" \notin Nodes /\ FirstNodes \subseteq Nodes
    /\ MaxChanges \in Nat /\ MaxFailures \in Nat /\ MaxRestarts \in Nat

InOrder(S) == {s \in SeqOf(S, Cardinality(S)) : IsInjective(s)}

(* Array.spec, with the mount points of its disks, and the ParitySchedule: *)
(* a version stands for the three cron expressions.                        *)
Layouts   == [data : InOrder(Mounts), parity : InOrder(ParityMounts),
              content : SUBSET Contents]
Schedules == [version : 0..MaxChanges, percent : {0, 50}]

Ops == <<"sync", "check", "scrub">>

(* renderSnapraidConf of buildSnapraidConfig: entries are numbered in the  *)
(* order of the spec, and by default every data disk holds a content file. *)
Rendering(l) ==
    [data    |-> l.data,
     parity  |-> l.parity,
     content |-> IF l.content = {} THEN Range(l.data) ELSE l.content]

Configs == {Rendering(l) : l \in Layouts}

ScrubPct(s) == IF s.percent > 0 THEN s.percent ELSE 100

(* Mutant: the percentage of a schedule that leaves it out is left out.    *)
CronJob_rawPercent(op, s, n) ==
    [version |-> s.version, config |-> n, percent |-> IF op = "scrub" THEN s.percent ELSE 0]

(* buildCronJob: config is the node in the name of the ConfigMap.          *)
CronJob(op, s, n) ==
    [version |-> s.version, config |-> n,
     percent |-> IF op = "scrub" THEN ScrubPct(s) ELSE 0]

CronJobs(op) ==
    [version : 0..MaxChanges, config : Nodes,
     percent : IF op = "scrub" THEN {50, 100} ELSE {0}]

(* The pod template names no node: the pod of a CronJob starts wherever    *)
(* the scheduler puts it.                                                  *)
JobNodes(c) == Nodes

VARIABLES
    layout,    \* [Arrays -> Array.spec]
    node,      \* [Arrays -> the node of the first data disk, "" if not set]
    schedule,  \* [Scheduled -> its ParitySchedule]
    phase,     \* [Arrays -> Array.status.phase]
    shown,     \* [Arrays -> whether the cache shows the latest version of it]
    arrayPass, \* the pass of the ArrayReconciler under way
    conf,      \* [Nodes -> the snapraid ConfigMap]
    cron,      \* [Scheduled -> [1..3 -> the CronJob]]
    pass,      \* the pass of the ParityReconciler under way
    changes, failures, restarts,
    applied    \* history: [Nodes -> what was last accepted for the ConfigMap]

specVars  == <<layout, node, schedule>>
arrayVars == <<phase, shown, arrayPass>>
boundVars == <<changes, failures, restarts>>
vars == <<specVars, arrayVars, conf, cron, pass, boundVars, applied>>

(* array, layout and node are what the pass has read, current whether that *)
(* is still the latest version of the Array, and phase what is left to be  *)
(* reported, or "" while the ConfigMap is to be applied.                   *)
ArrayPasses == [array : Arrays, layout : Layouts, node : Nodes \cup {""},
                current : BOOLEAN, phase : {"", "Ready", "Degraded"}]
NoArrayPass == [phase |-> "none"]

(* array, schedule and node are what the pass has read, op its next step.  *)
Passes == [array : Scheduled, schedule : Schedules, node : Nodes, op : DOMAIN Ops]
NoPass == [op |-> 0]

Init ==
    /\ layout \in [Arrays -> {l \in Layouts : /\ Len(l.data) = 1 /\ l.content = {}
                                            /\ Range(l.data) \subseteq FirstMounts}]
    /\ node \in [Arrays -> FirstNodes]
    /\ schedule = [a \in Scheduled |-> [version |-> 0, percent |-> 0]]
    /\ phase = [a \in Arrays |-> ""]
    /\ shown = [a \in Arrays |-> TRUE]
    /\ arrayPass = NoArrayPass
    /\ conf = [n \in Nodes |-> Missing]
    /\ applied = [n \in Nodes |-> None]
    /\ cron = [a \in Scheduled |-> [i \in DOMAIN Ops |-> Missing]]
    /\ pass = NoPass
    /\ changes = 0 /\ failures = 0 /\ restarts = 0

-----------------------------------------------------------------------------
(* The environment.                                                        *)

Change == changes < MaxChanges /\ changes' = changes + 1

(* The spec of an Array names its disks; where they are is in their own.   *)
SameSpec(l, m) ==
    /\ Len(l.data) = Len(m.data) /\ Len(l.parity) = Len(m.parity)
    /\ l.content = m.content

(* The Array itself is edited: the copy of a pass is not the latest any    *)
(* more. The cache shows the edit at once; one it does not show yet is a   *)
(* failed request of a pass and then the edit.                             *)
NewVersion(a) ==
    /\ shown' = [shown EXCEPT ![a] = TRUE]
    /\ arrayPass' = IF arrayPass # NoArrayPass /\ arrayPass.array = a
                    THEN [arrayPass EXCEPT !.current = FALSE] ELSE arrayPass

(* Only a Disk is edited.                                                  *)
SameVersion == UNCHANGED <<shown, arrayPass>>

EditArray(a) ==
    /\ Change
    /\ \E l \in Layouts \ {layout[a]} :
          /\ layout' = [layout EXCEPT ![a] = l]
          /\ NewVersion(a) \/ (SameSpec(l, layout[a]) /\ SameVersion)
    /\ UNCHANGED <<node, schedule, phase, conf, cron, pass, failures, restarts, applied>>

(* Another disk becomes the first, or the disk moves to another node.      *)
MovePrimary(a) ==
    /\ Change
    /\ \E n \in (Nodes \cup {""}) \ {node[a]} : node' = [node EXCEPT ![a] = n]
    /\ NewVersion(a) \/ SameVersion
    /\ UNCHANGED <<layout, schedule, phase, conf, cron, pass, failures, restarts, applied>>

EditSchedule(a) ==
    /\ Change
    /\ \E p \in {0, 50} :
          schedule' = [schedule EXCEPT ![a] = [version |-> @.version + 1, percent |-> p]]
    /\ UNCHANGED <<layout, node, arrayVars, conf, cron, pass, failures, restarts, applied>>

DropObject ==
    /\ Change
    /\ \/ /\ \E n \in Nodes : conf[n].data # None /\ conf' = [conf EXCEPT ![n] = Removed(@)]
          /\ UNCHANGED cron
       \/ /\ \E a \in Scheduled, i \in DOMAIN Ops :
                cron[a][i].data # None /\ cron' = [cron EXCEPT ![a][i] = Removed(@)]
          /\ UNCHANGED conf
    /\ UNCHANGED <<specVars, arrayVars, pass, failures, restarts, applied>>

SyncConfig(n) ==
    /\ ~conf[n].fresh
    /\ conf' = [conf EXCEPT ![n] = Synced(@)]
    /\ UNCHANGED <<specVars, arrayVars, cron, pass, boundVars, applied>>

SyncCronJob(a, i) ==
    /\ ~cron[a][i].fresh
    /\ cron' = [cron EXCEPT ![a][i] = Synced(@)]
    /\ UNCHANGED <<specVars, arrayVars, conf, pass, boundVars, applied>>

SyncArray(a) ==
    /\ ~shown[a]
    /\ shown' = [shown EXCEPT ![a] = TRUE]
    /\ UNCHANGED <<specVars, phase, arrayPass, conf, cron, pass, boundVars, applied>>

OperatorRestart ==
    /\ restarts < MaxRestarts /\ restarts' = restarts + 1
    /\ conf' = [n \in Nodes |-> Synced(conf[n])]
    /\ cron' = [a \in Scheduled |-> [i \in DOMAIN Ops |-> Synced(cron[a][i])]]
    /\ shown' = [a \in Arrays |-> TRUE]
    /\ pass' = NoPass /\ arrayPass' = NoArrayPass
    /\ UNCHANGED <<specVars, phase, changes, failures, applied>>

Fail == failures < MaxFailures /\ failures' = failures + 1

-----------------------------------------------------------------------------
(* The ArrayReconciler. Disks are taken to be found and not degraded: what *)
(* they make of the phase is in StorageStack.                              *)

(* Mutant: for an Array that is Ready already nothing is applied again.    *)
ReadArray_trustsReady(a) ==
    /\ arrayPass = NoArrayPass
    /\ arrayPass' = [array |-> a, layout |-> layout[a], node |-> node[a], current |-> shown[a],
                     phase |-> IF layout[a].data = <<>> \/ phase[a] = "Ready" THEN "Ready" ELSE ""]
    /\ UNCHANGED <<specVars, phase, shown, conf, cron, pass, boundVars, applied>>

(* Reconcile up to ApplySnapraidConfig.                                    *)
ReadArray(a) ==
    /\ arrayPass = NoArrayPass
    /\ arrayPass' = [array |-> a, layout |-> layout[a], node |-> node[a], current |-> shown[a],
                     phase |-> IF layout[a].data = <<>> THEN "Ready" ELSE ""]
    /\ UNCHANGED <<specVars, phase, shown, conf, cron, pass, boundVars, applied>>

Applicable == arrayPass.node # "" /\ Accepts(conf[arrayPass.node])

Apply(o) ==
    /\ conf' = [conf EXCEPT ![arrayPass.node] = o]
    /\ applied' = [applied EXCEPT ![arrayPass.node] = o.data]
    /\ arrayPass' = [arrayPass EXCEPT !.phase = "Ready"]

Report(p) ==
    /\ arrayPass' = [arrayPass EXCEPT !.phase = p]
    /\ UNCHANGED <<conf, applied>>

(* Mutant: an existing ConfigMap is left alone.                            *)
ApplySnapraidConfig_onlyCreates ==
    /\ arrayPass.phase = ""
    /\ \/ /\ Applicable
          /\ IF conf[arrayPass.node].seen THEN Report("Ready")
             ELSE Apply(Written(conf[arrayPass.node], Rendering(arrayPass.layout)))
          /\ UNCHANGED failures
       \/ /\ (~Applicable /\ UNCHANGED failures) \/ Fail
          /\ Report("Degraded")
    /\ UNCHANGED <<specVars, phase, shown, cron, pass, changes, restarts>>

(* Mutant: the error of ApplySnapraidConfig is only logged.                *)
ApplySnapraidConfig_ignoresError ==
    /\ arrayPass.phase = ""
    /\ \/ /\ Applicable
          /\ Apply(Written(conf[arrayPass.node], Rendering(arrayPass.layout)))
          /\ UNCHANGED failures
       \/ /\ (~Applicable /\ UNCHANGED failures) \/ Fail
          /\ Report("Ready")
    /\ UNCHANGED <<specVars, phase, shown, cron, pass, changes, restarts>>

(* The first request of a pass. Without a node the name of the ConfigMap   *)
(* is not a legal one, and the Create is refused.                          *)
ApplySnapraidConfig ==
    /\ arrayPass.phase = ""
    /\ \/ /\ Applicable
          /\ Apply(Written(conf[arrayPass.node], Rendering(arrayPass.layout)))
          /\ UNCHANGED failures
       \/ /\ (~Applicable /\ UNCHANGED failures) \/ Fail
          /\ Report("Degraded")
    /\ UNCHANGED <<specVars, phase, shown, cron, pass, changes, restarts>>

(* The second: the status update, with the version the pass has read. It   *)
(* makes a new version of the Array whatever it says, for the condition    *)
(* carries the time. If it is refused the phase stays, and the pass ends.  *)
SetArrayPhase ==
    /\ arrayPass.phase \in {"Ready", "Degraded"}
    /\ \/ /\ arrayPass.current
          /\ phase' = [phase EXCEPT ![arrayPass.array] = arrayPass.phase]
          /\ shown' = [shown EXCEPT ![arrayPass.array] = FALSE]
          /\ UNCHANGED failures
       \/ /\ (~arrayPass.current /\ UNCHANGED failures) \/ Fail
          /\ UNCHANGED <<phase, shown>>
    /\ arrayPass' = NoArrayPass
    /\ UNCHANGED <<specVars, conf, cron, pass, changes, restarts, applied>>

-----------------------------------------------------------------------------
(* The ParityReconciler.                                                   *)

(* resolveSnapraidConfigName: otherwise the pass ends with an error.       *)
Resolvable(a) == layout[a].data # <<>> /\ node[a] # ""

StartPass(a) ==
    /\ pass = NoPass
    /\ Resolvable(a)
    /\ pass' = [array |-> a, schedule |-> schedule[a], node |-> node[a], op |-> 1]
    /\ UNCHANGED <<specVars, arrayVars, conf, cron, boundVars, applied>>

(* Mutant: every step looks at the schedule again.                         *)
Desired_rereads == CronJob(Ops[pass.op], schedule[pass.array], pass.node)

Desired == CronJob(Ops[pass.op], pass.schedule, pass.node)

Ensured(o) == Written(o, Desired)

(* ensureCronJob for the next operation; an error skips the others until   *)
(* the key is retried.                                                     *)
EnsureCronJob ==
    /\ pass # NoPass
    /\ LET o == cron[pass.array][pass.op] IN
       \/ /\ Accepts(o)
          /\ cron' = [cron EXCEPT ![pass.array][pass.op] = Ensured(o)]
          /\ pass' = IF pass.op = Len(Ops) THEN NoPass ELSE [pass EXCEPT !.op = @ + 1]
          /\ UNCHANGED failures
       \/ /\ ~Accepts(o) /\ pass' = NoPass
          /\ UNCHANGED <<cron, failures>>
       \/ /\ Fail /\ pass' = NoPass
          /\ UNCHANGED cron
    /\ UNCHANGED <<specVars, arrayVars, conf, changes, restarts, applied>>

Next ==
    \/ \E a \in Arrays : EditArray(a) \/ MovePrimary(a) \/ ReadArray(a) \/ SyncArray(a)
    \/ ApplySnapraidConfig \/ SetArrayPhase
    \/ \E a \in Scheduled : EditSchedule(a) \/ StartPass(a)
    \/ DropObject \/ OperatorRestart
    \/ \E n \in Nodes : SyncConfig(n)
    \/ \E a \in Scheduled, i \in DOMAIN Ops : SyncCronJob(a, i)
    \/ EnsureCronJob

Spec == Init /\ [][Next]_vars

(* Watches deliver, and every object is reconciled again and again: after  *)
(* 60 seconds or 5 minutes, or after an error. The worker may be busy with *)
(* other keys whenever a pass could start, but comes to each of them.      *)
FairSpec ==
    /\ Spec
    /\ \A n \in Nodes : WF_vars(SyncConfig(n))
    /\ \A a \in Scheduled, i \in DOMAIN Ops : WF_vars(SyncCronJob(a, i))
    /\ \A a \in Arrays : WF_vars(SyncArray(a)) /\ SF_vars(ReadArray(a))
    /\ WF_vars(ApplySnapraidConfig) /\ WF_vars(SetArrayPhase)
    /\ \A a \in Scheduled : SF_vars(StartPass(a))
    /\ WF_vars(EnsureCronJob)

-----------------------------------------------------------------------------
(* Types; a scrub always covers a part of the data.                        *)
TypeOK ==
    /\ layout \in [Arrays -> Layouts]
    /\ node \in [Arrays -> Nodes \cup {""}]
    /\ schedule \in [Scheduled -> Schedules]
    /\ phase \in [Arrays -> {"", "Ready", "Degraded"}]
    /\ shown \in [Arrays -> BOOLEAN]
    /\ arrayPass \in ArrayPasses \cup {NoArrayPass}
    /\ applied \in [Nodes -> Configs \cup {None}]
    /\ conf \in [Nodes -> CachedObjects(Configs)]
    /\ DOMAIN cron = Scheduled
    /\ \A a \in Scheduled :
          /\ DOMAIN cron[a] = DOMAIN Ops
          /\ \A i \in DOMAIN Ops : cron[a][i] \in CachedObjects(CronJobs(Ops[i]))
    /\ pass \in Passes \cup {NoPass}
    /\ changes \in 0..MaxChanges
    /\ failures \in 0..MaxFailures
    /\ restarts \in 0..MaxRestarts

(* What becomes Ready is configured. Between the two requests of a pass    *)
(* disks move, ConfigMaps are removed and specs edited, and either request *)
(* may be refused; yet the Array that becomes Ready is the one the pass    *)
(* has read, its spec is still the one the pass has read, and the last     *)
(* ConfigMap the API server accepted for the node of its first disk is its *)
(* rendering (ArrayReconciler.Reconcile with ApplySnapraidConfig and the   *)
(* resourceVersion of setArrayPhase). Whether the ConfigMap is still there *)
(* is another matter: ReadySettles.                                        *)
ReadyIsConfigured ==
    [][\A a \in Arrays : phase'[a] = "Ready" /\ phase[a] # "Ready" =>
          /\ arrayPass.array = a
          /\ SameSpec(arrayPass.layout, layout[a])
          /\ arrayPass.layout.data # <<>> =>
                /\ arrayPass.node # ""
                /\ applied[arrayPass.node] = Rendering(arrayPass.layout)]_vars

(* However passes are cut short by errors, conflicts and restarts, and     *)
(* however often the schedule is edited under them, the CronJobs are never *)
(* updated out of order: no check or scrub is ahead of the sync before it  *)
(* (the loop of ParityReconciler.Reconcile over one copy of the schedule). *)
UpdatedInOrder ==
    \A a \in Scheduled : \A i, j \in DOMAIN Ops :
        i < j /\ cron[a][i].data # None /\ cron[a][j].data # None =>
            cron[a][i].data.version >= cron[a][j].data.version

Alone(a) == \A b \in Arrays \ {a} : node[b] # node[a] \/ layout[b].data = <<>>

(* A phase that was overtaken, by a ConfigMap removed or a disk moved      *)
(* between the two requests of a pass or later, does not last: once the    *)
(* environment is quiet, an Array that is alone on its node is Ready for   *)
(* good if the ConfigMap of that node is its rendering, or if it has no    *)
(* data disks, and not Ready for good if not (the requeue of               *)
(* ArrayReconciler.Reconcile, which looks at Ready Arrays again).          *)
ReadySettles ==
    <>[](\A a \in Arrays : Alone(a) =>
           (phase[a] = "Ready" <=>
               \/ layout[a].data = <<>>
               \/ node[a] # "" /\ conf[node[a]].data = Rendering(layout[a])))

(* Once the environment is quiet, the CronJobs of an Array that can be     *)
(* resolved and is alone on its node follow the schedule, and the          *)
(* ConfigMap they mount is the rendering of that Array, although the two   *)
(* reconcilers do not know of each other.                                  *)
InPlace(a) ==
    /\ \A i \in DOMAIN Ops : cron[a][i].data = CronJob(Ops[i], schedule[a], node[a])
    /\ conf[node[a]].data = Rendering(layout[a])

ParityReady == <>[](\A a \in Scheduled : Resolvable(a) /\ Alone(a) => InPlace(a))

(* What other_types.go says of a ParitySchedule: its operations run        *)
(* against the Array, which is mounted on one node. Once everything is in  *)
(* place, a pod of a CronJob could start on that node only. It does not    *)
(* hold with two nodes: the pod template names none.                       *)
RunsOnTheArray ==
    \A a \in Scheduled : Resolvable(a) /\ Alone(a) /\ InPlace(a) =>
        \A i \in DOMAIN Ops : JobNodes(cron[a][i].data) = {node[a]}
=============================================================================
