---------------------------- MODULE StorageStack ----------------------------
(***************************************************************************)
(* From disks to shares: the ArrayReconciler judges an Array by the phases *)
(* of its Disks, the PoolReconciler has the node agent mount a mergerfs    *)
(* union of the usable data disks of a Ready Array, and the ShareReconciler*)
(* publishes a Share on a mounted Pool.                                    *)
(*                                                                         *)
(* Each reconciler has one worker, reads the others' objects from informer *)
(* caches and writes its own object's status with optimistic concurrency.  *)
(* The Pool worker blocks while it calls the agent. The channel appears as *)
(* in DiskLifecycle. Disks are what the cache shows of them, and change in *)
(* any way. One Array, one Pool and one Share.                             *)
(***************************************************************************)
EXTENDS Naturals, Sequences

CONSTANTS DataDisks,    \* Array.spec.dataDisks
          ParityDisks,  \* Array.spec.parityDisks
          MaxChanges,   \* changes of disks and objects
          MaxFailures,  \* failed requests and host operations
          MaxRestarts   \* restarts of the agent or the operator, together

ASSUME StackAssumption ==
    /\ DataDisks # {}
    /\ MaxChanges \in Nat /\ MaxFailures \in Nat /\ MaxRestarts \in Nat

ArrayDisks == DataDisks \cup ParityDisks
Kinds      == {"array", "pool", "share"}
Cached     == {"array", "pool"}

(* Mounted matters for a disk that is Ready only.                          *)
NoDisk     == [phase |-> "absent", mounted |-> FALSE]
NewDisk    == [phase |-> "", mounted |-> FALSE]
Usable     == [phase |-> "Ready", mounted |-> TRUE]
DiskStates == [phase : {"", "Ready", "Degraded", "Failed"}, mounted : {FALSE}]
              \cup {NoDisk, Usable}

(* The status of an Array, Pool or Share: up is Mounted of a Pool and      *)
(* Published of a Share, disks is MemberDisks of a Pool. The DegradedDisks *)
(* of an Array are left out: nothing reads them.                           *)
Objects  == [phase : {"", "Pending", "Degraded", "Ready"}, up : BOOLEAN,
             disks : SUBSET DataDisks]
NoObject == [phase |-> "absent", up |-> FALSE, disks |-> {}]
New      == [phase |-> "", up |-> FALSE, disks |-> {}]

VARIABLES
    disk,      \* [ArrayDisks -> the Disk]
    object,    \* [Kinds -> the object in the API server]
    view,      \* [Cached -> the object in the informer cache]
    fresh,     \* [Cached -> whether view has the latest version]
    worker,    \* the Pool worker and the call it is blocked in
    log,       \* the branches of the union mounts posted, oldest first
    nextOp,    \* the first of them that the agent has not executed yet
    union,     \* the branches of the union mount on the host, {}: not mounted
    done,      \* history: the branches of the mounts that succeeded
    changes, failures, restarts  \* how often each has happened

objectVars == <<object, view, fresh>>
agentVars  == <<log, nextOp, union, done>>
boundVars  == <<changes, failures, restarts>>
vars == <<disk, objectVars, worker, agentVars, boundVars>>

(* copy is the Pool the worker has read, NoObject when it is not the latest*)
(* version any more.                                                       *)
Idle == [busy |-> FALSE, copy |-> NoObject, branches |-> {}, posted |-> FALSE,
         answered |-> FALSE]

Init ==
    /\ disk \in [ArrayDisks -> {NewDisk, Usable}]
    /\ object = [k \in Kinds |-> New]
    /\ view = [k \in Cached |-> New]
    /\ fresh = [k \in Cached |-> TRUE]
    /\ worker = Idle
    /\ log = <<>> /\ nextOp = 1
    /\ union = {} /\ done = {}
    /\ changes = 0 /\ failures = 0 /\ restarts = 0

-----------------------------------------------------------------------------
(* The disks, the administrator and the watches.                           *)

Change == changes < MaxChanges /\ changes' = changes + 1

Fail == failures < MaxFailures /\ failures' = failures + 1

DiskChanges(d) ==
    /\ Change
    /\ \E s \in DiskStates \ {disk[d]} : disk' = [disk EXCEPT ![d] = s]
    /\ UNCHANGED <<objectVars, worker, agentVars, failures, restarts>>

(* Delete an object, create it, or both in a row. Nothing undoes a union   *)
(* mount.                                                                  *)
Replace(k) ==
    /\ Change
    /\ \E new \in {New, NoObject} \ {object[k]} : object' = [object EXCEPT ![k] = new]
    /\ fresh' = [c \in Cached |-> c # k /\ fresh[c]]
    /\ worker' = IF k = "pool" /\ worker.busy THEN [worker EXCEPT !.copy = NoObject]
                 ELSE worker
    /\ UNCHANGED <<disk, view, agentVars, failures, restarts>>

Sync(k) ==
    /\ ~fresh[k]
    /\ view' = [view EXCEPT ![k] = object[k]]
    /\ fresh' = [fresh EXCEPT ![k] = TRUE]
    /\ UNCHANGED <<disk, object, worker, agentVars, boundVars>>

-----------------------------------------------------------------------------
(* The reconcilers.                                                        *)

(* A status update from a copy: refused, and retried, when it is stale.    *)
(* One that only renews the time of a condition leaves the cache as it is: *)
(* at worst the next update is refused once.                               *)
Write(k, status, current) ==
    /\ IF current /\ object[k] # status
       THEN /\ object' = [object EXCEPT ![k] = status]
            /\ fresh' = [c \in Cached |-> c # k /\ fresh[c]]
       ELSE UNCHANGED <<object, fresh>>
    /\ UNCHANGED view

(* Mutant: only a degraded disk degrades its Array.                        *)
Bad_degradedOnly(d) == disk[d].phase = "Degraded"

Bad(d) == disk[d].phase \in {"Degraded", "Failed"}

(* ArrayReconciler: a failed disk, or a failed write of the snapraid       *)
(* configuration, makes the Array Degraded.                                *)
ReconcileArray ==
    /\ view["array"] # NoObject
    /\ IF \E d \in ArrayDisks : disk[d] = NoDisk
       THEN /\ Write("array", [view["array"] EXCEPT !.phase = "Pending"], fresh["array"])
            /\ UNCHANGED failures
       ELSE LET bad == {d \in ArrayDisks : Bad(d)}
                Judged(phase) == [view["array"] EXCEPT !.phase = phase]
            IN  \/ /\ Write("array", Judged(IF bad = {} THEN "Ready" ELSE "Degraded"),
                            fresh["array"])
                   /\ UNCHANGED failures
                \/ Fail /\ Write("array", Judged("Degraded"), fresh["array"])
    /\ UNCHANGED <<disk, worker, agentVars, changes, restarts>>

Branches == {d \in DataDisks : disk[d] = Usable}

Mountable == view["array"].phase = "Ready" /\ Branches # {}

(* Mutant: a Pool that is mounted is left alone.                           *)
PostUnion_once ==
    /\ ~worker.busy
    /\ view["pool"] # NoObject /\ Mountable /\ ~view["pool"].up
    /\ worker' = [busy |-> TRUE, copy |-> IF fresh["pool"] THEN view["pool"] ELSE NoObject,
                  branches |-> Branches, posted |-> TRUE, answered |-> FALSE]
    /\ IF log # <<>> /\ log[Len(log)] = Branches
       THEN nextOp' = Len(log) /\ UNCHANGED log
       ELSE log' = Append(log, Branches) /\ UNCHANGED nextOp
    /\ UNCHANGED <<disk, objectVars, union, done, boundVars>>

(* PoolReconciler without a Ready Array or a usable disk: Pending, and the *)
(* rest of the status as it was.                                           *)
PoolWaits ==
    /\ ~worker.busy
    /\ view["pool"] # NoObject /\ ~Mountable
    /\ Write("pool", [view["pool"] EXCEPT !.phase = "Pending"], fresh["pool"])
    /\ UNCHANGED <<disk, worker, agentVars, boundVars>>

(* Repeating the last mount makes it due again instead of growing the log. *)
Posted(branches) ==
    IF log # <<>> /\ log[Len(log)] = branches
    THEN /\ nextOp' = IF nextOp > Len(log) THEN Len(log) ELSE nextOp
         /\ UNCHANGED log
    ELSE log' = Append(log, branches) /\ UNCHANGED nextOp

(* Every pass asks for the mount again, whatever the status says. A lost   *)
(* request is a call that cannot succeed.                                  *)
PostUnion ==
    /\ ~worker.busy
    /\ view["pool"] # NoObject /\ Mountable
    /\ \E posted \in BOOLEAN :
          /\ worker' = [busy |-> TRUE, copy |-> IF fresh["pool"] THEN view["pool"] ELSE NoObject,
                        branches |-> Branches, posted |-> posted, answered |-> FALSE]
          /\ IF posted THEN Posted(Branches) /\ UNCHANGED failures
             ELSE Fail /\ UNCHANGED <<log, nextOp>>
    /\ UNCHANGED <<disk, objectVars, union, done, changes, restarts>>

(* Mutants: a request is taken for a mount; the copy is written twice.     *)
FinishUnion_optimistic ==
    /\ worker.busy
    /\ Write("pool", [phase |-> "Ready", up |-> TRUE, disks |-> worker.branches],
             worker.copy # NoObject)
    /\ worker' = Idle
    /\ UNCHANGED <<disk, agentVars, boundVars>>

FinishUnion_reusesCopy ==
    /\ worker.busy
    /\ Write("pool", [worker.copy EXCEPT !.phase = "Degraded"], worker.copy # NoObject)
    /\ UNCHANGED <<disk, worker, agentVars, boundVars>>

(* The mount was confirmed; or it was not, for whatever reason.            *)
FinishUnion ==
    /\ worker.busy
    /\ \/ /\ worker.answered
          /\ Write("pool", [phase |-> "Ready", up |-> TRUE, disks |-> worker.branches],
                   worker.copy # NoObject)
       \/ Write("pool", [worker.copy EXCEPT !.phase = "Degraded"], worker.copy # NoObject)
    /\ worker' = Idle
    /\ UNCHANGED <<disk, agentVars, boundVars>>

(* Mutant: a Pool that is gone is not looked at.                           *)
ReconcileShare_ignoresNotFound ==
    /\ object["share"] # NoObject /\ view["pool"] # NoObject
    /\ Write("share", [object["share"] EXCEPT !.phase = IF view["pool"].up THEN "Ready" ELSE "Pending",
                                               !.up = view["pool"].up], TRUE)
    /\ UNCHANGED <<disk, worker, agentVars, boundVars>>

(* ShareReconciler: published if the Pool says it is mounted and the pod,  *)
(* its configuration and its service could be written. That its copy of    *)
(* the Share may be stale could only have the update refused.              *)
ReconcileShare ==
    /\ object["share"] # NoObject
    /\ LET Set(phase, up) == Write("share", [object["share"] EXCEPT !.phase = phase, !.up = up],
                                   TRUE)
       IN  IF view["pool"] = NoObject \/ ~view["pool"].up
           THEN Set("Pending", FALSE) /\ UNCHANGED failures
           ELSE \/ Set("Ready", TRUE) /\ UNCHANGED failures
                \/ Fail /\ Set("Degraded", FALSE)
    /\ UNCHANGED <<disk, worker, agentVars, changes, restarts>>

(* A new operator starts from fresh caches.                                *)
OperatorRestart ==
    /\ restarts < MaxRestarts
    /\ restarts' = restarts + 1
    /\ worker' = Idle
    /\ view' = [k \in Cached |-> object[k]]
    /\ fresh' = [k \in Cached |-> TRUE]
    /\ UNCHANGED <<disk, object, agentVars, changes, failures>>

-----------------------------------------------------------------------------
(* The node agent.                                                         *)

(* MountMergerFS detaches the old union before it mounts the new one.      *)
Perform ==
    /\ nextOp <= Len(log)
    /\ nextOp' = nextOp + 1
    /\ \/ /\ union' = log[nextOp]
          /\ done' = done \cup {log[nextOp]}
          /\ worker' = [worker EXCEPT !.answered =
                           @ \/ (worker.posted /\ nextOp = Len(log))]
          /\ UNCHANGED failures
       \/ /\ Fail
          /\ union' \in {{}, union}
          /\ UNCHANGED <<done, worker>>
    /\ UNCHANGED <<disk, objectVars, log, changes, restarts>>

(* Everything is executed again; the mount may be gone.                    *)
AgentRestart ==
    /\ restarts < MaxRestarts
    /\ restarts' = restarts + 1
    /\ nextOp' = 1
    /\ union' \in {{}, union}
    /\ UNCHANGED <<disk, objectVars, worker, log, done, changes, failures>>

ReconcilePool == PoolWaits \/ PostUnion

Next ==
    \/ \E d \in ArrayDisks : DiskChanges(d)
    \/ \E k \in Kinds : Replace(k)
    \/ \E k \in Cached : Sync(k)
    \/ ReconcileArray \/ ReconcilePool \/ FinishUnion \/ ReconcileShare
    \/ OperatorRestart
    \/ Perform \/ AgentRestart

Spec == Init /\ [][Next]_vars

(* Watches deliver, calls end, the agent's loop runs, and every pass of a  *)
(* reconciler over an existing object requeues it. That a call is ever     *)
(* answered is not assumed.                                                *)
Fairness ==
    /\ \A k \in Cached : WF_vars(Sync(k))
    /\ SF_vars(ReconcileArray) /\ SF_vars(ReconcilePool) /\ SF_vars(ReconcileShare)
    /\ WF_vars(FinishUnion) /\ WF_vars(Perform)

FairSpec == Spec /\ Fairness

-----------------------------------------------------------------------------
(* Properties.                                                             *)

(* Type invariant: a copy that is still the latest version is the object,  *)
(* and the log does not repeat itself.                                     *)
TypeOK ==
    /\ disk \in [ArrayDisks -> DiskStates]
    /\ object \in [Kinds -> Objects \cup {NoObject}]
    /\ view \in [Cached -> Objects \cup {NoObject}]
    /\ \A k \in Cached : fresh[k] => view[k] = object[k]
    /\ worker.copy \in {NoObject, object["pool"]}
    /\ nextOp \in 1..(Len(log) + 1)
    /\ \A i \in 1..Len(log) : log[i] \in (SUBSET DataDisks) \ {{}}
    /\ \A i \in 1..(Len(log) - 1) : log[i] # log[i + 1]
    /\ union \subseteq DataDisks
    /\ done \subseteq SUBSET DataDisks

(* A Pool that says it is mounted has once been mounted by the agent with  *)
(* exactly the members it lists, and a Share is only published after some  *)
(* union was mounted: no stale cache, timeout, lost request, replacement   *)
(* of the Pool or restart makes the status invent a mount                  *)
(* (PoolReconciler.Reconcile, ShareReconciler.Reconcile).                  *)
Founded(pool, share) == /\ pool.up => pool.disks \in done
                        /\ share.up => done # {}

NothingInvented == Founded(object["pool"], object["share"])

(* With all disks usable, the union on the host ends up with all of them,  *)
(* even if no call to the agent is ever answered, a mount fails and leaves *)
(* the Pool unmounted, or the agent replays older, smaller unions          *)
(* (PoolReconciler.Reconcile, MountMergerFS).                              *)
AllUsable == /\ \A d \in ArrayDisks : disk[d] = Usable
             /\ \A k \in {"array", "pool"} : object[k] # NoObject

UnionComplete == <>[]AllUsable => <>[](union = DataDisks)

(* A disk that stays failed is visible above it: neither its Array nor the *)
(* Pool goes on saying Ready, however the reconcilers overtake each other  *)
(* (ArrayReconciler.Reconcile, PoolReconciler.Reconcile).                  *)
FailureVisible ==
    \A d \in ArrayDisks :
        <>[](disk[d].phase = "Failed") =>
            <>[](object["array"].phase # "Ready" /\ object["pool"].phase # "Ready")

(* A Share does not stay published on a Pool that was deleted              *)
(* (ShareReconciler.Reconcile).                                            *)
GonePoolUnpublishes == <>[](object["pool"] = NoObject) => <>[](~object["share"].up)

(* pool_types.go:43, "Mounted indicates whether the mergerfs pool is       *)
(* actively mounted": a Pool whose union stays unmounted ends up saying    *)
(* so.                                                                     *)
MountedActive == <>[](union = {}) => <>[](~object["pool"].up)

(* docs/architecture.md:124, "Operator fences writes to impacted disk": a  *)
(* disk that stays failed ends up outside the union. It does not hold: the *)
(* degraded Array stops the remount.                                       *)
FailedFenced ==
    \A d \in DataDisks : <>[](disk[d].phase = "Failed") => <>[](d \notin union)
=============================================================================
