--------------------------- MODULE DiskLifecycle ---------------------------
(***************************************************************************)
(* The life of Disk objects: an administrator creates, edits and deletes   *)
(* them, the DiskReconciler adds and removes their finalizer, has them     *)
(* mounted and unmounted by the node agent and writes their status, and    *)
(* the agent's discovery reports health and mounts.                        *)
(*                                                                         *)
(* The reconciler has one worker. It reads Disks and reports from informer *)
(* caches, blocks while it calls the agent, and then writes from the copy  *)
(* it read before the call; the API server refuses a write whose copy is   *)
(* not the latest version.                                                 *)
(*                                                                         *)
(* The channel to the agent appears as AgentChannel guarantees it: the     *)
(* operations on a disk are executed in the order in which they were       *)
(* posted, all of them again after a restart of the agent, and a call      *)
(* returns without error only if its own operation was carried out. A disk *)
(* is identified with its mount point.                                     *)
(***************************************************************************)
EXTENDS HostOps, Sequences

CONSTANTS MaxChanges,   \* changes by the administrator and of the hardware
          MaxFailures,  \* lost posts and failed host operations
          MaxRestarts   \* restarts of the agent or the operator, together

ASSUME LifecycleAssumption ==
    MaxChanges \in Nat /\ MaxFailures \in Nat /\ MaxRestarts \in Nat

Disks  == DiskMounts
Phases == {"", "Ready", "Degraded", "Failed"}

(* "gone": the device is no longer listed by lsblk.                        *)
Healths == {"good", "low", "failed", "gone"}

DiskObjects == [fin : BOOLEAN, deleting : BOOLEAN, phase : Phases, mounted : BOOLEAN]
NoDisk      == [fin |-> FALSE, deleting |-> FALSE, phase |-> "absent", mounted |-> FALSE]
NewDisk     == [fin |-> FALSE, deleting |-> FALSE, phase |-> "", mounted |-> FALSE]

Reports  == [health : Healths \ {"gone"}, mounted : BOOLEAN]
NoReport == [health |-> "none", mounted |-> FALSE]

VARIABLES
    disk,        \* [Disks -> the Disk in the API server]
    view,        \* [Disks -> the Disk in the informer cache]
    fresh,       \* [Disks -> whether view has the latest version]
    worker,      \* the reconciler's worker and the call it is blocked in
    health,      \* [Disks -> the hardware]
    report,      \* [Disks -> its entry in the status ConfigMap of the node]
    reportView,  \* [Disks -> that entry in the informer cache]
    log,         \* [Disks -> the operations posted for it, oldest first]
    nextOp,      \* [Disks -> the first operation not executed yet]
    mounted,     \* the mounted paths of the host
    changes, failures, restarts  \* how often each has happened

objectVars == <<disk, view, fresh>>
agentVars  == <<report, log, nextOp, mounted>>
boundVars  == <<changes, failures, restarts>>
vars == <<objectVars, worker, health, reportView, agentVars, boundVars>>

(* copy and current are the object the worker read and whether that is     *)
(* still the latest version; posted and answered are about its operation.  *)
Idle == [pc |-> "idle", disk |-> "none", copy |-> NoDisk, current |-> FALSE,
         posted |-> FALSE, answered |-> FALSE]

Init ==
    /\ disk = [d \in Disks |-> NoDisk]
    /\ view = disk
    /\ fresh = [d \in Disks |-> TRUE]
    /\ worker = Idle
    /\ health = [d \in Disks |-> "good"]
    /\ report = [d \in Disks |-> NoReport]
    /\ reportView = report
    /\ log = [d \in Disks |-> <<>>]
    /\ nextOp = [d \in Disks |-> 1]
    /\ mounted = {}
    /\ changes = 0 /\ failures = 0 /\ restarts = 0

-----------------------------------------------------------------------------
(* The administrator and the hardware.                                     *)

(* Somebody else's write: every copy of the object is out of date.         *)
Overwrite(d, object) ==
    /\ changes < MaxChanges
    /\ changes' = changes + 1
    /\ disk' = [disk EXCEPT ![d] = object]
    /\ fresh' = [fresh EXCEPT ![d] = FALSE]
    /\ worker' = IF worker.disk = d THEN [worker EXCEPT !.current = FALSE] ELSE worker
    /\ UNCHANGED <<view, health, reportView, agentVars, failures, restarts>>

CreateDisk(d) == disk[d] = NoDisk /\ Overwrite(d, NewDisk)

EditDisk(d) == disk[d] # NoDisk /\ Overwrite(d, disk[d])

(* The object stays until its finalizer is removed.                        *)
DeleteDisk(d) ==
    /\ disk[d] # NoDisk /\ ~disk[d].deleting
    /\ Overwrite(d, IF disk[d].fin THEN [disk[d] EXCEPT !.deleting = TRUE] ELSE NoDisk)

HealthChanges(d) ==
    /\ changes < MaxChanges
    /\ changes' = changes + 1
    /\ \E h \in Healths \ {health[d]} : health' = [health EXCEPT ![d] = h]
    /\ UNCHANGED <<objectVars, worker, reportView, agentVars, failures, restarts>>

-----------------------------------------------------------------------------
(* The node agent.                                                         *)

Actual(d) == IF health[d] = "gone" THEN NoReport
             ELSE [health |-> health[d], mounted |-> d \in mounted]

(* runDiscovery writes the whole status ConfigMap.                         *)
Discover ==
    /\ report # [d \in Disks |-> Actual(d)]
    /\ report' = [d \in Disks |-> Actual(d)]
    /\ UNCHANGED <<objectVars, worker, health, reportView, log, nextOp, mounted,
                   boundVars>>

(* The agent executes the next operation on a disk. A device that is gone  *)
(* cannot be mounted anew.                                                 *)
Perform(d) ==
    /\ nextOp[d] <= Len(log[d])
    /\ \E o \in Outcomes([kind |-> log[d][nextOp[d]], target |-> d], mounted) :
          /\ o.ok /\ d \in o.mounted /\ d \notin mounted => health[d] # "gone"
          /\ \/ o.ok /\ UNCHANGED failures
             \/ ~o.ok /\ failures < MaxFailures /\ failures' = failures + 1
             \/ ~o.ok /\ health[d] = "gone" /\ UNCHANGED failures
          /\ mounted' = o.mounted
          /\ worker' = IF /\ o.ok /\ worker.disk = d /\ worker.posted
                          /\ nextOp[d] = Len(log[d])
                       THEN [worker EXCEPT !.answered = TRUE] ELSE worker
    /\ nextOp' = [nextOp EXCEPT ![d] = @ + 1]
    /\ UNCHANGED <<objectVars, health, report, reportView, log, changes, restarts>>

(* A restarted agent executes everything again; mounts may be gone.        *)
AgentRestart ==
    /\ restarts < MaxRestarts
    /\ restarts' = restarts + 1
    /\ nextOp' = [d \in Disks |-> 1]
    /\ mounted' \in SUBSET mounted
    /\ UNCHANGED <<objectVars, worker, health, report, reportView, log, changes, failures>>

-----------------------------------------------------------------------------
(* DiskReconciler.                                                         *)

(* The watches deliver.                                                    *)
SyncDisk(d) ==
    /\ ~fresh[d]
    /\ view' = [view EXCEPT ![d] = disk[d]]
    /\ fresh' = [fresh EXCEPT ![d] = TRUE]
    /\ UNCHANGED <<disk, worker, health, reportView, agentVars, boundVars>>

SyncReport(d) ==
    /\ reportView[d] # report[d]
    /\ reportView' = [reportView EXCEPT ![d] = report[d]]
    /\ UNCHANGED <<objectVars, worker, health, agentVars, boundVars>>

(* GetDiskStatus: without an entry the disk is in perfect health and not   *)
(* mounted.                                                                *)
AgentStatus(d) ==
    IF reportView[d] = NoReport THEN [health |-> "good", mounted |-> FALSE]
    ELSE reportView[d]

ComputePhase(s) == CASE s.health = "failed" -> "Failed"
                     [] s.health = "low"    -> "Degraded"
                     [] OTHER               -> "Ready"

(* An update from a copy: refused, and retried later, when it is stale.    *)
Write(d, object, current) ==
    /\ IF current
       THEN /\ disk' = [disk EXCEPT ![d] = object]
            /\ fresh' = [fresh EXCEPT ![d] = FALSE]
       ELSE UNCHANGED <<disk, fresh>>
    /\ UNCHANGED <<view, health, reportView, agentVars, boundVars>>

Status(copy, phase, isMounted) == [copy EXCEPT !.phase = phase, !.mounted = isMounted]

AddFinalizer(d) ==
    /\ worker.pc = "idle"
    /\ view[d] # NoDisk /\ ~view[d].deleting /\ ~view[d].fin
    /\ Write(d, [view[d] EXCEPT !.fin = TRUE], fresh[d])
    /\ UNCHANGED worker

NeedsMount(d) == ~AgentStatus(d).mounted /\ ComputePhase(AgentStatus(d)) = "Ready"

Managed(d) == view[d] # NoDisk /\ ~view[d].deleting /\ view[d].fin

(* Mutant: a mount that is gone is not noticed.                            *)
ReportStatus_sticky(d) ==
    /\ worker.pc = "idle"
    /\ Managed(d) /\ ~NeedsMount(d)
    /\ LET s == AgentStatus(d)
       IN  Write(d, Status(view[d], ComputePhase(s), view[d].mounted \/ s.mounted), fresh[d])
    /\ UNCHANGED worker

(* reconcileNormal without a mount: the status is what the agent reports.  *)
ReportStatus(d) ==
    /\ worker.pc = "idle"
    /\ Managed(d) /\ ~NeedsMount(d)
    /\ LET s == AgentStatus(d)
       IN  Write(d, Status(view[d], ComputePhase(s), s.mounted), fresh[d])
    /\ UNCHANGED worker

(* Post an operation and block. Repeating the last operation makes it due  *)
(* again instead of growing the log; a lost post is a call that cannot     *)
(* succeed.                                                                *)
Posted(d, kind) ==
    LET repeated == log[d] # <<>> /\ log[d][Len(log[d])] = kind
    IN  IF repeated
        THEN /\ nextOp' = [nextOp EXCEPT ![d] = IF @ > Len(log[d]) THEN Len(log[d]) ELSE @]
             /\ UNCHANGED log
        ELSE log' = [log EXCEPT ![d] = Append(@, kind)] /\ UNCHANGED nextOp

CallAgent(d, kind, pc) ==
    /\ \E posted \in BOOLEAN :
          /\ worker' = [pc |-> pc, disk |-> d, copy |-> view[d], current |-> fresh[d],
                        posted |-> posted, answered |-> FALSE]
          /\ IF posted THEN Posted(d, kind) /\ UNCHANGED failures
             ELSE failures < MaxFailures /\ failures' = failures + 1 /\ UNCHANGED <<log, nextOp>>
    /\ UNCHANGED <<objectVars, health, report, reportView, mounted, changes, restarts>>

PostMount(d) ==
    /\ worker.pc = "idle"
    /\ Managed(d) /\ NeedsMount(d)
    /\ CallAgent(d, "mount", "mounting")

(* Mutant: the worker goes on with the copy it has just written.           *)
FinishMount_reusesCopy ==
    /\ worker.pc = "mounting"
    /\ \/ worker.answered /\ Write(worker.disk, Status(worker.copy, "Ready", TRUE), worker.current)
       \/ Write(worker.disk, Status(worker.copy, "Degraded", FALSE), worker.current)
    /\ UNCHANGED worker

(* MountDisk returned nil: Ready and mounted. It returned an error, or     *)
(* timed out whatever the agent does: Degraded.                            *)
FinishMount ==
    /\ worker.pc = "mounting"
    /\ \/ worker.answered /\ Write(worker.disk, Status(worker.copy, "Ready", TRUE), worker.current)
       \/ Write(worker.disk, Status(worker.copy, "Degraded", FALSE), worker.current)
    /\ worker' = Idle

(* Mutant: a failed disk is unmounted, too.                                *)
PostUnmount_failed(d) ==
    /\ worker.pc = "idle"
    /\ view[d].deleting \/ view[d].phase = "Failed"
    /\ view[d].mounted
    /\ CallAgent(d, "unmount", "unmounting")

(* reconcileDelete: unmount only what the status says is mounted.          *)
PostUnmount(d) ==
    /\ worker.pc = "idle"
    /\ view[d].deleting /\ view[d].mounted
    /\ CallAgent(d, "unmount", "unmounting")

(* Mutant: a deletion waits for a successful unmount.                      *)
FinishUnmount_blocking ==
    /\ worker.pc = "unmounting" /\ worker.answered
    /\ Write(worker.disk, NoDisk, worker.current)
    /\ worker' = Idle

(* Mutant: the agent's report decides, not the status.                     *)
RemoveFinalizer_byReport(d) ==
    /\ worker.pc = "idle"
    /\ view[d].deleting /\ ~reportView[d].mounted
    /\ Write(d, NoDisk, fresh[d])
    /\ UNCHANGED worker

(* Whatever came of the call, deletion is not blocked: without finalizer   *)
(* the object disappears.                                                  *)
FinishUnmount ==
    /\ worker.pc = "unmounting"
    /\ Write(worker.disk, NoDisk, worker.current)
    /\ worker' = Idle

RemoveFinalizer(d) ==
    /\ worker.pc = "idle"
    /\ view[d].deleting /\ ~view[d].mounted
    /\ Write(d, NoDisk, fresh[d])
    /\ UNCHANGED worker

(* The operator is killed in the middle of anything; a new one starts from *)
(* fresh caches.                                                           *)
OperatorRestart ==
    /\ restarts < MaxRestarts
    /\ restarts' = restarts + 1
    /\ worker' = Idle
    /\ view' = disk
    /\ fresh' = [d \in Disks |-> TRUE]
    /\ reportView' = report
    /\ UNCHANGED <<disk, health, agentVars, changes, failures>>

Reconcile(d) == \/ AddFinalizer(d) \/ ReportStatus(d) \/ PostMount(d)
                \/ PostUnmount(d) \/ RemoveFinalizer(d)

Finish == FinishMount \/ FinishUnmount

Next ==
    \/ \E d \in Disks : \/ CreateDisk(d) \/ EditDisk(d) \/ DeleteDisk(d)
                        \/ HealthChanges(d)
                        \/ Perform(d) \/ SyncDisk(d) \/ SyncReport(d)
                        \/ Reconcile(d)
    \/ Finish
    \/ Discover
    \/ AgentRestart
    \/ OperatorRestart

Spec == Init /\ [][Next]_vars

(* The agent's timers fire, the watches deliver and a call ends. A Disk    *)
(* that exists is reconciled again and again: every pass requeues it, and  *)
(* the work queue of the one worker is fair.                               *)
Fairness ==
    /\ WF_vars(Discover) /\ WF_vars(Finish)
    /\ \A d \in Disks : /\ WF_vars(Perform(d))
                        /\ WF_vars(SyncDisk(d)) /\ WF_vars(SyncReport(d))
                        /\ SF_vars(Reconcile(d))

FairSpec == Spec /\ Fairness

-----------------------------------------------------------------------------
(* Properties.                                                             *)

Live(object) == object # NoDisk /\ ~object.deleting

(* Type invariant: the log of a disk alternates, the agent is inside it,   *)
(* and a worker that holds the latest copy holds the object.               *)
TypeOK ==
    /\ disk \in [Disks -> DiskObjects \cup {NoDisk}]
    /\ view \in [Disks -> DiskObjects \cup {NoDisk}]
    /\ fresh \in [Disks -> BOOLEAN]
    /\ worker.pc \in {"idle", "mounting", "unmounting"}
    /\ worker.pc # "idle" => worker.disk \in Disks
    /\ worker.pc # "idle" /\ worker.current => worker.copy = disk[worker.disk]
    /\ health \in [Disks -> Healths]
    /\ report \in [Disks -> Reports \cup {NoReport}]
    /\ reportView \in [Disks -> Reports \cup {NoReport}]
    /\ mounted \subseteq Disks
    /\ \A d \in Disks :
          /\ nextOp[d] \in 1..(Len(log[d]) + 1)
          /\ \A i \in 1..(Len(log[d]) - 1) : log[d][i] # log[d][i + 1]

(* A Disk that its status calls mounted never disappears without an        *)
(* unmount having been attempted for it, although the reconciler decides   *)
(* from a cache that may lag and the object may be edited, or deleted and  *)
(* created anew, while it waits (Reconcile, reconcileDelete).              *)
ProtectedUntilUnmount ==
    [][\A d \in Disks : disk[d].mounted /\ disk'[d] = NoDisk
          => worker.pc = "unmounting" /\ worker.disk = d]_vars

(* The agent is never asked to unmount a Disk that is in use: one that the *)
(* reconciler has taken under its finalizer and nobody has asked to        *)
(* delete, even if the Disk has the name of a deleted one that the cache   *)
(* still shows (reconcileDelete). KeepsContract implies it.                *)
NoUnmountInUse ==
    [][\A d \in Disks : PostUnmount(d) => ~(Live(disk[d]) /\ disk[d].fin)]_vars

(* Behind its caches, copies, reports and retries the reconciler keeps the *)
(* promises of DiskContract: what it asks of the agent, claims in a status *)
(* and gives up is founded on what the Disk is at that very moment, or was *)
(* when it was asked for (Reconcile, reconcileNormal, reconcileDelete).    *)
Stage(object) ==
    CASE object = NoDisk -> "absent"
      [] Live(object)    -> IF object.fin THEN "kept" ELSE "new"
      [] object.deleting -> "leaving"

Asked(d) == {log[d][i] : i \in 1..Len(log[d])}

stage   == [d \in Disks |-> Stage(disk[d])]
claimed == [d \in Disks |-> disk[d].mounted]
asked   == [d \in Disks |-> Asked(d)]
trying  == IF worker.pc = "unmounting" THEN {worker.disk} ELSE {}

Promise == INSTANCE DiskContract

KeepsContract == Promise!Spec

(* A deletion always completes, although the unmount may fail, be lost or  *)
(* time out, the object may be edited meanwhile and both sides may restart *)
(* (reconcileDelete: "Don't block deletion").                              *)
DeletionCompletes ==
    \A d \in Disks : disk[d].deleting ~> ~disk[d].deleting

(* The status catches up with the hardware and the host, even if every     *)
(* call to the agent times out: for a Disk that is left alone, phase and   *)
(* Mounted end up right, and a healthy one ends up mounted                 *)
(* (reconcileNormal, runDiscovery).                                        *)
Settled(d) == Live(disk[d]) /\ health[d] # "gone"

StatusConverges ==
    \A d \in Disks :
        <>[]Settled(d) =>
            <>[](/\ disk[d].phase = ComputePhase([health |-> health[d]])
                 /\ disk[d].mounted = (d \in mounted)
                 /\ health[d] = "good" => d \in mounted)

(* disk_controller.go:103, "disk deletion requested, unmounting": a disk   *)
(* whose Disk is gone for good does not stay mounted.                      *)
DeletedUnmounted ==
    \A d \in Disks : <>[](disk[d] = NoDisk) => <>[](d \notin mounted)
=============================================================================
