--------------------------- MODULE FailureRecords ---------------------------
(***************************************************************************)
(* The FailureReconciler keeps one DiskFailure record per Disk, named      *)
(* after it. It reacts to the phase that the DiskReconciler writes, reads  *)
(* both objects from an informer cache, and writes with optimistic         *)
(* concurrency: an update made from a stale copy is refused and retried.   *)
(*                                                                         *)
(* The disks are the environment: they are created, deleted, created again *)
(* under the same name, and change phase as DiskReconciler decides.        *)
(***************************************************************************)
EXTENDS Naturals

CONSTANTS Disks,       \* names of Disk objects
          MaxChanges   \* changes of the environment

ASSUME RecordsAssumption == MaxChanges \in Nat

(* A new Disk has no phase; health is the part of the score that decides   *)
(* the reason of a failure (HealthScore < 0.1).                            *)
NoDisk     == [phase |-> "absent", dying |-> FALSE]
DiskStates == [phase : {"", "Ready", "Degraded", "Failed"}, dying : BOOLEAN]

Severities == {"warning", "critical"}
Reasons    == {"DISK_DEGRADED", "SMART_PREFAIL", "SMART_FAILURE"}
Actions    == {"monitor", "replace"}
NoRecord   == [severity |-> "none", reason |-> "none", action |-> "none", phase |-> "none"]
Records    == [severity : Severities, reason : Reasons, action : Actions,
               phase : {"", "Resolved"}]

VARIABLES
    disk,        \* [Disks -> the Disk in the API server]
    diskView,    \* [Disks -> the Disk in the informer cache]
    record,      \* [Disks -> the DiskFailure in the API server]
    recordView,  \* [Disks -> the DiskFailure in the informer cache]
    fresh,       \* [Disks -> whether recordView has the latest version]
    seen,        \* history: [Disks -> phases the disk has ever had]
    recovered,   \* history: [Disks -> whether the disk ever left a bad phase]
    changes      \* changes of the environment so far

vars == <<disk, diskView, record, recordView, fresh, seen, recovered, changes>>

Init ==
    /\ disk = [d \in Disks |-> NoDisk]
    /\ diskView = disk
    /\ record = [d \in Disks |-> NoRecord]
    /\ recordView = record
    /\ fresh = [d \in Disks |-> TRUE]
    /\ seen = [d \in Disks |-> {}]
    /\ recovered = [d \in Disks |-> FALSE]
    /\ changes = 0

-----------------------------------------------------------------------------
(* The environment.                                                        *)

Bad(phase) == phase \in {"Degraded", "Failed"}

Become(d, state) ==
    /\ changes < MaxChanges
    /\ changes' = changes + 1
    /\ disk' = [disk EXCEPT ![d] = state]
    /\ seen' = [seen EXCEPT ![d] = @ \cup {state.phase}]
    /\ recovered' = [recovered EXCEPT ![d] = @ \/ (Bad(disk[d].phase) /\ ~Bad(state.phase))]
    /\ UNCHANGED <<diskView, record, recordView, fresh>>

CreateDisk(d) == disk[d] = NoDisk /\ Become(d, [phase |-> "", dying |-> FALSE])

DeleteDisk(d) == disk[d] # NoDisk /\ Become(d, NoDisk)

(* A status update of DiskReconciler.                                      *)
SetPhase(d) ==
    /\ disk[d] # NoDisk
    /\ \E state \in DiskStates : state.phase # "" /\ state # disk[d] /\ Become(d, state)

(* An administrator deletes a DiskFailure.                                 *)
DropRecord(d) ==
    /\ record[d] # NoRecord
    /\ changes < MaxChanges
    /\ changes' = changes + 1
    /\ record' = [record EXCEPT ![d] = NoRecord]
    /\ fresh' = [fresh EXCEPT ![d] = FALSE]
    /\ UNCHANGED <<disk, diskView, recordView, seen, recovered>>

(* The watch delivers the current version.                                 *)
SyncDisk(d) ==
    /\ diskView[d] # disk[d]
    /\ diskView' = [diskView EXCEPT ![d] = disk[d]]
    /\ UNCHANGED <<disk, record, recordView, fresh, seen, recovered, changes>>

SyncRecord(d) ==
    /\ ~fresh[d]
    /\ recordView' = [recordView EXCEPT ![d] = record[d]]
    /\ fresh' = [fresh EXCEPT ![d] = TRUE]
    /\ UNCHANGED <<disk, diskView, record, seen, recovered, changes>>

-----------------------------------------------------------------------------
(* FailureReconciler.                                                      *)

(* Mutant: a warning advises nothing.                                      *)
Action_onlyCritical(v) == IF v.phase = "Failed" THEN "replace" ELSE "none"

Severity(v) == IF v.phase = "Failed" THEN "critical" ELSE "warning"
Action(v)   == IF v.phase = "Failed" THEN "replace" ELSE "monitor"
Reason(v)   == IF v.phase # "Failed" THEN "DISK_DEGRADED"
               ELSE IF v.dying THEN "SMART_FAILURE" ELSE "SMART_PREFAIL"

Write(d, new) ==
    /\ record' = [record EXCEPT ![d] = new]
    /\ fresh' = [fresh EXCEPT ![d] = FALSE]
    /\ UNCHANGED <<disk, diskView, recordView, seen, recovered, changes>>

(* Not in the cache: create it. The server refuses a second record.        *)
OpenFailure(d) ==
    /\ Bad(diskView[d].phase)
    /\ recordView[d] = NoRecord
    /\ record[d] = NoRecord
    /\ LET v == diskView[d]
       IN  Write(d, [severity |-> Severity(v), reason |-> Reason(v),
                     action |-> Action(v), phase |-> ""])

(* Mutant: a severity only rises.                                          *)
Reclassify_onlyEscalates(d) ==
    /\ diskView[d].phase = "Failed"
    /\ recordView[d].severity = "warning"
    /\ fresh[d]
    /\ Write(d, [recordView[d] EXCEPT !.severity = "critical", !.reason = Reason(diskView[d])])

(* In the cache with another severity: an update of severity and reason,   *)
(* which the server accepts from the latest version only.                  *)
Reclassify(d) ==
    /\ Bad(diskView[d].phase)
    /\ recordView[d] # NoRecord
    /\ recordView[d].severity # Severity(diskView[d])
    /\ fresh[d]
    /\ Write(d, [recordView[d] EXCEPT !.severity = Severity(diskView[d]),
                                      !.reason = Reason(diskView[d])])

(* Mutants: the phase is not checked; only warnings are closed.            *)
Resolve_anyPhase(d) ==
    /\ diskView[d] # NoDisk
    /\ recordView[d] # NoRecord
    /\ fresh[d]
    /\ Write(d, [recordView[d] EXCEPT !.phase = "Resolved"])

Resolve_warningsOnly(d) ==
    /\ diskView[d] # NoDisk
    /\ ~Bad(diskView[d].phase)
    /\ recordView[d].severity = "warning"
    /\ recordView[d].phase # "Resolved"
    /\ fresh[d]
    /\ Write(d, [recordView[d] EXCEPT !.phase = "Resolved"])

(* resolveOpenFailures, for every phase that is not a bad one.             *)
Resolve(d) ==
    /\ diskView[d] # NoDisk
    /\ ~Bad(diskView[d].phase)
    /\ recordView[d] # NoRecord
    /\ recordView[d].phase # "Resolved"
    /\ fresh[d]
    /\ Write(d, [recordView[d] EXCEPT !.phase = "Resolved"])

Reconcile(d) == OpenFailure(d) \/ Reclassify(d) \/ Resolve(d)

Next ==
    \E d \in Disks : \/ CreateDisk(d) \/ DeleteDisk(d) \/ SetPhase(d) \/ DropRecord(d)
                     \/ SyncDisk(d) \/ SyncRecord(d)
                     \/ Reconcile(d)

Spec == Init /\ [][Next]_vars

(* The watches deliver. A Disk that exists is reconciled again and again:  *)
(* DiskReconciler writes its status every thirty seconds, each write is an *)
(* event of this controller, and a refused write is retried.               *)
Fairness ==
    \A d \in Disks : WF_vars(SyncDisk(d)) /\ WF_vars(SyncRecord(d)) /\ WF_vars(Reconcile(d))

FairSpec == Spec /\ Fairness

-----------------------------------------------------------------------------
(* Properties.                                                             *)

(* Type invariant; a record always has all of its required fields.         *)
TypeOK ==
    /\ disk \in [Disks -> DiskStates \cup {NoDisk}]
    /\ diskView \in [Disks -> DiskStates \cup {NoDisk}]
    /\ record \in [Disks -> Records \cup {NoRecord}]
    /\ recordView \in [Disks -> Records \cup {NoRecord}]
    /\ fresh \in [Disks -> BOOLEAN]
    /\ seen \in [Disks -> SUBSET {"", "Ready", "Degraded", "Failed", "absent"}]
    /\ recovered \in [Disks -> BOOLEAN]
    /\ changes \in 0..MaxChanges

(* No alarm is invented and none is closed by mistake: a critical record   *)
(* is about a disk that has been Failed, a warning about one that has been *)
(* Degraded, its reason belongs to its severity, and a resolved record is  *)
(* about a disk that has left a bad phase, however late the two caches are *)
(* and even when the disk is replaced under its old name (Reconcile,       *)
(* resolveOpenFailures).                                                   *)
Founded(d, r) ==
    r # NoRecord =>
        /\ (IF r.severity = "critical" THEN "Failed" ELSE "Degraded") \in seen[d]
        /\ r.severity = "warning" <=> r.reason = "DISK_DEGRADED"
        /\ r.phase = "Resolved" => recovered[d]

NoInventedFailure == \A d \in Disks : Founded(d, record[d])

(* A disk that stays Failed gets a critical record, one that stays         *)
(* Degraded a warning, whatever record an earlier phase left and whatever  *)
(* stale copies the controller worked from (Reconcile).                    *)
Classified(d, phase, severity) ==
    <>[](disk[d].phase = phase) => <>[](record[d].severity = severity)

FailureClassified ==
    \A d \in Disks : /\ Classified(d, "Failed", "critical")
                     /\ Classified(d, "Degraded", "warning")

(* A disk that recovers for good leaves no open record behind              *)
(* (resolveOpenFailures, which gives up silently when the cache does not   *)
(* show a record yet).                                                     *)
RecoveryCloses ==
    \A d \in Disks :
        <>[](disk[d].phase = "Ready") => <>[](record[d].phase \in {"none", "Resolved"})

(* placement_failure_controllers.go:159, the controller opens DiskFailure  *)
(* records: a disk that stays Failed ends with a record that is open. It   *)
(* does not hold: a record that was resolved is not opened again.          *)
FailureOpen ==
    \A d \in Disks :
        <>[](disk[d].phase = "Failed") => <>[](record[d].phase = "")
=============================================================================
