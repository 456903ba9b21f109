----------------------- MODULE FailureRecords_proofs -----------------------
(***************************************************************************)
(* Proofs about FailureRecords, for every set of disks and every number of *)
(* changes.                                                                *)
(***************************************************************************)
EXTENDS FailureRecords, TLAPS

(* A cached copy that has the latest version is the record.                *)
FreshMeansCurrent == \A d \in Disks : fresh[d] => recordView[d] = record[d]

(* What the cache of the disks shows has been.                             *)
ViewSeen ==
    \A d \in Disks : /\ disk[d] # NoDisk => disk[d].phase \in seen[d]
                     /\ diskView[d] # NoDisk => diskView[d].phase \in seen[d]

(* A record was opened for a bad phase in the cache; when the cache shows  *)
(* another one, the disk has left the bad phase.                           *)
LeftBad ==
    \A d \in Disks :
        /\ Bad(diskView[d].phase) /\ ~Bad(disk[d].phase) => recovered[d]
        /\ record[d] # NoRecord => Bad(diskView[d].phase) \/ recovered[d]

IInv == TypeOK /\ FreshMeansCurrent /\ ViewSeen /\ LeftBad /\ NoInventedFailure

-----------------------------------------------------------------------------
(* The bound of the environment is kept.                                   *)
LEMMA ChangesBound ==
    ASSUME changes \in 0..MaxChanges, changes < MaxChanges, changes' = changes + 1
    PROVE  changes' \in 0..MaxChanges
BY RecordsAssumption DEF RecordsAssumption

LEMMA InitInv == Init => IInv
<1> SUFFICES ASSUME Init PROVE IInv
  OBVIOUS
<1>1. TypeOK
  BY RecordsAssumption DEF Init, TypeOK
<1>2. FreshMeansCurrent /\ ViewSeen
  BY DEF Init, FreshMeansCurrent, ViewSeen
<1>3. LeftBad /\ NoInventedFailure
  BY DEF Init, LeftBad, NoInventedFailure, Founded, Bad, NoDisk
<1> QED
  BY <1>1, <1>2, <1>3 DEF IInv

(* A new state of a disk: history grows, records are not touched.          *)
LEMMA BecomeInv ==
    ASSUME IInv, NEW d \in Disks, NEW state \in DiskStates \cup {NoDisk}, Become(d, state)
    PROVE  IInv'
<1>1. /\ state.phase \in {"", "Ready", "Degraded", "Failed", "absent"}
      /\ state # NoDisk => state \in DiskStates
  <2>1. CASE state = NoDisk
    BY <2>1 DEF NoDisk
  <2>2. CASE state \in DiskStates
    BY <2>2 DEF DiskStates
  <2> QED
    BY <2>1, <2>2
<1> USE DEF IInv, Become
<1>2. /\ \A e \in Disks : seen[e] \subseteq seen'[e] /\ (recovered[e] => recovered'[e])
      /\ \A e \in Disks \ {d} : disk'[e] = disk[e]
      /\ disk'[d] = state /\ state.phase \in seen'[d]
      /\ Bad(disk[d].phase) /\ ~Bad(state.phase) => recovered'[d]
  BY DEF TypeOK
<1>3. TypeOK'
  <2>1. disk' \in [Disks -> DiskStates \cup {NoDisk}]
    BY DEF TypeOK
  <2>2. seen' \in [Disks -> SUBSET {"", "Ready", "Degraded", "Failed", "absent"}]
    BY <1>1 DEF TypeOK
  <2>3. recovered' \in [Disks -> BOOLEAN]
    BY DEF TypeOK
  <2>4. changes' \in 0..MaxChanges
    BY ChangesBound DEF TypeOK
  <2> QED
    BY <2>1, <2>2, <2>3, <2>4 DEF TypeOK
<1>4. FreshMeansCurrent'
  BY DEF FreshMeansCurrent
<1>5. ViewSeen'
  BY <1>2 DEF ViewSeen
<1>6. LeftBad'
  BY <1>2 DEF LeftBad
<1>7. NoInventedFailure'
  BY <1>2 DEF NoInventedFailure, Founded
<1> QED
  BY <1>3, <1>4, <1>5, <1>6, <1>7

LEMMA SyncDiskInv ==
    ASSUME IInv, NEW d \in Disks, SyncDisk(d) PROVE IInv'
<1> USE DEF IInv, SyncDisk
<1>1. TypeOK'
  BY DEF TypeOK
<1>2. FreshMeansCurrent' /\ ViewSeen' /\ NoInventedFailure'
  BY DEF FreshMeansCurrent, ViewSeen, NoInventedFailure, Founded, TypeOK
<1>3. LeftBad'
  BY DEF LeftBad, TypeOK
<1> QED
  BY <1>1, <1>2, <1>3

LEMMA SyncRecordInv ==
    ASSUME IInv, NEW d \in Disks, SyncRecord(d) PROVE IInv'
<1> USE DEF IInv, SyncRecord
<1>1. TypeOK'
  BY DEF TypeOK
<1>2. FreshMeansCurrent' /\ ViewSeen' /\ LeftBad' /\ NoInventedFailure'
  BY DEF FreshMeansCurrent, ViewSeen, LeftBad, NoInventedFailure, Founded, TypeOK
<1> QED
  BY <1>1, <1>2

LEMMA DropRecordInv ==
    ASSUME IInv, NEW d \in Disks, DropRecord(d) PROVE IInv'
<1> USE DEF IInv, DropRecord
<1>1. TypeOK'
  BY ChangesBound DEF TypeOK
<1>2. FreshMeansCurrent' /\ ViewSeen' /\ LeftBad' /\ NoInventedFailure'
  BY DEF FreshMeansCurrent, ViewSeen, LeftBad, NoInventedFailure, Founded, TypeOK
<1> QED
  BY <1>1, <1>2

(* A write of the controller is safe when what it writes is founded.       *)
LEMMA WriteInv ==
    ASSUME IInv, NEW d \in Disks, NEW r \in Records, Write(d, r), Founded(d, r),
           Bad(diskView[d].phase) \/ recovered[d]
    PROVE  IInv'
<1> USE DEF IInv, Write
<1>1. record'[d] = r /\ \A e \in Disks \ {d} : record'[e] = record[e]
  BY DEF TypeOK
<1>2. TypeOK'
  BY DEF TypeOK
<1>3. FreshMeansCurrent'
  BY <1>1 DEF FreshMeansCurrent, TypeOK
<1>4. ViewSeen'
  BY DEF ViewSeen
<1>5. LeftBad'
  BY <1>1 DEF LeftBad
<1>6. NoInventedFailure'
  BY <1>1 DEF NoInventedFailure, Founded
<1> QED
  BY <1>2, <1>3, <1>4, <1>5, <1>6

(* The classification of a bad phase is founded on what the cache shows.   *)
LEMMA ClassificationFounded ==
    ASSUME IInv, NEW d \in Disks, Bad(diskView[d].phase)
    PROVE  /\ Severity(diskView[d]) \in Severities
           /\ Reason(diskView[d]) \in Reasons
           /\ Action(diskView[d]) \in Actions
           /\ (IF Severity(diskView[d]) = "critical" THEN "Failed" ELSE "Degraded") \in seen[d]
           /\ Severity(diskView[d]) = "warning" <=> Reason(diskView[d]) = "DISK_DEGRADED"
<1>1. diskView[d] # NoDisk
  BY DEF Bad, NoDisk
<1>2. diskView[d].phase \in seen[d]
  BY <1>1 DEF IInv, ViewSeen
<1> QED
  BY <1>2 DEF Bad, Severity, Reason, Action, Severities, Reasons, Actions

LEMMA ReconcileInv ==
    ASSUME IInv, NEW d \in Disks, Reconcile(d) PROVE IInv'
<1> DEFINE v == diskView[d]
<1>1. CASE OpenFailure(d)
  <2> DEFINE r == [severity |-> Severity(v), reason |-> Reason(v),
                   action |-> Action(v), phase |-> ""]
  <2>1. Write(d, r) /\ Bad(v.phase)
    BY <1>1 DEF OpenFailure
  <2>2. r \in Records /\ Founded(d, r)
    BY <2>1, ClassificationFounded DEF Founded, Records
  <2> QED
    BY <2>1, <2>2, WriteInv
<1>2. CASE Reclassify(d)
  <2> DEFINE r == [recordView[d] EXCEPT !.severity = Severity(v), !.reason = Reason(v)]
  <2>1. /\ Write(d, r) /\ Bad(v.phase)
        /\ recordView[d] \in Records /\ Founded(d, recordView[d]) /\ recordView[d] # NoRecord
    BY <1>2 DEF Reclassify, IInv, FreshMeansCurrent, NoInventedFailure, TypeOK
  <2>2. r \in Records
    BY <2>1, ClassificationFounded DEF Records
  <2>3. /\ r.severity = Severity(v) /\ r.reason = Reason(v)
        /\ r.phase = recordView[d].phase
    BY <2>1 DEF Records
  <2>4. Founded(d, r)
    BY <2>1, <2>3, ClassificationFounded DEF Founded
  <2> QED
    BY <2>1, <2>2, <2>4, WriteInv
<1>3. CASE Resolve(d)
  <2> DEFINE r == [recordView[d] EXCEPT !.phase = "Resolved"]
  <2>1. /\ Write(d, r) /\ ~Bad(v.phase)
        /\ recordView[d] \in Records /\ Founded(d, recordView[d]) /\ recordView[d] # NoRecord
        /\ record[d] # NoRecord
    BY <1>3 DEF Resolve, IInv, FreshMeansCurrent, NoInventedFailure, TypeOK
  <2>2. recovered[d]
    BY <2>1 DEF IInv, LeftBad
  <2>3. r \in Records /\ r.severity = recordView[d].severity /\ r.reason = recordView[d].reason
    BY <2>1 DEF Records
  <2>4. Founded(d, r)
    BY <2>1, <2>2, <2>3 DEF Founded
  <2> QED
    BY <2>1, <2>2, <2>3, <2>4, WriteInv
<1> QED
  BY <1>1, <1>2, <1>3 DEF Reconcile

LEMMA NextInv == IInv /\ [Next]_vars => IInv'
<1> SUFFICES ASSUME IInv, [Next]_vars PROVE IInv'
  OBVIOUS
<1>1. ASSUME NEW d \in Disks, CreateDisk(d) \/ DeleteDisk(d) \/ SetPhase(d)
      PROVE  IInv'
  <2>1. \E state \in DiskStates \cup {NoDisk} : Become(d, state)
    BY <1>1 DEF CreateDisk, DeleteDisk, SetPhase, DiskStates
  <2> QED
    BY <2>1, BecomeInv
<1>2. ASSUME NEW d \in Disks, SyncDisk(d) \/ SyncRecord(d) \/ DropRecord(d)
      PROVE  IInv'
  BY <1>2, SyncDiskInv, SyncRecordInv, DropRecordInv
<1>3. CASE UNCHANGED vars
  BY <1>3 DEF vars, IInv, TypeOK, FreshMeansCurrent, ViewSeen, LeftBad,
              NoInventedFailure, Founded
<1> QED
  BY <1>1, <1>2, <1>3, ReconcileInv DEF Next

(* Type correctness of the records.                                        *)
THEOREM TypeCorrect == Spec => []TypeOK
<1>1. IInv => TypeOK
  BY DEF IInv
<1> QED
  BY <1>1, InitInv, NextInv, PTL DEF Spec

(* No alarm is invented and none is closed for a disk that never left its  *)
(* bad phase, for every set of disks, every history and every delay of the *)
(* caches.                                                                 *)
THEOREM RecordsFounded == Spec => []NoInventedFailure
<1>1. IInv => NoInventedFailure
  BY DEF IInv
<1> QED
  BY <1>1, InitInv, NextInv, PTL DEF Spec
=============================================================================
