------------------------ MODULE StorageStack_proofs ------------------------
(***************************************************************************)
(* Proofs about StorageStack, for every set of disks and all bounds.       *)
(***************************************************************************)
EXTENDS StorageStack, TLAPS

-----------------------------------------------------------------------------
(* The inductive invariant.                                                *)

Calls == [busy : BOOLEAN, copy : Objects \cup {NoObject}, branches : SUBSET DataDisks,
          posted : BOOLEAN, answered : BOOLEAN]

WorkerType ==
    /\ worker \in Calls
    /\ ~worker.busy => worker = Idle
    /\ log \in Seq(SUBSET DataDisks)

(* While a worker waits for the mount it has posted, that mount is the     *)
(* last one in the log; and if it was answered, it has been executed.      *)
CallFounded ==
    /\ worker.posted => log # <<>> /\ log[Len(log)] = worker.branches
    /\ worker.answered => worker.branches \in done

(* What the cache shows of the Pool is founded, too.                       *)
ViewFounded == view["pool"].up => view["pool"].disks \in done

IInv == TypeOK /\ WorkerType /\ CallFounded /\ ViewFounded /\ NothingInvented

-----------------------------------------------------------------------------
(* The parts of the type invariant about the log, by themselves.           *)
LogOK(l, n) ==
    /\ n \in 1..(Len(l) + 1)
    /\ \A i \in 1..Len(l) : l[i] \in (SUBSET DataDisks) \ {{}}
    /\ \A i \in 1..(Len(l) - 1) : l[i] # l[i + 1]

ObjectsOK ==
    /\ object \in [Kinds -> Objects \cup {NoObject}]
    /\ view \in [Cached -> Objects \cup {NoObject}]
    /\ \A k \in Cached : fresh[k] => view[k] = object[k]
    /\ worker.copy \in {NoObject, object["pool"]}

LEMMA TypeParts ==
    TypeOK <=> /\ disk \in [ArrayDisks -> DiskStates]
               /\ ObjectsOK
               /\ LogOK(log, nextOp)
               /\ union \subseteq DataDisks
               /\ done \subseteq SUBSET DataDisks
BY DEF TypeOK, ObjectsOK, LogOK

(* A new object is a status like any other, an absent one is not, and      *)
(* neither is mounted or published.                                        *)
LEMMA ObjectTypes ==
    /\ New \in Objects /\ NoObject \notin Objects
    /\ New.up = FALSE /\ NoObject.up = FALSE
BY DEF Objects, New, NoObject

LEMMA InitInv == Init => IInv
<1> SUFFICES ASSUME Init PROVE IInv
  OBVIOUS
<1>1. disk \in [ArrayDisks -> DiskStates]
  <2>1. NewDisk \in DiskStates /\ Usable \in DiskStates
    BY DEF DiskStates, NewDisk
  <2> QED
    BY <2>1 DEF Init
<1>2. ObjectsOK
  BY ObjectTypes DEF Init, ObjectsOK, Idle, Cached, Kinds
<1>3. LogOK(log, nextOp)
  BY DEF Init, LogOK
<1>4. WorkerType
  BY DEF Init, WorkerType, Calls, Idle
<1>5. TypeOK
  BY <1>1, <1>2, <1>3, TypeParts DEF Init
<1>6. CallFounded /\ ViewFounded /\ NothingInvented
  BY ObjectTypes DEF Init, CallFounded, ViewFounded, NothingInvented, Founded, Idle,
     Kinds, Cached
<1> QED
  BY <1>4, <1>5, <1>6 DEF IInv

-----------------------------------------------------------------------------
(* Posting a mount keeps the log in order and leaves that mount at its     *)
(* end.                                                                    *)
LEMMA PostedLog ==
    ASSUME log \in Seq(SUBSET DataDisks), LogOK(log, nextOp),
           NEW b \in (SUBSET DataDisks) \ {{}}, Posted(b)
    PROVE  /\ log' \in Seq(SUBSET DataDisks)
           /\ LogOK(log', nextOp')
           /\ log' # <<>> /\ log'[Len(log')] = b
<1>1. CASE log # <<>> /\ log[Len(log)] = b
  <2>1. log' = log /\ nextOp' = IF nextOp > Len(log) THEN Len(log) ELSE nextOp
    BY <1>1 DEF Posted
  <2>2. Len(log) \in Nat \ {0}
    BY <1>1
  <2>3. nextOp' \in 1..(Len(log) + 1)
    BY <2>1, <2>2 DEF LogOK
  <2> QED
    BY <1>1, <2>1, <2>3 DEF LogOK
<1>2. CASE ~(log # <<>> /\ log[Len(log)] = b)
  <2>1. log' = Append(log, b) /\ nextOp' = nextOp
    BY <1>2 DEF Posted
  <2>2. /\ Len(log) \in Nat /\ Len(log') = Len(log) + 1
        /\ log'[Len(log) + 1] = b
        /\ \A i \in 1..Len(log) : log'[i] = log[i]
    BY <2>1
  <2>3. \A i \in 1..Len(log') : log'[i] \in (SUBSET DataDisks) \ {{}}
    BY <2>2 DEF LogOK
  <2>4. ASSUME NEW i \in 1..(Len(log') - 1) PROVE log'[i] # log'[i + 1]
    <3>1. CASE i = Len(log)
      BY <1>2, <2>2, <3>1
    <3>2. CASE i # Len(log)
      <4>1. i \in 1..(Len(log) - 1) /\ i \in 1..Len(log) /\ i + 1 \in 1..Len(log)
        BY <2>2, <3>2
      <4> QED
        BY <2>2, <4>1 DEF LogOK
    <3> QED
      BY <3>1, <3>2
  <2>5. nextOp' \in 1..(Len(log') + 1)
    BY <2>1, <2>2 DEF LogOK
  <2> QED
    BY <2>1, <2>2, <2>3, <2>4, <2>5 DEF LogOK
<1> QED
  BY <1>1, <1>2

(* A status update keeps the types, given a status of the right type.      *)
LEMMA WriteTypes ==
    ASSUME ObjectsOK, NEW k \in Kinds, NEW status \in Objects, NEW current,
           Write(k, status, current),
           worker'.copy \in {NoObject, worker.copy},
           k = "pool" => worker'.copy = NoObject
    PROVE  /\ ObjectsOK'
           /\ object'[k] \in {status, object[k]}
           /\ \A other \in Kinds \ {k} : object'[other] = object[other]
           /\ view' = view
<1>1. /\ object' \in [Kinds -> Objects \cup {NoObject}]
      /\ object'[k] \in {status, object[k]}
      /\ \A other \in Kinds \ {k} : object'[other] = object[other]
      /\ view' = view
  BY DEF Write, ObjectsOK
<1>2. \A c \in Cached : fresh'[c] => view'[c] = object'[c]
  BY DEF Write, ObjectsOK, Cached, Kinds
<1>3. worker'.copy \in {NoObject, object'["pool"]}
  <2>1. CASE k = "pool"
    BY <2>1
  <2>2. CASE k # "pool"
    <3>1. object'["pool"] = object["pool"]
      BY <1>1, <2>2 DEF Kinds
    <3> QED
      BY <3>1 DEF ObjectsOK
  <2> QED
    BY <2>1, <2>2
<1> QED
  BY <1>1, <1>2, <1>3 DEF ObjectsOK
-----------------------------------------------------------------------------
(* One lemma per action, or per few actions of a kind.                     *)

(* An array or a share is written: no Pool changes, nor what was mounted.  *)
LEMMA OtherWritten ==
    ASSUME IInv, NEW k \in {"array", "share"}, NEW status \in Objects, NEW current,
           Write(k, status, current),
           (k = "share" /\ status.up) => view["pool"].up,
           UNCHANGED <<disk, worker, agentVars>>
    PROVE  IInv'
<1>1. k \in Kinds /\ "pool" \in Kinds \ {k} /\ "share" \in Kinds
  BY DEF Kinds
<1>2. ObjectsOK /\ LogOK(log, nextOp)
  BY TypeParts DEF IInv
<1>3. worker'.copy \in {NoObject, worker.copy} /\ k # "pool"
  BY <1>1
<1>4. /\ ObjectsOK'
      /\ object'[k] \in {status, object[k]}
      /\ \A other \in Kinds \ {k} : object'[other] = object[other]
      /\ view' = view
  BY <1>1, <1>2, <1>3, WriteTypes
<1>5. LogOK(log', nextOp')
  BY <1>2 DEF agentVars
<1>6. TypeOK'
  BY <1>4, <1>5 DEF IInv, TypeOK, ObjectsOK, LogOK, agentVars
<1>7. WorkerType' /\ CallFounded' /\ ViewFounded'
  BY <1>4 DEF IInv, WorkerType, CallFounded, ViewFounded, agentVars
<1>8. NothingInvented'
  <2>1. object'["share"].up => object["share"].up \/ view["pool"].up
    BY <1>1, <1>4
  <2> QED
    BY <1>1, <1>4, <2>1 DEF IInv, NothingInvented, ViewFounded, Founded, agentVars
<1> QED
  BY <1>6, <1>7, <1>8 DEF IInv

(* The Pool is written, with a founded status, by a worker that is free    *)
(* afterwards.                                                             *)
LEMMA PoolWritten ==
    ASSUME IInv, NEW status \in Objects, NEW current, Write("pool", status, current),
           current /\ status.up => status.disks \in done,
           worker' = Idle, UNCHANGED <<disk, agentVars>>
    PROVE  IInv'
<1>1. "pool" \in Kinds /\ "share" \in Kinds \ {"pool"}
  BY DEF Kinds
<1>2. ObjectsOK /\ LogOK(log, nextOp)
  BY TypeParts DEF IInv
<1>3. worker'.copy = NoObject
  BY DEF Idle
<1>4. /\ ObjectsOK'
      /\ \A other \in Kinds \ {"pool"} : object'[other] = object[other]
      /\ view' = view
  BY <1>1, <1>2, <1>3, WriteTypes
<1>5. LogOK(log', nextOp')
  BY <1>2 DEF agentVars
<1>6. TypeOK'
  BY <1>4, <1>5 DEF IInv, TypeOK, ObjectsOK, LogOK, agentVars
<1>7. WorkerType' /\ CallFounded' /\ ViewFounded'
  BY <1>4 DEF IInv, WorkerType, CallFounded, ViewFounded, agentVars, Idle, Calls
<1>8. NothingInvented'
  <2>1. object'["pool"] = object["pool"] \/ (current /\ object'["pool"] = status)
    BY <1>1, <1>2 DEF Write, ObjectsOK
  <2> QED
    BY <1>1, <1>4, <2>1 DEF IInv, NothingInvented, Founded, agentVars
<1> QED
  BY <1>6, <1>7, <1>8 DEF IInv

(* A copy of the cache with another phase or flag is a status.             *)
LEMMA Rephased ==
    ASSUME NEW o \in Objects \cup {NoObject}, NEW phase \in {"Pending", "Degraded", "Ready"}
    PROVE  /\ [o EXCEPT !.phase = phase] \in Objects
           /\ [o EXCEPT !.phase = phase].up = o.up
           /\ [o EXCEPT !.phase = phase].disks = o.disks
<1>1. CASE o = NoObject
  BY <1>1 DEF Objects, NoObject
<1>2. CASE o \in Objects
  BY <1>2 DEF Objects
<1> QED
  BY <1>1, <1>2

LEMMA Restamped ==
    ASSUME NEW o \in Objects \cup {NoObject},
           NEW phase \in {"Pending", "Degraded", "Ready"}, NEW up \in BOOLEAN
    PROVE  /\ [o EXCEPT !.phase = phase, !.up = up] \in Objects
           /\ [o EXCEPT !.phase = phase, !.up = up].up = up
<1>1. CASE o = NoObject
  BY <1>1 DEF Objects, NoObject
<1>2. CASE o \in Objects
  BY <1>2 DEF Objects
<1> QED
  BY <1>1, <1>2

LEMMA ReconcileArrayInv == ASSUME IInv, ReconcileArray PROVE IInv'
<1>1. view["array"] \in Objects \cup {NoObject}
  BY DEF IInv, TypeOK, Cached
<1>2. PICK phase \in {"Pending", "Degraded", "Ready"} :
          Write("array", [view["array"] EXCEPT !.phase = phase], fresh["array"])
  BY DEF ReconcileArray
<1>3. UNCHANGED <<disk, worker, agentVars>>
  BY DEF ReconcileArray
<1>4. [view["array"] EXCEPT !.phase = phase] \in Objects
  BY <1>1, Rephased
<1> QED
  BY <1>2, <1>3, <1>4, OtherWritten

LEMMA ReconcileShareInv == ASSUME IInv, ReconcileShare PROVE IInv'
<1>1. object["share"] \in Objects \cup {NoObject}
  BY DEF IInv, TypeOK, Kinds
<1>2. PICK phase \in {"Pending", "Degraded", "Ready"}, up \in BOOLEAN :
          /\ Write("share", [object["share"] EXCEPT !.phase = phase, !.up = up], TRUE)
          /\ up => view["pool"].up
  <2>1. CASE view["pool"] = NoObject \/ ~view["pool"].up
    BY <2>1 DEF ReconcileShare
  <2>2. CASE ~(view["pool"] = NoObject \/ ~view["pool"].up)
    BY <2>2 DEF ReconcileShare
  <2> QED
    BY <2>1, <2>2
<1>3. UNCHANGED <<disk, worker, agentVars>>
  BY DEF ReconcileShare
<1>4. /\ [object["share"] EXCEPT !.phase = phase, !.up = up] \in Objects
      /\ [object["share"] EXCEPT !.phase = phase, !.up = up].up = up
  <2> DEFINE share == object["share"]
  <2>1. share \in Objects \cup {NoObject}
    BY <1>1
  <2> HIDE DEF share
  <2>2. /\ [share EXCEPT !.phase = phase, !.up = up] \in Objects
        /\ [share EXCEPT !.phase = phase, !.up = up].up = up
    BY <2>1, Restamped
  <2> QED
    BY <2>2 DEF share
<1> QED
  BY <1>2, <1>3, <1>4, OtherWritten

LEMMA PoolWaitsInv == ASSUME IInv, PoolWaits PROVE IInv'
<1>1. view["pool"] \in Objects \cup {NoObject}
  BY DEF IInv, TypeOK, Cached
<1> DEFINE status == [view["pool"] EXCEPT !.phase = "Pending"]
<1>2. status \in Objects /\ status.up = view["pool"].up /\ status.disks = view["pool"].disks
  BY <1>1, Rephased
<1>3. status.up => status.disks \in done
  BY <1>2 DEF IInv, ViewFounded
<1>4. Write("pool", status, fresh["pool"])
  BY DEF PoolWaits
<1>5. worker' = Idle /\ UNCHANGED <<disk, agentVars>>
  BY DEF PoolWaits, IInv, WorkerType
<1> QED
  BY <1>2, <1>3, <1>4, <1>5, PoolWritten

LEMMA FinishUnionInv == ASSUME IInv, FinishUnion PROVE IInv'
<1>1. worker' = Idle /\ UNCHANGED <<disk, agentVars>>
  BY DEF FinishUnion
<1> DEFINE current == worker.copy # NoObject
<1>2. CASE /\ worker.answered
           /\ Write("pool", [phase |-> "Ready", up |-> TRUE, disks |-> worker.branches], current)
  <2> DEFINE status == [phase |-> "Ready", up |-> TRUE, disks |-> worker.branches]
  <2>1. status \in Objects /\ status.disks \in done
    BY <1>2 DEF IInv, WorkerType, Calls, CallFounded, Objects
  <2> QED
    BY <1>1, <1>2, <2>1, PoolWritten
<1>3. CASE Write("pool", [worker.copy EXCEPT !.phase = "Degraded"], current)
  <2> DEFINE status == [worker.copy EXCEPT !.phase = "Degraded"]
  <2>1. worker.copy \in Objects \cup {NoObject}
    BY DEF IInv, WorkerType, Calls
  <2>2. status \in Objects /\ status.up = worker.copy.up /\ status.disks = worker.copy.disks
    BY <2>1, Rephased
  <2>3. current => worker.copy = object["pool"]
    BY DEF IInv, TypeOK
  <2>4. current /\ status.up => status.disks \in done
    BY <2>2, <2>3 DEF IInv, NothingInvented, Founded
  <2> QED
    BY <1>1, <1>3, <2>2, <2>4, PoolWritten
<1> QED
  BY <1>2, <1>3 DEF FinishUnion

LEMMA PostUnionInv == ASSUME IInv, PostUnion PROVE IInv'
<1>1. Branches \in (SUBSET DataDisks) \ {{}}
  <2>1. Branches # {}
    BY DEF PostUnion, Mountable
  <2>2. \A d \in Branches : d \in DataDisks
    BY DEF Branches
  <2> QED
    BY <2>1, <2>2, Zenon
<1>2. ObjectsOK /\ LogOK(log, nextOp) /\ log \in Seq(SUBSET DataDisks)
  BY TypeParts DEF IInv, WorkerType
<1>3. PICK posted \in BOOLEAN :
        /\ worker' = [busy |-> TRUE,
                      copy |-> IF fresh["pool"] THEN view["pool"] ELSE NoObject,
                      branches |-> Branches, posted |-> posted, answered |-> FALSE]
        /\ IF posted THEN Posted(Branches) ELSE UNCHANGED <<log, nextOp>>
  BY DEF PostUnion
<1>4. UNCHANGED <<disk, object, view, fresh, union, done>>
  BY DEF PostUnion, objectVars
<1>5. /\ log' \in Seq(SUBSET DataDisks) /\ LogOK(log', nextOp')
      /\ posted => log' # <<>> /\ log'[Len(log')] = Branches
  <2>1. CASE posted
    BY <1>1, <1>2, <1>3, <2>1, PostedLog
  <2>2. CASE ~posted
    BY <1>2, <1>3, <2>2
  <2> QED
    BY <2>1, <2>2
<1>6. worker'.copy \in {NoObject, object["pool"]} /\ worker'.copy \in Objects \cup {NoObject}
  BY <1>2, <1>3 DEF ObjectsOK, Cached
<1>7. ObjectsOK'
  BY <1>2, <1>4, <1>6 DEF ObjectsOK
<1>8. TypeOK'
  BY <1>4, <1>5, <1>7 DEF IInv, TypeOK, ObjectsOK, LogOK
<1>9. WorkerType' /\ CallFounded'
  BY <1>1, <1>3, <1>5, <1>6 DEF WorkerType, Calls, CallFounded
<1>10. ViewFounded' /\ NothingInvented'
  BY <1>4 DEF IInv, ViewFounded, NothingInvented, Founded
<1> QED
  BY <1>8, <1>9, <1>10 DEF IInv

LEMMA PerformInv == ASSUME IInv, Perform PROVE IInv'
<1>1. ObjectsOK /\ LogOK(log, nextOp) /\ log \in Seq(SUBSET DataDisks)
  BY TypeParts DEF IInv, WorkerType
<1>2. nextOp \in 1..Len(log) /\ nextOp' = nextOp + 1 /\ Len(log) \in Nat
  BY <1>1 DEF Perform, LogOK
<1>3. UNCHANGED <<disk, object, view, fresh, log>>
  BY DEF Perform, objectVars
<1>4. LogOK(log', nextOp')
  BY <1>1, <1>2, <1>3 DEF LogOK
<1>5. log[nextOp] \in SUBSET DataDisks
  BY <1>1, <1>2
<1>6. /\ union' \subseteq DataDisks
      /\ done \subseteq done' /\ done' \subseteq SUBSET DataDisks
  BY <1>5 DEF Perform, IInv, TypeOK
<1>7. /\ worker' \in Calls /\ worker'.busy = worker.busy /\ worker'.copy = worker.copy
      /\ worker'.branches = worker.branches /\ worker'.posted = worker.posted
      /\ worker'.answered => worker.answered
                             \/ (worker.posted /\ nextOp = Len(log) /\ log[nextOp] \in done')
  <2>1. CASE worker' = worker
    <3>1. worker \in Calls
      BY DEF IInv, WorkerType
    <3> QED
      BY <2>1, <3>1, Zenon
  <2>2. CASE /\ worker' = [worker EXCEPT !.answered = @ \/ (worker.posted /\ nextOp = Len(log))]
             /\ done' = done \cup {log[nextOp]}
    <3>1. worker \in Calls
      BY DEF IInv, WorkerType
    <3>2. worker'.answered = (worker.answered \/ (worker.posted /\ nextOp = Len(log)))
      BY <2>2, <3>1 DEF Calls
    <3>3. worker'.answered \in BOOLEAN
      BY <3>2
    <3>4. /\ worker'.busy = worker.busy /\ worker'.copy = worker.copy
          /\ worker'.branches = worker.branches /\ worker'.posted = worker.posted
      BY <2>2, <3>1 DEF Calls
    <3>5. worker' = [worker EXCEPT !.answered = worker'.answered]
      BY <2>2, <3>1, <3>2 DEF Calls
    <3>6. worker' \in Calls
      BY <3>1, <3>3, <3>5 DEF Calls
    <3>7. worker'.answered => worker.answered
                              \/ (worker.posted /\ nextOp = Len(log) /\ log[nextOp] \in done')
      BY <2>2, <3>2, Zenon
    <3> QED
      BY <3>4, <3>6, <3>7, Zenon
  <2> QED
    BY <2>1, <2>2 DEF Perform
<1>8. ~worker'.busy => worker' = Idle
  <2>1. CASE worker' = worker
    BY <2>1 DEF IInv, WorkerType
  <2>2. CASE worker' = [worker EXCEPT !.answered = @ \/ (worker.posted /\ nextOp = Len(log))]
    <3> SUFFICES ASSUME ~worker'.busy PROVE worker' = Idle
      OBVIOUS
    <3>1. worker = Idle
      BY <1>7 DEF IInv, WorkerType
    <3>2. (worker.answered \/ (worker.posted /\ nextOp = Len(log))) = FALSE
      BY <3>1 DEF Idle
    <3> QED
      BY <2>2, <3>1, <3>2 DEF Idle
  <2> QED
    BY <2>1, <2>2 DEF Perform
<1>9. ObjectsOK'
  BY <1>1, <1>3, <1>7 DEF ObjectsOK
<1>10. TypeOK'
  BY <1>3, <1>4, <1>6, <1>9 DEF IInv, TypeOK, ObjectsOK, LogOK
<1>11. WorkerType' /\ CallFounded'
  BY <1>1, <1>3, <1>6, <1>7, <1>8 DEF IInv, WorkerType, CallFounded
<1>12. ViewFounded' /\ NothingInvented'
  BY <1>3, <1>6 DEF IInv, ViewFounded, NothingInvented, Founded
<1> QED
  BY <1>10, <1>11, <1>12 DEF IInv

LEMMA AgentRestartInv == ASSUME IInv, AgentRestart PROVE IInv'
<1>1. ObjectsOK /\ LogOK(log, nextOp) /\ log \in Seq(SUBSET DataDisks)
  BY TypeParts DEF IInv, WorkerType
<1>2. /\ UNCHANGED <<disk, object, view, fresh, worker, log, done>>
      /\ nextOp' = 1 /\ union' \subseteq DataDisks
  BY DEF AgentRestart, objectVars, IInv, TypeOK
<1>3. LogOK(log', nextOp')
  BY <1>1, <1>2 DEF LogOK
<1>4. ObjectsOK'
  BY <1>1, <1>2 DEF ObjectsOK
<1>5. TypeOK'
  BY <1>2, <1>3, <1>4 DEF IInv, TypeOK, ObjectsOK, LogOK
<1> QED
  BY <1>2, <1>5 DEF IInv, WorkerType, CallFounded, ViewFounded, NothingInvented, Founded

(* The environment and the caches.                                         *)
LEMMA DiskChangesInv == ASSUME IInv, NEW d \in ArrayDisks, DiskChanges(d) PROVE IInv'
<1>1. disk' \in [ArrayDisks -> DiskStates]
  BY DEF DiskChanges, IInv, TypeOK
<1>2. UNCHANGED <<object, view, fresh, worker, log, nextOp, union, done>>
  BY DEF DiskChanges, objectVars, agentVars
<1>3. TypeOK'
  BY <1>1, <1>2 DEF IInv, TypeOK
<1> QED
  BY <1>2, <1>3 DEF IInv, WorkerType, CallFounded, ViewFounded, NothingInvented, Founded

LEMMA ReplaceInv == ASSUME IInv, NEW k \in Kinds, Replace(k) PROVE IInv'
<1>1. ObjectsOK /\ LogOK(log, nextOp)
  BY TypeParts DEF IInv
<1>2. UNCHANGED <<disk, view, log, nextOp, union, done>>
  BY DEF Replace, agentVars
<1>3. PICK new \in {New, NoObject} : object' = [object EXCEPT ![k] = new]
  BY DEF Replace
<1>4. object' \in [Kinds -> Objects \cup {NoObject}]
  BY <1>1, <1>3, ObjectTypes DEF ObjectsOK
<1>5. /\ worker' \in Calls /\ worker'.branches = worker.branches
      /\ worker'.posted = worker.posted /\ worker'.answered = worker.answered
      /\ worker'.busy = worker.busy
      /\ ~worker'.busy => worker' = Idle
  BY DEF Replace, IInv, WorkerType, Calls
<1>6. worker'.copy \in {NoObject, object'["pool"]}
  <2>1. CASE k = "pool"
    <3>1. CASE worker.busy
      BY <2>1, <3>1 DEF Replace, IInv, WorkerType, Calls
    <3>2. CASE ~worker.busy
      BY <1>5, <3>2 DEF Idle
    <3> QED
      BY <3>1, <3>2
  <2>2. CASE k # "pool"
    <3>1. worker' = worker /\ object'["pool"] = object["pool"]
      BY <1>1, <1>3, <2>2 DEF Replace, Kinds, ObjectsOK
    <3> QED
      BY <1>1, <3>1 DEF ObjectsOK
  <2> QED
    BY <2>1, <2>2
<1>7. \A c \in Cached : fresh'[c] => view'[c] = object'[c]
  BY <1>1, <1>2, <1>3 DEF Replace, ObjectsOK, Cached, Kinds
<1>8. ObjectsOK'
  BY <1>1, <1>2, <1>4, <1>6, <1>7 DEF ObjectsOK
<1>9. LogOK(log', nextOp')
  BY <1>1, <1>2
<1>10. TypeOK'
  BY <1>2, <1>8, <1>9 DEF IInv, TypeOK, ObjectsOK, LogOK
<1>11. WorkerType' /\ CallFounded' /\ ViewFounded'
  BY <1>2, <1>5 DEF IInv, WorkerType, CallFounded, ViewFounded
<1>12. NothingInvented'
  <2>1. \A o \in {"pool", "share"} : object'[o] = object[o] \/ object'[o].up = FALSE
    BY <1>1, <1>3, ObjectTypes DEF Kinds, ObjectsOK
  <2> QED
    BY <1>2, <2>1 DEF IInv, NothingInvented, Founded
<1> QED
  BY <1>10, <1>11, <1>12 DEF IInv

LEMMA SyncInv == ASSUME IInv, NEW k \in Cached, Sync(k) PROVE IInv'
<1>1. ObjectsOK /\ LogOK(log, nextOp)
  BY TypeParts DEF IInv
<1>2. UNCHANGED <<disk, object, worker, log, nextOp, union, done>>
  BY DEF Sync, agentVars
<1>3. /\ view' \in [Cached -> Objects \cup {NoObject}]
      /\ \A c \in Cached : fresh'[c] => view'[c] = object'[c]
      /\ view'["pool"] \in {view["pool"], object["pool"]}
  BY <1>1, <1>2 DEF Sync, ObjectsOK, Cached, Kinds
<1>4. ObjectsOK'
  BY <1>1, <1>2, <1>3 DEF ObjectsOK
<1>5. LogOK(log', nextOp')
  BY <1>1, <1>2
<1>6. TypeOK'
  BY <1>2, <1>4, <1>5 DEF IInv, TypeOK, ObjectsOK, LogOK
<1>7. ViewFounded'
  BY <1>2, <1>3 DEF IInv, ViewFounded, NothingInvented, Founded
<1> QED
  BY <1>2, <1>6, <1>7 DEF IInv, WorkerType, CallFounded, NothingInvented, Founded

LEMMA OperatorRestartInv == ASSUME IInv, OperatorRestart PROVE IInv'
<1>1. ObjectsOK /\ LogOK(log, nextOp)
  BY TypeParts DEF IInv
<1>2. /\ UNCHANGED <<disk, object, log, nextOp, union, done>>
      /\ worker' = Idle
      /\ view' = [k \in Cached |-> object[k]]
      /\ fresh' = [k \in Cached |-> TRUE]
  BY DEF OperatorRestart, agentVars
<1>3. ObjectsOK'
  BY <1>1, <1>2 DEF ObjectsOK, Cached, Kinds, Idle
<1>4. LogOK(log', nextOp')
  BY <1>1, <1>2
<1>5. TypeOK'
  BY <1>2, <1>3, <1>4 DEF IInv, TypeOK, ObjectsOK, LogOK
<1>6. view'["pool"] = object["pool"]
  BY <1>2 DEF Cached
<1>7. WorkerType' /\ CallFounded'
  BY <1>2 DEF IInv, WorkerType, CallFounded, Calls, Idle
<1>8. ViewFounded' /\ NothingInvented'
  BY <1>2, <1>6 DEF IInv, ViewFounded, NothingInvented, Founded
<1> QED
  BY <1>5, <1>7, <1>8 DEF IInv

-----------------------------------------------------------------------------
LEMMA NextInv == IInv /\ [Next]_vars => IInv'
<1> SUFFICES ASSUME IInv, [Next]_vars PROVE IInv'
  OBVIOUS
<1>1. CASE \E d \in ArrayDisks : DiskChanges(d)
  BY <1>1, DiskChangesInv
<1>2. CASE \E k \in Kinds : Replace(k)
  BY <1>2, ReplaceInv
<1>3. CASE \E k \in Cached : Sync(k)
  BY <1>3, SyncInv
<1>4. CASE ReconcileArray
  BY <1>4, ReconcileArrayInv
<1>5. CASE ReconcilePool
  BY <1>5, PoolWaitsInv, PostUnionInv DEF ReconcilePool
<1>6. CASE FinishUnion
  BY <1>6, FinishUnionInv
<1>7. CASE ReconcileShare
  BY <1>7, ReconcileShareInv
<1>8. CASE OperatorRestart
  BY <1>8, OperatorRestartInv
<1>9. CASE Perform
  BY <1>9, PerformInv
<1>10. CASE AgentRestart
  BY <1>10, AgentRestartInv
<1>11. CASE UNCHANGED vars
  <2>1. UNCHANGED <<disk, object, view, fresh, worker, log, nextOp, union, done>>
    BY <1>11 DEF vars, objectVars, agentVars
  <2>2. TypeOK'
    BY <2>1 DEF IInv, TypeOK
  <2> QED
    BY <2>1, <2>2 DEF IInv, WorkerType, CallFounded, ViewFounded, NothingInvented, Founded
<1> QED
  BY <1>1, <1>2, <1>3, <1>4, <1>5, <1>6, <1>7, <1>8, <1>9, <1>10, <1>11 DEF Next

(* IInv holds of every reachable state.                                    *)
THEOREM Invariance == Spec => []IInv
BY InitInv, NextInv, PTL DEF Spec

(* The type invariant of the storage stack: copies that are still current  *)
(* are the object, and the log of mounts does not repeat itself            *)
(* (PoolReconciler.Reconcile, postAgentOp).                                *)
THEOREM TypeCorrect == Spec => []TypeOK
<1>1. IInv => TypeOK
  BY DEF IInv
<1> QED
  BY Invariance, <1>1, PTL

(* The status of a Pool or a Share never invents a mount, for any disks,   *)
(* any history of changes and any failures and restarts                    *)
(* (PoolReconciler.Reconcile, ShareReconciler.Reconcile).                  *)
THEOREM NothingInventedCorrect == Spec => []NothingInvented
<1>1. IInv => NothingInvented
  BY DEF IInv
<1> QED
  BY Invariance, <1>1, PTL
=============================================================================
