------------------------ MODULE DiskLifecycle_proofs ------------------------
(***************************************************************************)
(* Proofs about DiskLifecycle, for any number of disks and any bounds.     *)
(*                                                                         *)
(* Both safety properties come from what a cache and a blocked worker can  *)
(* know. A copy that is called latest is the object (Cached, Held); a Disk *)
(* is only called mounted under the finalizer (Finalized); and a finalizer *)
(* is only added to what the cache shows as alive, so that a cache which   *)
(* still shows a deletion proves that the new Disk is not taken yet        *)
(* (Untaken).                                                              *)
(*                                                                         *)
(* That the module implements DiskContract needs what the agent's log      *)
(* remembers as well: whoever calls a Disk mounted, a status, a copy, a    *)
(* report or a blocked worker, does so after its mount was asked for       *)
(* (Claims, ClaimsFounded), and a worker asks only for a Disk that is      *)
(* kept, or deleted behind its back (CallsFounded).                        *)
(***************************************************************************)
EXTENDS DiskLifecycle, TLAPS

Objects == DiskObjects \cup {NoDisk}
Kinds   == {"mount", "unmount"}
Workers == [pc : {"idle", "mounting", "unmounting"}, disk : Disks \cup {"none"},
            copy : Objects, current : BOOLEAN, posted : BOOLEAN, answered : BOOLEAN]

(* The API server, the caches and the worker.                              *)
ObjectsTyped ==
    /\ disk \in [Disks -> Objects]
    /\ view \in [Disks -> Objects]
    /\ fresh \in [Disks -> BOOLEAN]
    /\ worker \in Workers
    /\ reportView \in [Disks -> Reports \cup {NoReport}]

(* The host and its agent.                                                 *)
HostTyped ==
    /\ health \in [Disks -> Healths]
    /\ report \in [Disks -> Reports \cup {NoReport}]
    /\ mounted \subseteq Disks

Cached == \A d \in Disks : fresh[d] => view[d] = disk[d]

Held == worker.pc # "idle" =>
           /\ worker.disk \in Disks
           /\ worker.current => worker.copy = disk[worker.disk]
           /\ worker.pc = "mounting" => worker.copy.fin

Finalized == \A d \in Disks : disk[d].mounted => disk[d].fin

Untaken == \A d \in Disks : view[d].deleting /\ disk[d].fin => disk[d].deleting

Logged ==
    /\ log \in [Disks -> Seq(Kinds)]
    /\ nextOp \in [Disks -> Nat]
    /\ \A d \in Disks :
          /\ nextOp[d] \in 1..(Len(log[d]) + 1)
          /\ \A i \in 1..(Len(log[d]) - 1) : log[d][i] # log[d][i + 1]

IInv == ObjectsTyped /\ HostTyped /\ Cached /\ Held /\ Finalized /\ Untaken /\ Logged

(* What the objects' part of the invariant is about.                       *)
Copies == ObjectsTyped /\ Cached /\ Held /\ Finalized /\ Untaken

copyVars == <<objectVars, worker, reportView>>

-----------------------------------------------------------------------------
(* The objects.                                                            *)

LEMMA ObjectFields ==
    ASSUME NEW o \in Objects
    PROVE  /\ o.fin \in BOOLEAN /\ o.deleting \in BOOLEAN /\ o.mounted \in BOOLEAN
           /\ o # NoDisk => o \in DiskObjects
           /\ o.fin \/ o.deleting \/ o.mounted => o # NoDisk
<1>1. ~NoDisk.fin /\ ~NoDisk.deleting /\ ~NoDisk.mounted
    BY DEF NoDisk
<1>2. o.fin \in BOOLEAN /\ o.deleting \in BOOLEAN /\ o.mounted \in BOOLEAN
    <2>1. CASE o \in DiskObjects
        BY <2>1 DEF DiskObjects
    <2>2. CASE o = NoDisk
        BY <2>2 DEF NoDisk
    <2> QED BY <2>1, <2>2 DEF Objects
<1>3. o # NoDisk => o \in DiskObjects
    BY DEF Objects
<1>4. o.fin \/ o.deleting \/ o.mounted => o # NoDisk
    BY <1>1, Zenon
<1> QED BY <1>2, <1>3, <1>4

LEMMA ObjectsKnown ==
    /\ NoDisk \in Objects /\ NewDisk \in Objects
    /\ ~NoDisk.fin /\ ~NoDisk.deleting /\ ~NoDisk.mounted
    /\ ~NewDisk.fin /\ ~NewDisk.deleting /\ ~NewDisk.mounted
    BY DEF Objects, DiskObjects, NoDisk, NewDisk, Phases

LEMMA PhaseKnown ==
    ASSUME NEW s PROVE ComputePhase(s) \in Phases
    BY DEF ComputePhase, Phases

(* A status changes neither the finalizer nor the deletion.                *)
LEMMA StatusKeeps ==
    ASSUME NEW o \in DiskObjects, NEW p \in Phases, NEW m \in BOOLEAN
    PROVE  /\ Status(o, p, m) \in DiskObjects
           /\ Status(o, p, m).fin = o.fin
           /\ Status(o, p, m).deleting = o.deleting
           /\ Status(o, p, m).mounted = m
           /\ Status(o, p, m) # NoDisk
    BY DEF DiskObjects, Status, NoDisk, Phases

LEMMA ReportedMount ==
    ASSUME ObjectsTyped, NEW d \in Disks
    PROVE  AgentStatus(d).mounted \in BOOLEAN
    BY DEF ObjectsTyped, AgentStatus, Reports, NoReport

LEMMA IdleTyped == Idle \in Workers /\ Idle.pc = "idle"
    BY DEF Idle, Workers, Objects

(* Whoever writes an object that is finalized when it is mounted, and that *)
(* is not newly taken under the cache's eyes, keeps the copies in order,   *)
(* if the worker is not in a call afterwards.                              *)
LEMMA WriteKeepsCopies ==
    ASSUME Copies, NEW d \in Disks, NEW object \in Objects, NEW current,
           Write(d, object, current),
           worker' \in Workers, worker'.pc = "idle",
           current => /\ object.mounted => object.fin
                      /\ view[d].deleting /\ object.fin => object.deleting
    PROVE  Copies'
<1>1. CASE current
    <2>1. /\ disk' = [disk EXCEPT ![d] = object]
          /\ fresh' = [fresh EXCEPT ![d] = FALSE]
          /\ UNCHANGED <<view, reportView>>
        BY <1>1 DEF Write
    <2>2. ObjectsTyped'
        BY <2>1 DEF Copies, ObjectsTyped
    <2>3. Cached'
        BY <2>1 DEF Copies, ObjectsTyped, Cached
    <2>4. Held'
        BY DEF Held
    <2>5. Finalized'
        BY <1>1, <2>1 DEF Copies, ObjectsTyped, Finalized
    <2>6. Untaken'
        BY <1>1, <2>1 DEF Copies, ObjectsTyped, Untaken
    <2> QED BY <2>2, <2>3, <2>4, <2>5, <2>6 DEF Copies
<1>2. CASE ~current
    <2>1. UNCHANGED <<objectVars, reportView>>
        BY <1>2 DEF Write, objectVars
    <2> QED BY <2>1 DEF Copies, ObjectsTyped, Cached, Held, Finalized, Untaken, objectVars
<1> QED BY <1>1, <1>2

(* So does somebody else's write of such an object.                        *)
LEMMA OverwriteKeepsCopies ==
    ASSUME Copies, NEW d \in Disks, NEW object \in Objects,
           Overwrite(d, object),
           object.mounted => object.fin,
           view[d].deleting /\ object.fin => object.deleting
    PROVE  Copies'
<1>1. /\ disk' = [disk EXCEPT ![d] = object]
      /\ fresh' = [fresh EXCEPT ![d] = FALSE]
      /\ UNCHANGED <<view, reportView>>
      /\ worker' = IF worker.disk = d THEN [worker EXCEPT !.current = FALSE] ELSE worker
    BY DEF Overwrite
<1>2. /\ worker' \in Workers /\ worker'.pc = worker.pc /\ worker'.disk = worker.disk
      /\ worker'.copy = worker.copy
      /\ worker'.current => worker.current /\ worker.disk # d
    <2>1. CASE worker.disk = d
        BY <1>1, <2>1 DEF Copies, ObjectsTyped, Workers
    <2>2. CASE worker.disk # d
        BY <1>1, <2>2 DEF Copies, ObjectsTyped
    <2> QED BY <2>1, <2>2
<1>3. ObjectsTyped'
    BY <1>1, <1>2 DEF Copies, ObjectsTyped
<1>4. Cached'
    BY <1>1 DEF Copies, ObjectsTyped, Cached
<1>5. Held'
    BY <1>1, <1>2 DEF Copies, ObjectsTyped, Held
<1>6. Finalized'
    BY <1>1 DEF Copies, ObjectsTyped, Finalized
<1>7. Untaken'
    BY <1>1 DEF Copies, ObjectsTyped, Untaken
<1> QED BY <1>3, <1>4, <1>5, <1>6, <1>7 DEF Copies

(* A worker that starts a call takes the cached object with it.            *)
LEMMA CallKeepsCopies ==
    ASSUME Copies, NEW d \in Disks, NEW kind, NEW pc \in {"mounting", "unmounting"},
           CallAgent(d, kind, pc),
           pc = "mounting" => view[d].fin
    PROVE  Copies'
<1>1. PICK posted \in BOOLEAN :
          worker' = [pc |-> pc, disk |-> d, copy |-> view[d], current |-> fresh[d],
                     posted |-> posted, answered |-> FALSE]
    BY DEF CallAgent
<1>2. UNCHANGED <<disk, view, fresh, reportView>>
    BY DEF CallAgent, objectVars
<1>3. worker' \in Workers
    BY <1>1 DEF Copies, ObjectsTyped, Workers
<1>4. Held'
    BY <1>1, <1>2 DEF Copies, ObjectsTyped, Cached, Held
<1> QED BY <1>2, <1>3, <1>4 DEF Copies, ObjectsTyped, Cached, Finalized, Untaken

-----------------------------------------------------------------------------
(* The operations posted.                                                  *)

LEMMA PostedKeepsLog ==
    ASSUME Logged, NEW d \in Disks, NEW kind \in Kinds, Posted(d, kind)
    PROVE  Logged'
<1> DEFINE l == log[d]
<1>0. l \in Seq(Kinds) /\ Len(l) \in Nat /\ nextOp[d] \in 1..(Len(l) + 1)
    BY DEF Logged
<1>1. CASE l # <<>> /\ l[Len(l)] = kind
    <2>1. /\ UNCHANGED log
          /\ nextOp' = [nextOp EXCEPT ![d] = IF @ > Len(l) THEN Len(l) ELSE @]
        BY <1>1 DEF Posted
    <2>2. Len(l) >= 1
        BY <1>0, <1>1
    <2>3. nextOp' \in [Disks -> Nat] /\ nextOp'[d] \in 1..(Len(l) + 1)
          /\ \A e \in Disks \ {d} : nextOp'[e] = nextOp[e]
        BY <1>0, <2>1, <2>2 DEF Logged
    <2>4. ASSUME NEW e \in Disks PROVE nextOp'[e] \in 1..(Len(log'[e]) + 1)
        BY <2>1, <2>3 DEF Logged
    <2> QED BY <2>1, <2>3, <2>4 DEF Logged
<1>2. CASE ~(l # <<>> /\ l[Len(l)] = kind)
    <2>1. log' = [log EXCEPT ![d] = Append(l, kind)] /\ UNCHANGED nextOp
        BY <1>2 DEF Posted
    <2>2. /\ log'[d] = Append(l, kind) /\ Append(l, kind) \in Seq(Kinds)
          /\ Len(log'[d]) = Len(l) + 1
          /\ \A i \in 1..Len(l) : log'[d][i] = l[i]
          /\ log'[d][Len(l) + 1] = kind
        BY <1>0, <2>1 DEF Logged
    <2>3. \A e \in Disks \ {d} : log'[e] = log[e]
        BY <2>1 DEF Logged
    <2>4. log' \in [Disks -> Seq(Kinds)]
        BY <2>1, <2>2 DEF Logged
    <2>5. ASSUME NEW e \in Disks
          PROVE  /\ nextOp[e] \in 1..(Len(log'[e]) + 1)
                 /\ \A i \in 1..(Len(log'[e]) - 1) : log'[e][i] # log'[e][i + 1]
        <3>1. CASE e # d
            BY <2>3, <3>1 DEF Logged
        <3>2. CASE e = d
            <4>1. nextOp[d] \in 1..(Len(log'[d]) + 1)
                BY <1>0, <2>2
            <4>2. ASSUME NEW i \in 1..Len(l) PROVE log'[d][i] # log'[d][i + 1]
                <5>1. CASE i < Len(l)
                    <6>1. i \in 1..(Len(l) - 1) /\ i + 1 \in 1..Len(l)
                        BY <1>0, <5>1
                    <6>2. l[i] # l[i + 1]
                        BY <6>1 DEF Logged
                    <6> QED BY <2>2, <6>1, <6>2
                <5>2. CASE i = Len(l)
                    <6>1. l # <<>> /\ l[Len(l)] # kind
                        BY <1>0, <1>2, <5>2
                    <6> QED BY <1>0, <2>2, <5>2, <6>1
                <5> QED BY <1>0, <5>1, <5>2
            <4>3. Len(log'[d]) - 1 = Len(l)
                BY <1>0, <2>2
            <4> QED BY <3>2, <4>1, <4>2, <4>3
        <3> QED BY <3>1, <3>2
    <2> QED BY <2>1, <2>4, <2>5 DEF Logged
<1> QED BY <1>1, <1>2

LEMMA CallKeepsLog ==
    ASSUME Logged, NEW d \in Disks, NEW kind \in Kinds, NEW pc, CallAgent(d, kind, pc)
    PROVE  Logged'
<1>1. Posted(d, kind) \/ UNCHANGED <<log, nextOp>>
    BY DEF CallAgent
<1>2. CASE Posted(d, kind)
    BY <1>2, PostedKeepsLog
<1>3. CASE UNCHANGED <<log, nextOp>>
    BY <1>3 DEF Logged
<1> QED BY <1>1, <1>2, <1>3

(* Whatever an operation does, it touches only the path it is about.       *)
LEMMA OutcomeMounts ==
    ASSUME NEW d \in Disks, NEW k \in Kinds, mounted \subseteq Disks,
           NEW o \in Outcomes([kind |-> k, target |-> d], mounted)
    PROVE  o.mounted \subseteq Disks
<1>1. CASE k = "mount"
    BY <1>1 DEF Outcomes, MountDevice, Ok, Fail
<1>2. CASE k = "unmount"
    BY <1>2 DEF Outcomes, UnmountDevice, Ok, Fail
<1> QED BY <1>1, <1>2 DEF Kinds

-----------------------------------------------------------------------------
(* The invariant.                                                          *)

LEMMA InitInv == Init => IInv
<1> SUFFICES ASSUME Init PROVE IInv
    OBVIOUS
<1>1. ObjectsTyped
    BY ObjectsKnown, IdleTyped DEF Init, ObjectsTyped
<1>2. HostTyped
    BY DEF Init, HostTyped, Healths
<1>3. Cached /\ Held /\ Finalized /\ Untaken
    BY ObjectsKnown, IdleTyped DEF Init, Cached, Held, Finalized, Untaken
<1>4. Logged
    <2>1. log \in [Disks -> Seq(Kinds)] /\ nextOp \in [Disks -> Nat]
        BY DEF Init
    <2>2. ASSUME NEW d \in Disks PROVE Len(log[d]) = 0 /\ nextOp[d] = 1
        BY DEF Init
    <2> QED BY <2>1, <2>2 DEF Logged
<1> QED BY <1>1, <1>2, <1>3, <1>4 DEF IInv

LEMMA CopiesUnchanged ==
    ASSUME Copies, UNCHANGED copyVars PROVE Copies'
    BY DEF Copies, ObjectsTyped, Cached, Held, Finalized, Untaken, copyVars, objectVars

LEMMA OverwritesKeepCopies ==
    ASSUME Copies, NEW d \in Disks,
           CreateDisk(d) \/ EditDisk(d) \/ DeleteDisk(d)
    PROVE  Copies'
<1>0. disk[d] \in Objects /\ view[d] \in Objects
    BY DEF Copies, ObjectsTyped
<1>1. CASE CreateDisk(d)
    BY <1>1, ObjectsKnown, OverwriteKeepsCopies DEF CreateDisk
<1>2. CASE EditDisk(d)
    BY <1>0, <1>2, OverwriteKeepsCopies DEF EditDisk, Copies, Finalized, Untaken
<1>3. CASE DeleteDisk(d) /\ disk[d].fin
    <2> DEFINE object == [disk[d] EXCEPT !.deleting = TRUE]
    <2>1. Overwrite(d, object)
        BY <1>3 DEF DeleteDisk
    <2>2. disk[d] \in DiskObjects
        BY <1>0, <1>3, ObjectFields
    <2>3. object \in DiskObjects /\ object.fin = disk[d].fin /\ object.deleting
        BY <2>2 DEF DiskObjects
    <2> HIDE DEF object
    <2> QED BY <1>3, <2>1, <2>3, OverwriteKeepsCopies DEF Objects
<1>4. CASE DeleteDisk(d) /\ ~disk[d].fin
    BY <1>4, ObjectsKnown, OverwriteKeepsCopies DEF DeleteDisk
<1> QED BY <1>1, <1>2, <1>3, <1>4

LEMMA ReconcileKeepsCopies ==
    ASSUME Copies, NEW d \in Disks, Reconcile(d)
    PROVE  Copies'
<1>0. /\ disk[d] \in Objects /\ view[d] \in Objects /\ worker \in Workers
      /\ fresh[d] => view[d] = disk[d]
    BY DEF Copies, ObjectsTyped, Cached
<1>1. CASE AddFinalizer(d)
    <2> DEFINE object == [view[d] EXCEPT !.fin = TRUE]
    <2>1. /\ Write(d, object, fresh[d]) /\ UNCHANGED worker /\ worker.pc = "idle"
          /\ view[d] # NoDisk /\ ~view[d].deleting
        BY <1>1 DEF AddFinalizer
    <2>2. object \in Objects /\ object.fin
        BY <1>0, <2>1, ObjectFields DEF Objects, DiskObjects
    <2> HIDE DEF object
    <2> QED BY <1>0, <2>1, <2>2, WriteKeepsCopies
<1>2. CASE ReportStatus(d)
    <2> DEFINE p == ComputePhase(AgentStatus(d))
               m == AgentStatus(d).mounted
               object == Status(view[d], p, m)
    <2>1. /\ Write(d, object, fresh[d]) /\ UNCHANGED worker /\ worker.pc = "idle"
          /\ view[d] # NoDisk /\ ~view[d].deleting /\ view[d].fin
        BY <1>2 DEF ReportStatus, Managed
    <2>2. view[d] \in DiskObjects /\ p \in Phases /\ m \in BOOLEAN
        BY <1>0, <2>1, ObjectFields, PhaseKnown, ReportedMount DEF Copies
    <2> HIDE DEF p, m
    <2>3. object \in Objects /\ object.fin
        BY <2>1, <2>2, StatusKeeps DEF Objects
    <2> HIDE DEF object
    <2> QED BY <1>0, <2>1, <2>3, WriteKeepsCopies
<1>3. CASE PostMount(d)
    BY <1>3, CallKeepsCopies DEF PostMount, Managed
<1>4. CASE PostUnmount(d)
    BY <1>4, CallKeepsCopies DEF PostUnmount
<1>5. CASE RemoveFinalizer(d)
    <2>1. Write(d, NoDisk, fresh[d]) /\ UNCHANGED worker /\ worker.pc = "idle"
        BY <1>5 DEF RemoveFinalizer
    <2> QED BY <1>0, <2>1, ObjectsKnown, WriteKeepsCopies
<1> QED BY <1>1, <1>2, <1>3, <1>4, <1>5 DEF Reconcile

LEMMA FinishKeepsCopies ==
    ASSUME Copies, Finish
    PROVE  Copies'
<1> DEFINE d == worker.disk
           copy == worker.copy
<1>0. /\ d \in Disks /\ copy \in Objects /\ view[d] \in Objects
      /\ worker.current => copy = disk[d]
      /\ worker' = Idle
    BY DEF Finish, FinishMount, FinishUnmount, Copies, ObjectsTyped, Held, Workers
<1>1. CASE FinishMount
    <2>1. copy.fin
        BY <1>1 DEF FinishMount, Copies, Held
    <2>2. copy \in DiskObjects
        BY <1>0, <2>1, ObjectFields
    <2>3. PICK p \in Phases, m \in BOOLEAN : Write(d, Status(copy, p, m), worker.current)
        BY <1>1 DEF FinishMount, Phases
    <2> DEFINE object == Status(copy, p, m)
    <2>4. object \in Objects /\ object.fin /\ object.deleting = copy.deleting
        BY <2>1, <2>2, StatusKeeps DEF Objects
    <2>5. worker.current /\ view[d].deleting => object.deleting
        BY <1>0, <2>1, <2>4 DEF Copies, Untaken
    <2>6. Write(d, object, worker.current)
        BY <2>3
    <2> HIDE DEF object
    <2> QED BY <1>0, <2>4, <2>5, <2>6, IdleTyped, WriteKeepsCopies
<1>2. CASE FinishUnmount
    <2>1. Write(d, NoDisk, worker.current)
        BY <1>2 DEF FinishUnmount
    <2> QED BY <1>0, <2>1, IdleTyped, ObjectsKnown, WriteKeepsCopies
<1> QED BY <1>1, <1>2 DEF Finish

LEMMA PerformKeeps ==
    ASSUME IInv, NEW d \in Disks, Perform(d)
    PROVE  IInv'
<1>1. /\ nextOp[d] \in 1..(Len(log[d]) + 1) /\ nextOp[d] <= Len(log[d])
      /\ log[d] \in Seq(Kinds) /\ mounted \subseteq Disks
    BY DEF IInv, Logged, HostTyped, Perform
<1>2. log[d][nextOp[d]] \in Kinds
    BY <1>1
<1>3. /\ nextOp' = [nextOp EXCEPT ![d] = @ + 1]
      /\ UNCHANGED <<disk, view, fresh, health, report, reportView, log>>
    BY DEF Perform, objectVars
<1>4. mounted' \subseteq Disks
    BY <1>1, <1>2, OutcomeMounts DEF Perform
<1>5. worker' = worker \/ worker' = [worker EXCEPT !.answered = TRUE]
    BY DEF Perform
<1>6. /\ worker' \in Workers /\ worker'.pc = worker.pc /\ worker'.disk = worker.disk
      /\ worker'.copy = worker.copy /\ worker'.current = worker.current
    BY <1>5 DEF IInv, ObjectsTyped, Workers
<1>7. ObjectsTyped' /\ HostTyped' /\ Cached' /\ Finalized' /\ Untaken'
    BY <1>3, <1>4, <1>6 DEF IInv, ObjectsTyped, HostTyped, Cached, Finalized, Untaken
<1>8. Held'
    BY <1>3, <1>6 DEF IInv, Held
<1>9. Logged'
    BY <1>1, <1>3 DEF IInv, Logged
<1> QED BY <1>7, <1>8, <1>9 DEF IInv

LEMMA StepInv == IInv /\ [Next]_vars => IInv'
<1> SUFFICES ASSUME IInv, [Next]_vars PROVE IInv'
    OBVIOUS
<1>0. Copies /\ HostTyped /\ Logged
    BY DEF IInv, Copies
<1>1. CASE \E d \in Disks : CreateDisk(d) \/ EditDisk(d) \/ DeleteDisk(d)
    <2>1. Copies'
        BY <1>0, <1>1, OverwritesKeepCopies
    <2>2. UNCHANGED <<health, agentVars>>
        BY <1>1 DEF CreateDisk, EditDisk, DeleteDisk, Overwrite
    <2> QED BY <1>0, <2>1, <2>2 DEF IInv, Copies, HostTyped, Logged, agentVars
<1>2. CASE \E d \in Disks : HealthChanges(d)
    <2>1. health' \in [Disks -> Healths] /\ UNCHANGED <<copyVars, agentVars>>
        BY <1>0, <1>2 DEF HealthChanges, HostTyped, copyVars
    <2> QED BY <1>0, <2>1, CopiesUnchanged DEF IInv, Copies, HostTyped, Logged, agentVars
<1>3. CASE \E d \in Disks : Perform(d)
    BY <1>3, PerformKeeps
<1>4. CASE \E d \in Disks : SyncDisk(d)
    <2>1. PICK d \in Disks : SyncDisk(d)
        BY <1>4
    <2>2. /\ view' = [view EXCEPT ![d] = disk[d]] /\ fresh' = [fresh EXCEPT ![d] = TRUE]
          /\ UNCHANGED <<disk, worker, reportView>>
        BY <2>1 DEF SyncDisk
    <2>3. ObjectsTyped' /\ Cached' /\ Held' /\ Finalized' /\ Untaken'
        BY <1>0, <2>2 DEF Copies, ObjectsTyped, Cached, Held, Finalized, Untaken
    <2>4. UNCHANGED <<health, agentVars>>
        BY <2>1 DEF SyncDisk
    <2> QED BY <1>0, <2>3, <2>4 DEF IInv, HostTyped, Logged, agentVars
<1>5. CASE \E d \in Disks : SyncReport(d)
    <2>1. reportView' \in [Disks -> Reports \cup {NoReport}]
        BY <1>0, <1>5 DEF SyncReport, Copies, ObjectsTyped, HostTyped
    <2>2. UNCHANGED <<objectVars, worker, health, agentVars>>
        BY <1>5 DEF SyncReport
    <2> QED BY <1>0, <2>1, <2>2 DEF IInv, Copies, ObjectsTyped, Cached, Held, Finalized,
               Untaken, HostTyped, Logged, objectVars, agentVars
<1>6. CASE \E d \in Disks : Reconcile(d)
    <2>1. PICK d \in Disks : Reconcile(d)
        BY <1>6
    <2>2. Copies'
        BY <1>0, <2>1, ReconcileKeepsCopies
    <2>3. UNCHANGED <<health, report, mounted>>
        BY <2>1 DEF Reconcile, AddFinalizer, ReportStatus, PostMount, PostUnmount,
                    RemoveFinalizer, Write, CallAgent, agentVars
    <2>4. Logged'
        <3>1. CASE AddFinalizer(d) \/ ReportStatus(d) \/ RemoveFinalizer(d)
            BY <1>0, <3>1 DEF AddFinalizer, ReportStatus, RemoveFinalizer, Write,
                              agentVars, Logged
        <3>2. CASE PostMount(d) \/ PostUnmount(d)
            BY <1>0, <3>2, CallKeepsLog DEF PostMount, PostUnmount, Kinds
        <3> QED BY <2>1, <3>1, <3>2 DEF Reconcile
    <2> QED BY <1>0, <2>2, <2>3, <2>4 DEF IInv, Copies, HostTyped
<1>7. CASE Finish
    <2>1. Copies'
        BY <1>0, <1>7, FinishKeepsCopies
    <2>2. UNCHANGED <<health, agentVars>>
        BY <1>7 DEF Finish, FinishMount, FinishUnmount, Write
    <2> QED BY <1>0, <2>1, <2>2 DEF IInv, Copies, HostTyped, Logged, agentVars
<1>8. CASE Discover
    <2>1. /\ report' = [d \in Disks |-> Actual(d)]
          /\ UNCHANGED <<copyVars, health, log, nextOp, mounted>>
        BY <1>8 DEF Discover, copyVars
    <2>2. ASSUME NEW d \in Disks PROVE Actual(d) \in Reports \cup {NoReport}
        BY <1>0 DEF Actual, HostTyped, Reports
    <2>3. report' \in [Disks -> Reports \cup {NoReport}]
        BY <2>1, <2>2
    <2> QED BY <1>0, <2>1, <2>3, CopiesUnchanged DEF IInv, Copies, HostTyped, Logged
<1>9. CASE AgentRestart
    <2>1. /\ nextOp' = [d \in Disks |-> 1] /\ mounted' \subseteq Disks
          /\ UNCHANGED <<copyVars, health, report, log>>
        BY <1>0, <1>9 DEF AgentRestart, HostTyped, copyVars
    <2>2. \A d \in Disks : Len(log[d]) \in Nat
        BY <1>0 DEF Logged
    <2>3. Logged'
        BY <1>0, <2>1, <2>2 DEF Logged
    <2> QED BY <1>0, <2>1, <2>3, CopiesUnchanged DEF IInv, Copies, HostTyped
<1>10. CASE OperatorRestart
    <2>1. /\ worker' = Idle /\ view' = disk /\ fresh' = [d \in Disks |-> TRUE]
          /\ reportView' = report /\ UNCHANGED <<disk, health, agentVars>>
        BY <1>10 DEF OperatorRestart
    <2>2. ObjectsTyped' /\ Cached' /\ Held' /\ Finalized' /\ Untaken'
        BY <1>0, <2>1, IdleTyped
        DEF Copies, ObjectsTyped, HostTyped, Cached, Held, Finalized, Untaken
    <2> QED BY <1>0, <2>1, <2>2 DEF IInv, HostTyped, Logged, agentVars
<1>11. CASE UNCHANGED vars
    BY <1>0, <1>11, CopiesUnchanged
    DEF IInv, Copies, HostTyped, Logged, vars, copyVars, agentVars
<1> QED BY <1>1, <1>2, <1>3, <1>4, <1>5, <1>6, <1>7, <1>8, <1>9, <1>10, <1>11 DEF Next

(* The strengthened invariant: what the cache and the blocked worker hold. *)
THEOREM Invariance == Spec => []IInv
    BY InitInv, StepInv, PTL DEF Spec

(* The type invariant of DiskLifecycle, with the alternating operation log *)
(* of every disk (DiskReconciler, runOperationLoop).                       *)
THEOREM TypeCorrect == Spec => []TypeOK
<1>1. IInv => TypeOK
    BY DEF IInv, TypeOK, ObjectsTyped, HostTyped, Held, Logged, Objects, Workers
<1> QED BY <1>1, Invariance, PTL

-----------------------------------------------------------------------------
(* The safety properties.                                                  *)

LEMMA UnmountedFirst ==
    ASSUME IInv, [Next]_vars, NEW d \in Disks, disk[d].mounted, disk'[d] = NoDisk
    PROVE  worker.pc = "unmounting" /\ worker.disk = d
<1>0. /\ disk \in [Disks -> Objects] /\ view \in [Disks -> Objects]
      /\ disk[d].fin /\ disk[d] # NoDisk
    BY ObjectFields DEF IInv, ObjectsTyped, Finalized
<1>1. disk' # disk
    BY <1>0
<1>2. CASE \E e \in Disks : CreateDisk(e) \/ EditDisk(e) \/ DeleteDisk(e)
    <2>1. PICK e \in Disks : CreateDisk(e) \/ EditDisk(e) \/ DeleteDisk(e)
        BY <1>2
    <2>2. CASE CreateDisk(e)
        BY <1>0, <2>2, ObjectsKnown DEF CreateDisk, Overwrite, NewDisk, NoDisk
    <2>3. CASE EditDisk(e)
        BY <1>0, <2>3 DEF EditDisk, Overwrite
    <2>4. CASE DeleteDisk(e)
        <3>1. e = d
            BY <1>0, <2>4 DEF DeleteDisk, Overwrite
        <3>2. disk'[d] = [disk[d] EXCEPT !.deleting = TRUE]
            BY <1>0, <2>4, <3>1 DEF DeleteDisk, Overwrite
        <3>3. disk[d] \in DiskObjects
            BY <1>0, ObjectFields
        <3> QED BY <3>2, <3>3 DEF DiskObjects, NoDisk
    <2> QED BY <2>1, <2>2, <2>3, <2>4
<1>3. CASE \E e \in Disks : Reconcile(e)
    <2>1. PICK e \in Disks : Reconcile(e)
        BY <1>3
    <2>2. view[e] \in Objects
        BY <1>0
    <2>3. fresh[e] => view[e] = disk[e]
        BY DEF IInv, Cached
    <2>4. CASE AddFinalizer(e)
        <3>1. view[e] \in DiskObjects
            BY <2>2, <2>4, ObjectFields DEF AddFinalizer
        <3>2. [view[e] EXCEPT !.fin = TRUE] # NoDisk
            BY <3>1 DEF DiskObjects, NoDisk
        <3> QED BY <1>0, <2>4, <3>2 DEF AddFinalizer, Write
    <2>5. CASE ReportStatus(e)
        <3>1. view[e] \in DiskObjects
            BY <2>2, <2>5, ObjectFields DEF ReportStatus, Managed
        <3>2. Status(view[e], ComputePhase(AgentStatus(e)), AgentStatus(e).mounted) # NoDisk
            BY <3>1, PhaseKnown, ReportedMount, StatusKeeps DEF IInv
        <3> QED BY <1>0, <2>5, <3>2 DEF ReportStatus, Write
    <2>6. CASE PostMount(e) \/ PostUnmount(e)
        BY <1>1, <2>6 DEF PostMount, PostUnmount, CallAgent, objectVars
    <2>7. CASE RemoveFinalizer(e)
        BY <1>0, <2>3, <2>7 DEF RemoveFinalizer, Write
    <2> QED BY <2>1, <2>4, <2>5, <2>6, <2>7 DEF Reconcile
<1>4. CASE FinishMount
    <2>1. /\ worker.disk \in Disks /\ worker.copy.fin /\ worker.copy \in Objects
        BY <1>4 DEF FinishMount, IInv, Held, ObjectsTyped, Workers
    <2>2. worker.copy \in DiskObjects
        BY <2>1, ObjectFields
    <2>3. PICK p \in Phases, m \in BOOLEAN :
              Write(worker.disk, Status(worker.copy, p, m), worker.current)
        BY <1>4 DEF FinishMount, Phases
    <2>4. Status(worker.copy, p, m) # NoDisk
        BY <2>2, StatusKeeps
    <2> QED BY <1>0, <2>1, <2>3, <2>4 DEF Write
<1>5. CASE FinishUnmount
    BY <1>0, <1>5 DEF FinishUnmount, Write
<1>6. CASE Discover \/ AgentRestart \/ OperatorRestart \/ UNCHANGED vars
    BY <1>1, <1>6 DEF Discover, AgentRestart, OperatorRestart, vars, objectVars
<1>7. CASE \E e \in Disks : HealthChanges(e) \/ Perform(e) \/ SyncDisk(e) \/ SyncReport(e)
    BY <1>1, <1>7 DEF HealthChanges, Perform, SyncDisk, SyncReport, objectVars
<1> QED BY <1>2, <1>3, <1>4, <1>5, <1>6, <1>7 DEF Next, Finish

(* A Disk that its status calls mounted only disappears out of an attempt  *)
(* to unmount it (reconcileDelete).                                        *)
THEOREM ProtectionCorrect == Spec => ProtectedUntilUnmount
<1>1. IInv /\ [Next]_vars =>
         [\A d \in Disks : disk[d].mounted /\ disk'[d] = NoDisk
             => worker.pc = "unmounting" /\ worker.disk = d]_vars
    BY UnmountedFirst
<1> QED BY <1>1, Invariance, PTL DEF Spec, ProtectedUntilUnmount

(* The agent is never asked to unmount a Disk taken under the finalizer    *)
(* that nobody has asked to delete (reconcileDelete).                      *)
THEOREM InUseCorrect == Spec => NoUnmountInUse
<1>1. IInv => [\A d \in Disks : PostUnmount(d) => ~(Live(disk[d]) /\ disk[d].fin)]_vars
    BY DEF IInv, Untaken, PostUnmount, Live
<1> QED BY <1>1, Invariance, PTL DEF NoUnmountInUse

-----------------------------------------------------------------------------
(* DiskLifecycle implements DiskContract. Beside IInv the mapping needs    *)
(* what the cache and a call prove about the Disk as it is now: that one   *)
(* shown as kept has its finalizer (Kept), that only a finalizer delays a  *)
(* deletion (Delayed), and which Disks are mounted and unmounted (Calling);*)
(* and that whoever says that a Disk is mounted says so because its mount  *)
(* was asked for (ClaimsFounded).                                          *)

Kept == \A d \in Disks : Live(view[d]) /\ view[d].fin => disk[d].fin

Delayed == \A d \in Disks : disk[d].deleting => disk[d].fin

Calling ==
    /\ worker.pc = "mounting" => ~worker.copy.deleting
    /\ worker.pc = "unmounting" =>
          worker.copy.deleting /\ (worker.current => view[worker.disk].deleting)

Claims(d) ==
    \/ disk[d].mounted \/ view[d].mounted
    \/ report[d].mounted \/ reportView[d].mounted
    \/ d \in mounted
    \/ worker.pc = "mounting" /\ worker.disk = d /\ (worker.posted \/ worker.answered)

ClaimsFounded == \A d \in Disks : Claims(d) => "mount" \in Asked(d)

CallsFounded == Kept /\ Delayed /\ Calling

PInv == IInv /\ CallsFounded /\ ClaimsFounded

-----------------------------------------------------------------------------
(* What the cache and a call prove.                                        *)

LEMMA WriteKeepsCalls ==
    ASSUME Copies, CallsFounded, NEW d \in Disks, NEW object \in Objects, NEW current,
           Write(d, object, current), worker'.pc = "idle",
           current => /\ Live(view[d]) /\ view[d].fin => object.fin
                      /\ object.deleting => object.fin
    PROVE  CallsFounded'
<1>1. view' = view /\ (disk' = disk \/ (current /\ disk' = [disk EXCEPT ![d] = object]))
    BY DEF Write
<1>2. Kept' /\ Delayed'
    BY <1>1 DEF Copies, ObjectsTyped, CallsFounded, Kept, Delayed, Live
<1> QED BY <1>2 DEF CallsFounded, Calling

LEMMA OverwriteKeepsCalls ==
    ASSUME Copies, CallsFounded, NEW d \in Disks, NEW object \in Objects,
           Overwrite(d, object),
           Live(view[d]) /\ view[d].fin => object.fin,
           object.deleting => object.fin
    PROVE  CallsFounded'
<1>1. /\ disk' = [disk EXCEPT ![d] = object] /\ view' = view
      /\ worker' = IF worker.disk = d THEN [worker EXCEPT !.current = FALSE] ELSE worker
    BY DEF Overwrite
<1>2. Kept' /\ Delayed'
    BY <1>1 DEF Copies, ObjectsTyped, CallsFounded, Kept, Delayed, Live
<1>3. /\ worker'.pc = worker.pc /\ worker'.copy = worker.copy /\ worker'.disk = worker.disk
      /\ worker'.current => worker.current
    BY <1>1 DEF Copies, ObjectsTyped, Workers
<1>4. Calling'
    BY <1>1, <1>3 DEF CallsFounded, Calling
<1> QED BY <1>2, <1>4 DEF CallsFounded

LEMMA CallKeepsCalls ==
    ASSUME CallsFounded, NEW d \in Disks, NEW kind, NEW pc \in {"mounting", "unmounting"},
           CallAgent(d, kind, pc), pc = "unmounting" <=> view[d].deleting
    PROVE  CallsFounded'
<1>1. UNCHANGED <<disk, view>> /\ worker'.pc = pc /\ worker'.disk = d /\ worker'.copy = view[d]
    BY DEF CallAgent, objectVars
<1> QED BY <1>1 DEF CallsFounded, Kept, Delayed, Calling, Live

LEMMA ReconcileKeepsCalls ==
    ASSUME Copies, CallsFounded, NEW d \in Disks, Reconcile(d)
    PROVE  CallsFounded'
<1>0. /\ disk[d] \in Objects /\ view[d] \in Objects
      /\ fresh[d] => view[d] = disk[d]
    BY DEF Copies, ObjectsTyped, Cached
<1>1. CASE AddFinalizer(d)
    <2> DEFINE object == [view[d] EXCEPT !.fin = TRUE]
    <2>1. /\ Write(d, object, fresh[d]) /\ UNCHANGED worker /\ worker.pc = "idle"
          /\ view[d] # NoDisk
        BY <1>1 DEF AddFinalizer
    <2>2. object \in Objects /\ object.fin
        BY <1>0, <2>1, ObjectFields DEF Objects, DiskObjects
    <2> HIDE DEF object
    <2> QED BY <2>1, <2>2, WriteKeepsCalls
<1>2. CASE ReportStatus(d)
    <2> DEFINE p == ComputePhase(AgentStatus(d))
               m == AgentStatus(d).mounted
               object == Status(view[d], p, m)
    <2>1. /\ Write(d, object, fresh[d]) /\ UNCHANGED worker /\ worker.pc = "idle"
          /\ view[d] # NoDisk /\ view[d].fin
        BY <1>2 DEF ReportStatus, Managed
    <2>2. view[d] \in DiskObjects /\ p \in Phases /\ m \in BOOLEAN
        BY <1>0, <2>1, ObjectFields, PhaseKnown, ReportedMount DEF Copies
    <2> HIDE DEF p, m
    <2>3. object \in Objects /\ object.fin
        BY <2>1, <2>2, StatusKeeps DEF Objects
    <2> HIDE DEF object
    <2> QED BY <2>1, <2>3, WriteKeepsCalls
<1>3. CASE PostMount(d)
    <2>1. CallAgent(d, "mount", "mounting") /\ ~view[d].deleting
        BY <1>3 DEF PostMount, Managed
    <2> QED BY <2>1, CallKeepsCalls
<1>4. CASE PostUnmount(d)
    <2>1. CallAgent(d, "unmount", "unmounting") /\ view[d].deleting
        BY <1>4 DEF PostUnmount
    <2> QED BY <2>1, CallKeepsCalls
<1>5. CASE RemoveFinalizer(d)
    <2>1. /\ Write(d, NoDisk, fresh[d]) /\ UNCHANGED worker /\ worker.pc = "idle"
          /\ ~Live(view[d])
        BY <1>5 DEF RemoveFinalizer, Live
    <2> QED BY <2>1, ObjectsKnown, WriteKeepsCalls
<1> QED BY <1>1, <1>2, <1>3, <1>4, <1>5 DEF Reconcile

LEMMA FinishKeepsCalls ==
    ASSUME Copies, CallsFounded, Finish
    PROVE  CallsFounded'
<1> DEFINE d == worker.disk
           copy == worker.copy
<1>0. d \in Disks /\ copy \in Objects /\ worker' = Idle
    BY DEF Finish, FinishMount, FinishUnmount, Copies, ObjectsTyped, Held, Workers
<1>1. CASE FinishMount
    <2>1. copy.fin
        BY <1>1 DEF FinishMount, Copies, Held
    <2>2. copy \in DiskObjects
        BY <1>0, <2>1, ObjectFields
    <2>3. PICK p \in Phases, m \in BOOLEAN : Write(d, Status(copy, p, m), worker.current)
        BY <1>1 DEF FinishMount, Phases
    <2> DEFINE object == Status(copy, p, m)
    <2>4. object \in Objects /\ object.fin
        BY <2>1, <2>2, StatusKeeps DEF Objects
    <2>5. Write(d, object, worker.current)
        BY <2>3
    <2> HIDE DEF object
    <2> QED BY <1>0, <2>4, <2>5, IdleTyped, WriteKeepsCalls
<1>2. CASE FinishUnmount
    <2>1. Write(d, NoDisk, worker.current) /\ (worker.current => view[d].deleting)
        BY <1>2 DEF FinishUnmount, CallsFounded, Calling
    <2>2. worker.current => ~Live(view[d])
        BY <2>1 DEF Live
    <2> HIDE DEF d, copy
    <2> QED BY <1>0, <2>1, <2>2, IdleTyped, ObjectsKnown, WriteKeepsCalls
<1> QED BY <1>1, <1>2 DEF Finish

LEMMA CallsFoundedInv ==
    ASSUME IInv, CallsFounded, [Next]_vars
    PROVE  CallsFounded'
<1>0. Copies
    BY DEF IInv, Copies
<1>1. ASSUME NEW d \in Disks, CreateDisk(d) \/ EditDisk(d) \/ DeleteDisk(d)
      PROVE  CallsFounded'
    <2>0. disk[d] \in Objects /\ (Live(view[d]) /\ view[d].fin => disk[d].fin)
          /\ (disk[d].deleting => disk[d].fin)
        BY <1>0 DEF Copies, ObjectsTyped, CallsFounded, Kept, Delayed
    <2>1. CASE CreateDisk(d)
        BY <1>0, <2>0, <2>1, ObjectsKnown, OverwriteKeepsCalls DEF CreateDisk
    <2>2. CASE EditDisk(d)
        BY <1>0, <2>0, <2>2, OverwriteKeepsCalls DEF EditDisk
    <2>3. CASE DeleteDisk(d) /\ disk[d].fin
        <3> DEFINE object == [disk[d] EXCEPT !.deleting = TRUE]
        <3>1. Overwrite(d, object) /\ disk[d] \in DiskObjects
            BY <2>0, <2>3, ObjectFields DEF DeleteDisk
        <3>2. object \in Objects /\ object.fin
            BY <2>3, <3>1 DEF DiskObjects, Objects
        <3> HIDE DEF object
        <3> QED BY <1>0, <3>1, <3>2, OverwriteKeepsCalls
    <2>4. CASE DeleteDisk(d) /\ ~disk[d].fin
        BY <1>0, <2>0, <2>4, ObjectsKnown, OverwriteKeepsCalls DEF DeleteDisk
    <2> QED BY <1>1, <2>1, <2>2, <2>3, <2>4
<1>2. CASE \E d \in Disks : Perform(d)
    <2>1. UNCHANGED <<disk, view>>
          /\ (worker' = worker \/ worker' = [worker EXCEPT !.answered = TRUE])
        BY <1>2 DEF Perform, objectVars
    <2>2. /\ worker'.pc = worker.pc /\ worker'.copy = worker.copy
          /\ worker'.disk = worker.disk /\ worker'.current = worker.current
        BY <1>0, <2>1 DEF Copies, ObjectsTyped, Workers
    <2> QED BY <2>1, <2>2 DEF CallsFounded, Kept, Delayed, Calling, Live
<1>3. CASE \E d \in Disks : SyncDisk(d)
    <2>1. PICK d \in Disks : view' = [view EXCEPT ![d] = disk[d]] /\ UNCHANGED <<disk, worker>>
        BY <1>3 DEF SyncDisk
    <2>2. Kept' /\ Delayed'
        BY <1>0, <2>1 DEF Copies, ObjectsTyped, CallsFounded, Kept, Delayed, Live
    <2>3. Calling'
        BY <1>0, <2>1 DEF Copies, ObjectsTyped, Held, CallsFounded, Calling
    <2> QED BY <2>2, <2>3 DEF CallsFounded
<1>4. CASE OperatorRestart
    BY <1>4, IdleTyped DEF OperatorRestart, CallsFounded, Kept, Delayed, Calling, Live
<1>5. CASE \/ \E d \in Disks : HealthChanges(d) \/ SyncReport(d)
           \/ Discover \/ AgentRestart \/ UNCHANGED vars
    <2>1. UNCHANGED <<disk, view, worker>>
        BY <1>5 DEF HealthChanges, SyncReport, Discover, AgentRestart, vars, objectVars
    <2> QED BY <2>1 DEF CallsFounded, Kept, Delayed, Calling, Live
<1> QED BY <1>0, <1>1, <1>2, <1>3, <1>4, <1>5, ReconcileKeepsCalls, FinishKeepsCalls DEF Next

-----------------------------------------------------------------------------
(* What has been asked of the agent.                                       *)

LEMMA PostedAsked ==
    ASSUME Logged, NEW d \in Disks, NEW kind \in Kinds, Posted(d, kind)
    PROVE  \A e \in Disks : Asked(e)' = IF e = d THEN Asked(e) \cup {kind} ELSE Asked(e)
<1> DEFINE l == log[d]
<1>0. l \in Seq(Kinds) /\ Len(l) \in Nat
    BY DEF Logged
<1>1. CASE l # <<>> /\ l[Len(l)] = kind
    <2>1. UNCHANGED log /\ Len(l) \in 1..Len(l)
        BY <1>0, <1>1 DEF Posted
    <2>2. kind \in Asked(d)
        BY <1>1, <2>1 DEF Asked
    <2> QED BY <2>1, <2>2 DEF Asked
<1>2. CASE ~(l # <<>> /\ l[Len(l)] = kind)
    <2>1. log' = [log EXCEPT ![d] = Append(l, kind)]
        BY <1>2 DEF Posted
    <2>2. /\ log'[d] = Append(l, kind)
          /\ Len(log'[d]) = Len(l) + 1
          /\ \A i \in 1..Len(l) : log'[d][i] = l[i]
          /\ log'[d][Len(l) + 1] = kind
        BY <1>0, <2>1 DEF Logged
    <2>3. Asked(d)' = Asked(d) \cup {kind}
        <3>1. 1..(Len(l) + 1) = 1..Len(l) \cup {Len(l) + 1}
            BY <1>0
        <3>2. Asked(d)' = {log'[d][i] : i \in 1..(Len(l) + 1)}
            BY <2>2 DEF Asked
        <3>3. Asked(d) = {log'[d][i] : i \in 1..Len(l)}
            BY <2>2 DEF Asked
        <3> QED BY <2>2, <3>1, <3>2, <3>3
    <2>4. \A e \in Disks \ {d} : log'[e] = log[e]
        BY <2>1 DEF Logged
    <2> QED BY <2>3, <2>4 DEF Asked
<1> QED BY <1>1, <1>2

(* A call asks if its post is not lost, and then for its own operation.    *)
LEMMA CallAsks ==
    ASSUME Logged, NEW d \in Disks, NEW kind \in Kinds, NEW pc, CallAgent(d, kind, pc)
    PROVE  /\ worker'.pc = pc /\ worker'.disk = d /\ ~worker'.answered
           /\ \/ worker'.posted /\ \A e \in Disks :
                    Asked(e)' = IF e = d THEN Asked(e) \cup {kind} ELSE Asked(e)
              \/ ~worker'.posted /\ \A e \in Disks : Asked(e)' = Asked(e)
<1>1. PICK posted \in BOOLEAN :
          /\ worker' = [pc |-> pc, disk |-> d, copy |-> view[d], current |-> fresh[d],
                        posted |-> posted, answered |-> FALSE]
          /\ IF posted THEN Posted(d, kind) ELSE UNCHANGED log
    BY DEF CallAgent
<1>2. worker'.posted = posted /\ worker'.pc = pc /\ worker'.disk = d /\ ~worker'.answered
    BY <1>1
<1>3. CASE posted
    BY <1>1, <1>2, <1>3, PostedAsked
<1>4. CASE ~posted
    BY <1>1, <1>2, <1>4 DEF Asked
<1> QED BY <1>3, <1>4

(* A claim is passed on, or new and founded.                               *)
LEMMA ClaimsCarried ==
    ASSUME ClaimsFounded,
           \A d \in Disks : /\ Asked(d) \subseteq Asked(d)'
                            /\ Claims(d)' => Claims(d) \/ "mount" \in Asked(d)'
    PROVE  ClaimsFounded'
BY DEF ClaimsFounded

LEMMA UnaskedClaims ==
    ASSUME ClaimsFounded, UNCHANGED log, \A d \in Disks : Claims(d)' => Claims(d)
    PROVE  ClaimsFounded'
BY ClaimsCarried DEF Asked

LEMMA OverwriteClaims ==
    ASSUME IInv, ClaimsFounded, NEW d \in Disks, CreateDisk(d) \/ EditDisk(d) \/ DeleteDisk(d)
    PROVE  ClaimsFounded'
<1>0. disk \in [Disks -> Objects] /\ worker \in Workers
    BY DEF IInv, ObjectsTyped
<1>1. PICK object : Overwrite(d, object) /\ (object.mounted => disk[d].mounted)
    <2>1. CASE CreateDisk(d)
        BY <2>1, ObjectsKnown DEF CreateDisk
    <2>2. CASE EditDisk(d)
        BY <2>2 DEF EditDisk
    <2>3. CASE DeleteDisk(d) /\ disk[d].fin
        <3>1. disk[d] \in DiskObjects
            BY <1>0, <2>3, ObjectFields
        <3>2. [disk[d] EXCEPT !.deleting = TRUE].mounted = disk[d].mounted
            BY <3>1 DEF DiskObjects
        <3> QED BY <2>3, <3>2 DEF DeleteDisk
    <2>4. CASE DeleteDisk(d) /\ ~disk[d].fin
        BY <2>4, ObjectsKnown DEF DeleteDisk
    <2> QED BY <2>1, <2>2, <2>3, <2>4
<1>2. /\ disk' = [disk EXCEPT ![d] = object]
      /\ UNCHANGED <<view, report, reportView, mounted, log>>
      /\ worker' = IF worker.disk = d THEN [worker EXCEPT !.current = FALSE] ELSE worker
    BY <1>1 DEF Overwrite, agentVars
<1>3. /\ worker'.pc = worker.pc /\ worker'.disk = worker.disk
      /\ worker'.posted = worker.posted /\ worker'.answered = worker.answered
    BY <1>0, <1>2 DEF Workers
<1>4. ASSUME NEW e \in Disks PROVE disk'[e].mounted => disk[e].mounted
    BY <1>0, <1>1, <1>2
<1> QED BY <1>2, <1>3, <1>4, UnaskedClaims DEF Claims

(* A write by the worker puts a founded claim in the place of what was     *)
(* there.                                                                  *)
LEMMA WriteClaims ==
    ASSUME IInv, ClaimsFounded, NEW d \in Disks, NEW object, NEW current,
           Write(d, object, current), worker'.pc = "idle",
           object.mounted => Claims(d)
    PROVE  ClaimsFounded'
<1>1. /\ disk' = disk \/ disk' = [disk EXCEPT ![d] = object]
      /\ UNCHANGED <<view, report, reportView, mounted, log>>
    BY DEF Write, agentVars
<1>2. ASSUME NEW e \in Disks, disk'[e].mounted PROVE Claims(e)
    BY <1>1, <1>2 DEF IInv, ObjectsTyped, Claims
<1> QED BY <1>1, <1>2, UnaskedClaims DEF Claims

LEMMA ReconcileClaims ==
    ASSUME IInv, ClaimsFounded, NEW d \in Disks, Reconcile(d)
    PROVE  ClaimsFounded'
<1>0. view[d] \in Objects
    BY DEF IInv, ObjectsTyped
<1>1. CASE AddFinalizer(d)
    <2> DEFINE object == [view[d] EXCEPT !.fin = TRUE]
    <2>1. /\ Write(d, object, fresh[d]) /\ UNCHANGED worker /\ worker.pc = "idle"
          /\ view[d] \in DiskObjects
        BY <1>0, <1>1, ObjectFields DEF AddFinalizer
    <2>2. object.mounted = view[d].mounted
        BY <2>1 DEF DiskObjects
    <2> HIDE DEF object
    <2> QED BY <2>1, <2>2, WriteClaims DEF Claims
<1>2. CASE ReportStatus(d)
    <2> DEFINE p == ComputePhase(AgentStatus(d))
               m == AgentStatus(d).mounted
               object == Status(view[d], p, m)
    <2>1. /\ Write(d, object, fresh[d]) /\ UNCHANGED worker /\ worker.pc = "idle"
          /\ view[d] \in DiskObjects
        BY <1>0, <1>2, ObjectFields DEF ReportStatus, Managed
    <2>2. p \in Phases /\ m \in BOOLEAN
        BY PhaseKnown, ReportedMount DEF IInv
    <2>3. m => reportView[d].mounted
        BY DEF AgentStatus
    <2> HIDE DEF p, m
    <2>4. object.mounted = m
        BY <2>1, <2>2, StatusKeeps
    <2> HIDE DEF object
    <2> QED BY <2>1, <2>3, <2>4, WriteClaims DEF Claims
<1>3. CASE PostMount(d)
    <2>1. CallAgent(d, "mount", "mounting") /\ "mount" \in Kinds
        BY <1>3 DEF PostMount, Kinds
    <2>2. UNCHANGED <<disk, view, report, reportView, mounted>>
        BY <2>1 DEF CallAgent, objectVars
    <2>3. Logged
        BY DEF IInv
    <2>4. \A e \in Disks : Asked(e) \subseteq Asked(e)'
        BY <2>1, <2>3, CallAsks
    <2>5. ASSUME NEW e \in Disks, Claims(e)' PROVE Claims(e) \/ "mount" \in Asked(e)'
        BY <2>1, <2>2, <2>3, <2>5, CallAsks DEF Claims
    <2> QED BY <2>4, <2>5, ClaimsCarried
<1>4. CASE PostUnmount(d)
    <2>1. CallAgent(d, "unmount", "unmounting") /\ "unmount" \in Kinds
        BY <1>4 DEF PostUnmount, Kinds
    <2>2. UNCHANGED <<disk, view, report, reportView, mounted>>
        BY <2>1 DEF CallAgent, objectVars
    <2>3. Logged
        BY DEF IInv
    <2>4. \A e \in Disks : Asked(e) \subseteq Asked(e)'
        BY <2>1, <2>3, CallAsks
    <2>5. worker'.pc = "unmounting"
        BY <2>1, <2>3, CallAsks
    <2>6. ASSUME NEW e \in Disks, Claims(e)' PROVE Claims(e)
        BY <2>2, <2>5, <2>6 DEF Claims
    <2> QED BY <2>4, <2>6, ClaimsCarried
<1>5. CASE RemoveFinalizer(d)
    <2>1. Write(d, NoDisk, fresh[d]) /\ UNCHANGED worker /\ worker.pc = "idle"
        BY <1>5 DEF RemoveFinalizer
    <2> QED BY <2>1, ObjectsKnown, WriteClaims
<1> QED BY <1>1, <1>2, <1>3, <1>4, <1>5 DEF Reconcile

LEMMA FinishClaims ==
    ASSUME IInv, ClaimsFounded, Finish
    PROVE  ClaimsFounded'
<1> DEFINE d == worker.disk
           copy == worker.copy
<1>0. d \in Disks /\ copy \in Objects /\ worker' = Idle
    BY DEF Finish, FinishMount, FinishUnmount, IInv, ObjectsTyped, Held, Workers
<1>1. CASE FinishMount
    <2>1. copy \in DiskObjects
        BY <1>0, <1>1, ObjectFields DEF FinishMount, IInv, Held
    <2>2. PICK p \in Phases, m \in BOOLEAN :
             Write(d, Status(copy, p, m), worker.current) /\ (m => Claims(d))
        BY <1>1 DEF FinishMount, Phases, Claims
    <2> DEFINE object == Status(copy, p, m)
    <2>3. object.mounted = m
        BY <2>1, StatusKeeps
    <2>4. Write(d, object, worker.current)
        BY <2>2
    <2> HIDE DEF object
    <2> QED BY <1>0, <2>2, <2>3, <2>4, IdleTyped, WriteClaims
<1>2. CASE FinishUnmount
    <2>1. Write(d, NoDisk, worker.current)
        BY <1>2 DEF FinishUnmount
    <2> QED BY <1>0, <2>1, IdleTyped, ObjectsKnown, WriteClaims
<1> QED BY <1>1, <1>2 DEF Finish

(* What a host operation does to the mounted disks.                        *)
LEMMA OutcomePaths ==
    ASSUME NEW d, NEW k \in Kinds, NEW o \in Outcomes([kind |-> k, target |-> d], mounted)
    PROVE  \/ o.mounted = mounted
           \/ k = "mount" /\ o.mounted = mounted \cup {d}
           \/ k = "unmount" /\ o.mounted = mounted \ {d}
<1>1. CASE k = "mount"
    BY <1>1 DEF Outcomes, MountDevice, Ok, Fail
<1>2. CASE k = "unmount"
    BY <1>2 DEF Outcomes, UnmountDevice, Ok, Fail
<1> QED BY <1>1, <1>2 DEF Kinds

(* An operation that is executed was asked for.                            *)
LEMMA PerformsAsked ==
    ASSUME IInv, NEW d \in Disks, Perform(d)
    PROVE  /\ \/ mounted' = mounted
              \/ "mount" \in Asked(d) /\ mounted' = mounted \cup {d}
              \/ "unmount" \in Asked(d) /\ mounted' = mounted \ {d}
           /\ UNCHANGED <<disk, view, report, reportView, log>>
           /\ worker'.pc = worker.pc /\ worker'.disk = worker.disk
           /\ worker'.posted = worker.posted
           /\ worker'.answered => worker.answered \/ worker.posted
<1> DEFINE k == log[d][nextOp[d]]
<1>1. nextOp[d] \in 1..Len(log[d]) /\ log[d] \in Seq(Kinds)
    BY DEF IInv, Logged, Perform
<1>2. k \in Kinds /\ k \in Asked(d)
    BY <1>1 DEF Asked
<1>3. PICK o \in Outcomes([kind |-> k, target |-> d], mounted) : mounted' = o.mounted
    BY DEF Perform
<1>4. worker' = worker \/ (worker.posted /\ worker' = [worker EXCEPT !.answered = TRUE])
    BY DEF Perform
<1>5. /\ worker'.pc = worker.pc /\ worker'.disk = worker.disk
      /\ worker'.posted = worker.posted
      /\ worker'.answered => worker.answered \/ worker.posted
    BY <1>4 DEF IInv, ObjectsTyped, Workers
<1> HIDE DEF k
<1>6. \/ mounted' = mounted
      \/ k = "mount" /\ mounted' = mounted \cup {d}
      \/ k = "unmount" /\ mounted' = mounted \ {d}
    BY <1>2, <1>3, OutcomePaths
<1> QED BY <1>2, <1>5, <1>6 DEF Perform, objectVars

LEMMA ClaimsFoundedInv ==
    ASSUME IInv, ClaimsFounded, [Next]_vars
    PROVE  ClaimsFounded'
<1>0. /\ disk \in [Disks -> Objects] /\ view \in [Disks -> Objects]
      /\ report \in [Disks -> Reports \cup {NoReport}]
      /\ reportView \in [Disks -> Reports \cup {NoReport}]
    BY DEF IInv, ObjectsTyped, HostTyped
<1>1. CASE \E d \in Disks : HealthChanges(d)
    <2>1. UNCHANGED <<disk, view, report, reportView, mounted, log, worker>>
        BY <1>1 DEF HealthChanges, objectVars, agentVars
    <2> QED BY <2>1, UnaskedClaims DEF Claims
<1>2. ASSUME NEW d \in Disks, Perform(d) PROVE ClaimsFounded'
    <2>1. ASSUME NEW e \in Disks, Claims(e)' PROVE Claims(e) \/ "mount" \in Asked(e)
        BY <1>2, <2>1, PerformsAsked DEF Claims
    <2>2. \A e \in Disks : Asked(e)' = Asked(e)
        BY <1>2, PerformsAsked DEF Asked
    <2> QED BY <2>1, <2>2, ClaimsCarried
<1>3. CASE \E d \in Disks : SyncDisk(d)
    <2>1. PICK d \in Disks : view' = [view EXCEPT ![d] = disk[d]]
        BY <1>3 DEF SyncDisk
    <2>2. UNCHANGED <<disk, report, reportView, mounted, log, worker>>
        BY <1>3 DEF SyncDisk, agentVars
    <2>3. ASSUME NEW e \in Disks, Claims(e)' PROVE Claims(e)
        BY <1>0, <2>1, <2>2, <2>3 DEF Claims
    <2> QED BY <2>2, <2>3, UnaskedClaims
<1>4. CASE \E d \in Disks : SyncReport(d)
    <2>1. PICK d \in Disks : reportView' = [reportView EXCEPT ![d] = report[d]]
        BY <1>4 DEF SyncReport
    <2>2. UNCHANGED <<disk, view, report, mounted, log, worker>>
        BY <1>4 DEF SyncReport, agentVars, objectVars
    <2>3. ASSUME NEW e \in Disks, Claims(e)' PROVE Claims(e)
        BY <1>0, <2>1, <2>2, <2>3 DEF Claims
    <2> QED BY <2>2, <2>3, UnaskedClaims
<1>5. CASE Discover
    <2>1. report' = [d \in Disks |-> Actual(d)]
          /\ UNCHANGED <<disk, view, reportView, mounted, log, worker>>
        BY <1>5 DEF Discover, objectVars
    <2>2. ASSUME NEW e \in Disks, report'[e].mounted PROVE e \in mounted
        BY <2>1, <2>2 DEF Actual, NoReport
    <2>3. ASSUME NEW e \in Disks, Claims(e)' PROVE Claims(e)
        BY <2>1, <2>2, <2>3 DEF Claims
    <2> QED BY <2>1, <2>3, UnaskedClaims
<1>6. CASE AgentRestart
    <2>1. mounted' \subseteq mounted /\ UNCHANGED <<disk, view, report, reportView, log, worker>>
        BY <1>6 DEF AgentRestart, objectVars
    <2> QED BY <2>1, UnaskedClaims DEF Claims
<1>7. CASE OperatorRestart
    <2>1. /\ view' = disk /\ reportView' = report /\ worker'.pc = "idle"
          /\ UNCHANGED <<disk, report, mounted, log>>
        BY <1>7, IdleTyped DEF OperatorRestart, agentVars
    <2> QED BY <2>1, UnaskedClaims DEF Claims
<1>8. CASE UNCHANGED vars
    BY <1>8, UnaskedClaims DEF vars, objectVars, agentVars, Claims
<1> QED BY <1>1, <1>2, <1>3, <1>4, <1>5, <1>6, <1>7, <1>8,
           OverwriteClaims, ReconcileClaims, FinishClaims DEF Next

LEMMA InitPInv == Init => PInv
<1> SUFFICES ASSUME Init PROVE PInv
    OBVIOUS
<1>1. IInv
    BY InitInv
<1>2. CallsFounded
    BY ObjectsKnown, IdleTyped DEF Init, CallsFounded, Kept, Delayed, Calling
<1>3. ASSUME NEW d \in Disks PROVE ~Claims(d)
    BY ObjectsKnown, IdleTyped DEF Init, Claims, NoReport
<1> QED BY <1>1, <1>2, <1>3 DEF PInv, ClaimsFounded

THEOREM PromiseInvariance == Spec => []PInv
<1>1. PInv /\ [Next]_vars => PInv'
    BY StepInv, CallsFoundedInv, ClaimsFoundedInv DEF PInv
<1> QED BY <1>1, InitPInv, PTL DEF Spec

-----------------------------------------------------------------------------
(* The mapping, step by step.                                              *)

LEMMA Stages ==
    ASSUME NEW o \in Objects
    PROVE  /\ o = NoDisk <=> Stage(o) = "absent"
           /\ Live(o) /\ o.fin <=> Stage(o) = "kept"
           /\ Live(o) /\ ~o.fin <=> Stage(o) = "new"
           /\ o.deleting <=> Stage(o) = "leaving"
<1>1. o.deleting => o # NoDisk
    BY ObjectFields
<1>2. CASE o = NoDisk
    BY <1>1, <1>2 DEF Stage, Live
<1>3. CASE Live(o)
    BY <1>3 DEF Stage, Live
<1>4. CASE o.deleting
    BY <1>1, <1>4 DEF Stage, Live
<1> QED BY <1>1, <1>2, <1>3, <1>4 DEF Live

(* A write of one object moves one Disk, and may change its claim.         *)
LEMMA StageMaps ==
    ASSUME disk \in [Disks -> Objects], NEW d \in Disks, NEW object, NEW from, NEW to,
           disk' = [disk EXCEPT ![d] = object], Stage(disk[d]) = from, Stage(object) = to
    PROVE  /\ stage[d] = from /\ stage' = [stage EXCEPT ![d] = to]
           /\ from = to => stage' = stage
BY DEF stage

LEMMA ClaimMaps ==
    ASSUME disk \in [Disks -> Objects], NEW d \in Disks, NEW object \in Objects,
           NEW c \in BOOLEAN, disk' = [disk EXCEPT ![d] = object], object.mounted <=> c
    PROVE  /\ claimed[d] <=> disk[d].mounted
           /\ claimed' = [claimed EXCEPT ![d] = c]
           /\ (c <=> disk[d].mounted) => claimed' = claimed
<1>1. object.mounted = c
    BY ObjectFields
<1>2. disk[d].mounted \in BOOLEAN
    BY ObjectFields
<1>3. (c <=> disk[d].mounted) => c = disk[d].mounted
    BY <1>2
<1>4. claimed' = [claimed EXCEPT ![d] = object.mounted]
    BY DEF claimed
<1>5. claimed[d] = disk[d].mounted
    BY DEF claimed
<1>6. object.mounted = disk[d].mounted => claimed' = claimed
    BY DEF claimed
<1> QED BY <1>1, <1>3, <1>4, <1>5, <1>6

(* What else there is.                                                     *)
LEMMA SameMaps ==
    /\ UNCHANGED disk => UNCHANGED <<stage, claimed>>
    /\ UNCHANGED log => UNCHANGED asked
    /\ worker'.pc = worker.pc /\ worker'.disk = worker.disk => UNCHANGED trying
    /\ worker.pc # "unmounting" <=> trying = {}
BY DEF stage, claimed, asked, Asked, trying

LEMMA InitRefines == Init => Promise!Init
<1> SUFFICES ASSUME Init PROVE Promise!Init
    OBVIOUS
<1>1. stage = [d \in Disks |-> "absent"]
    <2>1. Stage(NoDisk) = "absent"
        BY ObjectsKnown, Stages
    <2> QED BY <2>1 DEF Init, stage
<1>2. claimed = [d \in Disks |-> FALSE]
    <2>1. NoDisk.mounted = FALSE
        BY DEF NoDisk
    <2>2. \A d \in Disks : disk[d] = NoDisk
        BY DEF Init
    <2> QED BY <2>1, <2>2 DEF claimed
<1>3. asked = [d \in Disks |-> {}]
    <2>1. ASSUME NEW d \in Disks PROVE Asked(d) = {}
        BY DEF Init, Asked
    <2> QED BY <2>1 DEF asked
<1>4. trying = {} /\ mounted = {}
    BY IdleTyped DEF Init, trying
<1> QED BY <1>1, <1>2, <1>3, <1>4 DEF Promise!Init

LEMMA OverwriteRefines ==
    ASSUME PInv, NEW d \in Disks, CreateDisk(d) \/ EditDisk(d) \/ DeleteDisk(d)
    PROVE  Promise!Create(d) \/ Promise!Delete(d) \/ UNCHANGED Promise!vars
<1>0. disk \in [Disks -> Objects] /\ worker \in Workers /\ disk[d] \in Objects
    BY DEF PInv, IInv, ObjectsTyped
<1>1. UNCHANGED <<asked, trying, mounted>>
    <2>1. UNCHANGED <<log, mounted>> /\ worker'.pc = worker.pc /\ worker'.disk = worker.disk
        BY <1>0 DEF CreateDisk, EditDisk, DeleteDisk, Overwrite, agentVars, Workers
    <2> QED BY <2>1, SameMaps
<1>2. CASE CreateDisk(d)
    <2>1. disk' = [disk EXCEPT ![d] = NewDisk] /\ disk[d] = NoDisk
        BY <1>2 DEF CreateDisk, Overwrite
    <2>2. Stage(NewDisk) = "new" /\ Stage(NoDisk) = "absent"
        <3>1. NewDisk # NoDisk
            BY DEF NewDisk, NoDisk
        <3> QED BY <3>1, ObjectsKnown, Stages DEF Live
    <2>3. claimed' = claimed
        BY <1>0, <2>1, ObjectsKnown, ClaimMaps
    <2>4. stage[d] = "absent" /\ stage' = [stage EXCEPT ![d] = "new"]
        BY <1>0, <2>1, <2>2, StageMaps
    <2> QED BY <1>1, <2>3, <2>4 DEF Promise!Create, Promise!Moves
<1>3. CASE EditDisk(d)
    <2>1. disk' = disk
        BY <1>0, <1>3 DEF EditDisk, Overwrite
    <2> QED BY <1>1, <2>1, SameMaps DEF Promise!vars
<1>4. CASE DeleteDisk(d) /\ disk[d].fin
    <2> DEFINE object == [disk[d] EXCEPT !.deleting = TRUE]
    <2>1. /\ disk' = [disk EXCEPT ![d] = object] /\ disk[d] \in DiskObjects
          /\ Live(disk[d])
        BY <1>0, <1>4, ObjectFields DEF DeleteDisk, Overwrite, Live
    <2>2. object \in Objects /\ object.deleting /\ object.mounted = disk[d].mounted
        BY <2>1 DEF DiskObjects, Objects
    <2> HIDE DEF object
    <2>3. Stage(disk[d]) = "kept" /\ Stage(object) = "leaving"
        BY <1>0, <1>4, <2>1, <2>2, Stages
    <2>4. stage[d] = "kept" /\ stage' = [stage EXCEPT ![d] = "leaving"]
        BY <1>0, <2>1, <2>3, StageMaps
    <2>5. disk[d].mounted \in BOOLEAN
        BY <1>0, ObjectFields
    <2>6. claimed' = claimed
        BY <1>0, <2>1, <2>2, <2>5, ClaimMaps
    <2> QED BY <1>1, <2>4, <2>6 DEF Promise!Delete, Promise!Moves
<1>5. CASE DeleteDisk(d) /\ ~disk[d].fin
    <2>1. /\ disk' = [disk EXCEPT ![d] = NoDisk] /\ Live(disk[d])
        BY <1>5 DEF DeleteDisk, Overwrite, Live
    <2>2. Stage(disk[d]) = "new" /\ Stage(NoDisk) = "absent"
        BY <1>0, <1>5, <2>1, ObjectsKnown, Stages
    <2>3. ~disk[d].mounted
        BY <1>5 DEF PInv, IInv, Finalized
    <2>4. stage[d] = "new" /\ stage' = [stage EXCEPT ![d] = "absent"]
        BY <1>0, <2>1, <2>2, StageMaps
    <2>5. claimed' = claimed
        BY <1>0, <2>1, <2>3, ObjectsKnown, ClaimMaps
    <2> QED BY <1>1, <2>4, <2>5 DEF Promise!Delete, Promise!Moves
<1> QED BY <1>2, <1>3, <1>4, <1>5

(* A status that is written goes to a Disk that is kept.                   *)
LEMMA StatusRefines ==
    ASSUME PInv, NEW d \in Disks, NEW copy \in DiskObjects, NEW p \in Phases, NEW m \in BOOLEAN,
           NEW current, Write(d, Status(copy, p, m), current),
           UNCHANGED trying,
           current => copy = disk[d],
           copy.fin, ~copy.deleting, m => Claims(d)
    PROVE  Promise!Claim(d) \/ UNCHANGED Promise!vars
<1> DEFINE object == Status(copy, p, m)
<1>0. disk \in [Disks -> Objects] /\ disk[d] \in Objects
    BY DEF PInv, IInv, ObjectsTyped
<1>1. UNCHANGED <<asked, mounted>>
    BY SameMaps DEF Write, agentVars
<1>2. CASE current
    <2>1. disk' = [disk EXCEPT ![d] = object] /\ copy = disk[d]
        BY <1>2 DEF Write
    <2>2. /\ object \in Objects /\ object.fin /\ ~object.deleting /\ object.mounted = m
          /\ object # NoDisk /\ copy # NoDisk
        BY StatusKeeps, ObjectsKnown DEF Objects
    <2> HIDE DEF object
    <2>3. Stage(object) = "kept" /\ Stage(disk[d]) = "kept"
        BY <1>0, <2>1, <2>2, Stages DEF Live
    <2>4. /\ stage[d] = "kept" /\ stage' = stage
          /\ claimed' = [claimed EXCEPT ![d] = m]
        BY <1>0, <2>1, <2>2, <2>3, StageMaps, ClaimMaps
    <2>5. m => "mount" \in asked[d]
        BY DEF PInv, ClaimsFounded, asked
    <2> QED BY <1>1, <2>4, <2>5 DEF Promise!Claim
<1>3. CASE ~current
    <2>1. UNCHANGED disk
        BY <1>3 DEF Write
    <2> QED BY <1>1, <2>1, SameMaps DEF Promise!vars
<1> QED BY <1>2, <1>3

(* A Disk that disappears was leaving.                                     *)
LEMMA RemovalRefines ==
    ASSUME PInv, NEW d \in Disks, NEW current, Write(d, NoDisk, current),
           current, disk[d].deleting, disk[d].mounted => d \in trying,
           trying' = {}
    PROVE  Promise!GiveUp(d)
<1>0. disk \in [Disks -> Objects] /\ disk[d] \in Objects
    BY DEF PInv, IInv, ObjectsTyped
<1>1. UNCHANGED <<asked, mounted>>
    BY SameMaps DEF Write, agentVars
<1>2. disk' = [disk EXCEPT ![d] = NoDisk]
    BY DEF Write
<1>3. Stage(disk[d]) = "leaving" /\ Stage(NoDisk) = "absent"
    BY <1>0, ObjectsKnown, Stages
<1>4. stage[d] = "leaving" /\ stage' = [stage EXCEPT ![d] = "absent"]
    BY <1>0, <1>2, <1>3, StageMaps
<1>5. (claimed[d] <=> disk[d].mounted) /\ claimed' = [claimed EXCEPT ![d] = FALSE]
    BY <1>0, <1>2, ObjectsKnown, ClaimMaps
<1> QED BY <1>1, <1>4, <1>5 DEF Promise!GiveUp, Promise!Moves

LEMMA ReconcileRefines ==
    ASSUME PInv, NEW d \in Disks, Reconcile(d)
    PROVE  [Promise!Next]_(Promise!vars)
<1>0. /\ disk \in [Disks -> Objects] /\ disk[d] \in Objects /\ view[d] \in Objects
      /\ (fresh[d] => view[d] = disk[d])
    BY DEF PInv, IInv, ObjectsTyped, Cached
<1>00. worker.pc = "idle" /\ trying = {}
    BY SameMaps
       DEF Reconcile, AddFinalizer, ReportStatus, PostMount, PostUnmount, RemoveFinalizer
<1>1. CASE AddFinalizer(d)
    <2> DEFINE object == [view[d] EXCEPT !.fin = TRUE]
    <2>1. /\ Write(d, object, fresh[d]) /\ UNCHANGED worker
          /\ view[d] \in DiskObjects /\ ~view[d].deleting /\ ~view[d].fin
        BY <1>0, <1>1, ObjectFields DEF AddFinalizer
    <2>2. UNCHANGED <<asked, trying, mounted>>
        BY <2>1, SameMaps DEF Write, agentVars
    <2>3. CASE fresh[d]
        <3>1. disk' = [disk EXCEPT ![d] = object] /\ disk[d] = view[d]
            BY <1>0, <2>1, <2>3 DEF Write
        <3>2. /\ object \in Objects /\ object.fin /\ ~object.deleting
              /\ object.mounted = view[d].mounted /\ object # NoDisk /\ view[d] # NoDisk
            <4>1. /\ object \in DiskObjects /\ object.fin /\ ~object.deleting
                  /\ object.mounted = view[d].mounted
                BY <2>1 DEF DiskObjects
            <4>2. view[d] # NoDisk
                BY <1>1 DEF AddFinalizer
            <4>3. object \in Objects
                BY <4>1 DEF Objects
            <4> HIDE DEF object
            <4>4. object # NoDisk
                BY <4>1, ObjectsKnown
            <4> QED BY <4>1, <4>2, <4>3, <4>4
        <3> HIDE DEF object
        <3>3. Stage(object) = "kept" /\ Stage(disk[d]) = "new"
            BY <1>0, <2>1, <3>1, <3>2, Stages DEF Live
        <3>4. stage[d] = "new" /\ stage' = [stage EXCEPT ![d] = "kept"]
            BY <1>0, <3>1, <3>3, StageMaps
        <3>5. disk[d].mounted \in BOOLEAN
            BY <1>0, ObjectFields
        <3>6. claimed' = claimed
            BY <1>0, <3>1, <3>2, <3>5, ClaimMaps
        <3>7. Promise!Keep(d)
            BY <2>2, <3>4, <3>6 DEF Promise!Keep, Promise!Moves
        <3> QED BY <3>7 DEF Promise!Next
    <2>4. CASE ~fresh[d]
        <3>1. UNCHANGED disk
            BY <2>1, <2>4 DEF Write
        <3> QED BY <2>2, <3>1, SameMaps DEF Promise!vars
    <2> QED BY <2>3, <2>4
<1>2. CASE ReportStatus(d)
    <2> DEFINE p == ComputePhase(AgentStatus(d))
               m == AgentStatus(d).mounted
    <2>1. /\ Write(d, Status(view[d], p, m), fresh[d]) /\ UNCHANGED worker
          /\ view[d] \in DiskObjects /\ ~view[d].deleting /\ view[d].fin
        BY <1>0, <1>2, ObjectFields DEF ReportStatus, Managed
    <2>2. p \in Phases /\ m \in BOOLEAN
        BY PhaseKnown, ReportedMount DEF PInv, IInv
    <2>3. m => Claims(d)
        BY DEF AgentStatus, Claims
    <2>4. UNCHANGED trying
        BY <2>1, SameMaps
    <2> HIDE DEF p, m
    <2>5. Promise!Claim(d) \/ UNCHANGED Promise!vars
        BY <1>0, <2>1, <2>2, <2>3, <2>4, StatusRefines
    <2> QED BY <2>5 DEF Promise!Next
<1>3. CASE PostMount(d)
    <2>1. CallAgent(d, "mount", "mounting") /\ "mount" \in Kinds /\ Live(view[d]) /\ view[d].fin
        BY <1>3 DEF PostMount, Kinds, Managed, Live
    <2>2. Logged /\ UNCHANGED <<disk, mounted>>
        BY <2>1 DEF CallAgent, objectVars, PInv, IInv
    <2>3. UNCHANGED <<stage, claimed, mounted>> /\ trying' = {}
        BY <2>1, <2>2, CallAsks, SameMaps DEF trying
    <2>4. stage[d] \in {"kept", "leaving"}
        <3>1. disk[d].fin
            BY <2>1 DEF PInv, CallsFounded, Kept
        <3>2. disk[d] # NoDisk
            BY <1>0, <3>1, ObjectFields
        <3>3. Stage(disk[d]) \in {"kept", "leaving"}
            BY <1>0, <3>1, <3>2, Stages DEF Live
        <3> QED BY <3>3 DEF stage
    <2>5. asked' = asked \/ asked' = [asked EXCEPT ![d] = @ \cup {"mount"}]
        BY <2>1, <2>2, CallAsks DEF asked
    <2>6. Promise!AskMount(d) \/ UNCHANGED Promise!vars
        BY <1>00, <2>3, <2>4, <2>5 DEF Promise!AskMount, Promise!vars
    <2> QED BY <2>6 DEF Promise!Next
<1>4. CASE PostUnmount(d)
    <2>1. /\ CallAgent(d, "unmount", "unmounting") /\ "unmount" \in Kinds
          /\ view[d].deleting /\ view[d].mounted
        BY <1>4 DEF PostUnmount, Kinds
    <2>2. Logged /\ UNCHANGED <<disk, mounted>>
        BY <2>1 DEF CallAgent, objectVars, PInv, IInv
    <2>3. UNCHANGED <<stage, claimed, mounted>> /\ trying' = {d}
        BY <2>1, <2>2, CallAsks, SameMaps DEF trying
    <2>4. stage[d] # "kept"
        <3>1. disk[d].fin => disk[d].deleting
            BY <2>1 DEF PInv, IInv, Untaken
        <3>2. Stage(disk[d]) # "kept"
            BY <1>0, <3>1, Stages DEF Live
        <3> QED BY <3>2 DEF stage
    <2>5. "mount" \in asked[d]
        BY <2>1 DEF PInv, ClaimsFounded, Claims, asked
    <2>6. asked' = asked \/ asked' = [asked EXCEPT ![d] = @ \cup {"unmount"}]
        BY <2>1, <2>2, CallAsks DEF asked
    <2>7. Promise!TryUnmount(d)
        BY <1>00, <2>3, <2>4, <2>5, <2>6 DEF Promise!TryUnmount
    <2> QED BY <2>7 DEF Promise!Next
<1>5. CASE RemoveFinalizer(d)
    <2>1. /\ Write(d, NoDisk, fresh[d]) /\ UNCHANGED worker
          /\ view[d].deleting /\ ~view[d].mounted
        BY <1>5 DEF RemoveFinalizer
    <2>2. trying' = {}
        BY <1>00, <2>1, SameMaps
    <2>3. CASE fresh[d]
        <3>1. Promise!GiveUp(d)
            BY <1>0, <2>1, <2>2, <2>3, RemovalRefines
        <3> QED BY <3>1 DEF Promise!Next
    <2>4. CASE ~fresh[d]
        <3>1. UNCHANGED <<disk, log, mounted>>
            BY <2>1, <2>4 DEF Write, agentVars
        <3> QED BY <1>00, <2>2, <3>1, SameMaps DEF Promise!vars
    <2> QED BY <2>3, <2>4
<1> QED BY <1>1, <1>2, <1>3, <1>4, <1>5 DEF Reconcile

LEMMA FinishRefines ==
    ASSUME PInv, Finish
    PROVE  [Promise!Next]_(Promise!vars)
<1> DEFINE d == worker.disk
           copy == worker.copy
<1>0. /\ d \in Disks /\ copy \in Objects /\ worker' = Idle
      /\ (worker.current => copy = disk[d])
    BY DEF Finish, FinishMount, FinishUnmount, PInv, IInv, ObjectsTyped, Held, Workers
<1>1. trying' = {}
    BY <1>0, IdleTyped DEF trying
<1>2. CASE FinishMount
    <2>1. copy \in DiskObjects /\ copy.fin /\ ~copy.deleting /\ trying = {}
        BY <1>0, <1>2, ObjectFields
           DEF FinishMount, PInv, IInv, Held, CallsFounded, Calling, trying
    <2>2. PICK p \in Phases, m \in BOOLEAN :
             Write(d, Status(copy, p, m), worker.current) /\ (m => Claims(d))
        BY <1>2 DEF FinishMount, Phases, Claims
    <2>3. Promise!Claim(d) \/ UNCHANGED Promise!vars
        <3>1. UNCHANGED trying
            BY <1>1, <2>1
        <3> HIDE DEF d, copy
        <3> QED BY <1>0, <2>1, <2>2, <3>1, StatusRefines
    <2> QED BY <1>0, <2>3 DEF Promise!Next
<1>3. CASE FinishUnmount
    <2>1. Write(d, NoDisk, worker.current) /\ copy.deleting /\ trying = {d}
        BY <1>3 DEF FinishUnmount, PInv, CallsFounded, Calling, trying
    <2>2. CASE worker.current
        <3>1. disk[d].deleting /\ d \in trying
            BY <1>0, <2>1, <2>2
        <3>2. Promise!GiveUp(d)
            <4> HIDE DEF d, copy
            <4> QED BY <1>0, <1>1, <2>1, <2>2, <3>1, RemovalRefines
        <3> QED BY <1>0, <3>2 DEF Promise!Next
    <2>3. CASE ~worker.current
        <3>1. UNCHANGED <<stage, claimed, asked, mounted>>
            BY <2>1, <2>3, SameMaps DEF Write, agentVars
        <3>2. Promise!StopTrying
            BY <1>1, <2>1, <3>1 DEF Promise!StopTrying
        <3> QED BY <3>2 DEF Promise!Next
    <2> QED BY <2>2, <2>3
<1> QED BY <1>2, <1>3 DEF Finish

LEMMA NextRefines ==
    ASSUME PInv, [Next]_vars
    PROVE  [Promise!Next]_(Promise!vars)
<1>1. CASE \E d \in Disks : CreateDisk(d) \/ EditDisk(d) \/ DeleteDisk(d)
    BY <1>1, OverwriteRefines DEF Promise!Next
<1>2. CASE \E d \in Disks : Perform(d)
    <2>1. PICK d \in Disks : Perform(d)
        BY <1>2
    <2>2. UNCHANGED <<stage, claimed, asked, trying>>
        BY <2>1, PerformsAsked, SameMaps DEF PInv
    <2>3. \/ mounted' = mounted
          \/ "mount" \in asked[d] /\ mounted' = mounted \cup {d}
          \/ "unmount" \in asked[d] /\ mounted' = mounted \ {d}
        BY <2>1, PerformsAsked DEF PInv, asked
    <2>4. Promise!Perform(d) \/ UNCHANGED Promise!vars
        BY <2>2, <2>3 DEF Promise!Perform, Promise!vars
    <2> QED BY <2>4 DEF Promise!Next
<1>3. CASE \E d \in Disks : Reconcile(d)
    BY <1>3, ReconcileRefines
<1>4. CASE Finish
    BY <1>4, FinishRefines
<1>5. CASE AgentRestart
    <2>1. UNCHANGED <<stage, claimed, asked, trying>> /\ mounted' \in SUBSET mounted
        BY <1>5, SameMaps DEF AgentRestart, objectVars
    <2>2. Promise!LoseMounts
        BY <2>1 DEF Promise!LoseMounts
    <2> QED BY <2>2 DEF Promise!Next
<1>6. CASE OperatorRestart
    <2>1. UNCHANGED <<stage, claimed, asked, mounted>>
        BY <1>6, SameMaps DEF OperatorRestart, agentVars
    <2>2. trying' = {}
        BY <1>6, IdleTyped DEF OperatorRestart, trying
    <2>3. Promise!StopTrying \/ UNCHANGED Promise!vars
        BY <2>1, <2>2 DEF Promise!StopTrying, Promise!vars
    <2> QED BY <2>3 DEF Promise!Next
<1>7. CASE \/ \E d \in Disks : HealthChanges(d) \/ SyncDisk(d) \/ SyncReport(d)
           \/ Discover \/ UNCHANGED vars
    <2>1. UNCHANGED <<disk, log, worker, mounted>>
        BY <1>7 DEF HealthChanges, SyncDisk, SyncReport, Discover, vars, objectVars, agentVars
    <2> QED BY <2>1, SameMaps DEF Promise!vars
<1> QED BY <1>1, <1>2, <1>3, <1>4, <1>5, <1>6, <1>7 DEF Next

(* The DiskReconciler keeps the promises of DiskContract, for any number   *)
(* of disks, restarts, lost posts and failed operations (Reconcile,        *)
(* reconcileNormal, reconcileDelete).                                      *)
THEOREM KeepsContractCorrect == Spec => KeepsContract
<1>1. PInv /\ [Next]_vars => [Promise!Next]_(Promise!vars)
    BY NextRefines
<1> QED BY <1>1, InitRefines, PromiseInvariance, PTL DEF Spec, KeepsContract, Promise!Spec
=============================================================================
