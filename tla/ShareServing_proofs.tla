------------------------ MODULE ShareServing_proofs ------------------------
(***************************************************************************)
(* Proofs about ShareServing, for any number of changes.                   *)
(*                                                                         *)
(* What a published Share says is true because of what a pass remembers:   *)
(* its copy of the Share, when it is the latest version, has the spec      *)
(* (CopyCurrent), and as long as no request has failed, the objects it has *)
(* been through are those of its path (Progress), whatever happened to the *)
(* Pod in between.                                                         *)
(***************************************************************************)
EXTENDS ShareServing, TLAPS

SpecsTyped ==
    /\ share \in Specs /\ view \in Specs /\ fresh \in BOOLEAN
    /\ pool \in Pools

ObjectsTyped ==
    /\ cm \in [Protocols -> CachedObjects(Paths)]
    /\ pod \in [Protocols -> CachedObjects(Pods)]
    /\ svc \in [Protocols -> CachedObjects({"service"})]

PassTyped   == pass \in Passes \cup {NoPass}
StatusTyped == status \in Statuses

(* Every version was a change; none is lost.                               *)
Counted == changes \in 0..MaxChanges /\ share.sub <= changes /\ pool.mount <= changes

CacheCurrent == fresh => view = share

CopyCurrent ==
    pass # NoPass /\ pass.current =>
        pass.protocol = share.protocol /\ pass.path.sub = share.sub

Progress ==
    pass # NoPass =>
        LET p == pass.protocol IN
        /\ pass.step # "status" => pass.phase = "Ready"
        /\ pass.phase = "Ready" /\ pass.step # "cm" => cm[p].data = pass.path
        /\ pass.phase = "Ready" /\ pass.step \in {"svc", "status"} /\ pod[p].data # None
               => pod[p].data.path = pass.path
        /\ pass.phase = "Ready" /\ pass.step = "status" => svc[p].data # None

IInv == /\ SpecsTyped /\ ObjectsTyped /\ PassTyped /\ StatusTyped
        /\ Counted /\ CacheCurrent /\ CopyCurrent /\ Progress

(* A pass that goes on is the same pass.                                   *)
SamePass == /\ pass' \in Passes
            /\ pass'.protocol = pass.protocol /\ pass'.path = pass.path
            /\ pass'.current = pass.current

-----------------------------------------------------------------------------
(* The objects.                                                            *)

LEMMA Bounds == MaxChanges \in Nat
    BY ShareAssumption DEF ShareAssumption

LEMMA NoneIsNew == None # "service" /\ None \notin Paths
    BY ContentAssumption DEF ContentAssumption

LEMMA WrittenTyped ==
    ASSUME NEW C, NEW o \in CachedObjects(C), NEW c \in C
    PROVE  Written(o, c) \in CachedObjects(C) /\ Written(o, c).data = c
<1> DEFINE f == o.fresh /\ o.data = c
<1>1. o.fresh \in BOOLEAN
    BY DEF CachedObjects
<1>2. f \in BOOLEAN
    BY <1>1
<1>3. Written(o, c) = [o EXCEPT !.data = c, !.fresh = f]
    BY DEF Written
<1> HIDE DEF f
<1> QED BY <1>2, <1>3 DEF CachedObjects

LEMMA RemovedTyped ==
    ASSUME NEW C, NEW o \in CachedObjects(C)
    PROVE  Removed(o) \in CachedObjects(C) /\ Removed(o).data = None
    BY DEF CachedObjects, Removed

LEMMA SyncedTyped ==
    ASSUME NEW C, NEW o \in CachedObjects(C)
    PROVE  Synced(o) \in CachedObjects(C) /\ Synced(o).data = o.data
<1> DEFINE s == o.data # None
<1>1. Synced(o) = [o EXCEPT !.seen = s, !.fresh = TRUE] /\ s \in BOOLEAN
    BY DEF Synced
<1> HIDE DEF s
<1> QED BY <1>1 DEF CachedObjects

LEMMA PodOfTyped ==
    ASSUME NEW path \in Paths PROVE PodsOf(path) \in Pods /\ PodsOf(path).path = path
    BY DEF PodsOf, Pods

(* A Pod keeps its path as long as it is there.                            *)
LEMMA DeletedTyped ==
    ASSUME NEW o \in CachedObjects(Pods), o.data # None
    PROVE  /\ Deleted(o) \in CachedObjects(Pods)
           /\ Deleted(o).data # None => Deleted(o).data.path = o.data.path
<1>1. o.data \in Pods
    BY DEF CachedObjects
<1> DEFINE d == [o.data EXCEPT !.dying = TRUE]
<1>2. d \in Pods /\ d.path = o.data.path
    BY <1>1 DEF Pods
<1>3. CASE o.data.bound
    <2>1. Deleted(o) = Written(o, d)
        BY <1>3 DEF Deleted
    <2> HIDE DEF d
    <2> QED BY <1>2, <2>1, WrittenTyped
<1>4. CASE ~o.data.bound
    BY <1>4, RemovedTyped DEF Deleted
<1> QED BY <1>3, <1>4

LEMMA PassFields ==
    ASSUME PassTyped, pass # NoPass
    PROVE  /\ pass \in Passes /\ pass.protocol \in Protocols /\ pass.path \in Paths
           /\ pass.step \in Steps /\ pass.phase \in Phases /\ pass.current \in BOOLEAN
    BY DEF PassTyped, Passes

LEMMA NotNone ==
    ASSUME NEW s \in Steps, At(s) PROVE pass # NoPass
    BY DEF At, NoPass, Steps

-----------------------------------------------------------------------------
(* The ways in which a pass goes on.                                       *)

LEMMA AdvanceIsSame ==
    ASSUME PassTyped, pass # NoPass, NEW s \in Steps, Advance(s)
    PROVE  SamePass /\ pass'.step = s /\ pass'.phase = pass.phase /\ UNCHANGED changes
    BY PassFields DEF Advance, SamePass, Passes

LEMMA GivenUp ==
    ASSUME PassTyped, pass # NoPass, GiveUp
    PROVE  SamePass /\ Progress' /\ pass' # NoPass
<1>1. /\ SamePass /\ pass'.step = "status" /\ pass'.phase = "Degraded"
    BY PassFields DEF GiveUp, SamePass, Passes, Steps, Phases
<1>2. pass'.step # "none"
    BY <1>1
<1> QED BY <1>1, <1>2 DEF Progress, NoPass

LEMMA FailsOrRefused ==
    ASSUME PassTyped, SpecsTyped, Counted, pass # NoPass, RequestFails \/ Refused,
           UNCHANGED <<share, pool>>
    PROVE  SamePass /\ Progress' /\ Counted'
<1>1. GiveUp /\ (Change \/ UNCHANGED changes)
    BY DEF RequestFails, Refused
<1>2. SamePass /\ Progress'
    BY <1>1, GivenUp
<1>3. Counted'
    <2>1. share.sub \in Nat /\ pool.mount \in Nat
        BY Bounds DEF SpecsTyped, Specs, Pools, Versions
    <2> QED BY <1>1, <2>1, Bounds DEF Counted, Change
<1> QED BY <1>2, <1>3

LEMMA SameCopyCurrent ==
    ASSUME CopyCurrent, PassTyped, pass # NoPass, SamePass, UNCHANGED share
    PROVE  CopyCurrent' /\ PassTyped'
    BY DEF CopyCurrent, SamePass, PassTyped

(* What others do to the objects of a pass: configuration and Service stay *)
(* as they are, the Pod may go, but not change its path.                   *)
LEMMA OthersKeepProgress ==
    ASSUME Progress, PassTyped,
           pass' = NoPass \/ pass' = [pass EXCEPT !.current = FALSE] \/ pass' = pass,
           \A p \in Protocols :
              /\ cm'[p].data = cm[p].data /\ svc'[p].data = svc[p].data
              /\ pod'[p].data # None => /\ pod[p].data # None
                                        /\ pod'[p].data.path = pod[p].data.path
    PROVE  Progress'
<1>1. CASE pass' = NoPass
    BY <1>1 DEF Progress
<1>2. CASE pass = NoPass
    <2>1. pass' = NoPass
        BY <1>2 DEF NoPass
    <2> QED BY <2>1 DEF Progress
<1>3. CASE pass # NoPass /\ pass' # NoPass
    <2>1. /\ pass'.step = pass.step /\ pass'.protocol = pass.protocol
          /\ pass'.path = pass.path /\ pass'.phase = pass.phase
          /\ pass.protocol \in Protocols
        BY <1>3, PassFields DEF Passes
    <2> QED BY <1>3, <2>1 DEF Progress
<1> QED BY <1>1, <1>2, <1>3

-----------------------------------------------------------------------------
(* The steps of a pass.                                                    *)

LEMMA ConfigMapStep ==
    ASSUME IInv, UpsertConfigMap PROVE IInv'
<1> DEFINE p == pass.protocol
<1>1. pass # NoPass /\ pass.step = "cm"
    BY NotNone DEF UpsertConfigMap, At, Steps
<1>2. p \in Protocols /\ pass.path \in Paths /\ PassTyped
    BY <1>1, PassFields DEF IInv
<1>3. UNCHANGED <<share, view, fresh, pool, pod, svc, status>>
    BY DEF UpsertConfigMap, specVars
<1>4. CASE /\ cm' = [cm EXCEPT ![p] = Written(@, pass.path)] /\ Advance("pod")
    <2>1. SamePass /\ pass'.step = "pod" /\ pass'.phase = pass.phase /\ UNCHANGED changes
        BY <1>1, <1>2, <1>4, AdvanceIsSame DEF Steps
    <2>2. /\ Written(cm[p], pass.path) \in CachedObjects(Paths)
          /\ Written(cm[p], pass.path).data = pass.path
        BY <1>2, WrittenTyped DEF IInv, ObjectsTyped
    <2>3. cm' \in [Protocols -> CachedObjects(Paths)] /\ cm'[p].data = pass.path
        BY <1>2, <1>4, <2>2 DEF IInv, ObjectsTyped
    <2>4. Progress'
        BY <1>1, <2>1, <2>3 DEF IInv, Progress, SamePass
    <2> QED BY <1>1, <1>3, <2>1, <2>3, <2>4, SameCopyCurrent
        DEF IInv, SpecsTyped, ObjectsTyped, StatusTyped, Counted, CacheCurrent
<1>5. CASE (Refused \/ RequestFails) /\ UNCHANGED cm
    BY <1>1, <1>3, <1>5, FailsOrRefused, SameCopyCurrent
    DEF IInv, SpecsTyped, ObjectsTyped, StatusTyped, CacheCurrent
<1> QED BY <1>4, <1>5 DEF UpsertConfigMap

LEMMA ServiceStep ==
    ASSUME IInv, UpsertService PROVE IInv'
<1> DEFINE p == pass.protocol
<1>1. pass # NoPass /\ pass.step = "svc"
    BY NotNone DEF UpsertService, At, Steps
<1>2. p \in Protocols /\ PassTyped
    BY <1>1, PassFields DEF IInv
<1>3. UNCHANGED <<share, view, fresh, pool, cm, pod, status>>
    BY DEF UpsertService, specVars
<1>4. CASE /\ svc' = [svc EXCEPT ![p] = Written(@, "service")] /\ Advance("status")
    <2>1. SamePass /\ pass'.step = "status" /\ pass'.phase = pass.phase /\ UNCHANGED changes
        BY <1>1, <1>2, <1>4, AdvanceIsSame DEF Steps
    <2>2. /\ Written(svc[p], "service") \in CachedObjects({"service"})
          /\ Written(svc[p], "service").data = "service"
        BY <1>2, WrittenTyped DEF IInv, ObjectsTyped
    <2>3. svc' \in [Protocols -> CachedObjects({"service"})] /\ svc'[p].data = "service"
        BY <1>2, <1>4, <2>2 DEF IInv, ObjectsTyped
    <2>4. svc'[p].data # None
        BY <2>3, NoneIsNew
    <2>5. Progress'
        BY <1>1, <1>3, <2>1, <2>4 DEF IInv, Progress, SamePass
    <2> QED BY <1>1, <1>3, <2>1, <2>3, <2>5, SameCopyCurrent
        DEF IInv, SpecsTyped, ObjectsTyped, StatusTyped, Counted, CacheCurrent
<1>5. CASE (Refused \/ RequestFails) /\ UNCHANGED svc
    BY <1>1, <1>3, <1>5, FailsOrRefused, SameCopyCurrent
    DEF IInv, SpecsTyped, ObjectsTyped, StatusTyped, CacheCurrent
<1> QED BY <1>4, <1>5 DEF UpsertService

LEMMA PodStep ==
    ASSUME IInv, UpsertPod \/ DeletePod \/ RecreatePod PROVE IInv'
<1> DEFINE p == pass.protocol
<1>1. pass # NoPass /\ pass.step \in {"pod", "delete", "recreate"}
    BY NotNone DEF UpsertPod, DeletePod, RecreatePod, At, Steps
<1>2. p \in Protocols /\ pass.path \in Paths /\ PassTyped
    BY <1>1, PassFields DEF IInv
<1>3. UNCHANGED <<share, view, fresh, pool, cm, svc, status>>
    BY DEF UpsertPod, DeletePod, RecreatePod, specVars
<1>4. CASE pod' = [pod EXCEPT ![p] = Written(@, PodsOf(pass.path))] /\ Advance("svc")
    <2>1. SamePass /\ pass'.step = "svc" /\ pass'.phase = pass.phase /\ UNCHANGED changes
        BY <1>1, <1>2, <1>4, AdvanceIsSame DEF Steps
    <2>2. /\ Written(pod[p], PodsOf(pass.path)) \in CachedObjects(Pods)
          /\ Written(pod[p], PodsOf(pass.path)).data.path = pass.path
        BY <1>2, PodOfTyped, WrittenTyped DEF IInv, ObjectsTyped
    <2>3. pod' \in [Protocols -> CachedObjects(Pods)] /\ pod'[p].data.path = pass.path
        BY <1>2, <1>4, <2>2 DEF IInv, ObjectsTyped
    <2>4. Progress'
        BY <1>1, <1>3, <2>1, <2>3 DEF IInv, Progress, SamePass
    <2> QED BY <1>1, <1>3, <2>1, <2>3, <2>4, SameCopyCurrent
        DEF IInv, SpecsTyped, ObjectsTyped, StatusTyped, Counted, CacheCurrent
<1>5. CASE UNCHANGED pod /\ (Refused \/ RequestFails)
    BY <1>1, <1>3, <1>5, FailsOrRefused, SameCopyCurrent
    DEF IInv, SpecsTyped, ObjectsTyped, StatusTyped, CacheCurrent
<1>6. CASE pod' \in [Protocols -> CachedObjects(Pods)]
           /\ \E s \in {"delete", "recreate"} : Advance(s)
    <2>1. PICK s \in {"delete", "recreate"} : Advance(s)
        BY <1>6
    <2>2. SamePass /\ pass'.step = s /\ pass'.phase = pass.phase /\ UNCHANGED changes
        BY <1>1, <1>2, <2>1, AdvanceIsSame DEF Steps
    <2>3. Progress'
        BY <1>1, <1>3, <2>2 DEF IInv, Progress, SamePass
    <2> QED BY <1>1, <1>3, <1>6, <2>2, <2>3, SameCopyCurrent
        DEF IInv, SpecsTyped, ObjectsTyped, StatusTyped, Counted, CacheCurrent
<1>7. CASE UpsertPod
    <2>1. pod \in [Protocols -> CachedObjects(Pods)]
        BY DEF IInv, ObjectsTyped
    <2> QED BY <1>4, <1>5, <1>6, <1>7, <2>1 DEF UpsertPod
<1>8. CASE DeletePod
    <2>1. CASE pod' = [pod EXCEPT ![p] = IF @.data = None THEN @ ELSE Deleted(@)]
               /\ Advance("recreate")
        <3> DEFINE new == IF pod[p].data = None THEN pod[p] ELSE Deleted(pod[p])
        <3>1. new \in CachedObjects(Pods)
            BY <1>2, DeletedTyped DEF IInv, ObjectsTyped
        <3>2. pod' = [pod EXCEPT ![p] = new]
            BY <2>1
        <3> HIDE DEF new
        <3>3. pod' \in [Protocols -> CachedObjects(Pods)]
            BY <3>1, <3>2 DEF IInv, ObjectsTyped
        <3> QED BY <1>6, <2>1, <3>3
    <2> QED BY <1>5, <1>8, <2>1 DEF DeletePod
<1>9. CASE RecreatePod
    BY <1>4, <1>5, <1>9 DEF RecreatePod
<1> QED BY <1>7, <1>8, <1>9

LEMMA StatusStep ==
    ASSUME IInv, SetSharePhase PROVE IInv'
<1>1. pass # NoPass /\ pass.phase \in Phases
    BY NotNone, PassFields DEF SetSharePhase, Steps, IInv
<1>2. pass' = NoPass /\ UNCHANGED <<share, view, fresh, pool, cm, pod, svc>>
    BY DEF SetSharePhase, specVars, objectVars
<1>3. Reported \in Statuses
    BY <1>1, Zenon DEF Reported, Statuses
<1>4. StatusTyped'
    BY <1>3 DEF SetSharePhase, IInv, StatusTyped
<1>5. Counted'
    <2>1. UNCHANGED changes \/ Change
        BY DEF SetSharePhase
    <2>2. CASE UNCHANGED changes
        BY <1>2, <2>2 DEF IInv, Counted
    <2>3. CASE Change
        <3>1. share.sub \in Nat /\ pool.mount \in Nat
            BY Bounds DEF IInv, SpecsTyped, Specs, Pools, Versions
        <3> QED BY <1>2, <2>3, <3>1, Bounds DEF IInv, Counted, Change
    <2> QED BY <2>1, <2>2, <2>3
<1>6. SpecsTyped' /\ ObjectsTyped' /\ CacheCurrent'
    BY <1>2 DEF IInv, SpecsTyped, ObjectsTyped, CacheCurrent
<1>7. PassTyped' /\ CopyCurrent' /\ Progress'
    BY <1>2 DEF PassTyped, CopyCurrent, Progress
<1> QED BY <1>4, <1>5, <1>6, <1>7 DEF IInv

LEMMA StartStep ==
    ASSUME IInv, StartPass PROVE IInv'
<1>1. /\ pass' = [step |-> IF pool.mounted THEN "cm" ELSE "status",
                  protocol |-> view.protocol,
                  path |-> [mount |-> pool.mount, sub |-> view.sub],
                  current |-> fresh,
                  phase |-> IF pool.mounted THEN "Ready" ELSE "Pending"]
      /\ UNCHANGED <<share, view, fresh, pool, cm, pod, svc, status, changes>>
    BY DEF StartPass, specVars, objectVars
<1>2. /\ view.protocol \in Protocols /\ view.sub \in Versions /\ fresh \in BOOLEAN
      /\ pool.mount \in Versions
    BY DEF IInv, SpecsTyped, Specs, Pools
<1>3. [mount |-> pool.mount, sub |-> view.sub] \in Paths
    BY <1>2 DEF Paths
<1>4. pass' \in Passes
    BY <1>1, <1>2, <1>3 DEF Passes, Steps, Phases
<1>5. CopyCurrent'
    BY <1>1 DEF IInv, CacheCurrent, CopyCurrent
<1>6. Progress'
    <2>1. CASE pool.mounted
        BY <1>1, <2>1 DEF Progress
    <2>2. CASE ~pool.mounted
        BY <1>1, <2>2 DEF Progress
    <2> QED BY <2>1, <2>2
<1> QED BY <1>1, <1>4, <1>5, <1>6
    DEF IInv, SpecsTyped, ObjectsTyped, PassTyped, StatusTyped, Counted, CacheCurrent

-----------------------------------------------------------------------------
(* The steps of the others.                                                *)

LEMMA EditStep ==
    ASSUME IInv, EditShare PROVE IInv'
<1>1. /\ changes < MaxChanges /\ changes' = changes + 1 /\ fresh' = FALSE
      /\ pass' = [pass EXCEPT !.current = FALSE]
      /\ UNCHANGED <<view, pool, cm, pod, svc, status>>
    BY DEF EditShare, Change, objectVars
<1>2. share.sub \in Nat /\ pool.mount \in Nat /\ share.sub <= changes /\ pool.mount <= changes
      /\ changes \in Nat
    BY Bounds DEF IInv, SpecsTyped, Specs, Pools, Versions, Counted
<1>3. share' \in Specs /\ share'.sub <= changes + 1
    <2>1. CASE share' = [share EXCEPT !.sub = @ + 1]
        <3>1. share.sub + 1 \in Versions
            BY <1>1, <1>2, Bounds DEF Versions
        <3> QED BY <1>2, <2>1, <3>1 DEF IInv, SpecsTyped, Specs
    <2>2. CASE \E p \in Protocols : share' = [share EXCEPT !.protocol = p]
        <3>1. share' \in Specs /\ share'.sub = share.sub
            BY <2>2 DEF IInv, SpecsTyped, Specs
        <3> QED BY <1>2, <3>1
    <2> QED BY <2>1, <2>2 DEF EditShare
<1>4. Counted'
    BY <1>1, <1>2, <1>3, Bounds DEF Counted
<1>5. PassTyped' /\ CopyCurrent'
    <2>1. CASE pass = NoPass
        <3>1. pass' = NoPass
            BY <1>1, <2>1 DEF NoPass
        <3> QED BY <3>1 DEF PassTyped, CopyCurrent
    <2>2. CASE pass \in Passes
        <3>1. pass' \in Passes /\ pass'.current = FALSE
            BY <1>1, <2>2 DEF Passes
        <3> QED BY <3>1 DEF PassTyped, CopyCurrent
    <2> QED BY <2>1, <2>2 DEF IInv, PassTyped
<1>6. Progress'
    BY <1>1, OthersKeepProgress DEF IInv
<1> QED BY <1>1, <1>3, <1>4, <1>5, <1>6
    DEF IInv, SpecsTyped, ObjectsTyped, StatusTyped, CacheCurrent

LEMMA PodSteps ==
    ASSUME IInv, NEW p \in Protocols, Evict(p) \/ Bind(p) \/ Finish(p) \/ SyncPod(p)
    PROVE  IInv'
<1>1. UNCHANGED <<share, view, fresh, pool, cm, svc, status, pass>>
    BY DEF Evict, Bind, Finish, SyncPod, specVars
<1>2. PICK o : /\ pod' = [pod EXCEPT ![p] = o] /\ o \in CachedObjects(Pods)
               /\ o.data # None => pod[p].data # None /\ o.data.path = pod[p].data.path
    <2>0. pod[p] \in CachedObjects(Pods)
        BY DEF IInv, ObjectsTyped
    <2>1. CASE Evict(p)
        BY <2>0, <2>1, DeletedTyped DEF Evict
    <2>2. CASE Bind(p)
        <3> DEFINE b == [pod[p].data EXCEPT !.bound = TRUE]
        <3>1. pod[p].data \in Pods /\ pod[p].data # None
            BY <2>0, <2>2 DEF Bind, CachedObjects
        <3>2. b \in Pods /\ b.path = pod[p].data.path
            BY <3>1 DEF Pods
        <3>3. pod' = [pod EXCEPT ![p] = Written(pod[p], b)]
            BY <2>2 DEF Bind
        <3> HIDE DEF b
        <3> QED BY <2>0, <3>1, <3>2, <3>3, WrittenTyped
    <2>3. CASE Finish(p)
        BY <2>0, <2>3, RemovedTyped DEF Finish
    <2>4. CASE SyncPod(p)
        BY <2>0, <2>4, SyncedTyped DEF SyncPod
    <2> QED BY <2>1, <2>2, <2>3, <2>4
<1>3. pod' \in [Protocols -> CachedObjects(Pods)]
    BY <1>2 DEF IInv, ObjectsTyped
<1>4. \A q \in Protocols : pod'[q].data # None =>
          pod[q].data # None /\ pod'[q].data.path = pod[q].data.path
    BY <1>2 DEF IInv, ObjectsTyped
<1>5. Progress'
    BY <1>1, <1>4, OthersKeepProgress DEF IInv
<1>6. Counted'
    <2>1. UNCHANGED changes \/ Change
        BY DEF Evict, Bind, Finish, SyncPod
    <2>2. share.sub \in Nat /\ pool.mount \in Nat
        BY Bounds DEF IInv, SpecsTyped, Specs, Pools, Versions
    <2> QED BY <1>1, <2>1, <2>2, Bounds DEF IInv, Counted, Change
<1> QED BY <1>1, <1>3, <1>5, <1>6
    DEF IInv, SpecsTyped, ObjectsTyped, PassTyped, StatusTyped, CacheCurrent, CopyCurrent

LEMMA SyncSteps ==
    ASSUME IInv, NEW p \in Protocols, SyncConfigMap(p) \/ SyncService(p)
    PROVE  IInv'
<1>1. UNCHANGED <<share, view, fresh, pool, pod, status, pass, changes>>
    BY DEF SyncConfigMap, SyncService, specVars
<1>2. /\ cm' \in [Protocols -> CachedObjects(Paths)]
      /\ \A q \in Protocols : cm'[q].data = cm[q].data
    BY SyncedTyped DEF IInv, ObjectsTyped, SyncConfigMap, SyncService
<1>3. /\ svc' \in [Protocols -> CachedObjects({"service"})]
      /\ \A q \in Protocols : svc'[q].data = svc[q].data
    BY SyncedTyped DEF IInv, ObjectsTyped, SyncConfigMap, SyncService
<1>4. Progress'
    BY <1>1, <1>2, <1>3, OthersKeepProgress DEF IInv
<1> QED BY <1>1, <1>2, <1>3, <1>4
    DEF IInv, SpecsTyped, ObjectsTyped, PassTyped, StatusTyped, Counted, CacheCurrent, CopyCurrent

LEMMA RestartStep ==
    ASSUME IInv, OperatorRestart PROVE IInv'
<1>1. /\ view' = share /\ fresh' = TRUE /\ pass' = NoPass /\ Change
      /\ cm' = [p \in Protocols |-> Synced(cm[p])]
      /\ pod' = [p \in Protocols |-> Synced(pod[p])]
      /\ svc' = [p \in Protocols |-> Synced(svc[p])]
      /\ UNCHANGED <<share, pool, status>>
    BY DEF OperatorRestart
<1>2. ObjectsTyped'
    BY <1>1, SyncedTyped DEF IInv, ObjectsTyped
<1>3. Counted'
    <2>1. share.sub \in Nat /\ pool.mount \in Nat
        BY Bounds DEF IInv, SpecsTyped, Specs, Pools, Versions
    <2> QED BY <1>1, <2>1, Bounds DEF IInv, Counted, Change
<1> QED BY <1>1, <1>2, <1>3
    DEF IInv, SpecsTyped, PassTyped, StatusTyped, CacheCurrent, CopyCurrent, Progress

LEMMA PoolStep ==
    ASSUME IInv, PoolChanges PROVE IInv'
<1>1. /\ changes < MaxChanges /\ changes' = changes + 1
      /\ UNCHANGED <<share, view, fresh, cm, pod, svc, status, pass>>
    BY DEF PoolChanges, Change, objectVars
<1>2. share.sub \in Nat /\ pool.mount \in Nat /\ share.sub <= changes /\ pool.mount <= changes
      /\ changes \in Nat /\ pool \in Pools
    BY Bounds DEF IInv, SpecsTyped, Specs, Pools, Versions, Counted
<1>3. pool' \in Pools /\ pool'.mount <= changes + 1
    <2>1. CASE pool' = [pool EXCEPT !.mounted = ~@]
        <3>1. pool' \in Pools /\ pool'.mount = pool.mount
            BY <1>2, <2>1 DEF Pools
        <3> QED BY <1>2, <3>1
    <2>2. CASE pool' = [pool EXCEPT !.mount = @ + 1]
        <3>1. pool.mount + 1 \in Versions
            BY <1>1, <1>2, Bounds DEF Versions
        <3> QED BY <1>2, <2>2, <3>1 DEF Pools
    <2> QED BY <2>1, <2>2 DEF PoolChanges
<1>4. Counted'
    BY <1>1, <1>2, <1>3, Bounds DEF Counted
<1> QED BY <1>1, <1>3, <1>4
    DEF IInv, SpecsTyped, ObjectsTyped, PassTyped, StatusTyped, CacheCurrent, CopyCurrent, Progress

-----------------------------------------------------------------------------
(* The invariant.                                                          *)

LEMMA InitInv == Init => IInv
<1> SUFFICES ASSUME Init PROVE IInv
    OBVIOUS
<1>1. SpecsTyped /\ share.sub = 0 /\ pool.mount = 0
    <2>1. 0 \in Versions
        BY Bounds DEF Versions
    <2>2. share \in [protocol : Protocols, sub : {0}] /\ pool \in [mounted : BOOLEAN, mount : {0}]
          /\ view = share /\ fresh = TRUE
        BY Zenon DEF Init
    <2> QED BY <2>1, <2>2 DEF SpecsTyped, Specs, Pools
<1>2. ObjectsTyped
    <2>1. \A C : Missing \in CachedObjects(C)
        BY DEF Missing, CachedObjects
    <2>2. cm = [p \in Protocols |-> Missing] /\ pod = cm /\ svc = cm
        BY Zenon DEF Init
    <2> QED BY <2>1, <2>2 DEF ObjectsTyped
<1>3. StatusTyped
    <2>1. status = [phase |-> "", published |-> "" = "Ready"]
        BY DEF Init
    <2> QED BY <2>1, Zenon DEF StatusTyped, Statuses
<1>4. pass = NoPass /\ changes = 0 /\ view = share
    BY Zenon DEF Init
<1> QED BY <1>1, <1>2, <1>3, <1>4, Bounds
    DEF IInv, PassTyped, Counted, CacheCurrent, CopyCurrent, Progress

LEMMA StepInv == IInv /\ [Next]_vars => IInv'
<1> SUFFICES ASSUME IInv, [Next]_vars PROVE IInv'
    OBVIOUS
<1>1. CASE SyncShare
    <2>1. /\ view' = share /\ fresh' = TRUE
          /\ UNCHANGED <<share, pool, cm, pod, svc, status, pass, changes>>
        BY <1>1 DEF SyncShare, objectVars
    <2> QED BY <2>1 DEF IInv, SpecsTyped, ObjectsTyped, PassTyped, StatusTyped, Counted,
                        CacheCurrent, CopyCurrent, Progress
<1>2. CASE UNCHANGED vars
    BY <1>2 DEF vars, specVars, objectVars, IInv, SpecsTyped, ObjectsTyped, PassTyped,
                StatusTyped, Counted, CacheCurrent, CopyCurrent, Progress
<1> QED BY <1>1, <1>2, ConfigMapStep, ServiceStep, PodStep, StatusStep, StartStep,
           EditStep, PodSteps, SyncSteps, RestartStep, PoolStep DEF Next

(* The strengthened invariant: what a pass knows at each of its steps.     *)
THEOREM Invariance == Spec => []IInv
    BY InitInv, StepInv, PTL DEF Spec

(* The type invariant of ShareServing; a Share is published exactly when   *)
(* it is Ready (setSharePhase).                                            *)
THEOREM TypeCorrect == Spec => []TypeOK
<1>1. IInv => TypeOK
    BY DEF IInv, TypeOK, SpecsTyped, ObjectsTyped, PassTyped, StatusTyped, Counted
<1> QED BY <1>1, Invariance, PTL

(* Only the end of a pass that no request has failed publishes a Share,    *)
(* with the protocol and path of its spec (ShareReconciler.Reconcile).     *)
THEOREM PublishedCorrect == Spec => PublishedAsSpecified
<1> DEFINE Good == status'.published /\ ~status.published =>
               LET p == share.protocol IN
               /\ cm[p].data # None /\ svc[p].data # None
               /\ cm[p].data.sub = share.sub
               /\ pod[p].data # None => pod[p].data.path = cm[p].data
<1>1. IInv /\ [Next]_vars => [Good]_vars
    <2> SUFFICES ASSUME IInv, Next, status'.published, ~status.published PROVE Good
        OBVIOUS
    <2>1. status' # status
        OBVIOUS
    <2>2. SetSharePhase
        BY <2>1 DEF Next, EditShare, SyncShare, PoolChanges, OperatorRestart, Evict, Bind,
                    Finish, SyncConfigMap, SyncPod, SyncService, StartPass, UpsertConfigMap,
                    UpsertPod, DeletePod, RecreatePod, UpsertService
    <2>3. /\ pass # NoPass /\ pass.step = "status" /\ pass.current
          /\ status' = Reported
        BY <2>1, <2>2, NotNone DEF SetSharePhase, StatusAccepted, At, Steps
    <2>4. pass.phase = "Ready"
        BY <2>3 DEF Reported
    <2>5. /\ pass.protocol = share.protocol /\ pass.path.sub = share.sub
          /\ pass.path \in Paths
        BY <2>3, PassFields DEF IInv, CopyCurrent
    <2> QED BY <2>3, <2>4, <2>5, NoneIsNew DEF IInv, Progress
<1> QED BY <1>1, Invariance, PTL DEF Spec, PublishedAsSpecified
=============================================================================
