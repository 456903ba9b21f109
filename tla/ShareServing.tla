---------------------------- MODULE ShareServing ----------------------------
(***************************************************************************)
(* A Share and the ShareReconciler that serves it. For the protocol of the *)
(* Share a pass writes a ConfigMap, a Pod and a Service, one request after *)
(* the other, through informer caches that may be behind, and then the     *)
(* status of the Share. Between two requests the Share is edited, the Pool *)
(* is unmounted or moved, pods are scheduled, evicted or finish.           *)
(*                                                                         *)
(* The Share is read from a cache as well. The API server refuses a status *)
(* whose copy is not the latest version. A pass starts after its own last  *)
(* status write is in the cache: it is triggered by that, or by a timer 30 *)
(* seconds later. The Pool is what its cache shows, and its writes are not *)
(* checked against the copy a pass has read.                               *)
(***************************************************************************)
EXTENDS Naturals, CachedObject

CONSTANTS SaysImmutable, \* the API server's refusal matches isImmutablePodUpdateError
          MaxChanges     \* edits of the Share, changes of the Pool, evictions,
                         \* failed API requests and restarts of the operator

ASSUME ShareAssumption == SaysImmutable \in BOOLEAN /\ MaxChanges \in Nat

Protocols == {"SMB", "NFS"}
Versions  == 0..MaxChanges

(* sharePath: the mount point of the Pool, then the path of the Share.     *)
Paths == [mount : Versions, sub : Versions]

(* An object that exists has a content.                                    *)
ASSUME ContentAssumption == None \notin Paths \cup {"service"}

Specs == [protocol : Protocols, sub : Versions]
Pools == [mounted : BOOLEAN, mount : Versions]

(* The manifest leaves empty what the scheduler fills in: it is bound then.*)
PodsOf(path) == [path |-> path, bound |-> FALSE, dying |-> FALSE]
Pods == [path : Paths, bound : BOOLEAN, dying : BOOLEAN]

Phases   == {"Pending", "Degraded", "Ready"}
Statuses == {[phase |-> p, published |-> p = "Ready"] : p \in Phases \cup {""}}

VARIABLES
    share,   \* the spec of the Share
    view,    \* the spec in the cache
    fresh,   \* whether the cache has the latest version
    pool,    \* the Pool
    cm,      \* [Protocols -> the ConfigMap with the path it exports]
    pod,     \* [Protocols -> the Pod]
    svc,     \* [Protocols -> the Service]
    status,  \* the status of the Share
    pass,    \* the pass under way
    changes  \* how many of what MaxChanges bounds have happened

specVars   == <<share, view, fresh, pool>>
objectVars == <<cm, pod, svc>>
vars == <<specVars, objectVars, status, pass, changes>>

(* protocol and path are what the pass has read, current whether its copy  *)
(* of the Share is the latest version, phase is what it is going to report.*)
Steps  == {"cm", "pod", "delete", "recreate", "svc", "status"}
Passes == [step : Steps, protocol : Protocols, path : Paths, current : BOOLEAN,
           phase : Phases]
NoPass == [step |-> "none", current |-> FALSE]

Init ==
    /\ share \in [protocol : Protocols, sub : {0}]
    /\ view = share /\ fresh = TRUE
    /\ pool \in [mounted : BOOLEAN, mount : {0}]
    /\ cm = [p \in Protocols |-> Missing]
    /\ pod = cm /\ svc = cm
    /\ status = [phase |-> "", published |-> FALSE]
    /\ pass = NoPass
    /\ changes = 0

-----------------------------------------------------------------------------
(* The environment.                                                        *)

Change == changes < MaxChanges /\ changes' = changes + 1

EditShare ==
    /\ Change
    /\ \/ \E p \in Protocols \ {share.protocol} : share' = [share EXCEPT !.protocol = p]
       \/ share' = [share EXCEPT !.sub = @ + 1]
    /\ fresh' = FALSE
    /\ pass' = [pass EXCEPT !.current = FALSE]
    /\ UNCHANGED <<view, pool, objectVars, status>>

SyncShare ==
    /\ ~fresh
    /\ view' = share /\ fresh' = TRUE
    /\ UNCHANGED <<share, pool, objectVars, status, pass, changes>>

PoolChanges ==
    /\ Change
    /\ \/ pool' = [pool EXCEPT !.mounted = ~@]
       \/ pool' = [pool EXCEPT !.mount = @ + 1]
    /\ UNCHANGED <<share, view, fresh, objectVars, status, pass>>

(* The deletion of a Pod that runs on a node waits for its containers.     *)
Deleted(o) ==
    IF o.data.bound
    THEN Written(o, [o.data EXCEPT !.dying = TRUE])
    ELSE Removed(o)

Evict(p) ==
    /\ Change
    /\ pod[p].data # None
    /\ pod' = [pod EXCEPT ![p] = Deleted(@)]
    /\ UNCHANGED <<specVars, cm, svc, status, pass>>

Bind(p) ==
    /\ pod[p].data # None /\ ~pod[p].data.bound
    /\ pod' = [pod EXCEPT ![p] = Written(@, [@.data EXCEPT !.bound = TRUE])]
    /\ UNCHANGED <<specVars, cm, svc, status, pass, changes>>

Finish(p) ==
    /\ pod[p].data # None /\ pod[p].data.dying
    /\ pod' = [pod EXCEPT ![p] = Removed(@)]
    /\ UNCHANGED <<specVars, cm, svc, status, pass, changes>>

(* The watches deliver.                                                    *)
SyncConfigMap(p) ==
    /\ ~cm[p].fresh /\ cm' = [cm EXCEPT ![p] = Synced(@)]
    /\ UNCHANGED <<specVars, pod, svc, status, pass, changes>>

SyncPod(p) ==
    /\ ~pod[p].fresh /\ pod' = [pod EXCEPT ![p] = Synced(@)]
    /\ UNCHANGED <<specVars, cm, svc, status, pass, changes>>

SyncService(p) ==
    /\ ~svc[p].fresh /\ svc' = [svc EXCEPT ![p] = Synced(@)]
    /\ UNCHANGED <<specVars, cm, pod, status, pass, changes>>

OperatorRestart ==
    /\ Change
    /\ view' = share /\ fresh' = TRUE
    /\ cm' = [p \in Protocols |-> Synced(cm[p])]
    /\ pod' = [p \in Protocols |-> Synced(pod[p])]
    /\ svc' = [p \in Protocols |-> Synced(svc[p])]
    /\ pass' = NoPass
    /\ UNCHANGED <<share, pool, status>>

-----------------------------------------------------------------------------
(* ShareReconciler.Reconcile. Protocol and path stay those that the pass   *)
(* has read at its start.                                                  *)

StartPass ==
    /\ pass = NoPass
    /\ pass' = [step |-> IF pool.mounted THEN "cm" ELSE "status",
                protocol |-> view.protocol,
                path |-> [mount |-> pool.mount, sub |-> view.sub],
                current |-> fresh,
                phase |-> IF pool.mounted THEN "Ready" ELSE "Pending"]
    /\ UNCHANGED <<specVars, objectVars, status, changes>>

At(step) == pass.step = step

Advance(step) == pass' = [pass EXCEPT !.step = step] /\ UNCHANGED changes

(* An error of reconcileSMBShare or reconcileNFSShare.                     *)
GiveUp == pass' = [pass EXCEPT !.step = "status", !.phase = "Degraded"]

RequestFails == Change /\ GiveUp

Refused == GiveUp /\ UNCHANGED changes

(* upsertObject.                                                           *)
UpsertConfigMap ==
    /\ At("cm")
    /\ \/ /\ Accepts(cm[pass.protocol])
          /\ cm' = [cm EXCEPT ![pass.protocol] = Written(@, pass.path)]
          /\ Advance("pod")
       \/ /\ ~Accepts(cm[pass.protocol])
          /\ Refused /\ UNCHANGED cm
       \/ RequestFails /\ UNCHANGED cm
    /\ UNCHANGED <<specVars, pod, svc, status>>

UpsertService ==
    /\ At("svc")
    /\ \/ /\ Accepts(svc[pass.protocol])
          /\ svc' = [svc EXCEPT ![pass.protocol] = Written(@, "service")]
          /\ Advance("status")
       \/ /\ ~Accepts(svc[pass.protocol])
          /\ Refused /\ UNCHANGED svc
       \/ RequestFails /\ UNCHANGED svc
    /\ UNCHANGED <<specVars, cm, pod, status>>

(* A Pod that exists is only updated by its own manifest.                  *)
SamePod(o) == o.data = PodsOf(pass.path)

(* Mutant: a Pod that is not created anew is taken to be up to date.       *)
UpsertPod_trustsPod ==
    /\ At("pod")
    /\ LET o == pod[pass.protocol] IN
       \/ /\ o.seen \/ o.data = None
          /\ pod' = [pod EXCEPT ![pass.protocol] =
                         IF o.data = None THEN Written(@, PodsOf(pass.path)) ELSE @]
          /\ Advance("svc")
       \/ ~Accepts(o) /\ ~o.seen /\ Refused /\ UNCHANGED pod
    /\ UNCHANGED <<specVars, cm, svc, status>>

(* Mutant: a refused update is an error like any other.                    *)
UpsertPod_neverReplaces ==
    /\ At("pod")
    /\ LET o == pod[pass.protocol] IN
       \/ /\ Accepts(o) /\ (o.seen => SamePod(o))
          /\ pod' = [pod EXCEPT ![pass.protocol] = Written(@, PodsOf(pass.path))]
          /\ Advance("svc")
       \/ (Accepts(o) => o.seen /\ ~SamePod(o)) /\ Refused /\ UNCHANGED pod
       \/ RequestFails /\ UNCHANGED pod
    /\ UNCHANGED <<specVars, cm, svc, status>>

(* upsertPodObject up to the answer to its first write.                    *)
UpsertPod ==
    /\ At("pod")
    /\ LET o == pod[pass.protocol] IN
       \/ /\ Accepts(o) /\ (o.seen => SamePod(o))
          /\ pod' = [pod EXCEPT ![pass.protocol] = Written(@, PodsOf(pass.path))]
          /\ Advance("svc")
       \/ /\ Accepts(o) /\ o.seen /\ ~SamePod(o)
          /\ IF SaysImmutable THEN Advance("delete") ELSE Refused
          /\ UNCHANGED pod
       \/ ~Accepts(o) /\ Refused /\ UNCHANGED pod
       \/ RequestFails /\ UNCHANGED pod
    /\ UNCHANGED <<specVars, cm, svc, status>>

(* A Pod that is gone by now is no error.                                  *)
DeletePod ==
    /\ At("delete")
    /\ \/ /\ pod' = [pod EXCEPT ![pass.protocol] = IF @.data = None THEN @ ELSE Deleted(@)]
          /\ Advance("recreate")
       \/ RequestFails /\ UNCHANGED pod
    /\ UNCHANGED <<specVars, cm, svc, status>>

(* Mutant: AlreadyExists is taken for success.                             *)
RecreatePod_alreadyExistsOk ==
    /\ At("recreate")
    /\ pod' = [pod EXCEPT ![pass.protocol] =
                   IF @.data = None THEN Written(@, PodsOf(pass.path)) ELSE @]
    /\ Advance("svc")
    /\ UNCHANGED <<specVars, cm, svc, status>>

(* The name is taken as long as the old Pod terminates.                    *)
RecreatePod ==
    /\ At("recreate")
    /\ \/ /\ pod[pass.protocol].data = None
          /\ pod' = [pod EXCEPT ![pass.protocol] = Written(@, PodsOf(pass.path))]
          /\ Advance("svc")
       \/ pod[pass.protocol].data # None /\ Refused /\ UNCHANGED pod
       \/ RequestFails /\ UNCHANGED pod
    /\ UNCHANGED <<specVars, cm, svc, status>>

(* Mutant: a Share that fails is still announced.                          *)
Reported_keepsPublished ==
    [phase |-> pass.phase, published |-> status.published \/ pass.phase = "Ready"]

(* Published = true before setSharePhase, which takes it back in any other *)
(* phase than Ready.                                                       *)
Reported == [phase |-> pass.phase, published |-> pass.phase = "Ready"]

StatusAccepted == pass.current

(* setSharePhase; after an error the key is retried.                       *)
SetSharePhase ==
    /\ At("status")
    /\ \/ /\ StatusAccepted /\ status' = Reported /\ UNCHANGED changes
       \/ /\ ~StatusAccepted /\ UNCHANGED <<status, changes>>
       \/ /\ Change
          /\ UNCHANGED status
    /\ pass' = NoPass
    /\ UNCHANGED <<specVars, objectVars>>

Next ==
    \/ EditShare \/ SyncShare \/ PoolChanges \/ OperatorRestart
    \/ \E p \in Protocols :
          \/ Evict(p) \/ Bind(p) \/ Finish(p)
          \/ SyncConfigMap(p) \/ SyncPod(p) \/ SyncService(p)
    \/ StartPass
    \/ UpsertConfigMap \/ UpsertPod \/ DeletePod \/ RecreatePod \/ UpsertService
    \/ SetSharePhase

Spec == Init /\ [][Next]_vars

(* Pods are scheduled and terminate, the watches deliver, and a Share is   *)
(* reconciled again and again: every 30 seconds, or after an error.        *)
FairSpec ==
    /\ Spec
    /\ WF_vars(SyncShare)
    /\ \A p \in Protocols :
          /\ WF_vars(Bind(p)) /\ WF_vars(Finish(p))
          /\ WF_vars(SyncConfigMap(p)) /\ WF_vars(SyncPod(p)) /\ WF_vars(SyncService(p))
    /\ WF_vars(StartPass)
    /\ WF_vars(UpsertConfigMap) /\ WF_vars(UpsertPod) /\ WF_vars(DeletePod)
    /\ WF_vars(RecreatePod) /\ WF_vars(UpsertService) /\ WF_vars(SetSharePhase)

-----------------------------------------------------------------------------
(* Types; a Share is published exactly when it is Ready.                   *)
TypeOK ==
    /\ share \in Specs /\ view \in Specs /\ fresh \in BOOLEAN
    /\ pool \in Pools
    /\ cm \in [Protocols -> CachedObjects(Paths)]
    /\ pod \in [Protocols -> CachedObjects(Pods)]
    /\ svc \in [Protocols -> CachedObjects({"service"})]
    /\ status \in Statuses
    /\ pass \in Passes \cup {NoPass}
    /\ changes \in 0..MaxChanges

(* Whatever changed during the pass, a Share is announced as published     *)
(* only for the protocol and path its spec has at that moment, its         *)
(* configuration and its Pod export the same directory, and there is a     *)
(* Service (Reconcile: each error ends the pass, and the status is written *)
(* with the version of the copy the pass started from).                    *)
PublishedAsSpecified ==
    [][status'.published /\ ~status.published =>
          LET p == share.protocol IN
          /\ cm[p].data # None /\ svc[p].data # None
          /\ cm[p].data.sub = share.sub
          /\ pod[p].data # None => pod[p].data.path = cm[p].data]_vars

(* Once the environment is quiet and the Pool stays mounted, configuration *)
(* and Pod of the Share's protocol are those of its present path: no Pod   *)
(* keeps an old directory (upsertPodObject replaces what it cannot update).*)
Path == [mount |-> pool.mount, sub |-> share.sub]

FollowsPath ==
    <>[](pool.mounted =>
            /\ cm[share.protocol].data = Path
            /\ pod[share.protocol].data # None => pod[share.protocol].data.path = Path)

(* However often its Pod is deleted and created, a Share on a mounted Pool *)
(* is always served and always published again (the retries of Reconcile   *)
(* after AlreadyExists, Conflict and failed requests).                     *)
Serving ==
    LET p == share.protocol IN
    /\ svc[p].data # None /\ pod[p].data # None
    /\ pod[p].data.bound /\ ~pod[p].data.dying

ServedAgain ==
    []<>(pool.mounted => Serving) /\ []<>(pool.mounted => status.published)
=============================================================================
