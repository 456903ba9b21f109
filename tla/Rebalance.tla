----------------------------- MODULE Rebalance -----------------------------
(***************************************************************************)
(* The RebalanceReconciler: the state machine of one RebalanceJob. One     *)
(* worker reads the job from the informer cache, judges it by the Pool,    *)
(* the PlacementPolicy and the member Disks that the caches show, and      *)
(* writes the new phase with optimistic concurrency. Only events of the    *)
(* job, errors and the timer of a Running job bring the key back to the    *)
(* work queue: nothing watches the Pool, the policy or the Disks.          *)
(*                                                                         *)
(* A new job has no phase: the code tests for Pending, but only another    *)
(* client that writes the status subresource sets it.                      *)
(***************************************************************************)
EXTENDS Placement, FiniteSets

CONSTANTS Disks,        \* Disks the Pool may have as members
          Capacities,   \* their sizes, 0 while the agent has not reported
          Frees,        \* and free bytes
          Thresholds,   \* imbalanceThresholdPercent of a job
          MaxChanges,   \* changes of the environment
          MaxFailures,  \* failed status updates
          MaxRestarts   \* restarts of the operator

ASSUME RebalanceAssumption ==
    /\ Capacities \subseteq Nat /\ Frees \subseteq Nat
    /\ \E c \in Capacities : \E a \in Frees : a <= c
    /\ Thresholds \subseteq Int /\ Thresholds # {}
    /\ MaxChanges \in Nat /\ MaxFailures \in Nat /\ MaxRestarts \in Nat

Phases   == {"", "Pending", "Planning", "Running", "Completed", "Failed"}
Terminal == {"Completed", "Failed"}

(* started: StartTime is set.                                              *)
NewJobs == [phase : {""}, started : {FALSE}, dryRun : BOOLEAN, threshold : Thresholds]
Jobs    == [phase : Phases, started : BOOLEAN, dryRun : BOOLEAN, threshold : Thresholds]
NoJob   == [phase |-> "absent", started |-> FALSE, dryRun |-> FALSE, threshold |-> 0]

NoDisk     == [cap |-> 0, avail |-> -1]
DiskStates == {s \in [cap : Capacities, avail : Frees] : s.avail <= s.cap} \cup {NoDisk}

NoPass == [phase |-> "none", current |-> FALSE]

VARIABLES
    job,      \* the RebalanceJob in the API server
    view,     \* the job in the informer cache
    fresh,    \* whether view is the latest version
    queued,   \* whether the job's key is in the work queue
    pass,     \* the pass under way: the phase it will write, from what copy
    found,    \* [{"pool", "policy"} -> whether the caches hold it]
    members,  \* MemberDisks of the Pool
    disk,     \* [Disks -> size and free bytes, or NoDisk]
    changes, failures, restarts  \* how often each has happened

jobVars   == <<job, view, fresh>>
envVars   == <<found, members, disk>>
boundVars == <<changes, failures, restarts>>
vars == <<jobVars, queued, pass, envVars, boundVars>>

Init ==
    /\ job \in NewJobs
    /\ view = NoJob /\ fresh = FALSE /\ queued = FALSE
    /\ pass = NoPass
    /\ found = [r \in {"pool", "policy"} |-> TRUE]
    /\ members = Disks
    /\ disk \in [Disks -> DiskStates \ {NoDisk}]
    /\ changes = 0 /\ failures = 0 /\ restarts = 0

-----------------------------------------------------------------------------
(* The environment.                                                        *)

Change == changes < MaxChanges /\ changes' = changes + 1

(* Every write of the job invalidates the copies of it.                    *)
Rewrite(new) ==
    /\ Change
    /\ job' = new
    /\ fresh' = FALSE
    /\ pass' = [pass EXCEPT !.current = FALSE]
    /\ UNCHANGED <<view, queued, envVars, failures, restarts>>

EditSpec ==
    /\ job # NoJob
    /\ \E dryRun \in BOOLEAN, t \in Thresholds :
          LET new == [job EXCEPT !.dryRun = dryRun, !.threshold = t]
          IN  new # job /\ Rewrite(new)

MarkPending == job.phase = "" /\ Rewrite([job EXCEPT !.phase = "Pending"])

Replace == \E new \in NewJobs \cup {NoJob} : new # job /\ Rewrite(new)

DiskChanges(d) ==
    /\ Change
    /\ \E s \in DiskStates \ {disk[d]} : disk' = [disk EXCEPT ![d] = s]
    /\ UNCHANGED <<jobVars, queued, pass, found, members, failures, restarts>>

PoolChanges ==
    /\ Change
    /\ \E f \in [{"pool", "policy"} -> BOOLEAN], m \in SUBSET Disks :
          /\ <<f, m>> # <<found, members>>
          /\ found' = f /\ members' = m
    /\ UNCHANGED <<jobVars, queued, pass, disk, failures, restarts>>

(* A watch event of the job.                                               *)
Sync ==
    /\ ~fresh
    /\ view' = job /\ fresh' = TRUE /\ queued' = TRUE
    /\ UNCHANGED <<job, pass, envVars, boundVars>>

(* The cache is filled again, and every object of it enqueued.             *)
OperatorRestart ==
    /\ restarts < MaxRestarts /\ restarts' = restarts + 1
    /\ view' = job /\ fresh' = TRUE /\ queued' = TRUE /\ pass' = NoPass
    /\ UNCHANGED <<job, envVars, changes, failures>>

-----------------------------------------------------------------------------
(* The reconciler.                                                         *)

Members == {[name |-> d, cap |-> disk[d].cap, avail |-> disk[d].avail] :
               d \in {m \in members : disk[m] # NoDisk}}

Verdict(j) ==
    CASE ~(found["pool"] /\ found["policy"])  -> "Failed"
      [] ~Imbalanced(Members, j.threshold)    -> "Completed"
      [] j.phase = "Pending"                  -> "Planning"
      [] j.dryRun                             -> "Completed"
      [] OTHER                                -> "Running"

(* Mutant: a job that has Failed is tried again.                           *)
Read_retriesFailed ==
    /\ queued /\ pass = NoPass
    /\ queued' = FALSE
    /\ pass' = IF view = NoJob \/ view.phase = "Completed" THEN NoPass
               ELSE [phase |-> Verdict(view), current |-> fresh]
    /\ UNCHANGED <<jobVars, envVars, boundVars>>

(* The first half of a pass, up to the phase that setJobPhase will write.  *)
Read ==
    /\ queued /\ pass = NoPass
    /\ queued' = FALSE
    /\ pass' = IF view = NoJob \/ view.phase \in Terminal THEN NoPass
               ELSE [phase |-> Verdict(view), current |-> fresh]
    /\ UNCHANGED <<jobVars, envVars, boundVars>>

(* Mutant: StartTime is only set when a planned job starts.                *)
Judged_plannedOnly(phase) ==
    [job EXCEPT !.phase = phase, !.started = @ \/ (phase = "Running" /\ job.phase = "Planning")]

Judged(phase) == [job EXCEPT !.phase = phase, !.started = @ \/ phase = "Running"]

(* Mutant: no timer for a Running job.                                     *)
Accepted_noTimer ==
    /\ pass.current
    /\ job' = Judged(pass.phase)
    /\ fresh' = (fresh /\ job' = job)
    /\ UNCHANGED <<queued, failures>>

(* Mutant: the update does not carry the version of the copy.              *)
Accepted_anyVersion ==
    /\ job # NoJob
    /\ job' = Judged(pass.phase)
    /\ fresh' = (fresh /\ job' = job)
    /\ queued' = (queued \/ pass.phase = "Running")
    /\ UNCHANGED failures

(* The update succeeds, and a Running job comes back after ten seconds. An *)
(* update that changes nothing makes no new version and no event.          *)
Accepted ==
    /\ pass.current
    /\ job' = Judged(pass.phase)
    /\ fresh' = (fresh /\ job' = job)
    /\ queued' = (queued \/ pass.phase = "Running")
    /\ UNCHANGED failures

(* A conflict, or a failed request: the work queue retries the key.        *)
Refused ==
    /\ \/ ~pass.current /\ UNCHANGED failures
       \/ failures < MaxFailures /\ failures' = failures + 1
    /\ queued' = TRUE
    /\ UNCHANGED <<job, fresh>>

Update ==
    /\ pass # NoPass
    /\ Accepted \/ Refused
    /\ pass' = NoPass
    /\ UNCHANGED <<view, envVars, changes, restarts>>

Reconciler == Read \/ Update

Next ==
    \/ EditSpec \/ MarkPending \/ Replace \/ PoolChanges
    \/ \E d \in Disks : DiskChanges(d)
    \/ Sync \/ OperatorRestart \/ Reconciler

Spec == Init /\ [][Next]_vars

(* The watch delivers, and the worker takes the key off the queue and      *)
(* finishes its pass.                                                      *)
FairSpec == Spec /\ WF_vars(Sync) /\ WF_vars(Read) /\ WF_vars(Update)

-----------------------------------------------------------------------------
(* Types, and the times of the status: a job that runs has its start time. *)
TypeOK ==
    /\ job \in Jobs \cup {NoJob}
    /\ view \in Jobs \cup {NoJob}
    /\ fresh \in BOOLEAN /\ queued \in BOOLEAN
    /\ pass \in [phase : Phases, current : BOOLEAN] \cup {NoPass}
    /\ found \in [{"pool", "policy"} -> BOOLEAN]
    /\ members \subseteq Disks
    /\ disk \in [Disks -> DiskStates]
    /\ changes \in 0..MaxChanges
    /\ failures \in 0..MaxFailures
    /\ restarts \in 0..MaxRestarts
    /\ job.phase = "Running" => job.started

(* A finished job is final: no pass, however old its copy of the job and   *)
(* whatever became of the disks since, opens it again or turns success     *)
(* into failure (the terminal phases of Reconcile). Only a new object of   *)
(* the same name starts over.                                              *)
TerminalIsFinal ==
    [][job.phase \in Terminal => job'.phase \in {job.phase, "", "absent"}]_vars

(* Nothing is ever started on behalf of a job that is a dry run at that    *)
(* moment, also when the administrator makes it one, or replaces it by     *)
(* one, while a pass that has read the old job is under way.               *)
DryRunNeverRuns ==
    [][job.phase # "Running" /\ job'.phase = "Running" => ~job.dryRun]_vars

(* Once the environment is quiet a job ends, unless it runs for an         *)
(* imbalance that is still there: a Running job notices on its own that    *)
(* the disks have become balanced or the Pool has gone (RequeueAfter).     *)
Settled ==
    \/ job = NoJob
    \/ job.phase \in Terminal
    \/ /\ job.phase = "Running" /\ ~job.dryRun
       /\ found["pool"] /\ found["policy"]
       /\ Imbalanced(Members, job.threshold)

JobSettles == <>[]Settled

-----------------------------------------------------------------------------
(* The schedulers, on the disks of the moment: every choice of the other   *)
(* attributes of a candidate.                                              *)

Candidates(attribute) ==
    {[name |-> m.name, cap |-> m.cap, avail |-> m.avail,
      ready |-> attribute[m.name] # "degraded", health |-> 10, io |-> 10,
      rotational |-> attribute[m.name] = "slow"] : m \in Members}

Attributes == [members -> {"degraded", "slow", "fast"}]

After(S, d, bytes) == (S \ {d}) \cup {[d EXCEPT !.avail = @ - bytes]}

(* By their definitions the balanced strategy keeps to the balance that    *)
(* the RebalanceReconciler waits for, should files be placed by it: among  *)
(* disks that are equally healthy, a file of at most t percent of its disk *)
(* placed by balanced never makes a balanced set of eligible disks         *)
(* imbalanced (selectBalanced and isImbalanced).                           *)
BalancedKeepsBalance ==
    \A a \in Attributes : \A t \in Thresholds : LET S == Eligible(Candidates(a)) IN
        t > 0 /\ ~Imbalanced(S, t) =>
            \A d \in SelectDisk("balanced", DefaultWeights, S) :
                \A n \in {n \in Frees : n <= d.avail /\ 100 * n <= t * d.cap} :
                    ~Imbalanced(After(S, d, n), t)
=============================================================================
