# KubeNAS in TLA+

Specifications of the KubeNAS operator and node agent, model-checked with TLC
and, as far as safety goes, proved with TLAPS. They are written from the code at one commit;
`controllers/`, `api/` and `cmd/main.go` are the reference (the copies under
`operator/` differ in import paths only).

## 1. The system

KubeNAS turns the disks of a node into a NAS. The **operator** runs one
controller per custom resource, each with a single worker goroutine. They share
an informer cache: a read may be old, a write goes to the API server and is
refused when it was made from a version that is not the latest. The **node
agent** is one goroutine per node that discovers disks, reports them and
executes host operations. The two never talk to each other: everything goes
through ConfigMaps.

    Disk CR ──DiskReconciler──┐                      ┌─ lsblk, smartctl
                              ├─ op ConfigMaps ──▶ node agent ─ mount, umount, mergerfs
    Pool CR ──PoolReconciler──┘◀── status ConfigMaps ┘
    Disk ─▶ ArrayReconciler ─▶ Array ─▶ PoolReconciler ─▶ Pool ─▶ ShareReconciler ─▶ pods
    Disk ─▶ FailureReconciler ─▶ DiskFailure

| Component | State it keeps | Operations | What makes it correct |
|---|---|---|---|
| Operation channel (`controllers/kubernetes_agent_client.go`, agent `main.go`) | one ConfigMap per operation with a status; the agent's `processedOperations` in memory | post, poll (24 times, 2 s), list, execute, report | a call that returns without error was carried out; one target's operations happen in order; every call returns; every operation is executed |
| Host operations (`node-agent/pkg/disk/disk.go`) | mounted paths | mount, unmount, union mount | repeating an operation is harmless; a failing one may leave something behind |
| DiskReconciler and discovery (`controllers/disk_controller.go`, agent `runDiscovery`) | finalizer and status of each Disk; one status ConfigMap per node | add and remove the finalizer, mount, unmount, report | nothing in use is unmounted, deletion ends, the status converges |
| FailureReconciler (`controllers/placement_failure_controllers.go`) | one DiskFailure per Disk | open, reclassify, resolve | no invented alarm, none missed, none left open |
| Array, Pool, Share reconcilers | the status of each | judge the disks, mount the union, publish | nothing is published that was never mounted; failures surface; the union becomes complete |
| Snapraid configuration, ParityReconciler (`controllers/array_controller.go`, `parity_controller.go`) | a ConfigMap per node, three CronJobs per schedule | render and overwrite, then report the phase; create and update | what becomes Ready has had its configuration accepted, and a Ready that was overtaken does not last; CronJobs are never out of order; schedule and configuration end up in place |
| ShareReconciler's objects (`controllers/share_controller.go`) | a ConfigMap, a Pod and a Service per protocol, the status | upsert, delete and create again, publish | what is announced is served; no Pod keeps an old directory; service comes back |
| RebalanceReconciler (`controllers/rebalance_controller.go`) | the phase of a job | a state machine over phases | an end is final, a dry run never runs, a job ends or runs for a reason |
| Placement (`controllers/placement_failure_controllers.go`, `storage/scheduler`) | none | choose a disk, twice implemented, by no process called | a choice keeps to the balance that jobs wait for |
| SMART score and discovery (`node-agent/pkg/smart`, agent `runDiscovery`) | the status ConfigMap of the node | read attributes, add penalties, report | damage shows in the phase; the report becomes true |
| v1 controllers, CachePool, PlacementPolicy, webhooks, CSI, wiring | little or none | constant statuses, field checks | – |

What is hard here: decisions taken from caches that lag; writes from copies that
were read up to forty-eight seconds before; calls that time out while their
operation is still going to be executed; an agent that forgets what it has done
whenever it restarts, and then does it all again; operations that fail half
way; objects deleted and created again under the same name; passes of several
requests, cut short or overtaken by edits; a host that remounts at boot what old
operations have left in `/etc/fstab`.

## 2. The modules

| Module | Models |
|---|---|
| `HostOps` | the outcomes a mount, an unmount and a mergerfs mount can have on the set of mounted paths |
| `AgentRPC` | the contract of `NodeAgentClient` as its callers rely on it, without ConfigMaps, polls or an agent |
| `AgentChannel` | the channel: `postAgentOp`, `waitForOperationState`, `processOperationRequests`, `executeOperation`, crashes of both sides |
| `NodeHost` | one node in detail: devices, stacked mounts, `/etc/fstab`, reboots, `runDiscovery`, SMART and the health score; shown to stay within `HostOps` |
| `DiskContract` | what `DiskReconciler` promises of every Disk, without caches, copies, reports, logs or restarts of the operator |
| `DiskLifecycle` | `DiskReconciler` with the agent's discovery, on top of the channel's guarantees |
| `FailureRecords` | `FailureReconciler` |
| `StorageStack` | the phases of `ArrayReconciler`, `PoolReconciler`, `ShareReconciler`, and the union mount |
| `CachedObject` | one object in the API server and in a cache: what Create and Update accept |
| `ShareServing` | `ShareReconciler` request by request: ConfigMap, Pod, Service, status |
| `Parity` | `ArrayReconciler` request by request, with `ApplySnapraidConfig`, and `ParityReconciler`: a node's configuration, the phase of its Array, a schedule's CronJobs |
| `Placement` | the `PlacementScheduler`, the `Engine` of `storage/scheduler`, and `isImbalanced`, as operators |
| `Rebalance` | `RebalanceReconciler`: queue, timer, stale copies, changing disks |
| `*_proofs` | the theorems of section 4: `AgentChannel`, `NodeHost`, `DiskLifecycle`, `FailureRecords`, `StorageStack`, `ShareServing`, `Parity`, `Rebalance` |

How they build on each other: `AgentChannel` and `AgentRPC` are over `HostOps`, and
`AgentChannel` implements `AgentRPC`. `DiskLifecycle` and `StorageStack` use the
channel by what it guarantees, and `HostOps` for what an operation does;
`DiskLifecycle` implements `DiskContract`.
`NodeHost` implements `HostOps`, so what the others take for granted of the host
is checked against devices and mount stacks. `ShareServing` and `Parity` refine
two places where `StorageStack` has one step: the serving of a Share, and an
Array's pass with its two requests, the configuration and the phase.

**AgentChannel.** `now` is the operator's clock; an operation is named after it
(`UnixMilli`), so an identifier is a time. `call[w]` is the call in which worker
`w` (Disk or Pool controller) is blocked. `NameOperation` fixes the name,
`CreateOperation`/`CreateFails` are the create request (the name may be taken;
a failed request may have been stored nevertheless), `PollReturns` and
`PollAgain` are one iteration of the polling loop against `view`, the cache. On
the agent's side `List` takes the listing with its resourceVersions (`batch`),
`MarkRunning`, `Execute` and `Report` are `executeOperation` cut at the points
where a crash matters. `Updated` is an update from the listed copy: refused when
the version has moved, which it always has after a successful `MarkRunning`.
`AgentRestart` forgets `processed`; any of the mounts may be gone, because they
may live in the container's mount namespace.

**DiskLifecycle.** The channel is used through what `AgentChannel` establishes:
per disk, operations are executed in the order posted (`log`, `nextOp`), all of
them again after a restart, and a call is answered only if its own operation
succeeded. A repeated operation makes the last entry due again instead of growing
the log: executing `mount, mount` differs from `mount` in nothing but how often
it may fail. `view`/`fresh` are the cache, `worker.copy`/`worker.current` the copy
held during a call. SMART data is reduced to the classes that `computePhase`
tells apart; "gone" is a device `lsblk` does not list.

**DiskContract.** A Disk is absent, new, kept (under the finalizer) or leaving; the
agent has been asked for some things and may do any of them at any time, again and
again. `DiskLifecycle` maps to it by reading the stage off the object in the API
server, the requests off the log, and `trying` off the worker that is blocked in an
unmount. That the Disk asked to be unmounted is not kept, and that a status says
Mounted only after a mount was asked for, is then said without a word about caches,
and holds although every decision is taken from one.

**FailureRecords.** The Disks are the environment. `record`, `recordView` and
`fresh` are the DiskFailure, its cached copy and whether that is the latest
version. `seen` and `recovered` are history variables.

**StorageStack.** One Array, one Pool, one Share. The Disks are what the cache
shows of them, and change in any way. `union` is the set of branches of the
mergerfs mount. `MountMergerFS` detaches the old union first (`disk.go:212`), so a
failure may leave none. A successful remount detaches it too, and that window, in
which the path of a mounted Pool is bare, is inside the one step `Perform`: no step of
another actor falls into it, and no property speaks of it.
The reconcilers of Array and Share do not block and are one step; the
Pool worker blocks. Nothing reads the DegradedDisks of an Array, and they are left
out.

**NodeHost.** `stack[p]` are the devices mounted at a path, `fstab` the lines the
agent wrote, `ops` the operations posted and `verdict` those this process has
executed: a restart or a reboot empties it, and everything is executed again, as
the agent keeps its memory in the process and the operator deletes no ConfigMap.
`EnsureFstabEntry` searches the file for the name of the *device*, as the code
does; `LongNamed` are devices whose name contains another's. At boot the lines of a
path are mounted one over the other, in the order of the file (`BootOrder`).
`AgentRestart` may lose any of the mounts, as in `AgentChannel`, and the file: the
agent writes `/etc/fstab` (`disk.go:238`), which is its container's, while
`deploy/node-agent.yaml:145` mounts the host's `/etc` at `/host/etc`. A node therefore boots
with the lines the agent wrote or without them (`Boot`); the properties hold either
way. `QueryDisk` takes the four attributes that count through the switch of
the code, in the order of the table (`ReadAll`), which is ascending, as smartctl
prints it. Of the answers of smartctl three kinds are told apart. One with
`smart_status`, passed or failed, is read. One without it (`NoStatus`: smartctl cannot
open the device, or it has no SMART) is parsed without error all the same, and the
missing field is false, so `SmartFailed` is true (`smart.go:110`) and the Disk becomes
Failed, sound or not. Only no output, or output that is no JSON, is an error of
`QueryDisk`, and then `runDiscovery` reports a perfect score. Scores are in
thousandths; temperatures stay below the limit.

**CachedObject.** `[data, seen, fresh]`: the content, whether the cache shows the
object, and whether it shows the latest version. `Accepts` is all that the API
server's optimistic concurrency comes to for a Get-then-Create-or-Update.

**ShareServing.** `pass` is the pass under way, one action per request; `protocol`
and `path` are what it read at its start, `current` whether its copy of the Share
is still the latest. A Pod that is bound differs from its manifest, so that every
pass deletes it and creates it anew, and fails with AlreadyExists while the old one
terminates. `SaysImmutable` is the wording of the API server on which the
replacement depends (`isImmutablePodUpdateError`).

**Parity.** `conf[n]` is the ConfigMap named after node `n`, `cron[a][i]` the three
CronJobs of a schedule. A pass over an Array is `ReadArray`, which takes spec and
disks from the cache, `ApplySnapraidConfig`, the request for the ConfigMap, and
`SetArrayPhase`, the status update; `arrayPass` is what it has read. Between them
ConfigMaps are removed and overwritten, disks move and specs are edited. The update is
refused when the Array itself has been edited since (`current`), or when the pass began
from a copy older than its own last status (`shown`); an edit of a Disk does not make
it refused. `applied[n]` is a history variable: what the API server last accepted for
the ConfigMap of `n`, whether it is still there or not. `EnsureCronJob` is one of the
three requests of a pass of the `ParityReconciler`, whose schedule and node were read
at its start.

**Placement** and **Rebalance.** Candidates are a set, and a scheduler returns the
set of disks it may choose: the code keeps the first of equals. Neither
`PlacementScheduler.SelectDisk` nor the `Engine` of `storage/scheduler` has a caller
in the repository: what is said of them is about the functions. `BalancedKeepsBalance`
relates the balanced strategy to `isImbalanced` by their definitions, on every set of
disks the states of `Rebalance` offer; no process places a file by it. A pass of the
reconciler is `Read`, which judges the cached job by the cached pool and disks, and
`Update`, the status write. A new job has no phase; `Pending` is set by other
clients only. `queued` is the key in the work queue: only events of the job,
refused updates and the ten-second timer of a Running job put it there.

## 3. What TLC checks

| Run | Properties | Instance |
|---|---|---|
| `AgentChannel_shared` | `TypeOK`, `StatusTruthful`, `PerTargetOrder`, `QuiescentHost`, `Contract` (refinement of `AgentRPC`) | two workers, a disk and a pool, two milliseconds, one poll, one restart |
| `AgentChannel_live` | `CallsReturn`, `EventuallyExecuted` | one disk, two polls, one restart, one failed request |
| `DiskLifecycle_all` | `TypeOK`, `ProtectedUntilUnmount`, `KeepsContract` (refinement of `DiskContract`), `DeletionCompletes`, `StatusConverges` | one disk, three changes, one failure, one restart |
| `FailureRecords_all` | `TypeOK`, `NoInventedFailure`, `FailureClassified`, `RecoveryCloses` | one disk, five changes |
| `StorageStack_all` | `TypeOK`, `NothingInvented`, `UnionComplete`, `FailureVisible`, `GonePoolUnpublishes` | two data disks, one change, one failure, one restart |
| `ShareServing_all` | `TypeOK`, `PublishedAsSpecified`, `FollowsPath`, `ServedAgain` | both protocols, two changes, evictions, failed requests or restarts |
| `Parity_all` | `TypeOK`, `UpdatedInOrder`, `ReadyIsConfigured`, `ReadySettles`, `ParityReady` | one Array with a schedule, two nodes, two mount points, one change, one failure, one restart |
| `Rebalance_all` | `TypeOK`, `TerminalIsFinal`, `DryRunNeverRuns`, `JobSettles`, `BalancedKeepsBalance` | two disks with three sizes and three fillings, thresholds 0 and 30, two changes, one failure, one restart |
| `NodeHost_all` | `TypeOK`, `NotMountedTwice`, `HostOpsHonoured`, `SettlesAsAsked`, `ReportSettles` | one device, two paths, two operations, two reboots, restarts (with or without the mounts and the file), failures, changes or answers without a status |

Why the bounds are enough to be interesting. In the channel, two milliseconds and
two workers give name collisions between workers and within one; a single poll
makes every call time out early, so late executions and retries are the rule; and
two operations on one target are enough for a replay to disturb the order. A
restart can fall between any two steps, and either side may be the one. A
second Disk or DiskFailure is independent of the first (the operators of
`DiskLifecycle` and `FailureRecords` touch one at a time, except the worker, which
is merely occupied), so one is enough there. In `StorageStack` a delete followed
by a create is one change, disks start in either of two states, and a parity
disk that never fails is the same as none. In `ShareServing` two changes are what
it takes for an edit and a failure, eviction or restart to meet in one pass; in
`Parity` an edit, a failed request and a restart may cut one pass. A change can fall
between any two of its requests, with the failure and the restart before or after it.
The Array starts on the first node and mount point, the others being alike. A second
Array brings one thing more: on the same node it overwrites the ConfigMap, and `Alone`
leaves the two out.
With `Arrays = {a1, a2}`, `Scheduled = Contents = {}`, both nodes and mount
points at the start and no restart, TLC finds `ReadyIsConfigured` and `ReadySettles`
to hold as well (515 460 states, under a minute); with the schedule that instance is
too large for the liveness properties. For `ReadyIsConfigured` the proof is for any
number of Arrays. In `Rebalance` two disks are what an
imbalance is about, sizes include the 0 of a disk not reported on, and the
invariant about the balanced strategy is evaluated on every reachable set of disks
with every choice of the other attributes. In `NodeHost` two operations can mount and
unmount a path, mount a device at two paths or twice at one, and a reboot and a
restart can fall between any two steps. The run of `AgentChannel` that checks the
contract has no failed request; that a create may fail although it was stored is in
`AgentChannel_live`, and in the proof of the contract. The proofs of section 4 take the bounds
away for all of the safety properties. `CHECK_DEADLOCK FALSE` stands where
the environment is bounded: with no change left and everything settled, nothing
happens.

### Where the code disagrees with what is said of it

Three runs are expected to find a violation:

| Run | What happens | What is said |
|---|---|---|
| `AgentChannel_terminal` | the final status update of `executeOperation` carries the resourceVersion from before the Running update, is refused and ignored: an executed operation stays Running | `docs/architecture.md:74` |
| `DiskLifecycle_deleted` | a Disk deleted after a mount that timed out but was carried out stays mounted for ever | `disk_controller.go:103` |
| `StorageStack_mounted` | a Pool whose union was lost goes on saying Mounted, and its Share Published | `pool_types.go:43` |

The first one matters for the reading of all the others: with the code as it is,
a call is confirmed only if the Running update failed, so timeouts are the normal
case. No liveness property here assumes that a call is ever answered.

Five more properties state what is said of the code and do not hold. They stand in
their modules, and TLC shows the counterexample when the line is added to the
configuration:

| Module, configuration | Line to add | What happens | What is said |
|---|---|---|---|
| `AgentChannel`, `AgentChannel_shared.cfg` | `PROPERTY IdempotentExecution` | a restarted agent executes an old unmount again after a newer mount | `docs/architecture.md:73`, `CONTRIBUTING.md:42` |
| `FailureRecords`, `FailureRecords_all.cfg` | `PROPERTY FailureOpen` | a disk that recovers and fails again keeps its Resolved record | `placement_failure_controllers.go:159` |
| `StorageStack`, `StorageStack_all.cfg` | `PROPERTY FailedFenced` | a failed disk stays in the union, because a degraded array stops the remount | `docs/architecture.md:124` |
| `Parity`, `Parity_all.cfg` | `INVARIANT RunsOnTheArray` | the pod of a CronJob names no node and may start where the disks are not | `api/v1alpha1/other_types.go:12` |
| `NodeHost`, `NodeHost_all.cfg` | `INVARIANT Persistent` | a device mounted at a second path gets no entry for it: the search finds the device | `node-agent/pkg/disk/disk.go:232` |

Two properties that look natural and are *not* claimed: that a Share ends up
published for good (every pass replaces a bound Pod, so that it goes down and up
for ever; hence `ServedAgain` says "again and again"), and that `FollowsPath` and
`ServedAgain` hold whatever the API server's refusal says: with `SaysImmutable = FALSE`
both fail, and only `share_controller_test.go:11` says that the word is there.

Further observations, without a property: a record of a Disk that is gone is never
closed (`placement_failure_controllers.go:165`); an escalated record keeps the
advice of the warning (`:214`); a record is resolved for a Disk without a phase
(`:172`); a Disk no agent has reported on gets a perfect score and becomes Ready
(`kubernetes_agent_client.go:43`); an Array whose disks have no phase yet is
Ready, though `array_controller.go:43` speaks of disks that are Ready; two Arrays
whose first disks are on one node overwrite each other's configuration for ever
(`kubernetes_agent_client.go:86`); an Array may become Ready although its ConfigMap has
been removed or its first disk has moved since the pass applied it
(`array_controller.go:74`, put right by the next pass: `ReadySettles`); a device whose
answer has no `smart_status` is reported Failed (`smart.go:110`); the agent's
`/etc/fstab` is its container's (`disk.go:238`); nothing a Share has created for its former
protocol is ever removed (`share_controller.go:47`).

### Fairness

* `AgentChannel`: a call that has begun goes on (a goroutine is not starved), the
  watch delivers, the agent's loop runs. Nothing obliges anyone to post, the
  clock to advance or anything to fail.
* `DiskLifecycle`, `StorageStack`: the agent's ticker and the watches are weakly
  fair, and so is the end of a call. Reconciling is *strongly* fair: while a
  worker is blocked, or a cached version is old, an action is disabled again and
  again, but every pass requeues the object (after 30 or 60 s) and a refused
  update is retried with backoff, so no object is passed over for ever.
* `FailureRecords`: watches and reconciliation are weakly fair; `DiskReconciler`
  rewrites the status every thirty seconds, and each write is an event.
* `ShareServing`: a pass begins and goes on (a goroutine is not starved; the Share is
  requeued after 30 s or an error), the watches deliver, Pods are scheduled and
  terminate. All weak. Nothing obliges anyone to edit, evict or fail.
* `Parity`: as there; the start of a pass over an Array or a ParitySchedule is *strongly*
  fair, because the one worker of each reconciler is busy with others in between, but
  each is requeued (after 60 s or 5 minutes, or after an error).
* `Rebalance`: the watch, the taking of the key and the end of the pass. No fairness
  brings a key back to the queue: that is the code's own doing, or a job would
  hang (`JobSettles`).
* `NodeHost`: the two tickers of the agent.
* Failures and restarts are bounded, hence finally over, in every run.

## 4. What is proved

For every value of the constants (TLAPS, no axioms beyond the assumptions named
in the modules):

| Theorem | Statement |
|---|---|
| `AgentChannel_proofs!TypeCorrect` | `Spec => []TypeOK` |
| `AgentChannel_proofs!StatusCorrect` | `Spec => []StatusTruthful` |
| `AgentChannel_proofs!OrderCorrect` | `Spec => []PerTargetOrder` |
| `AgentChannel_proofs!HostCorrect` | `Spec => []QuiescentHost` |
| `AgentChannel_proofs!ContractCorrect` | `Spec => Contract` (`AgentChannel` implements `AgentRPC`) |
| `NodeHost_proofs!TypeCorrect` | `Spec => []TypeOK` |
| `NodeHost_proofs!NotMountedTwiceCorrect` | `Spec => []NotMountedTwice` |
| `NodeHost_proofs!HostOpsCorrect` | `Spec => HostOpsHonoured` |
| `FailureRecords_proofs!TypeCorrect` | `Spec => []TypeOK` |
| `FailureRecords_proofs!RecordsFounded` | `Spec => []NoInventedFailure` |
| `StorageStack_proofs!TypeCorrect` | `Spec => []TypeOK` |
| `StorageStack_proofs!NothingInventedCorrect` | `Spec => []NothingInvented` |
| `DiskLifecycle_proofs!TypeCorrect` | `Spec => []TypeOK` |
| `DiskLifecycle_proofs!ProtectionCorrect` | `Spec => ProtectedUntilUnmount` |
| `DiskLifecycle_proofs!InUseCorrect` | `Spec => NoUnmountInUse` |
| `DiskLifecycle_proofs!KeepsContractCorrect` | `Spec => KeepsContract` (`DiskLifecycle` implements `DiskContract`) |
| `ShareServing_proofs!TypeCorrect` | `Spec => []TypeOK` |
| `ShareServing_proofs!PublishedCorrect` | `Spec => PublishedAsSpecified` |
| `Parity_proofs!TypeCorrect` | `Spec => []TypeOK` |
| `Parity_proofs!OrderCorrect` | `Spec => []UpdatedInOrder` |
| `Parity_proofs!ReadyCorrect` | `Spec => ReadyIsConfigured` |
| `Rebalance_proofs!TypeCorrect` | `Spec => []TypeOK` |
| `Rebalance_proofs!FinalCorrect` | `Spec => TerminalIsFinal` |
| `Rebalance_proofs!DryRunCorrect` | `Spec => DryRunNeverRuns` |
| `Rebalance_proofs!BalancedCorrect` | `Spec => []BalancedKeepsBalance` |
| `Rebalance_proofs!PlacementFinds` | on any finite set of disks, with any strategy and weights, both schedulers find a disk iff one is eligible |

*Channel.* `StatusTruthful` is not inductive: `Report` writes what `verdict` says
about `cur`. The invariant adds that a call has a name the clock has reached and a
request of its worker (`CallsOK`), that only what exists has a version, is listed
or is remembered (`ConfigMapsOK`), and that what is being executed exists, is not
remembered, and has the verdict of an execution (`ExecutionOK`). The order needs
more: what is still listed is newer than what this incarnation has executed on
the same target. It rests on a fact about the operator, that one worker owns a
target and names its requests in the order of the clock, and so on
`MountsAssumption`: the mount points of pools are not mount points of disks. The
CRDs do not enforce that, and the proof shows where it is used. The host's
settling (`QuiescentHost`) follows from the order and from the outcomes of
`HostOps`. For the refinement of `AgentRPC` a ConfigMap's request is what has been
posted under its name. A name that is free has no request (`FreeUnposted`) and an idle
worker keeps nothing of its last call (`IdleForgets`), so that an accepted create is
the contract's `Post`, and a refused one nothing. That an answer Done only comes after
a success is `StatusTruthful` again.

*Node.* A second copy of a device on a path could come from an operation or from the
boot. The first looks before it mounts; for the second, a device has one line in
`/etc/fstab` at most (`FstabOnce`), since the search finds at least the device itself.
What is stacked or written there was asked for (`StackAsked`, `FstabAsked`); a lost
mount or file only makes both smaller. That an
operation stays within `HostOps` is shown outcome by outcome: which paths are in use
changes at one path only (`OneMount`, `MountPaths`, `UnmountPaths`).

*Failure records.* An update from a cached copy is accepted only if that copy is
the record (`FreshMeansCurrent`); what the cache of the disks shows has been
(`ViewSeen`); and a disk whose cached phase is bad but whose phase is not has
recovered (`LeftBad`). Together they make every write founded.

*Storage stack.* While a worker waits, the mount it posted is the last in the log,
and an answer means that this mount was executed (`CallFounded`); the cached Pool and
the copy the worker holds are founded like the Pool itself (`ViewFounded`).

*Disks.* A copy called latest is the object (`Cached`, `Held`); a Disk is called
mounted only under the finalizer (`Finalized`), so that its deletion goes through
the reconciler; and the finalizer is only added to what the cache shows alive, so
that while the cache still shows a deletion, a new Disk of that name has not been
taken (`Untaken`).

*Disk contract.* What the abstract steps require of the object, the concrete ones know
from a cache, so the invariant has to carry it over. A Disk that the cache shows alive
and taken has its finalizer, though it may be leaving by now (`Kept`); only a
finalizer delays a deletion (`Delayed`); a worker mounts from a copy that was alive, and
unmounts from one that was not, as the cache still shows if that copy is the latest
(`Calling`). And a claim of a mount travels: from the host to the report, to its cached
copy, to the status, to the cached status, and through the answer of a call. Each of
them goes back to a mount in the log (`ClaimsFounded`).

*Shares.* `Progress` says what a pass may rely on at each step: as long as nothing has
failed, the objects it has been through are those of its path, whatever happened to
the Pod meanwhile. `CopyCurrent` ties its copy to the spec; the status write is
accepted only then.

*Parity.* No CronJob is ahead of its schedule (`Behind`), and during a pass those it has
been through are at the version it read, the others at most there (`Through`). The
order of the three follows, though the pass may be cut anywhere. For
`ReadyIsConfigured` the configuration has to be carried from one request to the next
(`Carried`): what a pass is about to report as Ready was accepted for the node it has
read, and nobody but this worker overwrites it; and as long as its copy of the Array is
the latest, the spec is the one it has read, though the disks may have been edited. The
status update is accepted only then.

*Rebalance.* A copy that is called fresh is the job (`FreshMeansCurrent`), and the phase
a current pass is going to write was judged from the job as it is (`PassFounded`).
`BalancedKeepsBalance` is about definitions, not about a step of the system:
among equally healthy disks the balanced strategy takes one
that is emptiest in proportion (`BalancedTakesEmptiest`), and a file of at most the
threshold raises it to no more than the threshold above any other; the products of
sizes are compared with one lemma about multiplication (`TimesMonotonic`).
`PlacementFinds` shows that the choice is never empty without reason, which the
definitions of the schedulers, by who is not beaten, do not say: in a smallest set in
which everyone is beaten, leaving one out leads to a contradiction (`SomeoneUnbeaten`,
by the well-founded order of finite sets), and fractions with positive denominators
are compared transitively (`CrossTransitive`).

Assumptions: `ChannelAssumption`, `MountsAssumption`, `RecordsAssumption`,
`StackAssumption` (an Array has a data disk, which the CRD demands),
`LifecycleAssumption`, `HostAssumption`, `RebalanceAssumption`, `ParityAssumption` (no node has the
empty name, which stands for a field that is not set), `ShareAssumption`,
`ContentAssumption` (an object that exists has a content); the bounds are natural
numbers. The clock does not go back. TLC evaluates them in every run.

Only model-checked: liveness, which is out of the prover's reach (`ENABLED` and
fairness). That is `CallsReturn`, `EventuallyExecuted`, `DeletionCompletes`,
`StatusConverges`, `FailureClassified`, `RecoveryCloses`, `UnionComplete`,
`FailureVisible`, `GonePoolUnpublishes`, `FollowsPath`, `ServedAgain`, `ParityReady`,
`ReadySettles`,
`JobSettles`, `SettlesAsAsked` and `ReportSettles`. Every invariant, action property
and refinement that a passing run checks is also proved.

## 5. What is not modelled

* The v1 controllers (`controllers/new_arch_controllers.go`, over `api/v1`)
  are registered in neither `cmd/main.go` nor `operator/main.go`: no process runs them. The v1 Disks
  written by `upsertDiskCRs` are read by no v1alpha1 controller.
* `CachePoolReconciler` writes one constant status. `PlacementPolicyReconciler` writes
  a ConfigMap that nothing reads. `RunParityOperation`, and the parity commands of the
  agent behind it, have no caller. `storage/mergerfs` and `storage/snapraid` render
  strings nobody uses.
* Webhooks check fields of one object; CSI answers with constants; the wiring starts
  processes: no state of their own to get wrong.
* Capacities as numbers (outside `Placement`), temperatures, attributes beyond the four
  that count, rendered text and the wording of conditions are data that no property
  here tells apart. `Get` on a started cache fails with NotFound only.
* Several nodes, except in `Parity`: the channel of each node is separate, and the Pool
  code assumes one node.
* Formatting a device, and the output formats of `lsblk` and `smartctl`, are I/O.

### How definitions cite the source

PROJECT.json names lines for every definition. The repository holds the operator
twice: under `api/`, `controllers/` and `cmd/`, built by the `Dockerfile` at the top,
and under `operator/`, built by `operator/Dockerfile` and named as the operator by
`docs/repository-layout.md:73`. The copies of the files cited here differ in import
paths only, and the definitions model both. A definition that composes others, or
a type or helper that an earlier module has cited already, cites the copy under
`operator/` (about 850 of the 2700 lines), so that few lines are named twice; code
that exists once (the agent, `storage/`) is cited where it is.

## 6. Plan

1. Done: `HostOps`, `AgentRPC`, `AgentChannel` and its proofs (everything else goes
   through the channel); `FailureRecords`, `DiskLifecycle`, `StorageStack`; then
   `NodeHost`, `ShareServing`, `Parity`, `Placement`, `Rebalance`, and the proofs of
   the safety of all of them.
2. Done: the proofs that `AgentChannel` implements `AgentRPC`, `NodeHost` stays within
   `HostOps`, and `DiskLifecycle` implements `DiskContract`.
3. An abstract specification of a published Share for `ShareServing` to implement,
   and one of a mounted union for the Pool in `StorageStack`.
4. Two nodes in `StorageStack`, for a Pool whose disks are not on the node the code
   assumes.
