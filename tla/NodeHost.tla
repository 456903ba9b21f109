------------------------------ MODULE NodeHost ------------------------------
(***************************************************************************)
(* One storage node and its agent: what mount, umount, /etc/fstab, lsblk   *)
(* and smartctl make of the operations the operator posts, through         *)
(* reboots of the node, restarts of the agent and changes of the hardware. *)
(*                                                                         *)
(* The agent has one loop: it discovers the devices when it starts and     *)
(* every 30 seconds, and executes the posted operations in their order,    *)
(* each once per life of its process. Operations are never deleted. Of the *)
(* channel only that is kept here: its messages are in AgentChannel, pools *)
(* in StorageStack.                                                        *)
(***************************************************************************)
EXTENDS Integers, Sequences, SequencesExt, FiniteSets

CONSTANTS Devices,   \* device paths
          LongNamed, \* those that contain the others, as /dev/sdaa has /dev/sda
          Mounts,    \* mount points
          Raws,      \* raw values of SMART attributes
          Wears,     \* NVMe wear in percent
          None,      \* no status ConfigMap, or no entry in it
          MaxOps,    \* posted operations
          MaxChanges \* restarts, reboots, failures and changes of the hardware

ASSUME HostAssumption ==
    /\ LongNamed \subseteq Devices
    /\ Raws \subseteq Nat /\ Wears \subseteq Nat /\ 0 \in Raws \cap Wears
    /\ MaxOps \in Nat /\ MaxChanges \in Nat

-----------------------------------------------------------------------------
(* SMART. What smartctl says of a device: an ATA disk has a table of       *)
(* attributes, by ascending id, an NVMe device its wear. An answer without *)
(* smart_status, which smartctl gives for a device it cannot open or that  *)
(* has no SMART, has none of that: the fields that are missing are zero.   *)

Attribute(id, raw) == [id |-> id, raw |-> raw]

DiskTables == {<<Attribute(5, r), Attribute(187, u), Attribute(197, p), Attribute(198, o)>> :
                   r, u, p, o \in Raws}

NoStatus == [status |-> "absent", table |-> <<>>, wear |-> 0, rotational |-> FALSE]

Verdicts == {"passed", "failed"}

Samples == [status : Verdicts, table : DiskTables, wear : {0}, rotational : {TRUE}]
             \cup [status : Verdicts, table : {<<>>}, wear : Wears, rotational : {FALSE}]
             \cup {NoStatus}

Larger(a, b) == IF a > b THEN a ELSE b
Smaller(a, b) == IF a < b THEN a ELSE b

(* Mutant: attribute 198 overwrites what 187 has reported.                 *)
Read_overwrites(h, a) ==
    CASE a.id = 5          -> [h EXCEPT !.reallocated = a.raw]
      [] a.id \in {187, 198} -> [h EXCEPT !.uncorrectable = a.raw]
      [] a.id = 197        -> [h EXCEPT !.pending = a.raw]

(* The switch of QueryDisk.                                                *)
Read(h, a) ==
    CASE a.id = 5   -> [h EXCEPT !.reallocated = a.raw]
      [] a.id = 187 -> [h EXCEPT !.uncorrectable = a.raw]
      [] a.id = 197 -> [h EXCEPT !.pending = a.raw]
      [] a.id = 198 -> [h EXCEPT !.uncorrectable = Larger(@, a.raw)]

(* The loop over the table, in its order.                                  *)
ReadAll(h, t) ==
    IF t = <<>> THEN h ELSE Read(Read(Read(Read(h, t[1]), t[2]), t[3]), t[4])

(* A status that is not there has not passed.                              *)
QueryDisk(s) ==
    ReadAll([failed |-> s.status # "passed", reallocated |-> 0, pending |-> 0,
             uncorrectable |-> 0, wear |-> s.wear, rotational |-> s.rotational],
            s.table)

Penalty(h) ==
    (IF h.failed THEN 600 ELSE 0)
    + Smaller(300, 10 * h.reallocated)
    + Smaller(400, 50 * h.pending)
    + Smaller(500, 100 * h.uncorrectable)
    + (IF h.rotational THEN 0 ELSE 5 * h.wear)

(* Mutant: the score is not clamped.                                       *)
ComputeHealthScore_unclamped(h) == 1000 - Penalty(h)

(* In thousandths. Disks are at most 55 degrees warm, and no sum of        *)
(* penalties is exactly 700, where rounding would decide.                  *)
ComputeHealthScore(h) == Larger(0, 1000 - Penalty(h))

(* DiskReconciler.computePhase; the agent never reports I/O errors.        *)
computePhase(e) ==
    CASE e.failed                       -> "Failed"
      [] ~e.failed /\ e.score < 300     -> "Degraded"
      [] ~e.failed /\ e.score >= 300    -> "Ready"

-----------------------------------------------------------------------------
MountOps   == [kind : {"mount"}, device : Devices, path : Mounts]
UnmountOps == [kind : {"unmount"}, path : Mounts]
Ops == MountOps \cup UnmountOps

FstabEntries == [device : Devices, path : Mounts]

Entries == [mounted : BOOLEAN, failed : BOOLEAN, score : 0..1000]

VARIABLES
    plugged,  \* the devices lsblk lists
    smart,    \* [Devices -> what smartctl says]
    stack,    \* [Mounts -> the devices mounted there, the visible one last]
    fstab,    \* /etc/fstab
    ops,      \* the operations posted, oldest first
    verdict,  \* whether each of those this process has executed succeeded
    report,   \* the status ConfigMap, [Devices -> an entry or None]
    changes   \* how many of what MaxChanges bounds have happened

hostVars == <<plugged, smart>>
vars == <<hostVars, stack, fstab, ops, verdict, report, changes>>

(* Sound devices, as far as smartctl knows.                                *)
NewSamples == {s \in Samples : /\ s.status # "failed" /\ s.wear = 0
                               /\ \A i \in DOMAIN s.table : s.table[i].raw = 0}

Init ==
    /\ plugged = Devices
    /\ smart \in [Devices -> NewSamples]
    /\ stack = [p \in Mounts |-> <<>>]
    /\ fstab = <<>>
    /\ ops = <<>> /\ verdict = <<>>
    /\ report = None
    /\ changes = 0

-----------------------------------------------------------------------------
(* The operator, and what happens to the node.                             *)

Change == changes < MaxChanges /\ changes' = changes + 1

Post ==
    /\ Len(ops) < MaxOps
    /\ \E o \in Ops : ops' = Append(ops, o)
    /\ UNCHANGED <<hostVars, stack, fstab, verdict, report, changes>>

(* Or it cannot be opened any more.                                        *)
Worse(s, t) ==
    \/ t = NoStatus
    \/ /\ NoStatus \notin {s, t}
       /\ s.status = "passed" \/ t.status = "failed"
       /\ s.rotational = t.rotational /\ s.wear <= t.wear
       /\ \A i \in DOMAIN s.table : s.table[i].raw <= t.table[i].raw

Wear(d) ==
    /\ Change
    /\ \E s \in Samples \ {smart[d]} :
          Worse(smart[d], s) /\ smart' = [smart EXCEPT ![d] = s]
    /\ UNCHANGED <<plugged, stack, fstab, ops, verdict, report>>

(* A mount stays when its device goes.                                     *)
Plug(d) ==
    /\ Change
    /\ plugged' = IF d \in plugged THEN plugged \ {d} ELSE plugged \cup {d}
    /\ UNCHANGED <<smart, stack, fstab, ops, verdict, report>>

DropReport ==
    /\ report # None
    /\ Change /\ report' = None
    /\ UNCHANGED <<hostVars, stack, fstab, ops, verdict>>

(* Mounts outside of what the agent shares with its host are gone with the *)
(* container, and so is the file if it is the container's.                 *)
AgentRestart ==
    /\ Change /\ verdict' = <<>>
    /\ \E lost \in SUBSET Mounts :
          stack' = [p \in Mounts |-> IF p \in lost THEN <<>> ELSE stack[p]]
    /\ fstab' \in {fstab, <<>>}
    /\ UNCHANGED <<hostVars, ops, report>>

(* The entries of /etc/fstab for a path whose device is there, in order.   *)
BootOrder(order, p) ==
    /\ \A i, j \in DOMAIN order : i < j => order[i] < order[j]
    /\ Range(order) = {k \in DOMAIN fstab : fstab[k].path = p /\ fstab[k].device \in plugged}

(* At boot they are mounted one over the other.                            *)
MountAll ==
    \E order \in [Mounts -> SeqOf(DOMAIN fstab, Len(fstab))] :
        /\ \A p \in Mounts : BootOrder(order[p], p)
        /\ stack' = [p \in Mounts |-> [i \in DOMAIN order[p] |-> fstab[order[p][i]].device]]

(* The node comes up with the file the agent wrote, or without it.         *)
Boot ==
    \/ MountAll /\ UNCHANGED fstab
    \/ /\ stack' = [p \in Mounts |-> <<>>]
       /\ fstab' = <<>>

(* Mutant: the next process knows what was executed before the reboot.     *)
Reboot_remembers ==
    /\ Change /\ Boot
    /\ UNCHANGED <<hostVars, ops, verdict, report>>

Reboot ==
    /\ Change /\ Boot
    /\ verdict' = <<>>
    /\ UNCHANGED <<hostVars, ops, report>>

-----------------------------------------------------------------------------
(* executeOperation.                                                       *)

IsMounted(p) == stack[p] # <<>>

(* strings.Contains of the whole file.                                     *)
Occurs(d, e) == d = e \/ (e \in LongNamed /\ d \notin LongNamed)

(* Mutant: the entry is appended whether there is one or not.              *)
EnsureFstabEntry_appends(d, p) == fstab' = Append(fstab, [device |-> d, path |-> p])

EnsureFstabEntry(d, p) ==
    fstab' = IF \E i \in DOMAIN fstab : Occurs(d, fstab[i].device)
             THEN fstab
             ELSE Append(fstab, [device |-> d, path |-> p])

Answer(ok) == verdict' = Append(verdict, ok)

(* A path where anything is mounted is left alone. The mount can fail, and *)
(* so can writing fstab after it.                                          *)
MountDevice(d, p) ==
    \/ /\ IsMounted(p) \/ d \in plugged
       /\ stack' = IF IsMounted(p) THEN stack ELSE [stack EXCEPT ![p] = <<d>>]
       /\ \/ EnsureFstabEntry(d, p) /\ Answer(TRUE) /\ UNCHANGED changes
          \/ Change /\ Answer(FALSE) /\ UNCHANGED fstab
    \/ /\ ~IsMounted(p)
       /\ \/ d \notin plugged /\ UNCHANGED changes
          \/ Change
       /\ Answer(FALSE) /\ UNCHANGED <<stack, fstab>>

(* Mutant: an unmounted path is an error.                                  *)
UnmountDevice_strict(p) ==
    /\ stack' = IF IsMounted(p) THEN [stack EXCEPT ![p] = Front(@)] ELSE stack
    /\ Answer(IsMounted(p)) /\ UNCHANGED changes

(* umount -l takes the last mount off.                                     *)
UnmountDevice(p) ==
    \/ /\ stack' = IF IsMounted(p) THEN [stack EXCEPT ![p] = Front(@)] ELSE stack
       /\ Answer(TRUE) /\ UNCHANGED changes
    \/ /\ IsMounted(p) /\ Change
       /\ Answer(FALSE) /\ UNCHANGED stack

Execute ==
    /\ Len(verdict) < Len(ops)
    /\ LET o == ops[Len(verdict) + 1] IN
       \/ o.kind = "mount" /\ MountDevice(o.device, o.path)
       \/ o.kind = "unmount" /\ UnmountDevice(o.path) /\ UNCHANGED fstab
    /\ UNCHANGED <<hostVars, ops, report>>

-----------------------------------------------------------------------------
(* runDiscovery. The Disks of API version v1 that it also writes are read  *)
(* by nobody.                                                              *)

Unknown == [failed |-> FALSE, score |-> 1000]

(* s is what smartctl answers: without output, or with one that cannot be  *)
(* parsed, the health stays at its default.                                *)
Status(d, s) ==
    LET health == IF s = None THEN Unknown
                  ELSE [failed |-> QueryDisk(s).failed, score |-> ComputeHealthScore(QueryDisk(s))]
    IN  [mounted |-> \E p \in Mounts : d \in Range(stack[p]),
         failed |-> health.failed, score |-> health.score]

Discovered(answers) ==
    [d \in Devices |-> IF d \in plugged THEN Status(d, answers[d]) ELSE None]

(* Data is replaced as a whole.                                            *)
upsertConfigMap(data) == report' = data

(* smartctl can fail for once, or not open the device; only the log tells. *)
Discover ==
    /\ \/ upsertConfigMap(Discovered(smart)) /\ UNCHANGED changes
       \/ /\ Change
          /\ \E d \in plugged, s \in {None, NoStatus} :
                upsertConfigMap(Discovered([smart EXCEPT ![d] = s]))
    /\ report' # report
    /\ UNCHANGED <<hostVars, stack, fstab, ops, verdict>>

Next ==
    \/ Post \/ DropReport \/ AgentRestart \/ Reboot
    \/ \E d \in Devices : Wear(d) \/ Plug(d)
    \/ Execute \/ Discover

Spec == Init /\ [][Next]_vars

(* The tickers of the agent's loop fire again and again.                   *)
FairSpec == Spec /\ WF_vars(Execute) /\ WF_vars(Discover)

-----------------------------------------------------------------------------
(* Types; a health score is never outside 0.0 to 1.0, whatever adds up.    *)
TypeOK ==
    /\ plugged \subseteq Devices
    /\ smart \in [Devices -> Samples]
    /\ stack \in [Mounts -> Seq(Devices)]
    /\ fstab \in Seq(FstabEntries)
    /\ ops \in Seq(Ops) /\ Len(ops) <= MaxOps
    /\ verdict \in Seq(BOOLEAN) /\ Len(verdict) <= Len(ops)
    /\ report = None \/ report \in [Devices -> Entries \cup {None}]
    /\ changes \in 0..MaxChanges

(* However operations are replayed by restarted agents, and whatever they  *)
(* have left in /etc/fstab for the next boot, no device is ever mounted    *)
(* twice at one path (IsMounted and the search in EnsureFstabEntry).       *)
NotMountedTwice ==
    \A p \in Mounts : \A i, j \in DOMAIN stack[p] : i # j => stack[p][i] # stack[p][j]

(* The operations of the agent on its host, with devices, fstab and stacked*)
(* mounts, are those of HostOps that the other modules are built on, as    *)
(* long as a path is asked for with one device only (executeOperation).    *)
Paths == {p \in Mounts : IsMounted(p)}

Abstract == INSTANCE HostOps WITH DiskMounts <- Mounts, PoolMounts <- {}

OneDevicePerPath ==
    \A i, j \in DOMAIN ops :
        ops[i].kind = "mount" /\ ops[j].kind = "mount" /\ ops[i].path = ops[j].path =>
            ops[i].device = ops[j].device

HostOpsHonoured ==
    [][Len(verdict') > Len(verdict) /\ OneDevicePerPath =>
          LET o == ops[Len(verdict')] IN
          [ok |-> Last(verdict'), mounted |-> Paths'] \in
              Abstract!Outcomes([kind |-> o.kind, target |-> o.path], Paths)]_vars

(* Once the node is quiet, a path is mounted or not as the last operation  *)
(* on it asked, although a reboot has mounted what /etc/fstab has kept of  *)
(* older operations: the agent then executes all of them again.            *)
LastOn(p) == {i \in DOMAIN ops : ops[i].path = p /\ \A j \in i + 1..Len(ops) : ops[j].path # p}

SettlesAsAsked ==
    <>[](OneDevicePerPath =>
            \A p \in Mounts : \A i \in LastOn(p) :
                /\ i \in DOMAIN verdict
                /\ verdict[i] => IsMounted(p) = (ops[i].kind = "mount"))

(* Once the node is quiet, the operator reads of every device that is      *)
(* there, and of no other, whether it is mounted, and its phase tells      *)
(* damage: Failed exactly if smartctl does not say that SMART has passed,  *)
(* be it only that it says nothing; otherwise not Ready with both eight    *)
(* pending and five uncorrectable sectors, in whichever attribute, and     *)
(* Ready if sound (runDiscovery, QueryDisk, ComputeHealthScore,            *)
(* computePhase). An answer missed once, and mounts lost with a restart of *)
(* the agent, leave no trace.                                              *)
Raw(s, id) == {s.table[i].raw : i \in {j \in DOMAIN s.table : s.table[j].id = id}}

Damaged(s) == /\ \E r \in Raw(s, 197) : r >= 8
              /\ \E r \in Raw(s, 187) \cup Raw(s, 198) : r >= 5

Truthful(d) ==
    LET e == report[d] IN
    /\ e.mounted = (\E p \in Mounts : d \in Range(stack[p]))
    /\ smart[d].status # "passed" <=> computePhase(e) = "Failed"
    /\ smart[d].status = "passed" /\ Damaged(smart[d]) => computePhase(e) = "Degraded"
    /\ smart[d].status = "passed" /\ smart[d] \in NewSamples => computePhase(e) = "Ready"

ReportSettles ==
    <>[](/\ report # None
         /\ \A d \in Devices : IF d \in plugged THEN report[d] # None /\ Truthful(d)
                               ELSE report[d] = None)

(* What the comment of EnsureFstabEntry says: an entry is written or       *)
(* updated so that the mount survives a reboot. After the last operation,  *)
(* a mount that was answered with success has its entry. It does not hold: *)
(* an entry of the device for another path is taken for it.                *)
Persistent ==
    \A i \in DOMAIN verdict :
        i = Len(ops) /\ ops[i].kind = "mount" /\ verdict[i] =>
            [device |-> ops[i].device, path |-> ops[i].path] \in Range(fstab)
=============================================================================
