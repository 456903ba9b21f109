-------------------------- MODULE NodeHost_proofs --------------------------
(***************************************************************************)
(* Proofs about NodeHost, for any devices, mount points and attribute      *)
(* values, and all bounds.                                                 *)
(*                                                                         *)
(* That a host with devices, mount stacks and an /etc/fstab behaves like   *)
(* the set of mounted paths of HostOps rests on where its entries and      *)
(* mounts come from: every one of them was asked for by an operation       *)
(* (FstabAsked, StackAsked), and no device has two entries (FstabOnce).    *)
(***************************************************************************)
EXTENDS NodeHost, SequenceTheorems, TLAPS

-----------------------------------------------------------------------------
(* The inductive invariant.                                                *)

Asked(d, p) ==
    \E i \in DOMAIN ops :
        ops[i].kind = "mount" /\ ops[i].device = d /\ ops[i].path = p

(* A device has one entry at most: the search of EnsureFstabEntry finds    *)
(* the device itself.                                                      *)
FstabOnce == \A i, j \in DOMAIN fstab : i # j => fstab[i].device # fstab[j].device

FstabAsked == \A i \in DOMAIN fstab : Asked(fstab[i].device, fstab[i].path)

StackAsked == \A p \in Mounts : \A i \in DOMAIN stack[p] : Asked(stack[p][i], p)

IInv == TypeOK /\ NotMountedTwice /\ FstabOnce /\ FstabAsked /\ StackAsked

-----------------------------------------------------------------------------
(* Sequences.                                                              *)

LEMMA FrontProperties ==
    ASSUME NEW S, NEW s \in Seq(S), s # <<>>
    PROVE  /\ Front(s) \in Seq(S)
           /\ DOMAIN Front(s) = 1..(Len(s) - 1)
           /\ \A i \in DOMAIN Front(s) : i \in DOMAIN s /\ Front(s)[i] = s[i]
           /\ Front(s) = <<>> <=> Len(s) = 1
<1>1. Len(s) \in Nat \ {0} /\ DOMAIN s = 1..Len(s) /\ \A i \in 1..Len(s) : s[i] \in S
  BY EmptySeq, LenProperties, ElementOfSeq
<1>2. /\ SubSeq(s, 1, Len(s) - 1) \in Seq(S)
      /\ Len(SubSeq(s, 1, Len(s) - 1)) = Len(s) - 1
      /\ \A i \in 1..(Len(s) - 1) : SubSeq(s, 1, Len(s) - 1)[i] = s[i]
  BY <1>1, SubSeqProperties
<1>3. /\ Front(s) \in Seq(S) /\ Len(Front(s)) = Len(s) - 1
      /\ \A i \in 1..(Len(s) - 1) : Front(s)[i] = s[i]
  BY <1>2 DEF Front
<1>4. DOMAIN Front(s) = 1..(Len(s) - 1)
  BY <1>3, LenProperties
<1>5. Front(s) = <<>> <=> Len(s) = 1
  BY <1>1, <1>3, EmptySeq
<1> QED
  BY <1>1, <1>3, <1>4, <1>5

LEMMA AppendDomain ==
    ASSUME NEW S, NEW s \in Seq(S), NEW e \in S
    PROVE  /\ Append(s, e) \in Seq(S)
           /\ DOMAIN Append(s, e) = 1..(Len(s) + 1)
           /\ DOMAIN s = 1..Len(s) /\ Len(s) \in Nat
           /\ Len(Append(s, e)) = Len(s) + 1
           /\ Append(s, e)[Len(s) + 1] = e
           /\ \A i \in DOMAIN s : Append(s, e)[i] = s[i]
BY AppendProperties, LenProperties

-----------------------------------------------------------------------------
(* The health score.                                                       *)

Healths == [failed : BOOLEAN, reallocated : Nat, pending : Nat, uncorrectable : Nat,
            wear : Nat, rotational : BOOLEAN]

LEMMA ReadType ==
    ASSUME NEW h \in Healths, NEW id \in {5, 187, 197, 198}, NEW raw \in Nat
    PROVE  Read(h, Attribute(id, raw)) \in Healths
<1>1. Attribute(id, raw).id = id /\ Attribute(id, raw).raw = raw
  BY DEF Attribute
<1>2. Larger(h.uncorrectable, raw) \in Nat
  BY DEF Healths, Larger
<1> QED
  BY <1>1, <1>2 DEF Read, Healths

LEMMA SampleFields ==
    ASSUME NEW s \in Samples
    PROVE  /\ s.wear \in Nat
           /\ s.rotational \in BOOLEAN
           /\ s.table = <<>> \/ s.table \in DiskTables
<1>1. ASSUME s \in [status : Verdicts, table : DiskTables, wear : {0}, rotational : {TRUE}]
      PROVE  s.wear = 0 /\ s.rotational = TRUE /\ s.table \in DiskTables
  BY <1>1
<1>2. ASSUME s \in [status : Verdicts, table : {<<>>}, wear : Wears, rotational : {FALSE}]
      PROVE  s.wear \in Wears /\ s.rotational = FALSE /\ s.table = <<>>
  BY <1>2
<1>3. ASSUME s = NoStatus
      PROVE  s.wear = 0 /\ s.rotational = FALSE /\ s.table = <<>>
  BY <1>3 DEF NoStatus
<1>4. \/ s \in [status : Verdicts, table : DiskTables, wear : {0}, rotational : {TRUE}]
      \/ s \in [status : Verdicts, table : {<<>>}, wear : Wears, rotational : {FALSE}]
      \/ s = NoStatus
  BY Zenon DEF Samples
<1>5. 0 \in Nat /\ \A w \in Wears : w \in Nat
  BY HostAssumption
<1>6. s.wear = 0 \/ s.wear \in Wears
  BY <1>1, <1>2, <1>3, <1>4, Zenon
<1>7. s.rotational = TRUE \/ s.rotational = FALSE
  BY <1>1, <1>2, <1>3, <1>4, Zenon
<1>8. s.table = <<>> \/ s.table \in DiskTables
  BY <1>1, <1>2, <1>3, <1>4, Zenon
<1>9. s.wear \in Nat
  BY <1>5, <1>6, Zenon
<1>10. s.rotational \in BOOLEAN
  BY <1>7, Zenon
<1> QED
  BY <1>8, <1>9, <1>10, Zenon

LEMMA QueryType ==
    ASSUME NEW s \in Samples PROVE QueryDisk(s) \in Healths
<1> DEFINE blank == [failed |-> s.status # "passed", reallocated |-> 0, pending |-> 0,
                     uncorrectable |-> 0, wear |-> s.wear, rotational |-> s.rotational]
<1>0. s.wear \in Nat /\ s.rotational \in BOOLEAN
  BY SampleFields
<1>1. blank \in Healths
  BY <1>0 DEF Healths
<1>2. QueryDisk(s) = ReadAll(blank, s.table)
  BY DEF QueryDisk
<1> HIDE DEF blank
<1>3. CASE s.table = <<>>
  BY <1>1, <1>2, <1>3 DEF ReadAll
<1>4. CASE s.table # <<>>
  <2>1. s.table \in DiskTables
    BY <1>4, SampleFields
  <2>2. PICK r, u, p, o \in Raws :
           s.table = <<Attribute(5, r), Attribute(187, u), Attribute(197, p), Attribute(198, o)>>
    BY <2>1 DEF DiskTables
  <2>3. r \in Nat /\ u \in Nat /\ p \in Nat /\ o \in Nat
    BY HostAssumption
  <2>4. QueryDisk(s) = Read(Read(Read(Read(blank, Attribute(5, r)), Attribute(187, u)),
                                 Attribute(197, p)), Attribute(198, o))
    BY <1>2, <1>4, <2>2 DEF ReadAll
  <2> DEFINE first == Read(blank, Attribute(5, r))
             second == Read(first, Attribute(187, u))
             third == Read(second, Attribute(197, p))
  <2>5. first \in Healths
    BY <1>1, <2>3, ReadType
  <2>6. second \in Healths
    <3> HIDE DEF first
    <3> QED
      BY <2>3, <2>5, ReadType
  <2>7. third \in Healths
    <3> HIDE DEF second
    <3> QED
      BY <2>3, <2>6, ReadType
  <2>8. QueryDisk(s) = Read(third, Attribute(198, o))
    BY <2>4
  <2> HIDE DEF third
  <2> QED
    BY <2>3, <2>7, <2>8, ReadType
<1> QED
  BY <1>3, <1>4

LEMMA ScoreType ==
    ASSUME NEW h \in Healths PROVE ComputeHealthScore(h) \in 0..1000
<1>1. Penalty(h) \in Nat
  BY DEF Penalty, Healths, Smaller
<1> QED
  BY <1>1 DEF ComputeHealthScore, Larger

LEMMA DiscoveredType ==
    ASSUME NEW answers \in [Devices -> Samples \cup {None}]
    PROVE  Discovered(answers) \in [Devices -> Entries \cup {None}]
<1>1. ASSUME NEW d \in Devices, NEW s \in Samples \cup {None}
      PROVE  Status(d, s) \in Entries
  <2> DEFINE h == QueryDisk(s)
             health == IF s = None THEN Unknown
                       ELSE [failed |-> h.failed, score |-> ComputeHealthScore(h)]
  <2>1. health.failed \in BOOLEAN /\ health.score \in 0..1000
    <3>1. CASE s = None
      BY <3>1 DEF Unknown
    <3>2. CASE s # None
      <4>1. h \in Healths
        BY <3>2, QueryType
      <4>2. ComputeHealthScore(h) \in 0..1000 /\ h.failed \in BOOLEAN
        BY <4>1, ScoreType DEF Healths
      <4> HIDE DEF h
      <4> QED
        BY <3>2, <4>2
    <3> QED
      BY <3>1, <3>2
  <2>2. Status(d, s) = [mounted |-> \E p \in Mounts : d \in Range(stack[p]),
                        failed |-> health.failed, score |-> health.score]
    BY DEF Status
  <2> HIDE DEF health
  <2> QED
    BY <2>1, <2>2 DEF Entries
<1> QED
  BY <1>1 DEF Discovered
-----------------------------------------------------------------------------
(* Each action preserves the invariant.                                    *)

USE HostAssumption DEF vars, hostVars

LEMMA InitInv == Init => IInv
<1> SUFFICES ASSUME Init PROVE IInv
  OBVIOUS
<1>1. smart \in [Devices -> Samples]
  BY DEF Init, NewSamples
<1>2. /\ stack \in [Mounts -> Seq(Devices)] /\ fstab \in Seq(FstabEntries)
      /\ ops \in Seq(Ops) /\ Len(ops) = 0 /\ verdict \in Seq(BOOLEAN) /\ Len(verdict) = 0
  BY EmptySeq DEF Init
<1>3. TypeOK
  BY <1>1, <1>2 DEF Init, TypeOK
<1>4. DOMAIN fstab = {} /\ \A p \in Mounts : DOMAIN stack[p] = {}
  BY DEF Init
<1> QED
  BY <1>3, <1>4 DEF IInv, NotMountedTwice, FstabOnce, FstabAsked, StackAsked

(* What is mounted, entered and asked for is all the rest is about.        *)
LEMMA HostUnchanged ==
    ASSUME IInv, UNCHANGED <<stack, fstab, ops>>
    PROVE  NotMountedTwice' /\ FstabOnce' /\ FstabAsked' /\ StackAsked'
BY DEF IInv, NotMountedTwice, FstabOnce, FstabAsked, StackAsked, Asked

LEMMA PostInv == ASSUME IInv, Post PROVE IInv'
<1>1. PICK o \in Ops : ops' = Append(ops, o)
  BY DEF Post
<1>2. /\ ops \in Seq(Ops) /\ ops' \in Seq(Ops)
      /\ DOMAIN ops' = 1..(Len(ops) + 1) /\ DOMAIN ops = 1..Len(ops) /\ Len(ops) \in Nat
      /\ Len(ops') = Len(ops) + 1
      /\ \A i \in DOMAIN ops : ops'[i] = ops[i]
  BY <1>1, AppendDomain DEF IInv, TypeOK
<1>3. TypeOK'
  BY <1>2, LenProperties DEF Post, IInv, TypeOK
<1>4. ASSUME NEW d, NEW p, Asked(d, p) PROVE Asked(d, p)'
  BY <1>2, <1>4 DEF Asked
<1>5. FstabAsked' /\ StackAsked'
  BY <1>4 DEF Post, IInv, FstabAsked, StackAsked
<1> QED
  BY <1>3, <1>5 DEF Post, IInv, NotMountedTwice, FstabOnce

LEMMA EnvironmentInv ==
    ASSUME IInv, (\E d \in Devices : Wear(d) \/ Plug(d)) \/ DropReport
    PROVE  IInv'
<1>1. UNCHANGED <<stack, fstab, ops>>
  BY DEF Wear, Plug, DropReport
<1>2. changes' \in 0..MaxChanges
  BY DEF IInv, TypeOK, Wear, Plug, DropReport, Change
<1>3. TypeOK'
  <2>1. CASE \E d \in Devices : Wear(d)
    BY <1>2, <2>1 DEF Wear, IInv, TypeOK
  <2>2. CASE \E d \in Devices : Plug(d)
    BY <1>2, <2>2 DEF Plug, IInv, TypeOK
  <2>3. CASE DropReport
    BY <1>2, <2>3 DEF DropReport, IInv, TypeOK
  <2> QED
    BY <2>1, <2>2, <2>3
<1> QED
  BY <1>1, <1>3, HostUnchanged DEF IInv

(* Without the file nothing has been entered.                              *)
LEMMA NoFile ==
    ASSUME fstab' = <<>>
    PROVE  fstab' \in Seq(FstabEntries) /\ FstabOnce' /\ FstabAsked'
<1>1. fstab' \in Seq(FstabEntries) /\ DOMAIN fstab' = {}
  BY EmptySeq
<1> QED
  BY <1>1 DEF FstabOnce, FstabAsked

(* A path that has lost its mounts is as good as any.                      *)
LEMMA AgentRestartInv == ASSUME IInv, AgentRestart PROVE IInv'
<1>1. PICK lost \in SUBSET Mounts :
         stack' = [p \in Mounts |-> IF p \in lost THEN <<>> ELSE stack[p]]
  BY DEF AgentRestart
<1>2. verdict' = <<>> /\ UNCHANGED <<plugged, smart, ops, report>> /\ fstab' \in {fstab, <<>>}
  BY DEF AgentRestart
<1>3. /\ <<>> \in Seq(Devices) /\ DOMAIN <<>> = {}
      /\ verdict' \in Seq(BOOLEAN) /\ Len(verdict') <= Len(ops)
  BY <1>2, EmptySeq, LenProperties DEF IInv, TypeOK
<1>4. stack' \in [Mounts -> Seq(Devices)]
  BY <1>1, <1>3 DEF IInv, TypeOK
<1>5. ASSUME NEW p \in Mounts, NEW i \in DOMAIN stack'[p]
      PROVE  stack'[p] = stack[p]
  BY <1>1, <1>3, <1>5
<1>6. fstab' \in Seq(FstabEntries) /\ FstabOnce' /\ FstabAsked'
  <2>1. CASE fstab' = fstab
    BY <1>2, <2>1 DEF IInv, TypeOK, FstabOnce, FstabAsked, Asked
  <2> QED
    BY <1>2, <2>1, NoFile
<1>7. changes' \in 0..MaxChanges
  BY DEF AgentRestart, Change, IInv, TypeOK
<1>8. TypeOK'
  BY <1>2, <1>3, <1>4, <1>6, <1>7 DEF IInv, TypeOK
<1>9. NotMountedTwice'
  BY <1>5 DEF IInv, NotMountedTwice
<1>10. StackAsked'
  BY <1>2, <1>5 DEF IInv, StackAsked, Asked
<1> QED
  BY <1>6, <1>8, <1>9, <1>10 DEF IInv

LEMMA DiscoverInv == ASSUME IInv, Discover PROVE IInv'
<1>1. changes' \in 0..MaxChanges
  BY DEF IInv, TypeOK, Discover, Change
<1>2. \E answers \in [Devices -> Samples \cup {None}] : report' = Discovered(answers)
  <2>1. \/ report' = Discovered(smart)
        \/ \E d \in plugged, s \in {None, NoStatus} :
              report' = Discovered([smart EXCEPT ![d] = s])
    BY DEF Discover, upsertConfigMap
  <2>2. smart \in [Devices -> Samples] /\ NoStatus \in Samples
    BY DEF IInv, TypeOK, Samples
  <2>3. smart \in [Devices -> Samples \cup {None}]
    BY <2>2
  <2>4. \A d \in plugged, s \in {None, NoStatus} :
           [smart EXCEPT ![d] = s] \in [Devices -> Samples \cup {None}]
    BY <2>2
  <2> QED
    BY <2>1, <2>3, <2>4
<1>3. report' \in [Devices -> Entries \cup {None}]
  BY <1>2, DiscoveredType DEF IInv, TypeOK
<1> QED
  BY <1>1, <1>3, HostUnchanged DEF Discover, IInv, TypeOK

(* The devices of some of a path's entries, each entry once.               *)
OfEntries(devices, p) ==
    \E entry : /\ \A i, j \in DOMAIN devices : i # j => entry[i] # entry[j]
               /\ \A i \in DOMAIN devices :
                     /\ entry[i] \in DOMAIN fstab
                     /\ fstab[entry[i]].path = p
                     /\ devices[i] = fstab[entry[i]].device

(* That is what is mounted after a boot.                                   *)
LEMMA MountAllStack ==
    ASSUME TypeOK, MountAll
    PROVE  /\ stack' \in [Mounts -> Seq(Devices)]
           /\ \A p \in Mounts : OfEntries(stack'[p], p)
<1>1. PICK order \in [Mounts -> SeqOf(DOMAIN fstab, Len(fstab))] :
         /\ \A p \in Mounts : BootOrder(order[p], p)
         /\ stack' = [p \in Mounts |-> [i \in DOMAIN order[p] |-> fstab[order[p][i]].device]]
  BY DEF MountAll
<1>2. /\ Len(fstab) \in Nat /\ DOMAIN fstab = 1..Len(fstab)
      /\ \A k \in DOMAIN fstab : fstab[k] \in FstabEntries
  BY LenProperties, ElementOfSeq DEF TypeOK
<1>3. ASSUME NEW p \in Mounts
      PROVE  /\ stack'[p] \in Seq(Devices)
             /\ \A i, j \in DOMAIN stack'[p] : i # j => order[p][i] # order[p][j]
             /\ \A i \in DOMAIN stack'[p] :
                   /\ order[p][i] \in DOMAIN fstab
                   /\ fstab[order[p][i]].path = p
                   /\ stack'[p][i] = fstab[order[p][i]].device
  <2>0. order[p] \in SeqOf(DOMAIN fstab, Len(fstab))
    BY <1>1
  <2>1. PICK m \in 0..Len(fstab) : order[p] \in [1..m -> DOMAIN fstab]
    BY <2>0 DEF SeqOf
  <2>2. m \in Nat /\ DOMAIN order[p] = 1..m
    BY <1>2, <2>1
  <2>3. stack'[p] = [i \in 1..m |-> fstab[order[p][i]].device]
    BY <1>1, <2>2
  <2>4. \A i \in 1..m : order[p][i] \in DOMAIN fstab /\ fstab[order[p][i]].device \in Devices
    BY <1>2, <2>1 DEF FstabEntries
  <2>5. stack'[p] \in [1..m -> Devices]
    BY <2>3, <2>4
  <2>6. stack'[p] \in Seq(Devices)
    BY <2>2, <2>5, SeqDef
  <2>7. \A i, j \in 1..m : i # j => order[p][i] # order[p][j]
    <3>1. \A i, j \in 1..m : i < j => order[p][i] < order[p][j]
      BY <1>1, <2>2 DEF BootOrder
    <3> QED
      BY <1>2, <2>2, <2>4, <3>1
  <2>8. \A i \in 1..m : fstab[order[p][i]].path = p
    <3>1. Range(order[p]) \subseteq {k \in DOMAIN fstab : fstab[k].path = p}
      BY <1>1 DEF BootOrder
    <3> QED
      BY <2>2, <3>1 DEF Range
  <2> QED
    BY <2>3, <2>4, <2>6, <2>7, <2>8
<1>4. stack' \in [Mounts -> Seq(Devices)]
  BY <1>1, <1>3
<1>5. ASSUME NEW p \in Mounts
      PROVE  OfEntries(stack'[p], p)
  BY <1>3 DEF OfEntries
<1> QED
  BY <1>4, <1>5

LEMMA RebootInv == ASSUME IInv, Reboot PROVE IInv'
<1>1. /\ verdict' = <<>> /\ UNCHANGED <<plugged, smart, ops, report>>
      /\ \/ MountAll /\ UNCHANGED fstab
         \/ stack' = [p \in Mounts |-> <<>>] /\ fstab' = <<>>
  BY DEF Reboot, Boot
<1>2. /\ stack' \in [Mounts -> Seq(Devices)]
      /\ \A p \in Mounts : OfEntries(stack'[p], p)
  <2>1. CASE MountAll
    BY <2>1, MountAllStack DEF IInv
  <2>2. CASE stack' = [p \in Mounts |-> <<>>]
    BY <2>2, EmptySeq DEF OfEntries
  <2> QED
    BY <1>1, <2>1, <2>2
<1>f. fstab' \in Seq(FstabEntries) /\ FstabOnce' /\ FstabAsked'
  <2>1. CASE fstab' = fstab
    BY <1>1, <2>1 DEF IInv, TypeOK, FstabOnce, FstabAsked, Asked
  <2> QED
    BY <1>1, <2>1, NoFile
<1>3. TypeOK'
  <2>1. verdict' \in Seq(BOOLEAN) /\ Len(verdict') <= Len(ops)
    BY <1>1, EmptySeq, LenProperties DEF IInv, TypeOK
  <2>2. changes' \in 0..MaxChanges
    BY DEF Reboot, Change, IInv, TypeOK
  <2> QED
    BY <1>1, <1>2, <1>f, <2>1, <2>2 DEF IInv, TypeOK
<1>4. NotMountedTwice'
  BY <1>2 DEF NotMountedTwice, IInv, FstabOnce, OfEntries
<1>5. StackAsked'
  BY <1>1, <1>2 DEF StackAsked, IInv, FstabAsked, Asked, OfEntries
<1> QED
  BY <1>f, <1>3, <1>4, <1>5 DEF IInv

(* The operation that is executed, and the answer to it.                   *)
LEMMA ExecuteAnswer ==
    ASSUME TypeOK, Execute
    PROVE  /\ Len(verdict) + 1 \in DOMAIN ops
           /\ ops[Len(verdict) + 1] \in Ops
           /\ \E ok \in BOOLEAN : Answer(ok)
           /\ verdict' \in Seq(BOOLEAN)
           /\ Len(verdict') = Len(verdict) + 1
           /\ Len(verdict') <= Len(ops')
           /\ changes' \in 0..MaxChanges
<1>1. /\ Len(verdict) \in Nat /\ Len(ops) \in Nat /\ Len(verdict) < Len(ops)
      /\ DOMAIN ops = 1..Len(ops)
  BY LenProperties DEF TypeOK, Execute
<1>2. PICK ok \in BOOLEAN : Answer(ok)
  BY DEF Execute, MountDevice, UnmountDevice
<1>3. verdict' \in Seq(BOOLEAN) /\ Len(verdict') = Len(verdict) + 1
  BY <1>2, AppendDomain DEF Answer, TypeOK
<1>4. changes' \in 0..MaxChanges
  <2>1. changes' = changes \/ Change
    BY DEF Execute, MountDevice, UnmountDevice
  <2> QED
    BY <2>1 DEF Change, TypeOK
<1> QED
  BY <1>1, <1>2, <1>3, <1>4, ElementOfSeq DEF Execute, TypeOK

(* The two kinds of operations have the fields that their code reads.      *)
LEMMA OpFields ==
    ASSUME NEW o \in Ops
    PROVE  /\ o.path \in Mounts
           /\ o.kind = "mount" => o.device \in Devices
           /\ o.kind \in {"mount", "unmount"}
BY DEF Ops, MountOps, UnmountOps

(* A mount changes its path at most, and only from nothing.                *)
LEMMA MountStack ==
    ASSUME TypeOK, NEW d \in Devices, NEW p \in Mounts, MountDevice(d, p)
    PROVE  \/ stack' = stack
           \/ stack[p] = <<>> /\ stack' = [stack EXCEPT ![p] = <<d>>]
BY DEF MountDevice, IsMounted

LEMMA EnsureFstabEntryInv ==
    ASSUME TypeOK, FstabOnce, FstabAsked, NEW d \in Devices, NEW p \in Mounts, Asked(d, p),
           UNCHANGED ops, EnsureFstabEntry(d, p) \/ UNCHANGED fstab
    PROVE  fstab' \in Seq(FstabEntries) /\ FstabOnce' /\ FstabAsked'
<1>1. CASE fstab' = fstab
  BY <1>1 DEF TypeOK, FstabOnce, FstabAsked, Asked
<1>2. CASE fstab' # fstab
  <2> DEFINE e == [device |-> d, path |-> p]
  <2>1. fstab' = Append(fstab, e) /\ \A i \in DOMAIN fstab : fstab[i].device # d
    BY <1>2 DEF EnsureFstabEntry, Occurs
  <2>2. /\ fstab' \in Seq(FstabEntries) /\ Len(fstab) \in Nat
        /\ DOMAIN fstab' = 1..(Len(fstab) + 1) /\ DOMAIN fstab = 1..Len(fstab)
        /\ fstab'[Len(fstab) + 1] = e
        /\ \A i \in DOMAIN fstab : fstab'[i] = fstab[i]
    <3>1. e \in FstabEntries /\ fstab \in Seq(FstabEntries)
      BY DEF FstabEntries, TypeOK
    <3> HIDE DEF e
    <3> QED
      BY <2>1, <3>1, AppendDomain
  <2>3. e.device = d /\ e.path = p
    OBVIOUS
  <2>4. FstabOnce'
    <3> HIDE DEF e
    <3>1. \A i \in DOMAIN fstab' : i \in DOMAIN fstab \/ fstab'[i] = e
      BY <2>2
    <3>2. \A i \in DOMAIN fstab' \ DOMAIN fstab : i = Len(fstab) + 1
      BY <2>2
    <3>3. SUFFICES ASSUME NEW i \in DOMAIN fstab', NEW j \in DOMAIN fstab', i # j
                   PROVE  fstab'[i].device # fstab'[j].device
      BY DEF FstabOnce
    <3>4. CASE i \in DOMAIN fstab /\ j \in DOMAIN fstab
      <4>1. fstab[i].device # fstab[j].device
        BY <3>3, <3>4 DEF FstabOnce
      <4> QED
        BY <2>2, <3>4, <4>1
    <3>5. CASE i \in DOMAIN fstab /\ j \notin DOMAIN fstab
      <4>1. fstab'[i] = fstab[i] /\ fstab'[j] = e
        BY <2>2, <3>1, <3>5
      <4> QED
        BY <2>1, <2>3, <3>5, <4>1
    <3>6. CASE i \notin DOMAIN fstab
      <4>1. j \in DOMAIN fstab
        BY <3>2, <3>3, <3>6
      <4>2. fstab'[i] = e /\ fstab'[j] = fstab[j]
        BY <2>2, <3>1, <3>6, <4>1
      <4> QED
        BY <2>1, <2>3, <4>1, <4>2
    <3> QED
      BY <3>4, <3>5, <3>6
  <2>5. FstabAsked'
    <3> HIDE DEF e
    <3> QED
      BY <2>2, <2>3 DEF FstabAsked, Asked
  <2> QED
    BY <2>2, <2>4, <2>5
<1> QED
  BY <1>1, <1>2

LEMMA MountInv ==
    ASSUME IInv, Execute, ops[Len(verdict) + 1].kind = "mount"
    PROVE  IInv'
<1> DEFINE d == ops[Len(verdict) + 1].device
           p == ops[Len(verdict) + 1].path
<1>1. /\ d \in Devices /\ p \in Mounts
      /\ MountDevice(d, p) /\ UNCHANGED <<plugged, smart, ops, report>>
  BY ExecuteAnswer, OpFields DEF IInv, Execute
<1>2. Asked(d, p)
  BY ExecuteAnswer DEF IInv, Asked
<1> HIDE DEF d, p
<1>3. stack' = stack \/ (stack[p] = <<>> /\ stack' = [stack EXCEPT ![p] = <<d>>])
  BY <1>1, MountStack DEF IInv
<1>4. fstab' \in Seq(FstabEntries) /\ FstabOnce' /\ FstabAsked'
  BY <1>1, <1>2, EnsureFstabEntryInv DEF IInv, MountDevice
<1>5. <<d>> \in Seq(Devices) /\ DOMAIN <<d>> = {1} /\ <<d>>[1] = d
  BY <1>1
<1>6. stack' \in [Mounts -> Seq(Devices)]
  BY <1>3, <1>5 DEF IInv, TypeOK
<1>7. TypeOK'
  BY <1>1, <1>4, <1>6, ExecuteAnswer DEF IInv, TypeOK
<1>8. ASSUME NEW q \in Mounts, stack'[q] # stack[q]
      PROVE  q = p /\ DOMAIN stack'[q] = {1} /\ stack'[q][1] = d
  BY <1>3, <1>5, <1>8 DEF IInv, TypeOK
<1>9. NotMountedTwice'
  BY <1>8 DEF IInv, NotMountedTwice
<1>10. StackAsked'
  BY <1>1, <1>2, <1>8 DEF IInv, StackAsked, Asked
<1> QED
  BY <1>4, <1>7, <1>9, <1>10 DEF IInv

LEMMA UnmountInv ==
    ASSUME IInv, Execute, ops[Len(verdict) + 1].kind = "unmount"
    PROVE  IInv'
<1> DEFINE p == ops[Len(verdict) + 1].path
<1>1. /\ p \in Mounts
      /\ UnmountDevice(p) /\ UNCHANGED <<plugged, smart, ops, report, fstab>>
  BY ExecuteAnswer, OpFields DEF IInv, Execute
<1> HIDE DEF p
<1>2. stack' = stack \/ (stack[p] # <<>> /\ stack' = [stack EXCEPT ![p] = Front(stack[p])])
  BY <1>1 DEF UnmountDevice, IsMounted
<1>3. stack \in [Mounts -> Seq(Devices)]
  BY DEF IInv, TypeOK
<1>4. stack[p] # <<>> =>
        /\ Front(stack[p]) \in Seq(Devices)
        /\ \A i \in DOMAIN Front(stack[p]) :
              i \in DOMAIN stack[p] /\ Front(stack[p])[i] = stack[p][i]
  BY <1>1, <1>3, FrontProperties
<1>5. ASSUME NEW q \in Mounts
      PROVE  /\ stack'[q] \in Seq(Devices)
             /\ \A i \in DOMAIN stack'[q] : i \in DOMAIN stack[q] /\ stack'[q][i] = stack[q][i]
  BY <1>2, <1>3, <1>4
<1>6. stack' \in [Mounts -> Seq(Devices)]
  BY <1>2, <1>3, <1>4
<1>7. TypeOK'
  BY <1>1, <1>6, ExecuteAnswer DEF IInv, TypeOK
<1>8. NotMountedTwice' /\ StackAsked'
  BY <1>1, <1>5 DEF IInv, NotMountedTwice, StackAsked, Asked
<1>9. FstabOnce' /\ FstabAsked'
  BY <1>1 DEF IInv, FstabOnce, FstabAsked, Asked
<1> QED
  BY <1>7, <1>8, <1>9 DEF IInv

LEMMA NextInv == IInv /\ [Next]_vars => IInv'
<1> SUFFICES ASSUME IInv, [Next]_vars PROVE IInv'
  OBVIOUS
<1>1. CASE Execute
  BY <1>1, MountInv, UnmountInv DEF Execute
<1>2. CASE UNCHANGED vars
  BY <1>2, HostUnchanged DEF IInv, TypeOK
<1> QED
  BY <1>1, <1>2, PostInv, EnvironmentInv, AgentRestartInv, RebootInv, DiscoverInv DEF Next

THEOREM Invariance == Spec => []IInv
BY InitInv, NextInv, PTL DEF Spec

(* Types, and a health score that is never outside 0.0 to 1.0, whatever    *)
(* smartctl reports (QueryDisk, ComputeHealthScore).                       *)
THEOREM TypeCorrect == Spec => []TypeOK
<1>1. IInv => TypeOK
  BY DEF IInv
<1> QED
  BY <1>1, Invariance, PTL

(* No device is ever mounted twice at one path: the search of              *)
(* EnsureFstabEntry and the test IsMounted suffice for that, through all   *)
(* replays and reboots.                                                    *)
THEOREM NotMountedTwiceCorrect == Spec => []NotMountedTwice
<1>1. IInv => NotMountedTwice
  BY DEF IInv
<1> QED
  BY <1>1, Invariance, PTL

-----------------------------------------------------------------------------
(* The host behaves like HostOps.                                          *)

(* Who asks for a path with one device only finds one mount there at most, *)
(* so that umount -l leaves nothing behind.                                *)
LEMMA OneMount ==
    ASSUME IInv, OneDevicePerPath, NEW p \in Mounts
    PROVE  /\ stack[p] \in Seq(Devices)
           /\ stack[p] # <<>> => Len(stack[p]) = 1
<1>1. stack[p] \in Seq(Devices)
  BY DEF IInv, TypeOK
<1>2. Len(stack[p]) \in Nat /\ DOMAIN stack[p] = 1..Len(stack[p])
      /\ (stack[p] # <<>> => Len(stack[p]) # 0)
  BY <1>1, LenProperties, EmptySeq
<1>3. ~(Len(stack[p]) >= 2)
  <2> SUFFICES ASSUME Len(stack[p]) >= 2 PROVE FALSE
    OBVIOUS
  <2>1. 1 \in DOMAIN stack[p] /\ 2 \in DOMAIN stack[p]
    BY <1>2
  <2>2. Asked(stack[p][1], p) /\ Asked(stack[p][2], p)
    BY <2>1 DEF IInv, StackAsked
  <2>3. stack[p][1] = stack[p][2]
    BY <2>2 DEF Asked, OneDevicePerPath
  <2> QED
    BY <2>1, <2>3 DEF IInv, NotMountedTwice
<1> DEFINE n == Len(stack[p])
<1>4. n \in Nat /\ ~(n >= 2) /\ (stack[p] # <<>> => n # 0)
  BY <1>2, <1>3
<1> HIDE DEF n
<1>5. stack[p] # <<>> => n = 1
  BY <1>4
<1> QED
  BY <1>1, <1>5 DEF n

(* The mounted paths and the answer after a mount, and after an unmount.   *)
LEMMA MountPaths ==
    ASSUME TypeOK, NEW d \in Devices, NEW p \in Mounts, MountDevice(d, p)
    PROVE  \/ Answer(TRUE) /\ Paths' = Paths \cup {p}
           \/ Answer(FALSE) /\ (Paths' = Paths \/ Paths' = Paths \cup {p})
<1>1. stack \in [Mounts -> Seq(Devices)] /\ <<d>> # <<>>
  BY DEF TypeOK
<1>2. Paths = {q \in Mounts : stack[q] # <<>>} /\ Paths' = {q \in Mounts : stack'[q] # <<>>}
  BY DEF Paths, IsMounted
<1>3. CASE stack' = IF IsMounted(p) THEN stack ELSE [stack EXCEPT ![p] = <<d>>]
  <2>1. Paths' = Paths \cup {p}
    <3>1. CASE IsMounted(p)
      <4>1. stack' = stack /\ p \in Paths
        BY <1>2, <1>3, <3>1 DEF IsMounted
      <4> QED
        BY <1>2, <4>1
    <3>2. CASE ~IsMounted(p)
      <4>1. \A q \in Mounts : stack'[q] = IF q = p THEN <<d>> ELSE stack[q]
        BY <1>1, <1>3, <3>2
      <4> QED
        BY <1>1, <1>2, <4>1
    <3> QED
      BY <3>1, <3>2
  <2>2. Answer(TRUE) \/ Answer(FALSE)
    BY DEF MountDevice
  <2> QED
    BY <2>1, <2>2
<1>4. CASE stack' = stack /\ Answer(FALSE)
  BY <1>2, <1>4
<1> QED
  BY <1>3, <1>4 DEF MountDevice

LEMMA UnmountPaths ==
    ASSUME IInv, OneDevicePerPath, NEW p \in Mounts, UnmountDevice(p)
    PROVE  \/ Answer(TRUE) /\ Paths' = Paths \ {p}
           \/ Answer(FALSE) /\ p \in Paths /\ Paths' = Paths
<1>1. stack \in [Mounts -> Seq(Devices)]
  BY DEF IInv, TypeOK
<1>2. Paths = {q \in Mounts : stack[q] # <<>>} /\ Paths' = {q \in Mounts : stack'[q] # <<>>}
  BY DEF Paths, IsMounted
<1>3. CASE stack' = (IF IsMounted(p) THEN [stack EXCEPT ![p] = Front(@)] ELSE stack) /\ Answer(TRUE)
  <2>1. CASE IsMounted(p)
    <3>1. Front(stack[p]) = <<>>
      BY <2>1, OneMount, FrontProperties DEF IsMounted
    <3>2. \A q \in Mounts : stack'[q] = IF q = p THEN <<>> ELSE stack[q]
      BY <1>1, <1>3, <2>1, <3>1
    <3> QED
      BY <1>2, <1>3, <3>2
  <2>2. CASE ~IsMounted(p)
    BY <1>2, <1>3, <2>2 DEF IsMounted
  <2> QED
    BY <2>1, <2>2
<1>4. CASE IsMounted(p) /\ stack' = stack /\ Answer(FALSE)
  BY <1>2, <1>4 DEF IsMounted
<1> QED
  BY <1>3, <1>4 DEF UnmountDevice

(* An operation has one of the outcomes that HostOps gives it.             *)
LEMMA ExecuteHonours ==
    ASSUME IInv, OneDevicePerPath, Execute
    PROVE  LET o == ops[Len(verdict')] IN
           [ok |-> Last(verdict'), mounted |-> Paths'] \in
               Abstract!Outcomes([kind |-> o.kind, target |-> o.path], Paths)
<1> DEFINE o == ops[Len(verdict')]
           r == [kind |-> o.kind, target |-> o.path]
<1>1. Len(verdict') = Len(verdict) + 1 /\ o \in Ops
  BY ExecuteAnswer DEF IInv
<1>2. /\ o.path \in Mounts /\ o.kind \in {"mount", "unmount"}
      /\ o.kind = "mount" => o.device \in Devices
  BY <1>1, OpFields
<1>3. ASSUME NEW ok \in BOOLEAN, Answer(ok)
      PROVE  Last(verdict') = ok
  BY <1>1, <1>3, AppendDomain DEF Answer, Last, IInv, TypeOK
<1>4. \/ o.kind = "mount" /\ MountDevice(o.device, o.path)
      \/ o.kind = "unmount" /\ UnmountDevice(o.path)
  BY <1>1 DEF Execute
<1>5. r.kind = o.kind /\ r.target = o.path
  OBVIOUS
<1> HIDE DEF o, r
<1>6. CASE o.kind = "mount"
  <2>1. Abstract!Outcomes(r, Paths) =
            {[ok |-> TRUE, mounted |-> Paths \cup {o.path}],
             [ok |-> FALSE, mounted |-> Paths],
             [ok |-> FALSE, mounted |-> Paths \cup {o.path}]}
    BY <1>5, <1>6 DEF Abstract!Outcomes, Abstract!MountDevice, Abstract!Ok, Abstract!Fail
  <2>2. \/ Answer(TRUE) /\ Paths' = Paths \cup {o.path}
        \/ Answer(FALSE) /\ (Paths' = Paths \/ Paths' = Paths \cup {o.path})
    BY <1>2, <1>4, <1>6, MountPaths DEF IInv
  <2>3. [ok |-> Last(verdict'), mounted |-> Paths'] \in Abstract!Outcomes(r, Paths)
    BY <1>3, <2>1, <2>2
  <2> QED
    BY <2>3 DEF o, r
<1>7. CASE o.kind = "unmount"
  <2>1. Abstract!Outcomes(r, Paths) =
            IF o.path \in Paths
            THEN {[ok |-> TRUE, mounted |-> Paths \ {o.path}], [ok |-> FALSE, mounted |-> Paths]}
            ELSE {[ok |-> TRUE, mounted |-> Paths]}
    BY <1>5, <1>7 DEF Abstract!Outcomes, Abstract!UnmountDevice, Abstract!Ok, Abstract!Fail
  <2>2. \/ Answer(TRUE) /\ Paths' = Paths \ {o.path}
        \/ Answer(FALSE) /\ o.path \in Paths /\ Paths' = Paths
    BY <1>2, <1>4, <1>7, UnmountPaths
  <2>3. o.path \notin Paths => Paths \ {o.path} = Paths
    OBVIOUS
  <2>4. [ok |-> Last(verdict'), mounted |-> Paths'] \in Abstract!Outcomes(r, Paths)
    BY <1>3, <2>1, <2>2, <2>3
  <2> QED
    BY <2>4 DEF o, r
<1> QED
  BY <1>2, <1>6, <1>7

(* The agent, with its devices, mount stacks and /etc/fstab, and through   *)
(* reboots and replays, keeps the promises of HostOps that the models of   *)
(* the channel, of the disks and of the storage stack are built on, for    *)
(* paths that are asked for with one device (executeOperation).            *)
THEOREM HostOpsCorrect == Spec => HostOpsHonoured
<1>1. ASSUME IInv, [Next]_vars, Len(verdict') > Len(verdict)
      PROVE  Execute
  <2>1. CASE verdict' = verdict
    BY <1>1, <2>1, LenProperties DEF IInv, TypeOK
  <2>2. CASE verdict' = <<>>
    BY <1>1, <2>2, LenProperties, EmptySeq DEF IInv, TypeOK
  <2> QED
    BY <1>1, <2>1, <2>2
       DEF Next, Post, Wear, Plug, DropReport, AgentRestart, Reboot, Discover
<1>2. IInv /\ [Next]_vars =>
          [Len(verdict') > Len(verdict) /\ OneDevicePerPath =>
              LET o == ops[Len(verdict')] IN
              [ok |-> Last(verdict'), mounted |-> Paths'] \in
                  Abstract!Outcomes([kind |-> o.kind, target |-> o.path], Paths)]_vars
  BY <1>1, ExecuteHonours
<1> QED
  BY <1>2, Invariance, PTL DEF Spec, HostOpsHonoured
=============================================================================
