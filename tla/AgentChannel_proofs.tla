------------------------ MODULE AgentChannel_proofs ------------------------
(***************************************************************************)
(* Proofs about AgentChannel, for every number of disks, pools, operations,*)
(* polls, restarts and faults.                                             *)
(***************************************************************************)
EXTENDS AgentChannel, TLAPS

-----------------------------------------------------------------------------
(* The inductive invariant.                                                *)

(* A call in progress has a name that the clock has reached and a request  *)
(* of its worker.                                                          *)
CallsOK ==
    \A w \in Workers : call[w].pc # "idle" =>
        /\ call[w].id \in 1..now
        /\ call[w].req \in RequestsOf(w)

(* Only what exists has a version or is listed, and names come from the    *)
(* past.                                                                   *)
ConfigMapsOK ==
    /\ \A id \in Ids : cm[id].state = "Absent" => cm[id].rv = 0 /\ batch[id] = 0
    /\ \A id \in Created : id <= now
    /\ processed \subseteq Created

(* What the agent is executing exists, is not remembered yet, and its      *)
(* verdict is that of an execution.                                        *)
ExecutionOK ==
    /\ pc # "loop" => cur \in Created /\ cur \notin processed
    /\ pc = "report" => IF verdict THEN cur \in okOps ELSE cur \in badOps

(* What is proved to hold of every reachable state. StatusTruthful alone   *)
(* is not inductive: the status written by Report comes from verdict.      *)
IInv == TypeOK /\ CallsOK /\ ConfigMapsOK /\ ExecutionOK /\ StatusTruthful

-----------------------------------------------------------------------------
(* Operators of the model.                                                 *)

(* A host operation leaves mounted paths behind, and nothing else.         *)
LEMMA OutcomesType ==
    ASSUME NEW r \in Requests, NEW m \in SUBSET Targets, NEW o \in Outcomes(r, m)
    PROVE  o.ok \in BOOLEAN /\ o.mounted \in SUBSET Targets
<1>1. r.target \in Targets
  BY DEF Requests, DiskRequests, PoolRequests, Targets
<1> DEFINE t == r.target
           Possible == {m, m \cup {t}, m \ {t}}
<1>2. r.kind \in {"mount", "unmount", "mergerfs-mount"}
  BY DEF Requests, DiskRequests, PoolRequests
<1>3. \E b \in BOOLEAN, paths \in Possible : o = [ok |-> b, mounted |-> paths]
  <2>1. CASE r.kind = "mount"
    <3>1. o \in {Ok(m \cup {t}), Fail(m), Fail(m \cup {t})}
      BY <2>1 DEF Outcomes, MountDevice
    <3> QED
      BY <3>1 DEF Ok, Fail
  <2>2. CASE r.kind = "unmount"
    <3>1. o \in {Ok(m \ {t}), Fail(m), Ok(m)}
      BY <2>2 DEF Outcomes, UnmountDevice
    <3> QED
      BY <3>1 DEF Ok, Fail
  <2>3. CASE r.kind = "mergerfs-mount"
    <3>1. o \in {Ok(m \cup {t}), Fail(m \ {t}), Fail(m)}
      BY <2>3 DEF Outcomes, MountMergerFS
    <3> QED
      BY <3>1 DEF Ok, Fail
  <2> QED
    BY <1>2, <2>1, <2>2, <2>3
<1>4. Possible \subseteq SUBSET Targets
  BY <1>1
<1> QED
  BY <1>3, <1>4

(* The requests of a worker are requests of the program.                   *)
LEMMA RequestsOfType ==
    ASSUME NEW w \in Workers
    PROVE  RequestsOf(w) \subseteq Requests
BY DEF RequestsOf, Requests

(* An update either leaves the ConfigMaps alone or gives one of them the   *)
(* new state and a new version.                                            *)
LEMMA UpdateType ==
    ASSUME cm \in [Ids -> ConfigMaps],
           faults \in 0..MaxFaults, MaxFaults \in Nat,
           NEW id \in Ids, NEW state \in States, Update(id, state)
    PROVE  /\ cm' \in [Ids -> ConfigMaps]
           /\ faults' \in 0..MaxFaults
           /\ \/ cm' = cm
              \/ /\ cm'[id].state = state
                 /\ cm'[id].rv = cm[id].rv + 1
                 /\ cm'[id].req = cm[id].req
                 /\ \A other \in Ids \ {id} : cm'[other] = cm[other]
<1> USE DEF ConfigMaps
<1>1. CASE cm' = cm
  BY <1>1 DEF Update, Fault
<1>2. CASE cm' # cm
  <2>1. cm' = [cm EXCEPT ![id].state = state, ![id].rv = @ + 1] /\ faults' = faults
    BY <1>2 DEF Update, Updated
  <2> QED
    BY <2>1
<1> QED
  BY <1>1, <1>2

-----------------------------------------------------------------------------
(* Each action preserves the invariant.                                    *)

(* Definitions that say which part of the state an action is about.        *)
USE ChannelAssumption DEF vars, operatorVars, agentVars, hostVars, boundVars

LEMMA InitInv == Init => IInv
<1> SUFFICES ASSUME Init PROVE IInv
  OBVIOUS
<1>1. TypeOK
  <2>1. NotWaiting \in CallRecords
    BY DEF CallRecords, NotWaiting
  <2>2. NoConfigMap \in ConfigMaps /\ NoConfigMap.state = "Absent"
    BY DEF ConfigMaps, NoConfigMap, States
  <2>3. now \in Ids /\ restarts \in 0..MaxRestarts /\ faults \in 0..MaxFaults
    BY DEF Init, Ids
  <2>4. call \in [Workers -> CallRecords] /\ cm \in [Ids -> ConfigMaps]
    BY <2>1, <2>2 DEF Init
  <2>5. \A id \in Ids : cm[id].state = "Absent"
    BY <2>2 DEF Init
  <2> QED
    BY <2>3, <2>4, <2>5 DEF Init, TypeOK, States
<1>2. CallsOK
  BY DEF Init, CallsOK, NotWaiting
<1>3. ConfigMapsOK
  BY DEF Init, ConfigMapsOK, Created, NoConfigMap
<1>4. ExecutionOK
  BY DEF Init, ExecutionOK
<1>5. StatusTruthful
  BY DEF Init, StatusTruthful, Truthful, NoConfigMap
<1> QED
  BY <1>1, <1>2, <1>3, <1>4, <1>5 DEF IInv

LEMMA TickInv ==
    ASSUME IInv, Tick PROVE IInv'
<1> USE DEF IInv, Tick
<1>1. now \in Nat /\ now' = now + 1 /\ now' \in Ids
  BY DEF TypeOK, Ids
<1>2. TypeOK'
  BY <1>1 DEF TypeOK, Ids
<1>3. CallsOK'
  BY <1>1 DEF CallsOK
<1>4. ConfigMapsOK'
  BY <1>1 DEF ConfigMapsOK, Created, Ids
<1>5. ExecutionOK'
  BY DEF ExecutionOK, Created
<1>6. StatusTruthful'
  BY DEF StatusTruthful, Truthful
<1> QED
  BY <1>2, <1>3, <1>4, <1>5, <1>6

LEMMA NameOperationInv ==
    ASSUME IInv, NEW w \in Workers, NameOperation(w) PROVE IInv'
<1> USE DEF IInv, NameOperation
<1>1. PICK r \in RequestsOf(w) :
         call' = [call EXCEPT ![w] = [pc |-> "named", id |-> now, req |-> r, polls |-> 0]]
  OBVIOUS
<1>2. r \in Requests
  BY RequestsOfType
<1>3. TypeOK'
  <2>1. [pc |-> "named", id |-> now, req |-> r, polls |-> 0] \in CallRecords
    BY <1>2 DEF TypeOK, CallRecords
  <2> QED
    BY <1>1, <2>1 DEF TypeOK
<1>4. CallsOK'
  BY <1>1 DEF CallsOK, TypeOK, Ids
<1>5. ConfigMapsOK'
  BY DEF ConfigMapsOK, Created
<1>6. ExecutionOK'
  BY DEF ExecutionOK, Created
<1>7. StatusTruthful'
  BY DEF StatusTruthful, Truthful
<1> QED
  BY <1>3, <1>4, <1>5, <1>6, <1>7

(* Creating a ConfigMap under a free name disturbs nothing that exists.    *)
LEMMA PostInv ==
    ASSUME IInv, NEW w \in Workers, call[w].pc = "named",
           cm[call[w].id].state = "Absent",
           cm' = [cm EXCEPT ![call[w].id] = Posted(w)],
           UNCHANGED <<now, view, agentVars, hostVars, restarts>>
    PROVE  /\ cm' \in [Ids -> ConfigMaps]
           /\ \A id \in Ids : cm'[id].state # "Absent" => cm'[id].rv # 0 /\ cm'[id].req \in Requests
           /\ ConfigMapsOK'
           /\ ExecutionOK'
           /\ \A id \in Ids : Truthful(cm[id].state, id)'
<1> USE DEF IInv
<1> DEFINE new == call[w].id
<1>1. /\ new \in Ids /\ new <= now
      /\ Posted(w) = [state |-> "Pending", rv |-> 1, req |-> call[w].req]
      /\ call[w].req \in Requests
  BY RequestsOfType DEF CallsOK, TypeOK, Ids, CallRecords, Posted
<1>2. /\ cm'[new] = Posted(w)
      /\ \A id \in Ids \ {new} : cm'[id] = cm[id]
      /\ Created' = Created \cup {new}
  BY <1>1 DEF TypeOK, Created
<1>3. cm' \in [Ids -> ConfigMaps]
  BY <1>1 DEF TypeOK, ConfigMaps, States
<1>4. \A id \in Ids : cm'[id].state # "Absent" => cm'[id].rv # 0 /\ cm'[id].req \in Requests
  BY <1>1, <1>2 DEF TypeOK
<1>5. ConfigMapsOK'
  BY <1>1, <1>2 DEF ConfigMapsOK
<1>6. ExecutionOK'
  BY <1>2 DEF ExecutionOK
<1>7. \A id \in Ids : Truthful(cm[id].state, id)'
  BY <1>1, <1>2 DEF StatusTruthful, Truthful
<1> QED
  BY <1>3, <1>4, <1>5, <1>6, <1>7

(* A worker whose call returns is idle again; nobody else's call changes.  *)
LEMMA ReturnType ==
    ASSUME TypeOK, CallsOK, NEW w \in Workers, NEW ok \in BOOLEAN, Return(w, ok), now' = now
    PROVE  /\ call' \in [Workers -> CallRecords]
           /\ result' \in [Workers -> Ids \cup {0}]
           /\ CallsOK'
           /\ result' = [result EXCEPT ![w] = IF ok THEN call[w].id ELSE 0]
<1>1. NotWaiting \in CallRecords /\ NotWaiting.pc = "idle"
  BY DEF CallRecords, NotWaiting
<1>2. call' = [call EXCEPT ![w] = NotWaiting]
  BY DEF Return
<1>3. call' \in [Workers -> CallRecords]
  BY <1>1, <1>2 DEF TypeOK
<1>4. call[w].id \in Ids \cup {0}
  BY DEF TypeOK, CallRecords
<1>5. result' \in [Workers -> Ids \cup {0}]
  BY <1>4 DEF Return, TypeOK
<1>6. CallsOK'
  BY <1>1, <1>2 DEF CallsOK, TypeOK
<1> QED
  BY <1>3, <1>5, <1>6 DEF Return

LEMMA CreateOperationInv ==
    ASSUME IInv, NEW w \in Workers, CreateOperation(w) PROVE IInv'
<1> USE DEF IInv, CreateOperation
<1>1. call' = [call EXCEPT ![w].pc = "waiting"] /\ call' \in [Workers -> CallRecords]
  BY DEF TypeOK, CallRecords
<1>2. /\ cm' \in [Ids -> ConfigMaps]
      /\ \A id \in Ids : cm'[id].state # "Absent" => cm'[id].rv # 0 /\ cm'[id].req \in Requests
      /\ ConfigMapsOK'
      /\ ExecutionOK'
      /\ \A id \in Ids : Truthful(cm[id].state, id)'
  BY PostInv
<1>3. TypeOK'
  BY <1>1, <1>2 DEF TypeOK
<1>4. CallsOK'
  BY <1>1 DEF CallsOK, TypeOK, CallRecords
<1>5. StatusTruthful'
  BY <1>2 DEF StatusTruthful, Truthful
<1> QED
  BY <1>2, <1>3, <1>4, <1>5

LEMMA CreateFailsInv ==
    ASSUME IInv, NEW w \in Workers, CreateFails(w) PROVE IInv'
<1> USE DEF IInv, CreateFails
<1>1. /\ call' \in [Workers -> CallRecords]
      /\ result' \in [Workers -> Ids \cup {0}]
      /\ CallsOK'
      /\ result' = [result EXCEPT ![w] = 0]
  BY ReturnType
<1>2. faults' \in 0..MaxFaults
  BY DEF TypeOK, Fault
<1>3. /\ cm' \in [Ids -> ConfigMaps]
      /\ \A id \in Ids : cm'[id].state # "Absent" => cm'[id].rv # 0 /\ cm'[id].req \in Requests
      /\ ConfigMapsOK'
      /\ ExecutionOK'
      /\ \A id \in Ids : Truthful(cm[id].state, id)'
  <2>1. CASE cm' = cm
    BY <2>1 DEF TypeOK, ConfigMapsOK, ExecutionOK, Created, StatusTruthful, Truthful
  <2>2. CASE cm[call[w].id].state = "Absent" /\ cm' = [cm EXCEPT ![call[w].id] = Posted(w)]
    BY <2>2, PostInv
  <2> QED
    BY <2>1, <2>2
<1>4. TypeOK'
  BY <1>1, <1>2, <1>3 DEF TypeOK
<1>5. StatusTruthful'
  BY <1>1, <1>3 DEF StatusTruthful, Truthful, TypeOK
<1> QED
  BY <1>1, <1>3, <1>4, <1>5

LEMMA PollReturnsInv ==
    ASSUME IInv, NEW w \in Workers, PollReturns(w) PROVE IInv'
<1> USE DEF IInv, PollReturns
<1>1. call[w].id \in Ids
  BY DEF CallsOK, TypeOK, CallRecords
<1> DEFINE ok == view[call[w].id] = "Success"
<1>2. /\ call' \in [Workers -> CallRecords]
      /\ result' \in [Workers -> Ids \cup {0}]
      /\ CallsOK'
      /\ result' = [result EXCEPT ![w] = IF ok THEN call[w].id ELSE 0]
  <2>1. ok \in BOOLEAN /\ Return(w, ok) /\ now' = now
    OBVIOUS
  <2> HIDE DEF ok
  <2> QED
    BY <2>1, ReturnType
<1>3. TypeOK'
  BY <1>2 DEF TypeOK
<1>4. ConfigMapsOK' /\ ExecutionOK'
  BY DEF ConfigMapsOK, ExecutionOK, Created
<1>5. StatusTruthful'
  BY <1>1, <1>2 DEF StatusTruthful, Truthful, TypeOK
<1> QED
  BY <1>2, <1>3, <1>4, <1>5

LEMMA PollAgainInv ==
    ASSUME IInv, NEW w \in Workers, PollAgain(w) PROVE IInv'
<1> USE DEF IInv, PollAgain
<1>1. call[w].polls \in 0..MaxPolls /\ call[w].polls + 1 \in 0..MaxPolls
  BY DEF TypeOK, CallRecords
<1>2. call' = [call EXCEPT ![w].polls = call[w].polls + 1] /\ call' \in [Workers -> CallRecords]
  BY <1>1 DEF TypeOK, CallRecords
<1>3. TypeOK'
  BY <1>2 DEF TypeOK
<1>4. CallsOK'
  BY <1>2 DEF CallsOK, TypeOK, CallRecords
<1>5. ConfigMapsOK' /\ ExecutionOK'
  BY DEF ConfigMapsOK, ExecutionOK, Created
<1>6. StatusTruthful'
  BY DEF StatusTruthful, Truthful
<1> QED
  BY <1>3, <1>4, <1>5, <1>6

LEMMA SyncViewInv ==
    ASSUME IInv, NEW id \in Ids, SyncView(id) PROVE IInv'
<1> USE DEF IInv, SyncView
<1>1. cm[id].state \in States
  BY DEF TypeOK, ConfigMaps
<1>2. TypeOK'
  BY <1>1 DEF TypeOK
<1>3. CallsOK'
  BY DEF CallsOK
<1>4. ConfigMapsOK' /\ ExecutionOK'
  BY DEF ConfigMapsOK, ExecutionOK, Created
<1>5. StatusTruthful'
  BY DEF StatusTruthful, Truthful, TypeOK
<1> QED
  BY <1>2, <1>3, <1>4, <1>5

LEMMA OperatorRestartInv ==
    ASSUME IInv, OperatorRestart PROVE IInv'
<1> USE DEF IInv, OperatorRestart
<1>1. NotWaiting \in CallRecords /\ NotWaiting.pc = "idle"
  BY DEF CallRecords, NotWaiting
<1>2. view' \in [Ids -> States] /\ restarts' \in 0..MaxRestarts
  BY DEF TypeOK, ConfigMaps
<1>3. TypeOK'
  BY <1>1, <1>2 DEF TypeOK
<1>4. CallsOK'
  BY <1>1 DEF CallsOK
<1>5. ConfigMapsOK' /\ ExecutionOK'
  BY DEF ConfigMapsOK, ExecutionOK, Created
<1>6. StatusTruthful'
  BY DEF StatusTruthful, Truthful
<1> QED
  BY <1>3, <1>4, <1>5, <1>6

LEMMA ListInv ==
    ASSUME IInv, List PROVE IInv'
<1> USE DEF IInv, List
<1>1. TypeOK'
  BY DEF TypeOK, ConfigMaps
<1>2. CallsOK'
  BY DEF CallsOK
<1>3. ConfigMapsOK'
  BY DEF ConfigMapsOK, Created
<1>4. ExecutionOK' /\ StatusTruthful'
  BY DEF ExecutionOK, Created, StatusTruthful, Truthful
<1> QED
  BY <1>1, <1>2, <1>3, <1>4

(* An update of an existing ConfigMap keeps what exists existing, with its *)
(* request, and is truthful when the state it writes is.                   *)
LEMMA UpdateInv ==
    ASSUME TypeOK, NEW id \in Created, NEW state \in States \ {"Absent"},
           Update(id, state), Truthful(state, id),
           \A other \in Ids : Truthful(cm[other].state, other)
    PROVE  /\ cm' \in [Ids -> ConfigMaps]
           /\ faults' \in 0..MaxFaults
           /\ \A other \in Ids : cm'[other].state # "Absent" =>
                                    cm'[other].rv # 0 /\ cm'[other].req \in Requests
           /\ Created' = Created
           /\ \A other \in Ids : cm'[other].req = cm[other].req
           /\ \A other \in Ids : cm'[other].state = "Absent" =>
                                    cm'[other] = cm[other]
           /\ \A other \in Ids : Truthful(cm'[other].state, other)
<1>1. id \in Ids /\ cm[id].rv \in Nat
  BY DEF Created, TypeOK, ConfigMaps
<1>2. /\ cm' \in [Ids -> ConfigMaps]
      /\ faults' \in 0..MaxFaults
      /\ \/ cm' = cm
         \/ /\ cm'[id].state = state
            /\ cm'[id].rv = cm[id].rv + 1
            /\ cm'[id].req = cm[id].req
            /\ \A other \in Ids \ {id} : cm'[other] = cm[other]
  BY <1>1, UpdateType DEF TypeOK
<1>3. CASE cm' = cm
  BY <1>2, <1>3 DEF Created, TypeOK
<1>4. CASE /\ cm'[id].state = state
           /\ cm'[id].rv = cm[id].rv + 1
           /\ cm'[id].req = cm[id].req
           /\ \A other \in Ids \ {id} : cm'[other] = cm[other]
  <2>1. Created' = Created
    BY <1>1, <1>4 DEF Created
  <2>2. \A other \in Ids : Truthful(cm'[other].state, other)
    BY <1>4
  <2> QED
    BY <1>1, <1>2, <1>4, <2>1, <2>2 DEF TypeOK, Created
<1> QED
  BY <1>2, <1>3, <1>4

LEMMA MarkRunningInv ==
    ASSUME IInv, MarkRunning PROVE IInv'
<1> USE DEF IInv, MarkRunning
<1>1. PICK id \in Waiting : cur' = id /\ Update(id, "Running")
  OBVIOUS
<1>2. id \in Created /\ id \in Ids /\ id \notin processed
  BY DEF Waiting, ConfigMapsOK, Created
<1>3. /\ cm' \in [Ids -> ConfigMaps]
      /\ faults' \in 0..MaxFaults
      /\ \A other \in Ids : cm'[other].state # "Absent" =>
                               cm'[other].rv # 0 /\ cm'[other].req \in Requests
      /\ Created' = Created
      /\ \A other \in Ids : cm'[other].state = "Absent" => cm'[other] = cm[other]
      /\ \A other \in Ids : Truthful(cm'[other].state, other)
  <2>1. "Running" \in States \ {"Absent"} /\ Truthful("Running", id)
    BY DEF States, Truthful
  <2> QED
    BY <1>1, <1>2, <2>1, UpdateInv DEF StatusTruthful
<1>4. TypeOK'
  BY <1>1, <1>2, <1>3 DEF TypeOK
<1>5. CallsOK'
  BY DEF CallsOK
<1>6. ConfigMapsOK'
  BY <1>3 DEF ConfigMapsOK
<1>7. ExecutionOK'
  BY <1>1, <1>2, <1>3 DEF ExecutionOK
<1>8. StatusTruthful'
  BY <1>3 DEF StatusTruthful, Truthful
<1> QED
  BY <1>4, <1>5, <1>6, <1>7, <1>8

LEMMA ExecuteInv ==
    ASSUME IInv, Execute PROVE IInv'
<1> USE DEF IInv, Execute
<1>1. cur \in Ids /\ cm[cur].req \in Requests
  BY DEF ExecutionOK, Created, TypeOK
<1>2. PICK o \in Outcomes(cm[cur].req, mounted) :
         /\ verdict' = o.ok
         /\ mounted' = o.mounted
         /\ okOps'  = IF o.ok THEN okOps \cup {cur} ELSE okOps
         /\ badOps' = IF o.ok THEN badOps ELSE badOps \cup {cur}
  OBVIOUS
<1>3. o.ok \in BOOLEAN /\ o.mounted \in SUBSET Targets
  <2>1. mounted \in SUBSET Targets
    BY DEF TypeOK
  <2> QED
    BY <1>1, <2>1, OutcomesType
<1>4. okOps \subseteq okOps' /\ badOps \subseteq badOps'
  BY <1>2
<1>5. TypeOK'
  BY <1>1, <1>2, <1>3 DEF TypeOK
<1>6. CallsOK' /\ ConfigMapsOK'
  BY DEF CallsOK, ConfigMapsOK, Created
<1>7. ExecutionOK'
  BY <1>2, <1>3 DEF ExecutionOK, Created
<1>8. StatusTruthful'
  BY <1>4 DEF StatusTruthful, Truthful
<1> QED
  BY <1>5, <1>6, <1>7, <1>8

LEMMA ReportInv ==
    ASSUME IInv, Report PROVE IInv'
<1> USE DEF IInv, Report
<1> DEFINE state == IF verdict THEN "Success" ELSE "Failed"
<1>1. cur \in Created /\ cur \in Ids
  BY DEF ExecutionOK, Created
<1>2. /\ cm' \in [Ids -> ConfigMaps]
      /\ faults' \in 0..MaxFaults
      /\ \A other \in Ids : cm'[other].state # "Absent" =>
                               cm'[other].rv # 0 /\ cm'[other].req \in Requests
      /\ Created' = Created
      /\ \A other \in Ids : cm'[other].state = "Absent" => cm'[other] = cm[other]
      /\ \A other \in Ids : Truthful(cm'[other].state, other)
  <2>1. /\ state \in States \ {"Absent"}
        /\ Truthful(state, cur)
        /\ Update(cur, state)
    BY DEF States, Terminal, Truthful, ExecutionOK
  <2> HIDE DEF state
  <2> QED
    BY <1>1, <2>1, UpdateInv DEF StatusTruthful
<1>3. TypeOK'
  BY <1>1, <1>2 DEF TypeOK
<1>4. CallsOK'
  BY DEF CallsOK
<1>5. ConfigMapsOK'
  BY <1>1, <1>2 DEF ConfigMapsOK, TypeOK
<1>6. ExecutionOK'
  BY DEF ExecutionOK
<1>7. StatusTruthful'
  BY <1>2 DEF StatusTruthful, Truthful
<1> QED
  BY <1>3, <1>4, <1>5, <1>6, <1>7

LEMMA AgentRestartInv ==
    ASSUME IInv, AgentRestart PROVE IInv'
<1> USE DEF IInv, AgentRestart
<1>1. TypeOK'
  <2>1. mounted' \subseteq Targets /\ restarts' \in 0..MaxRestarts
    BY DEF TypeOK
  <2>2. batch' \in [Ids -> Nat] /\ processed' \subseteq Ids
    OBVIOUS
  <2> QED
    BY <2>1, <2>2 DEF TypeOK
<1>2. CallsOK'
  BY DEF CallsOK
<1>3. ConfigMapsOK' /\ ExecutionOK'
  BY DEF ConfigMapsOK, ExecutionOK, Created
<1>4. StatusTruthful'
  BY DEF StatusTruthful, Truthful
<1> QED
  BY <1>1, <1>2, <1>3, <1>4

-----------------------------------------------------------------------------
(* The theorems.                                                           *)

LEMMA NextInv == IInv /\ [Next]_vars => IInv'
<1> SUFFICES ASSUME IInv, [Next]_vars PROVE IInv'
  OBVIOUS
<1>1. CASE Tick
  BY <1>1, TickInv
<1>2. CASE \E w \in Workers : Call(w)
  BY <1>2, NameOperationInv, CreateOperationInv, CreateFailsInv, PollReturnsInv,
     PollAgainInv DEF Call
<1>3. CASE \E id \in Ids : SyncView(id)
  BY <1>3, SyncViewInv
<1>4. CASE OperatorRestart
  BY <1>4, OperatorRestartInv
<1>5. CASE Agent
  BY <1>5, ListInv, MarkRunningInv, ExecuteInv, ReportInv DEF Agent
<1>6. CASE AgentRestart
  BY <1>6, AgentRestartInv
<1>7. CASE UNCHANGED vars
  BY <1>7 DEF IInv, TypeOK, CallsOK, ConfigMapsOK, ExecutionOK, Created,
              StatusTruthful, Truthful
<1> QED
  BY <1>1, <1>2, <1>3, <1>4, <1>5, <1>6, <1>7 DEF Next

(* The invariant holds in every reachable state.                           *)
THEOREM Invariance == Spec => []IInv
<1> QED
  BY InitInv, NextInv, PTL DEF Spec

(* Type correctness of the channel.                                        *)
THEOREM TypeCorrect == Spec => []TypeOK
<1>1. IInv => TypeOK
  BY DEF IInv
<1> QED
  BY <1>1, Invariance, PTL

(* No status the operator reads, and no success it acts on, is invented:   *)
(* for every number of operations, restarts and faults.                    *)
THEOREM StatusCorrect == Spec => []StatusTruthful
<1>1. IInv => StatusTruthful
  BY DEF IInv
<1> QED
  BY <1>1, Invariance, PTL

-----------------------------------------------------------------------------
(* The agent keeps the operator's order on every target and settles on its *)
(* newest request.                                                         *)

SameTarget(a, b) == cm[a].req.target = cm[b].req.target

-----------------------------------------------------------------------------
(* The inductive invariant, beside IInv.                                   *)

(* A worker names its operations in increasing order.                      *)
NamesAdvance ==
    \A w \in Workers, id \in Created :
        call[w].pc = "named" /\ cm[id].req \in RequestsOf(w) => id <= call[w].id

(* A listing is complete: what is older than a listed operation on its     *)
(* target is listed too, or has been executed.                             *)
ListedInOrder ==
    \A id, older \in Created :
        batch[id] # 0 /\ older < id /\ SameTarget(id, older)
            => batch[older] # 0 \/ older \in processed

(* Executions leave no gap on a target.                                    *)
ProcessedInOrder ==
    \A id \in processed, older \in Created :
        older < id /\ SameTarget(id, older) => older \in processed

(* What the agent executes is the oldest operation left on its target.     *)
CurrentInOrder ==
    pc # "loop" =>
        \A older \in Created :
            older < cur /\ SameTarget(cur, older) => older \in processed

OrderInv == NamesAdvance /\ ListedInOrder /\ ProcessedInOrder /\ CurrentInOrder

-----------------------------------------------------------------------------
(* An operation that is being created is newer than every operation on its *)
(* target: its worker blocks in every call, and no other worker is         *)
(* responsible for the target.                                             *)
LEMMA CreatedIsNewest ==
    ASSUME IInv, NamesAdvance, NEW w \in Workers, call[w].pc = "named",
           cm[call[w].id].state = "Absent",
           NEW id \in Created, cm[id].req.target = call[w].req.target
    PROVE  id < call[w].id
<1>1. /\ call[w].id \in Ids /\ id \in Ids
      /\ call[w].req \in RequestsOf(w)
      /\ cm[id].req \in Requests
  BY DEF IInv, CallsOK, TypeOK, CallRecords, Created
<1>2. cm[id].req \in RequestsOf(w)
  BY <1>1, MountsAssumption
     DEF RequestsOf, Requests, DiskRequests, PoolRequests
<1>3. id <= call[w].id /\ id # call[w].id
  BY <1>2 DEF NamesAdvance, Created
<1> QED
  BY <1>1, <1>3 DEF Ids

(* Creating an operation keeps the order.                                  *)
LEMMA PostOrder ==
    ASSUME IInv, OrderInv, NEW w \in Workers, call[w].pc = "named",
           cm[call[w].id].state = "Absent",
           cm' = [cm EXCEPT ![call[w].id] = Posted(w)],
           call'[w].pc # "named",
           \A other \in Workers \ {w} : call'[other] = call[other],
           UNCHANGED agentVars
    PROVE  OrderInv'
<1>0. PICK new \in Ids : new = call[w].id
  BY DEF IInv, CallsOK, TypeOK, CallRecords, Ids
<1> USE <1>0
<1>1. /\ new \in Ids
      /\ Posted(w) = [state |-> "Pending", rv |-> 1, req |-> call[w].req]
      /\ call[w].req \in RequestsOf(w)
  BY DEF IInv, CallsOK, TypeOK, CallRecords, Ids, Posted
<1>2. /\ cm'[new].req = call[w].req
      /\ \A id \in Ids \ {new} : cm'[id] = cm[id]
      /\ Created' = Created \cup {new}
      /\ new \notin Created /\ new \notin processed /\ batch[new] = 0
      /\ pc # "loop" => cur # new /\ cur \in Created
      /\ processed \subseteq Created
      /\ Created \subseteq Ids
  BY <1>1 DEF IInv, TypeOK, ConfigMapsOK, ExecutionOK, Created
<1>3. \A id \in Created : cm[id].req.target = call[w].req.target => id < new
  BY CreatedIsNewest DEF IInv, OrderInv
<1>4. \A id \in Created : SameTarget(id, new)' => ~(new < id)
  <2> SUFFICES ASSUME NEW id \in Created, SameTarget(id, new)'
               PROVE  ~(new < id)
    OBVIOUS
  <2>1. cm[id].req.target = call[w].req.target
    BY <1>2 DEF SameTarget
  <2>2. id < new /\ id \in Nat /\ new \in Nat
    BY <1>2, <1>3, <2>1 DEF Ids
  <2> QED
    BY <2>2
<1>5. \A a, b \in Created : SameTarget(a, b)' = SameTarget(a, b)
  BY <1>2 DEF SameTarget
<1>6. NamesAdvance'
  <2> SUFFICES ASSUME NEW v \in Workers, NEW id \in Created',
                      call'[v].pc = "named", cm'[id].req \in RequestsOf(v)
               PROVE  id <= call'[v].id
    BY DEF NamesAdvance, RequestsOf
  <2>1. v # w /\ call'[v] = call[v]
    OBVIOUS
  <2>2. id # new
    BY <1>1, <1>2, <2>1 DEF RequestsOf, DiskRequests, PoolRequests, Workers
  <2> QED
    BY <1>2, <2>1, <2>2 DEF OrderInv, NamesAdvance
<1>7. ListedInOrder'
  <2> SUFFICES ASSUME NEW id \in Created', NEW older \in Created',
                      batch[id] # 0, older < id, SameTarget(id, older)'
               PROVE  batch[older] # 0 \/ older \in processed
    BY DEF ListedInOrder
  <2>1. id \in Created
    BY <1>2
  <2>2. older # new
    BY <1>4, <2>1
  <2> QED
    BY <1>2, <1>5, <2>1, <2>2 DEF OrderInv, ListedInOrder
<1>8. ProcessedInOrder'
  <2> SUFFICES ASSUME NEW id \in processed, NEW older \in Created',
                      older < id, SameTarget(id, older)'
               PROVE  older \in processed
    BY DEF ProcessedInOrder
  <2>1. id \in Created
    BY <1>2
  <2>2. older # new
    BY <1>4, <2>1
  <2> QED
    BY <1>2, <1>5, <2>1, <2>2 DEF OrderInv, ProcessedInOrder
<1>9. CurrentInOrder'
  <2> SUFFICES ASSUME pc # "loop", NEW older \in Created',
                      older < cur, SameTarget(cur, older)'
               PROVE  older \in processed
    BY DEF CurrentInOrder
  <2>1. cur \in Created
    BY <1>2
  <2>2. older # new
    BY <1>4, <2>1
  <2> QED
    BY <1>2, <1>5, <2>1, <2>2 DEF OrderInv, CurrentInOrder
<1> QED
  BY <1>6, <1>7, <1>8, <1>9 DEF OrderInv

(* A step that leaves the requests, the calls in progress and the agent's  *)
(* memory alone keeps the order.                                           *)
LEMMA OrderUnchanged ==
    ASSUME OrderInv, Created' = Created, \A id \in Ids : cm'[id].req = cm[id].req,
           \A w \in Workers : call'[w].pc = "named" => call'[w] = call[w],
           batch' = batch, processed' = processed, cur' = cur,
           pc' # "loop" => pc # "loop" /\ cur \in Created,
           processed \subseteq Created
    PROVE  OrderInv'
<1>1. \A id \in Created : cm'[id].req = cm[id].req
  BY DEF Created
<1>2. NamesAdvance'
  BY <1>1 DEF OrderInv, NamesAdvance, RequestsOf
<1>3. ListedInOrder'
  BY <1>1 DEF OrderInv, ListedInOrder, SameTarget
<1>4. ProcessedInOrder'
  BY <1>1 DEF OrderInv, ProcessedInOrder, SameTarget
<1>5. CurrentInOrder'
  BY <1>1 DEF OrderInv, CurrentInOrder, SameTarget
<1> QED
  BY <1>2, <1>3, <1>4, <1>5 DEF OrderInv

LEMMA NameOperationOrder ==
    ASSUME IInv, OrderInv, NEW w \in Workers, NameOperation(w) PROVE OrderInv'
<1>1. NamesAdvance'
  <2> SUFFICES ASSUME NEW v \in Workers, NEW id \in Created,
                      call'[v].pc = "named", cm[id].req \in RequestsOf(v)
               PROVE  id <= call'[v].id
    BY DEF NameOperation, NamesAdvance, Created, RequestsOf
  <2>1. CASE v = w
    <3>1. call'[w].id = now
      BY DEF NameOperation, IInv, TypeOK
    <3> QED
      BY <2>1, <3>1 DEF IInv, ConfigMapsOK
  <2>2. CASE v # w
    BY <2>2 DEF NameOperation, IInv, TypeOK, OrderInv, NamesAdvance
  <2> QED
    BY <2>1, <2>2
<1>2. ListedInOrder' /\ ProcessedInOrder' /\ CurrentInOrder'
  BY DEF NameOperation, OrderInv, ListedInOrder, ProcessedInOrder, CurrentInOrder,
         SameTarget, Created
<1> QED
  BY <1>1, <1>2 DEF OrderInv

LEMMA CreateOrder ==
    ASSUME IInv, OrderInv, NEW w \in Workers, CreateOperation(w) \/ CreateFails(w)
    PROVE  OrderInv'
<1>1. /\ call[w].pc = "named"
      /\ call'[w].pc # "named"
      /\ \A other \in Workers \ {w} : call'[other] = call[other]
      /\ UNCHANGED agentVars
  <2>1. call \in [Workers -> CallRecords]
    BY DEF IInv, TypeOK
  <2> QED
    BY <2>1 DEF CreateOperation, CreateFails, Return, CallRecords, NotWaiting
<1>2. CASE cm' = cm
  <2>1. \A v \in Workers : call'[v].pc = "named" => call'[v] = call[v]
    BY <1>1
  <2>2. pc # "loop" => cur \in Created
    BY DEF IInv, ExecutionOK
  <2> QED
    BY <1>1, <1>2, <2>1, <2>2, OrderUnchanged DEF IInv, ConfigMapsOK, Created
<1>3. CASE /\ cm[call[w].id].state = "Absent"
           /\ cm' = [cm EXCEPT ![call[w].id] = Posted(w)]
  BY <1>1, <1>3, PostOrder
<1> QED
  BY <1>2, <1>3 DEF CreateOperation, CreateFails

(* The steps of a call after its request was sent, and those of the cache. *)
LEMMA QuietOrder ==
    ASSUME IInv, OrderInv,
           \/ Tick
           \/ \E w \in Workers : PollReturns(w) \/ PollAgain(w)
           \/ \E id \in Ids : SyncView(id)
           \/ OperatorRestart
           \/ Execute
           \/ UNCHANGED vars
    PROVE  OrderInv'
<1>1. \A w \in Workers : call'[w].pc = "named" => call'[w] = call[w]
  <2>1. call \in [Workers -> CallRecords]
    BY DEF IInv, TypeOK
  <2>2. ASSUME NEW w \in Workers, PollReturns(w) \/ PollAgain(w)
        PROVE  \A v \in Workers : call'[v].pc = "named" => call'[v] = call[v]
    BY <2>1, <2>2 DEF PollReturns, PollAgain, Return, CallRecords, NotWaiting
  <2> QED
    BY <2>2 DEF Tick, SyncView, OperatorRestart, Execute, NotWaiting
<1>2. /\ cm' = cm /\ batch' = batch /\ processed' = processed /\ cur' = cur
      /\ pc' # "loop" => pc # "loop"
  BY DEF Tick, PollReturns, PollAgain, SyncView, OperatorRestart, Execute
<1>3. /\ pc # "loop" => cur \in Created
      /\ processed \subseteq Created
  BY DEF IInv, ExecutionOK, ConfigMapsOK
<1> QED
  BY <1>1, <1>2, <1>3, OrderUnchanged DEF Created

LEMMA ListOrder ==
    ASSUME IInv, OrderInv, List PROVE OrderInv'
<1>1. ListedInOrder'
  <2>1. \A id \in Created : batch'[id] # 0
    BY DEF List, Created, IInv, TypeOK
  <2> QED
    BY <2>1 DEF ListedInOrder, List, Created
<1> QED
  BY <1>1 DEF List, OrderInv, NamesAdvance, ProcessedInOrder, CurrentInOrder,
              SameTarget, Created

LEMMA MarkRunningOrder ==
    ASSUME IInv, OrderInv, MarkRunning PROVE OrderInv'
<1>1. PICK id \in Waiting :
         IsFirst(id, Waiting) /\ cur' = id /\ Update(id, "Running")
  BY DEF MarkRunning
<1>2. /\ id \in Created /\ batch[id] # 0 /\ id \in Ids
      /\ Created \subseteq Ids /\ processed \subseteq Created
  BY DEF Waiting, IInv, ConfigMapsOK, Created
<1>3. Created' = Created /\ \A other \in Ids : cm'[other].req = cm[other].req
  <2>1. "Running" \in States \ {"Absent"} /\ Truthful("Running", id)
    BY DEF States, Truthful
  <2> QED
    BY <1>1, <1>2, <2>1, UpdateInv DEF IInv, StatusTruthful
<1>4. call' = call /\ batch' = batch /\ processed' = processed
  BY DEF MarkRunning
<1>5. NamesAdvance' /\ ListedInOrder' /\ ProcessedInOrder'
  BY <1>2, <1>3, <1>4 DEF OrderInv, NamesAdvance, ListedInOrder, ProcessedInOrder,
                          SameTarget, RequestsOf
<1>6. CurrentInOrder'
  <2> SUFFICES ASSUME NEW older \in Created, older < id, SameTarget(id, older)
               PROVE  older \in processed
    BY <1>1, <1>2, <1>3, <1>4 DEF CurrentInOrder, SameTarget
  <2>1. batch[older] # 0 \/ older \in processed
    BY <1>2 DEF OrderInv, ListedInOrder
  <2>2. older \notin Waiting
    BY <1>1, <1>2 DEF IsFirst, Ids
  <2> QED
    BY <1>2, <2>1, <2>2 DEF Waiting
<1> QED
  BY <1>5, <1>6 DEF OrderInv

LEMMA ReportOrder ==
    ASSUME IInv, OrderInv, Report PROVE OrderInv'
<1> DEFINE state == IF verdict THEN "Success" ELSE "Failed"
<1>1. cur \in Created /\ cur \in Ids /\ Created \subseteq Ids
  BY DEF IInv, ExecutionOK, Created, Report
<1>2. Created' = Created /\ \A other \in Ids : cm'[other].req = cm[other].req
  <2>1. /\ state \in States \ {"Absent"}
        /\ Truthful(state, cur)
        /\ Update(cur, state)
    BY DEF States, Terminal, Truthful, IInv, ExecutionOK, Report
  <2> HIDE DEF state
  <2> QED
    BY <1>1, <2>1, UpdateInv DEF IInv, StatusTruthful
<1>3. /\ call' = call /\ pc' = "loop"
      /\ batch' = [batch EXCEPT ![cur] = 0]
      /\ processed' = processed \cup {cur}
      /\ \A older \in Created : older < cur /\ SameTarget(cur, older) => older \in processed
  BY DEF Report, OrderInv, CurrentInOrder
<1>4. NamesAdvance'
  BY <1>1, <1>2, <1>3 DEF OrderInv, NamesAdvance, RequestsOf
<1>5. ListedInOrder'
  <2>1. \A id \in Ids : batch'[id] # 0 => batch[id] # 0
    BY <1>3 DEF IInv, TypeOK
  <2>2. \A id \in Ids : batch[id] # 0 => batch'[id] # 0 \/ id = cur
    BY <1>3 DEF IInv, TypeOK
  <2> QED
    BY <1>1, <1>2, <1>3, <2>1, <2>2 DEF OrderInv, ListedInOrder, SameTarget
<1>6. ProcessedInOrder'
  BY <1>1, <1>2, <1>3 DEF OrderInv, ProcessedInOrder, SameTarget, IInv, ConfigMapsOK
<1>7. CurrentInOrder'
  BY <1>3 DEF CurrentInOrder
<1> QED
  BY <1>4, <1>5, <1>6, <1>7 DEF OrderInv

LEMMA AgentRestartOrder ==
    ASSUME IInv, OrderInv, AgentRestart PROVE OrderInv'
<1>1. \A id \in Ids : batch'[id] = 0
  BY DEF AgentRestart
<1> QED
  BY <1>1 DEF AgentRestart, OrderInv, NamesAdvance, ListedInOrder, ProcessedInOrder,
              CurrentInOrder, Created

LEMMA NextOrder == IInv /\ OrderInv /\ [Next]_vars => OrderInv'
<1> SUFFICES ASSUME IInv, OrderInv, [Next]_vars PROVE OrderInv'
  OBVIOUS
<1>1. CASE \E w \in Workers : NameOperation(w)
  BY <1>1, NameOperationOrder
<1>2. CASE \E w \in Workers : CreateOperation(w) \/ CreateFails(w)
  BY <1>2, CreateOrder
<1>3. CASE \/ Tick
           \/ \E w \in Workers : PollReturns(w) \/ PollAgain(w)
           \/ \E id \in Ids : SyncView(id)
           \/ OperatorRestart
           \/ Execute
           \/ UNCHANGED vars
  BY <1>3, QuietOrder
<1>4. CASE List
  BY <1>4, ListOrder
<1>5. CASE MarkRunning
  BY <1>5, MarkRunningOrder
<1>6. CASE Report
  BY <1>6, ReportOrder
<1>7. CASE AgentRestart
  BY <1>7, AgentRestartOrder
<1> QED
  BY <1>1, <1>2, <1>3, <1>4, <1>5, <1>6, <1>7 DEF Next, Call, Agent

LEMMA InitOrder == Init => OrderInv
<1> SUFFICES ASSUME Init PROVE OrderInv
  OBVIOUS
<1>1. Created = {}
  BY DEF Init, Created, NoConfigMap
<1> QED
  BY <1>1 DEF Init, OrderInv, NamesAdvance, ListedInOrder, ProcessedInOrder,
              CurrentInOrder

(* The channel keeps its operations in order, in every reachable state.    *)
THEOREM OrderInvariance == Spec => [](IInv /\ OrderInv)
<1> QED
  BY InitInv, NextInv, InitOrder, NextOrder, PTL DEF Spec

(* One incarnation of the agent executes the operations on a target in the *)
(* order of the operator's requests and at most once, for every number of  *)
(* operations, callers' targets, restarts and faults.                      *)
THEOREM OrderCorrect == Spec => []PerTargetOrder
<1>1. IInv /\ OrderInv => PerTargetOrder
  <2> SUFFICES ASSUME IInv, OrderInv, pc = "exec", NEW id \in processed,
                      cm[id].req.target = cm[cur].req.target
               PROVE  id < cur
    BY DEF PerTargetOrder
  <2>1. cur \in Created /\ cur \notin processed /\ id \in Ids /\ cur \in Ids
    BY DEF IInv, ExecutionOK, TypeOK, Created
  <2>2. ~(cur < id)
    BY <2>1 DEF OrderInv, ProcessedInOrder, SameTarget
  <2> QED
    BY <2>1, <2>2 DEF Ids
<1> QED
  BY <1>1, OrderInvariance, PTL

-----------------------------------------------------------------------------
(* The host follows the newest request that has succeeded.                 *)

(* What remains true while the agent still has work: of the operations it  *)
(* has executed, the newest on each target shows on the host, unless a     *)
(* newer one is just being executed; that one shows already.               *)
NewestProcessed(id) ==
    \A other \in processed : SameTarget(other, id) => other <= id

HostInv ==
    /\ \A id \in processed :
          /\ NewestProcessed(id)
          /\ id \notin badOps
          /\ ~(pc = "report" /\ SameTarget(id, cur))
          => Intended(cm[id].req, mounted)
    /\ pc = "report" /\ cur \notin badOps => Intended(cm[cur].req, mounted)

(* An operation changes its own target only, and a successful one leaves   *)
(* it as intended.                                                         *)
LEMMA OutcomesEffect ==
    ASSUME NEW r \in Requests, NEW m \in SUBSET Targets, NEW o \in Outcomes(r, m)
    PROVE  /\ \A t \in Targets : t # r.target => (t \in o.mounted <=> t \in m)
           /\ o.ok => Intended(r, o.mounted)
<1> DEFINE t == r.target
<1>1. r.kind \in {"mount", "unmount", "mergerfs-mount"}
  BY DEF Requests, DiskRequests, PoolRequests
<1>2. CASE r.kind = "mount"
  <2>1. o \in {Ok(m \cup {t}), Fail(m), Fail(m \cup {t})}
    BY <1>2 DEF Outcomes, MountDevice
  <2> QED
    BY <1>2, <2>1 DEF Ok, Fail, Intended
<1>3. CASE r.kind = "unmount"
  <2>1. CASE t \in m
    <3>1. o \in {Ok(m \ {t}), Fail(m)}
      BY <1>3, <2>1 DEF Outcomes, UnmountDevice
    <3> QED
      BY <1>3, <3>1 DEF Ok, Fail, Intended
  <2>2. CASE t \notin m
    <3>1. o = Ok(m)
      BY <1>3, <2>2 DEF Outcomes, UnmountDevice
    <3> QED
      BY <1>3, <2>2, <3>1 DEF Ok, Intended
  <2> QED
    BY <2>1, <2>2
<1>4. CASE r.kind = "mergerfs-mount"
  <2>1. o \in {Ok(m \cup {t}), Fail(m \ {t}), Fail(m)}
    BY <1>4 DEF Outcomes, MountMergerFS
  <2> QED
    BY <1>4, <2>1 DEF Ok, Fail, Intended
<1> QED
  BY <1>1, <1>2, <1>3, <1>4

(* A step outside the host keeps what is said about it, as long as it      *)
(* keeps the requests of existing operations.                              *)
LEMMA HostUnchanged ==
    ASSUME IInv, HostInv, \A id \in Created : cm'[id].req = cm[id].req,
           UNCHANGED hostVars, processed' = processed,
           pc' = "report" => pc = "report" /\ cur' = cur,
           pc = "report" => pc' = "report"
    PROVE  HostInv'
<1>1. /\ processed \subseteq Created
      /\ pc = "report" => cur \in Created
  BY DEF IInv, ConfigMapsOK, ExecutionOK
<1>2. \A a, b \in Created : SameTarget(a, b)' = SameTarget(a, b)
  BY DEF SameTarget
<1>3. \A id \in processed : NewestProcessed(id)' = NewestProcessed(id)
  BY <1>1, <1>2 DEF NewestProcessed
<1>4. \A id \in Created : Intended(cm[id].req, mounted)' = Intended(cm[id].req, mounted)
  BY DEF Intended
<1>5. pc' = "report" => pc = "report" /\ cur' = cur /\ cur \in Created
  BY <1>1
<1>6. \A id \in processed : (pc = "report" /\ SameTarget(id, cur))'
                              = (pc = "report" /\ SameTarget(id, cur))
  BY <1>1, <1>5 DEF SameTarget
<1> QED
  BY <1>1, <1>3, <1>4, <1>5, <1>6 DEF HostInv

LEMMA ExecuteHost ==
    ASSUME IInv, OrderInv, HostInv, Execute PROVE HostInv'
<1>1. /\ cur \in Created /\ cur \notin processed /\ cm[cur].req \in Requests
      /\ processed \subseteq Created /\ Created \subseteq Ids
      /\ mounted \in SUBSET Targets
      /\ pc = "exec"
  BY DEF Execute, IInv, ExecutionOK, ConfigMapsOK, TypeOK, Created
<1>2. PICK o \in Outcomes(cm[cur].req, mounted) :
         /\ mounted' = o.mounted
         /\ badOps' = IF o.ok THEN badOps ELSE badOps \cup {cur}
  BY DEF Execute
<1>3. /\ \A t \in Targets : t # cm[cur].req.target => (t \in mounted' <=> t \in mounted)
      /\ o.ok => Intended(cm[cur].req, mounted')
      /\ o.ok \in BOOLEAN
  BY <1>1, <1>2, OutcomesEffect, OutcomesType
<1>4. UNCHANGED <<cm, processed, cur>> /\ pc' = "report"
  BY DEF Execute
<1>5. ASSUME NEW id \in processed, NewestProcessed(id)', id \notin badOps',
             ~SameTarget(id, cur)
      PROVE  Intended(cm[id].req, mounted)'
  <2>1. Intended(cm[id].req, mounted)
    <3>1. NewestProcessed(id) /\ id \notin badOps
      BY <1>2, <1>4, <1>5 DEF NewestProcessed, SameTarget
    <3> QED
      BY <1>1, <1>5, <3>1 DEF HostInv
  <2>2. cm[id].req.target \in Targets
    BY <1>1 DEF IInv, TypeOK, Created, Requests, DiskRequests, PoolRequests, Targets
  <2> QED
    BY <1>3, <1>4, <1>5, <2>1, <2>2 DEF Intended, SameTarget
<1>6. cur \notin badOps' => Intended(cm[cur].req, mounted)'
  BY <1>2, <1>3, <1>4 DEF Intended
<1> QED
  BY <1>4, <1>5, <1>6 DEF HostInv, SameTarget

LEMMA ReportHost ==
    ASSUME IInv, OrderInv, HostInv, Report PROVE HostInv'
<1>1. /\ cur \in Created /\ cur \notin processed /\ processed \subseteq Created
      /\ Created \subseteq Ids /\ pc = "report"
  BY DEF Report, IInv, ExecutionOK, ConfigMapsOK, Created
<1>2. /\ processed' = processed \cup {cur} /\ pc' = "loop"
      /\ UNCHANGED hostVars
  BY DEF Report
<1>3. \A id \in Ids : cm'[id].req = cm[id].req
  BY <1>1, UpdateType DEF Report, IInv, TypeOK, States, Terminal, Update, Updated
<1>4. ASSUME NEW id \in processed', NewestProcessed(id)', id \notin badOps
      PROVE  Intended(cm[id].req, mounted)
  <2>1. \A other \in processed' : SameTarget(other, id) => other <= id
    BY <1>1, <1>2, <1>3, <1>4 DEF NewestProcessed, SameTarget
  <2>2. CASE id = cur
    BY <1>1, <1>4, <2>2 DEF HostInv
  <2>3. CASE id # cur
    <3>1. id \in processed /\ id \in Nat /\ cur \in Nat
      BY <1>1, <1>2, <2>3 DEF Ids
    <3>2. ~SameTarget(id, cur)
      <4>1. SameTarget(id, cur) => cur < id
        BY <1>2, <2>1, <2>3, <3>1 DEF SameTarget
      <4> QED
        BY <1>1, <3>1, <4>1 DEF OrderInv, ProcessedInOrder
    <3>3. NewestProcessed(id)
      BY <1>2, <2>1 DEF NewestProcessed
    <3> QED
      BY <1>4, <3>1, <3>2, <3>3 DEF HostInv
  <2> QED
    BY <2>2, <2>3
<1> QED
  BY <1>1, <1>2, <1>3, <1>4 DEF HostInv, Intended

LEMMA NextHost == IInv /\ OrderInv /\ HostInv /\ [Next]_vars => HostInv'
<1> SUFFICES ASSUME IInv, OrderInv, HostInv, [Next]_vars PROVE HostInv'
  OBVIOUS
<1>1. CASE \E w \in Workers : CreateOperation(w) \/ CreateFails(w)
  <2>1. PICK w \in Workers : CreateOperation(w) \/ CreateFails(w)
    BY <1>1
  <2>2. \A id \in Created : cm'[id].req = cm[id].req
    <3>1. cm' = cm \/ (/\ cm[call[w].id].state = "Absent"
                       /\ cm' = [cm EXCEPT ![call[w].id] = Posted(w)])
      BY <2>1 DEF CreateOperation, CreateFails
    <3> QED
      BY <3>1 DEF Created, IInv, TypeOK
  <2> QED
    BY <2>1, <2>2, HostUnchanged DEF CreateOperation, CreateFails
<1>2. CASE MarkRunning
  <2>1. \A id \in Created : cm'[id].req = cm[id].req
    <3>1. PICK id \in Waiting : Update(id, "Running")
      BY <1>2 DEF MarkRunning
    <3> QED
      BY <3>1, UpdateType DEF IInv, TypeOK, States, Waiting, Created
  <2> QED
    BY <1>2, <2>1, HostUnchanged DEF MarkRunning
<1>3. CASE Execute
  BY <1>3, ExecuteHost
<1>4. CASE Report
  BY <1>4, ReportHost
<1>5. CASE AgentRestart
  BY <1>5 DEF AgentRestart, HostInv
<1>6. CASE \/ Tick
           \/ \E w \in Workers : NameOperation(w) \/ PollReturns(w) \/ PollAgain(w)
           \/ \E id \in Ids : SyncView(id)
           \/ OperatorRestart
           \/ List
           \/ UNCHANGED vars
  <2>1. UNCHANGED <<cm, pc, cur, processed, mounted, okOps, badOps>>
    BY <1>6 DEF Tick, NameOperation, PollReturns, PollAgain, SyncView,
                OperatorRestart, List
  <2> QED
    BY <2>1, HostUnchanged
<1> QED
  BY <1>1, <1>2, <1>3, <1>4, <1>5, <1>6 DEF Next, Call, Agent

(* When the agent has nothing left to execute, every target whose newest   *)
(* operation has only succeeded is as that operation asked, for every      *)
(* number of operations, restarts and faults.                              *)
THEOREM HostCorrect == Spec => []QuiescentHost
<1>1. Init => HostInv
  BY DEF Init, HostInv
<1>2. IInv /\ HostInv => QuiescentHost
  <2> SUFFICES ASSUME IInv, HostInv, pc = "loop", Created \subseteq processed,
                      NEW t \in Targets, NEW id \in Newest(t), id \notin badOps
               PROVE  Intended(cm[id].req, mounted)
    BY DEF QuiescentHost
  <2>1. id \in processed /\ processed \subseteq Created
    BY DEF Newest, IInv, ConfigMapsOK
  <2>2. NewestProcessed(id)
    BY <2>1 DEF Newest, NewestProcessed, SameTarget
  <2> QED
    BY <2>1, <2>2 DEF HostInv
<1> QED
  BY <1>1, <1>2, NextHost, OrderInvariance, PTL DEF Spec

-----------------------------------------------------------------------------
(* The channel implements AgentRPC. The mapping forgets the clock, the     *)
(* caches, the polls and the agent: a name is posted when its ConfigMap has*)
(* a request.                                                              *)

(* Beside IInv the mapping needs that a free name has no request, and that *)
(* a call leaves nothing behind.                                           *)
FreeUnposted == \A id \in Ids : cm[id].state = "Absent" => cm[id].req = NoRequest

IdleForgets == \A w \in Workers : call[w].pc = "idle" => call[w] = NotWaiting

(* The requests posted, as AgentRPC sees them.                             *)
posted == [id \in Ids |-> cm[id].req]

(* Both modules say the same of a host operation.                          *)
LEMMA SameOutcomes ==
    ASSUME NEW r, NEW m PROVE RPC!Outcomes(r, m) = Outcomes(r, m)
BY DEF RPC!Outcomes, Outcomes, RPC!MountDevice, MountDevice, RPC!UnmountDevice, UnmountDevice,
       RPC!MountMergerFS, MountMergerFS, RPC!Ok, Ok, RPC!Fail, Fail

(* What a caller sees of a call.                                           *)
LEMMA ActiveCall ==
    ASSUME IInv, NEW w \in Workers
    PROVE  /\ active[w] = [id |-> call[w].id, req |-> call[w].req,
                           posted |-> call[w].pc = "waiting"]
           /\ call[w].pc # "idle" => active[w] # NoCall /\ active[w].id \in Ids
<1>1. active[w] = [id |-> call[w].id, req |-> call[w].req, posted |-> call[w].pc = "waiting"]
  BY DEF active
<1>2. call[w].pc # "idle" => call[w].id \in Ids
  BY DEF IInv, CallsOK, TypeOK, Ids
<1> QED
  BY <1>1, <1>2 DEF NoCall, Ids

LEMMA FreeUnpostedInv ==
    ASSUME IInv, FreeUnposted, [Next]_vars PROVE FreeUnposted'
<1>1. CASE cm' = cm
  BY <1>1 DEF FreeUnposted
<1>2. ASSUME NEW w \in Workers, call[w].pc = "named",
             cm' = [cm EXCEPT ![call[w].id] = Posted(w)]
      PROVE  FreeUnposted'
  <2>1. Posted(w).state = "Pending"
    BY DEF Posted
  <2> QED
    BY <1>2, <2>1 DEF FreeUnposted, IInv, TypeOK
<1>3. ASSUME NEW id \in Created, NEW state \in States \ {"Absent"}, Update(id, state)
      PROVE  FreeUnposted'
  <2>1. id \in Ids /\ cm[id].state # "Absent"
    BY <1>3 DEF Created
  <2>2. \/ cm' = cm
        \/ /\ cm'[id].state = state
           /\ \A other \in Ids \ {id} : cm'[other] = cm[other]
    BY <1>3, <2>1, UpdateType DEF IInv, TypeOK
  <2> QED
    BY <1>3, <2>1, <2>2 DEF FreeUnposted
<1>4. CASE MarkRunning
  <2>1. PICK id \in Waiting : Update(id, "Running")
    BY <1>4 DEF MarkRunning
  <2>2. id \in Created
    BY DEF Waiting, IInv, ConfigMapsOK, Created
  <2> QED
    BY <1>3, <2>1, <2>2 DEF States
<1>5. CASE Report
  <2>1. cur \in Created
    BY <1>5 DEF Report, IInv, ExecutionOK
  <2> QED
    BY <1>3, <1>5, <2>1 DEF Report, States, Terminal
<1>6. CASE \E w \in Workers : CreateOperation(w)
  BY <1>2, <1>6 DEF CreateOperation
<1>7. CASE \E w \in Workers : CreateFails(w)
  BY <1>1, <1>2, <1>7 DEF CreateFails
<1> QED
  BY <1>1, <1>4, <1>5, <1>6, <1>7
     DEF Next, Call, Agent, Tick, NameOperation, PollReturns, PollAgain, SyncView,
         OperatorRestart, List, Execute, AgentRestart
LEMMA IdleForgetsInv ==
    ASSUME IInv, IdleForgets, [Next]_vars PROVE IdleForgets'
<1> SUFFICES ASSUME NEW w \in Workers, call'[w].pc = "idle"
             PROVE  call'[w] = NotWaiting
  BY DEF IdleForgets
<1>0. call \in [Workers -> CallRecords]
  BY DEF IInv, TypeOK
<1>1. CASE call' = call
  BY <1>1 DEF IdleForgets
<1>2. CASE \E v \in Workers : call' = [call EXCEPT ![v] = NotWaiting]
  BY <1>0, <1>2 DEF IdleForgets
<1>3. CASE \E v \in Workers : NameOperation(v) \/ CreateOperation(v) \/ PollAgain(v)
  <2>1. PICK v \in Workers : NameOperation(v) \/ CreateOperation(v) \/ PollAgain(v)
    BY <1>3
  <2>2. \/ \E r \in RequestsOf(v) :
              call' = [call EXCEPT ![v] = [pc |-> "named", id |-> now, req |-> r, polls |-> 0]]
        \/ call' = [call EXCEPT ![v].pc = "waiting"]
        \/ call[v].pc = "waiting" /\ call' = [call EXCEPT ![v].polls = @ + 1]
    BY <2>1 DEF NameOperation, CreateOperation, PollAgain
  <2>3. call[v] \in CallRecords
    BY <1>0
  <2> QED
    BY <1>0, <2>2, <2>3 DEF IdleForgets, CallRecords
<1>4. CASE \E v \in Workers : CreateFails(v) \/ PollReturns(v)
  BY <1>2, <1>4 DEF CreateFails, PollReturns, Return
<1>5. CASE OperatorRestart
  BY <1>5 DEF OperatorRestart
<1> QED
  BY <1>1, <1>3, <1>4, <1>5
     DEF Next, Call, Agent, Tick, SyncView, List, MarkRunning, Execute, Report, AgentRestart

(* A step is seen by the callers only through these.                       *)
LEMMA Stutter ==
    ASSUME UNCHANGED <<call, result, posted, mounted, okOps, badOps>>
    PROVE  UNCHANGED RPC!vars
<1>1. active' = active
  BY DEF active
<1> QED
  BY <1>1 DEF RPC!vars, posted

LEMMA InitRefines == Init => RPC!Init
<1> SUFFICES ASSUME Init PROVE RPC!Init
  OBVIOUS
<1>1. active = [w \in Workers |-> NoCall]
  BY DEF Init, active, NoCall, NotWaiting
<1>2. posted = [id \in Ids |-> NoRequest]
  BY DEF Init, posted, NoConfigMap
<1> QED
  BY <1>1, <1>2 DEF Init, RPC!Init, posted, RPC!Targets, Targets

(* The step that names an operation begins the call.                       *)
LEMMA NameOperationRefines ==
    ASSUME IInv, IdleForgets, NEW w \in Workers, NameOperation(w) PROVE RPC!Begin(w)
<1>1. PICK r \in RequestsOf(w) :
         call' = [call EXCEPT ![w] = [pc |-> "named", id |-> now, req |-> r, polls |-> 0]]
  BY DEF NameOperation
<1>2. now \in Ids /\ call \in [Workers -> CallRecords]
  BY DEF IInv, TypeOK
<1>3. active' = [active EXCEPT ![w] = [id |-> now, req |-> r, posted |-> FALSE]]
  BY <1>1, <1>2 DEF active
<1>4. active[w] = NoCall
  <2>1. call[w] = NotWaiting
    BY DEF NameOperation, IdleForgets
  <2>2. call[w].id = 0 /\ call[w].req = NoRequest /\ call[w].pc # "waiting"
    BY <2>1 DEF NotWaiting
  <2>3. active[w] = [id |-> call[w].id, req |-> call[w].req, posted |-> call[w].pc = "waiting"]
    BY ActiveCall
  <2>4. (call[w].pc = "waiting") = FALSE
    BY <2>2, Zenon
  <2> QED
    BY <2>2, <2>3, <2>4, Zenon DEF NoCall
<1>5. UNCHANGED <<result, posted, mounted, okOps, badOps>>
  BY DEF NameOperation, posted
<1> QED
  BY <1>2, <1>3, <1>4, <1>5 DEF RPC!Begin, posted

(* A ConfigMap that is created is the request that becomes known.          *)
LEMMA CreatedPosted ==
    ASSUME IInv, FreeUnposted, NEW w \in Workers, call[w].pc = "named",
           cm[call[w].id].state = "Absent",
           cm' = [cm EXCEPT ![call[w].id] = Posted(w)]
    PROVE  /\ posted[active[w].id] = NoRequest
           /\ posted' = [posted EXCEPT ![active[w].id] = active[w].req]
<1>1. active[w].id = call[w].id /\ active[w].req = call[w].req /\ call[w].id \in Ids
  <2>1. active[w] = [id |-> call[w].id, req |-> call[w].req, posted |-> call[w].pc = "waiting"]
    BY ActiveCall
  <2> QED
    BY <2>1, ActiveCall
<1>2. cm \in [Ids -> ConfigMaps]
  BY DEF IInv, TypeOK
<1>3. posted' = [posted EXCEPT ![call[w].id] = call[w].req]
  BY <1>1, <1>2 DEF posted, Posted
<1> QED
  BY <1>1, <1>3 DEF posted, FreeUnposted

LEMMA CreateOperationRefines ==
    ASSUME IInv, FreeUnposted, NEW w \in Workers, CreateOperation(w) PROVE RPC!Post(w)
<1> USE DEF CreateOperation
<1>1. /\ posted[active[w].id] = NoRequest
      /\ posted' = [posted EXCEPT ![active[w].id] = active[w].req]
      /\ active[w] # NoCall
  BY CreatedPosted, ActiveCall
<1>2. active' = [active EXCEPT ![w].posted = TRUE]
  BY DEF active, IInv, TypeOK, CallRecords
<1> QED
  BY <1>1, <1>2 DEF RPC!Post, posted

(* A call that returns is over for its caller.                             *)
LEMMA ReturnActive ==
    ASSUME IInv, NEW w \in Workers, NEW ok, Return(w, ok)
    PROVE  /\ active' = [active EXCEPT ![w] = NoCall]
           /\ result' = [result EXCEPT ![w] = IF ok THEN active[w].id ELSE 0]
BY DEF Return, active, IInv, TypeOK, NotWaiting, NoCall

LEMMA CreateFailsRefines ==
    ASSUME IInv, FreeUnposted, NEW w \in Workers, CreateFails(w)
    PROVE  RPC!Post(w) \/ RPC!ReturnError(w)
<1> USE DEF CreateFails
<1>1. /\ active' = [active EXCEPT ![w] = NoCall]
      /\ result' = [result EXCEPT ![w] = 0]
      /\ active[w] # NoCall
  BY ReturnActive, ActiveCall
<1>2. CASE cm' = cm
  BY <1>1, <1>2 DEF RPC!ReturnError, posted
<1>3. CASE cm[call[w].id].state = "Absent" /\ cm' = [cm EXCEPT ![call[w].id] = Posted(w)]
  BY <1>1, <1>3, CreatedPosted DEF RPC!Post, posted
<1> QED
  BY <1>2, <1>3

(* A poll that finds Success is founded on an execution of this operation: *)
(* StatusTruthful.                                                         *)
LEMMA PollReturnsRefines ==
    ASSUME IInv, NEW w \in Workers, PollReturns(w)
    PROVE  RPC!ReturnDone(w) \/ RPC!ReturnError(w)
<1> USE DEF PollReturns
<1> DEFINE ok == view[call[w].id] = "Success"
<1>1. /\ active[w] = [id |-> call[w].id, req |-> call[w].req, posted |-> TRUE]
      /\ active[w] # NoCall /\ active[w].id \in Ids
  BY ActiveCall
<1>2. /\ active' = [active EXCEPT ![w] = NoCall]
      /\ result' = [result EXCEPT ![w] = IF ok THEN active[w].id ELSE 0]
  BY ReturnActive
<1>3. UNCHANGED <<posted, mounted, okOps, badOps>>
  BY DEF posted
<1>4. CASE ok
  <2>1. active[w].id \in okOps
    BY <1>1, <1>4 DEF IInv, StatusTruthful, Truthful
  <2> QED
    BY <1>1, <1>2, <1>3, <1>4, <2>1 DEF RPC!ReturnDone, posted
<1>5. CASE ~ok
  BY <1>1, <1>2, <1>3, <1>5 DEF RPC!ReturnError, posted
<1> QED
  BY <1>4, <1>5

LEMMA ExecuteRefines ==
    ASSUME IInv, Execute PROVE RPC!Perform(cur)
<1>1. cur \in Ids /\ cm[cur].req \in Requests
  BY DEF Execute, IInv, ExecutionOK, Created, TypeOK
<1>2. posted[cur] = cm[cur].req /\ posted[cur] # NoRequest
  BY <1>1 DEF posted, Requests, DiskRequests, PoolRequests, NoRequest
<1>3. UNCHANGED <<active, result, posted>>
  BY DEF Execute, active, posted
<1> QED
  BY <1>1, <1>2, <1>3, SameOutcomes DEF Execute, RPC!Perform, posted
(* Updates of a status, from whatever copy, leave the requests alone.      *)
LEMMA UpdatePosted ==
    ASSUME IInv, NEW id \in Ids, NEW state \in States, Update(id, state)
    PROVE  UNCHANGED posted
BY UpdateType DEF IInv, TypeOK, posted

(* Every step of the channel is one of the contract, or none.              *)
LEMMA NextRefines ==
    ASSUME IInv, FreeUnposted, IdleForgets, [Next]_vars PROVE [RPC!Next]_(RPC!vars)
<1>1. CASE \E w \in Workers : NameOperation(w)
  BY <1>1, NameOperationRefines DEF RPC!Next
<1>2. CASE \E w \in Workers : CreateOperation(w)
  BY <1>2, CreateOperationRefines DEF RPC!Next
<1>3. CASE \E w \in Workers : CreateFails(w)
  BY <1>3, CreateFailsRefines DEF RPC!Next
<1>4. CASE \E w \in Workers : PollReturns(w)
  BY <1>4, PollReturnsRefines DEF RPC!Next
<1>5. CASE \E w \in Workers : PollAgain(w)
  <2>1. active' = active
    BY <1>5 DEF PollAgain, active, IInv, TypeOK, CallRecords
  <2> QED
    BY <1>5, <2>1 DEF PollAgain, RPC!vars
<1>6. CASE OperatorRestart
  <2>1. active' = [w \in Workers |-> NoCall]
    BY <1>6 DEF OperatorRestart, active, NotWaiting, NoCall
  <2> QED
    BY <1>6, <2>1 DEF OperatorRestart, RPC!Forget, RPC!Next
<1>7. CASE MarkRunning
  <2>1. UNCHANGED posted
    BY <1>7, UpdatePosted DEF MarkRunning, Waiting, States
  <2> QED
    BY <1>7, <2>1, Stutter DEF MarkRunning
<1>8. CASE Execute
  <2>1. cur \in Ids
    BY <1>8 DEF Execute, IInv, ExecutionOK, Created
  <2> QED
    BY <1>8, <2>1, ExecuteRefines DEF RPC!Next
<1>9. CASE Report
  <2>1. cur \in Ids
    BY <1>9 DEF Report, IInv, ExecutionOK, Created
  <2>2. UNCHANGED posted
    BY <1>9, <2>1, UpdatePosted DEF Report, States, Terminal
  <2> QED
    BY <1>9, <2>2, Stutter DEF Report
<1>10. CASE AgentRestart
  <2>1. active' = active
    BY <1>10 DEF AgentRestart, active
  <2> QED
    BY <1>10, <2>1 DEF AgentRestart, RPC!LoseMounts, RPC!Next
<1>11. CASE Tick \/ (\E id \in Ids : SyncView(id)) \/ List \/ UNCHANGED vars
  BY <1>11, Stutter DEF Tick, SyncView, List, posted
<1> QED
  BY <1>1, <1>2, <1>3, <1>4, <1>5, <1>6, <1>7, <1>8, <1>9, <1>10, <1>11 DEF Next, Call, Agent

(* The channel keeps the promise its callers rely on, for every number of  *)
(* operations, polls, restarts and failed requests: a call that returns no *)
(* error was carried out after it began, with its own request.             *)
THEOREM ContractCorrect == Spec => Contract
<1>1. Init => FreeUnposted /\ IdleForgets
  BY DEF Init, FreeUnposted, IdleForgets, NoConfigMap
<1>2. IInv /\ FreeUnposted /\ IdleForgets /\ [Next]_vars => (FreeUnposted /\ IdleForgets)'
  BY FreeUnpostedInv, IdleForgetsInv
<1>3. Spec => [](IInv /\ FreeUnposted /\ IdleForgets)
  BY <1>1, <1>2, Invariance, PTL DEF Spec
<1>4. IInv /\ FreeUnposted /\ IdleForgets /\ [Next]_vars => [RPC!Next]_(RPC!vars)
  BY NextRefines
<1> QED
  BY <1>3, <1>4, InitRefines, PTL DEF Spec, Contract, RPC!Spec
=============================================================================
