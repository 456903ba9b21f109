---------------------------- MODULE AgentChannel ----------------------------
(***************************************************************************)
(* The operation channel between the operator and the node agent of one    *)
(* node. The operator has no connection to the agent: it posts an          *)
(* operation as a ConfigMap named after the millisecond of the call and    *)
(* polls that ConfigMap, through its informer cache, for a terminal        *)
(* status. The agent lists the ConfigMaps of its node every five seconds,  *)
(* executes those it has not executed since it started, in name order,     *)
(* and writes the status back with optimistic concurrency.                 *)
(*                                                                         *)
(* Two controllers of the operator call the agent, each from one worker    *)
(* goroutine that blocks for the duration of the call.                     *)
(***************************************************************************)
EXTENDS HostOps, FiniteSets

CONSTANTS MaxTime,      \* last millisecond of the clock
          MaxPolls,     \* polls before a call times out (24 in the code)
          MaxRestarts,  \* restarts of the agent or the operator, together
          MaxFaults     \* failed API requests

ASSUME ChannelAssumption ==
    /\ MaxTime \in Nat \ {0}
    /\ MaxPolls \in Nat \ {0}
    /\ MaxRestarts \in Nat
    /\ MaxFaults \in Nat

Ids     == 1..MaxTime       \* an operation is named by its creation time
Workers == {"DiskController", "PoolController"}

Terminal    == {"Success", "Failed"}
States      == {"Absent", "Pending", "Running"} \cup Terminal
NoRequest   == [kind |-> "none", target |-> "none"]
NoConfigMap == [state |-> "Absent", rv |-> 0, req |-> NoRequest]
NotWaiting  == [pc |-> "idle", id |-> 0, req |-> NoRequest, polls |-> 0]

RequestsOf(w) == IF w = "DiskController" THEN DiskRequests ELSE PoolRequests

VARIABLES
    now,        \* the operator's clock, in milliseconds
    call,       \* [Workers -> the call a worker is blocked in]
    result,     \* [Workers -> the operation its last call reported as done, 0: none]
    cm,         \* [Ids -> the operation ConfigMap in the API server]
    view,       \* [Ids -> its state in the operator's informer cache]
    pc,         \* where the agent is: "loop", "exec" or "report"
    batch,      \* [Ids -> resourceVersion in the agent's listing, 0: not in it]
    cur,        \* the operation the agent executes, 0: none
    verdict,    \* how the execution of cur ended
    processed,  \* processedOperations, in the agent's memory
    mounted,    \* the mounted paths of the host
    okOps,      \* history: operations whose execution once succeeded
    badOps,     \* history: operations whose execution once failed
    restarts,   \* restarts so far
    faults      \* failed API requests so far

operatorVars == <<now, call, result>>
agentVars    == <<pc, batch, cur, verdict, processed>>
hostVars     == <<mounted, okOps, badOps>>
boundVars    == <<restarts, faults>>
vars == <<operatorVars, cm, view, agentVars, hostVars, boundVars>>

Init ==
    /\ now = 1
    /\ call = [w \in Workers |-> NotWaiting]
    /\ result = [w \in Workers |-> 0]
    /\ cm = [id \in Ids |-> NoConfigMap]
    /\ view = [id \in Ids |-> "Absent"]
    /\ pc = "loop" /\ cur = 0 /\ verdict = FALSE
    /\ batch = [id \in Ids |-> 0]
    /\ processed = {}
    /\ mounted \in SUBSET Targets
    /\ okOps = {} /\ badOps = {}
    /\ restarts = 0 /\ faults = 0

Fault == faults < MaxFaults /\ faults' = faults + 1

-----------------------------------------------------------------------------
(* The operator.                                                           *)

Tick ==
    /\ now < MaxTime
    /\ now' = now + 1
    /\ UNCHANGED <<call, result, cm, view, agentVars, hostVars, boundVars>>

(* postAgentOp fixes the name from the clock before it sends the request.  *)
NameOperation(w) ==
    /\ call[w].pc = "idle"
    /\ \E r \in RequestsOf(w) :
          call' = [call EXCEPT ![w] = [pc |-> "named", id |-> now, req |-> r, polls |-> 0]]
    /\ UNCHANGED <<now, result, cm, view, agentVars, hostVars, boundVars>>

Return(w, ok) ==
    /\ call' = [call EXCEPT ![w] = NotWaiting]
    /\ result' = [result EXCEPT ![w] = IF ok THEN call[w].id ELSE 0]

Posted(w) == [state |-> "Pending", rv |-> 1, req |-> call[w].req]

(* The name is free and the API server answers.                            *)
CreateOperation(w) ==
    /\ call[w].pc = "named"
    /\ cm[call[w].id].state = "Absent"
    /\ cm' = [cm EXCEPT ![call[w].id] = Posted(w)]
    /\ call' = [call EXCEPT ![w].pc = "waiting"]
    /\ UNCHANGED <<now, result, view, agentVars, hostVars, boundVars>>

(* Mutant: a name that exists is taken for this call's own operation.      *)
CreateFails_adoptsExisting(w) ==
    /\ call[w].pc = "named"
    /\ cm[call[w].id].state # "Absent"
    /\ call' = [call EXCEPT ![w].pc = "waiting"]
    /\ UNCHANGED <<now, result, cm, view, agentVars, hostVars, boundVars>>

(* Another call took the same millisecond (AlreadyExists), or the API      *)
(* request fails; a failed request may still have created the ConfigMap.   *)
CreateFails(w) ==
    /\ call[w].pc = "named"
    /\ Return(w, FALSE)
    /\ \/ /\ cm[call[w].id].state # "Absent"
          /\ UNCHANGED <<cm, faults>>
       \/ /\ Fault
          /\ UNCHANGED cm
       \/ /\ Fault
          /\ cm[call[w].id].state = "Absent"
          /\ cm' = [cm EXCEPT ![call[w].id] = Posted(w)]
    /\ UNCHANGED <<now, view, agentVars, hostVars, restarts>>

(* Mutants: the call never times out; the call takes the posted request    *)
(* for a finished one.                                                     *)
PollReturns_noTimeout(w) ==
    /\ call[w].pc = "waiting"
    /\ view[call[w].id] \in Terminal
    /\ Return(w, view[call[w].id] = "Success")
    /\ UNCHANGED <<now, cm, view, agentVars, hostVars, boundVars>>

PollReturns_optimistic(w) ==
    /\ call[w].pc = "waiting"
    /\ Return(w, view[call[w].id] # "Failed")
    /\ UNCHANGED <<now, cm, view, agentVars, hostVars, boundVars>>

(* One iteration of waitForOperationState that decides: a terminal status  *)
(* in the cache, or the last poll. A started cache fails only with         *)
(* NotFound, and the context of a call ends with the operator.             *)
PollReturns(w) ==
    /\ call[w].pc = "waiting"
    /\ \/ view[call[w].id] \in Terminal
       \/ call[w].polls + 1 = MaxPolls
    /\ Return(w, view[call[w].id] = "Success")
    /\ UNCHANGED <<now, cm, view, agentVars, hostVars, boundVars>>

(* Mutant: one poll too many.                                              *)
PollAgain_offByOne(w) ==
    /\ call[w].pc = "waiting"
    /\ view[call[w].id] \notin Terminal
    /\ call[w].polls <= MaxPolls
    /\ call' = [call EXCEPT ![w].polls = @ + 1]
    /\ UNCHANGED <<now, result, cm, view, agentVars, hostVars, boundVars>>

(* Not found, Pending or Running: sleep two seconds and poll again.        *)
PollAgain(w) ==
    /\ call[w].pc = "waiting"
    /\ view[call[w].id] \notin Terminal
    /\ call[w].polls + 1 < MaxPolls
    /\ call' = [call EXCEPT ![w].polls = @ + 1]
    /\ UNCHANGED <<now, result, cm, view, agentVars, hostVars, boundVars>>

(* The watch of the informer cache delivers the current state.             *)
SyncView(id) ==
    /\ view[id] # cm[id].state
    /\ view' = [view EXCEPT ![id] = cm[id].state]
    /\ UNCHANGED <<operatorVars, cm, agentVars, hostVars, boundVars>>

(* The operator is killed: its calls are gone, the new one starts from a   *)
(* fresh listing.                                                          *)
OperatorRestart ==
    /\ restarts < MaxRestarts
    /\ restarts' = restarts + 1
    /\ call' = [w \in Workers |-> NotWaiting]
    /\ view' = [id \in Ids |-> cm[id].state]
    /\ UNCHANGED <<now, result, cm, agentVars, hostVars, faults>>
-----------------------------------------------------------------------------
(* The agent: one goroutine.                                               *)

(* Mutant: processedOperations is not consulted.                           *)
Waiting_forgetful == {id \in Ids : batch[id] # 0}

(* Listed and not yet executed by this incarnation.                        *)
Waiting == {id \in Ids : batch[id] # 0 /\ id \notin processed}

(* Mutant: the newest operation first.                                     *)
IsFirst_newest(id, ids) == \A other \in ids : id >= other

(* The API server returns a listing in name order, which is time order.    *)
IsFirst(id, ids) == \A other \in ids : id <= other

(* Mutant: only operations nobody has started.                             *)
List_pendingOnly ==
    /\ pc = "loop" /\ Waiting = {}
    /\ batch' = [id \in Ids |-> IF cm[id].state = "Pending" THEN cm[id].rv ELSE 0]
    /\ UNCHANGED <<operatorVars, cm, view, pc, cur, verdict, processed,
                   hostVars, boundVars>>

(* processOperationRequests: every ConfigMap of the node, with the         *)
(* resourceVersion it has now. Nothing ever deletes one.                   *)
List ==
    /\ pc = "loop" /\ Waiting = {}
    /\ batch' = [id \in Ids |-> cm[id].rv]
    /\ UNCHANGED <<operatorVars, cm, view, pc, cur, verdict, processed,
                   hostVars, boundVars>>

(* Update of a ConfigMap from the listed copy: refused when the copy is    *)
(* not the current one, and not a new version when it changes nothing.     *)
Updated(id, state) ==
    IF batch[id] # cm[id].rv \/ cm[id].state = state
    THEN cm
    ELSE [cm EXCEPT ![id].state = state, ![id].rv = @ + 1]

(* An update whose result the agent ignores.                               *)
Update(id, state) ==
    \/ cm' = Updated(id, state) /\ UNCHANGED faults
    \/ Fault /\ UNCHANGED cm

(* The next operation of the listing, and the head of executeOperation:    *)
(* the status becomes Running.                                             *)
MarkRunning ==
    /\ pc = "loop"
    /\ \E id \in Waiting :
          /\ IsFirst(id, Waiting)
          /\ cur' = id
          /\ Update(id, "Running")
    /\ pc' = "exec"
    /\ UNCHANGED <<operatorVars, view, batch, verdict, processed, hostVars,
                   restarts>>

(* The host operation itself.                                              *)
Execute ==
    /\ pc = "exec"
    /\ \E o \in Outcomes(cm[cur].req, mounted) :
          /\ verdict' = o.ok
          /\ mounted' = o.mounted
          /\ okOps'  = IF o.ok THEN okOps \cup {cur} ELSE okOps
          /\ badOps' = IF o.ok THEN badOps ELSE badOps \cup {cur}
    /\ pc' = "report"
    /\ UNCHANGED <<operatorVars, cm, view, batch, cur, processed, boundVars>>

(* The tail of executeOperation: remember the operation, write the status  *)
(* from the copy of the listing.                                           *)
Report ==
    /\ pc = "report"
    /\ processed' = processed \cup {cur}
    /\ Update(cur, IF verdict THEN "Success" ELSE "Failed")
    /\ pc' = "loop" /\ cur' = 0 /\ verdict' = FALSE
    /\ batch' = [batch EXCEPT ![cur] = 0]
    /\ UNCHANGED <<operatorVars, view, hostVars, restarts>>

(* The agent process is killed at any point; its memory is gone, and so    *)
(* are the mounts that lived in its mount namespace.                       *)
AgentRestart ==
    /\ restarts < MaxRestarts
    /\ restarts' = restarts + 1
    /\ pc' = "loop" /\ cur' = 0 /\ verdict' = FALSE
    /\ batch' = [id \in Ids |-> 0]
    /\ processed' = {}
    /\ mounted' \in SUBSET mounted
    /\ UNCHANGED <<operatorVars, cm, view, okOps, badOps, faults>>

-----------------------------------------------------------------------------
Agent == List \/ MarkRunning \/ Execute \/ Report

Call(w) == NameOperation(w) \/ CreateOperation(w) \/ CreateFails(w)
           \/ PollReturns(w) \/ PollAgain(w)

Next ==
    \/ Tick
    \/ \E w \in Workers : Call(w)
    \/ \E id \in Ids : SyncView(id)
    \/ OperatorRestart
    \/ Agent
    \/ AgentRestart

Spec == Init /\ [][Next]_vars

(* A call the operator has begun goes on, the watch delivers, and the loop *)
(* of the agent runs. Nothing obliges the operator to post an operation,   *)
(* the clock to reach its bound, or anything to fail.                      *)
Fairness ==
    /\ \A w \in Workers :
          WF_vars(CreateOperation(w) \/ CreateFails(w) \/ PollReturns(w) \/ PollAgain(w))
    /\ \A id \in Ids : WF_vars(SyncView(id))
    /\ WF_vars(Agent)

FairSpec == Spec /\ Fairness

-----------------------------------------------------------------------------
(* The contract with the callers, without the channel's machinery.         *)

NoCall == [id |-> 0, req |-> NoRequest, posted |-> FALSE]

active == [w \in Workers |->
    [id |-> call[w].id, req |-> call[w].req, posted |-> call[w].pc = "waiting"]]

RPC == INSTANCE AgentRPC WITH done <- result, posted <- [id \in Ids |-> cm[id].req]

-----------------------------------------------------------------------------
(* Properties.                                                             *)

(* The channel keeps the promise of NodeAgentClient: a call that returns   *)
(* no error was carried out after it began, with its own request, even if  *)
(* two calls picked the same millisecond for their names, the agent was    *)
(* restarted and replayed its history, or the cache was behind             *)
(* (postAgentOp, waitForOperationState, executeOperation).                 *)
Contract == RPC!Spec

CallRecords == [pc : {"idle", "named", "waiting"}, id : Ids \cup {0},
                req : Requests \cup {NoRequest}, polls : 0..MaxPolls]
ConfigMaps  == [state : States, rv : Nat, req : Requests \cup {NoRequest}]

(* Type invariant of the channel's state, including that a ConfigMap which *)
(* exists has a version and a request of the program.                      *)
TypeOK ==
    /\ now \in Ids
    /\ call \in [Workers -> CallRecords]
    /\ result \in [Workers -> Ids \cup {0}]
    /\ cm \in [Ids -> ConfigMaps]
    /\ \A id \in Ids : cm[id].state # "Absent" => cm[id].rv # 0 /\ cm[id].req \in Requests
    /\ view \in [Ids -> States]
    /\ pc \in {"loop", "exec", "report"}
    /\ batch \in [Ids -> Nat]
    /\ cur \in Ids \cup {0}
    /\ verdict \in BOOLEAN
    /\ processed \subseteq Ids
    /\ mounted \subseteq Targets
    /\ okOps \subseteq Ids /\ badOps \subseteq Ids
    /\ restarts \in 0..MaxRestarts /\ faults \in 0..MaxFaults

(* A status is never invented. When the API server, or the operator's      *)
(* cache of it, says Success (Failed), the agent has executed that very    *)
(* operation and the execution succeeded (failed); and a call of the       *)
(* operator that returned no error was executed on the host. This must     *)
(* survive crashes of the agent between any two of its steps, replays of   *)
(* the whole history and a cache that lags (executeOperation,              *)
(* waitForOperationState).                                                 *)
Truthful(state, id) ==
    /\ state = "Success" => id \in okOps
    /\ state = "Failed"  => id \in badOps

StatusTruthful ==
    /\ \A id \in Ids : Truthful(cm[id].state, id) /\ Truthful(view[id], id)
    /\ \A w \in Workers : result[w] # 0 => result[w] \in okOps

(* What one incarnation of the agent does to one target it does in the     *)
(* order in which the operator asked for it, and at most once: when it is  *)
(* about to execute an operation, everything it has executed on the same   *)
(* target is older. The listing is a set of names and the names come from  *)
(* a clock; only the blocking worker keeps two requests apart              *)
(* (postAgentOp, processOperationRequests).                                *)
PerTargetOrder ==
    pc = "exec" =>
        \A id \in processed :
            cm[id].req.target = cm[cur].req.target => id < cur

(* Once the agent has nothing left to execute, every target whose newest   *)
(* operation has only ever succeeded is as that operation asked, whatever  *)
(* was replayed, lost or left half done before (executeOperation with the  *)
(* idempotent operations of disk.go).                                      *)
Created == {id \in Ids : cm[id].state # "Absent"}
Newest(t) == {id \in Created : /\ cm[id].req.target = t
                               /\ \A other \in Created :
                                     cm[other].req.target = t => other <= id}

QuiescentHost ==
    pc = "loop" /\ Created \subseteq processed =>
        \A t \in Targets : \A id \in Newest(t) :
            id \notin badOps => Intended(cm[id].req, mounted)

(* Every call the operator makes returns: no worker stays blocked on an    *)
(* agent that never answers (waitForOperationState).                       *)
CallsReturn == \A w \in Workers : call[w].pc # "idle" ~> call[w].pc = "idle"

(* Every operation ever posted is executed by the surviving incarnation of *)
(* the agent, whatever crashed and whatever API request failed meanwhile   *)
(* (processOperationRequests).                                             *)
EventuallyExecuted == <>[](Created \subseteq processed)

(* docs/architecture.md:74, the agent emits the status of an operation:    *)
(* an executed operation gets a terminal status.                           *)
TerminalReported ==
    \A id \in Ids : id \in processed ~> cm[id].state \in Terminal

(* docs/architecture.md:73, operations execute idempotently, and           *)
(* CONTRIBUTING.md:42, host actions are retry-safe: executing again an     *)
(* operation that has already succeeded does not undo a newer one that has *)
(* succeeded on the same target. It does not hold: a restarted agent       *)
(* executes its whole history again.                                       *)
Superseded(id) == \E newer \in okOps : /\ newer > id
                                       /\ cm[newer].req.target = cm[id].req.target

IdempotentExecution ==
    [][Execute /\ cur \in okOps /\ Superseded(cur) => mounted' = mounted]_vars
=============================================================================
