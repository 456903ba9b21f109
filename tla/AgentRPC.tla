------------------------------ MODULE AgentRPC ------------------------------
(***************************************************************************)
(* What a controller may rely on when it calls the node agent: the         *)
(* contract of NodeAgentClient (MountDisk, UnmountDisk,                    *)
(* EnsureMergerFSMount), without ConfigMaps, caches, polling or crashes.   *)
(*                                                                         *)
(*   - A call that returns no error was carried out on the host, at least  *)
(*     once, after the call began, with the request of that very call.     *)
(*   - A call that returns an error promises nothing: its request may      *)
(*     never reach the host, or reach it after the call returned, even     *)
(*     more than once.                                                     *)
(***************************************************************************)
EXTENDS HostOps

CONSTANTS Ids,        \* names of operations
          Workers,    \* callers
          RequestsOf(_),  \* the requests a caller makes
          NoRequest,  \* the request of a name that is not in use
          NoCall      \* a worker that is not in a call

VARIABLES
    active,   \* [Workers -> the call it is in: name, request, whether posted]
    done,     \* [Workers -> the operation its last call reported done, 0: none]
    posted,   \* [Ids -> the request posted under that name]
    mounted,  \* the mounted paths of the host
    okOps,    \* operations that have been carried out successfully
    badOps    \* operations that have been carried out and failed

vars == <<active, done, posted, mounted, okOps, badOps>>

Init ==
    /\ active = [w \in Workers |-> NoCall]
    /\ done = [w \in Workers |-> 0]
    /\ posted = [id \in Ids |-> NoRequest]
    /\ mounted \in SUBSET Targets
    /\ okOps = {} /\ badOps = {}

Begin(w) ==
    /\ active[w] = NoCall
    /\ \E id \in Ids, r \in RequestsOf(w) :
          active' = [active EXCEPT ![w] = [id |-> id, req |-> r, posted |-> FALSE]]
    /\ UNCHANGED <<done, posted, mounted, okOps, badOps>>

(* The request becomes known under a name nobody used; the caller may not  *)
(* learn of it.                                                            *)
Post(w) ==
    /\ active[w] # NoCall
    /\ posted[active[w].id] = NoRequest
    /\ posted' = [posted EXCEPT ![active[w].id] = active[w].req]
    /\ \/ active' = [active EXCEPT ![w].posted = TRUE] /\ UNCHANGED done
       \/ /\ active' = [active EXCEPT ![w] = NoCall]
          /\ done' = [done EXCEPT ![w] = 0]
    /\ UNCHANGED <<mounted, okOps, badOps>>

Perform(id) ==
    /\ posted[id] # NoRequest
    /\ \E o \in Outcomes(posted[id], mounted) :
          /\ mounted' = o.mounted
          /\ okOps'  = IF o.ok THEN okOps \cup {id} ELSE okOps
          /\ badOps' = IF o.ok THEN badOps ELSE badOps \cup {id}
    /\ UNCHANGED <<active, done, posted>>

ReturnDone(w) ==
    /\ active[w] # NoCall
    /\ active[w].posted
    /\ active[w].id \in okOps
    /\ active' = [active EXCEPT ![w] = NoCall]
    /\ done' = [done EXCEPT ![w] = active[w].id]
    /\ UNCHANGED <<posted, mounted, okOps, badOps>>

ReturnError(w) ==
    /\ active[w] # NoCall
    /\ active' = [active EXCEPT ![w] = NoCall]
    /\ done' = [done EXCEPT ![w] = 0]
    /\ UNCHANGED <<posted, mounted, okOps, badOps>>

(* The operator dies: nobody hears of its calls again.                     *)
Forget ==
    /\ active' = [w \in Workers |-> NoCall]
    /\ UNCHANGED <<done, posted, mounted, okOps, badOps>>

(* The agent dies: mounts of its mount namespace disappear.                *)
LoseMounts ==
    /\ mounted' \in SUBSET mounted
    /\ UNCHANGED <<active, done, posted, okOps, badOps>>

Next ==
    \/ \E w \in Workers : Begin(w) \/ Post(w) \/ ReturnDone(w) \/ ReturnError(w)
    \/ \E id \in Ids : Perform(id)
    \/ Forget
    \/ LoseMounts

Spec == Init /\ [][Next]_vars
=============================================================================
