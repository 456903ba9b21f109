---------------------------- MODULE DiskContract ----------------------------
(***************************************************************************)
(* What the DiskReconciler promises of every Disk, without caches, copies, *)
(* reports, logs, requests that are refused or restarts of the operator.   *)
(*                                                                         *)
(*   - The agent is asked to mount only Disks that are under the finalizer.*)
(*   - It is asked to unmount only a Disk that nobody uses, after it has   *)
(*     been asked to mount it.                                             *)
(*   - The status calls a Disk mounted only under the finalizer, and only  *)
(*     if its mount has been asked for.                                    *)
(*   - Such a Disk is given up in an attempt to unmount it, and in no      *)
(*     other way.                                                          *)
(*                                                                         *)
(* The agent carries out what it was asked for, in any order and as often  *)
(* as it likes, or never: it repeats everything when it restarts. The      *)
(* answers play no role here.                                              *)
(***************************************************************************)
CONSTANT Disks

VARIABLES
    stage,    \* [Disks -> where the Disk is in its life]
    claimed,  \* [Disks -> whether its status says that it is mounted]
    asked,    \* [Disks -> what the agent has ever been asked to do with it]
    trying,   \* the Disk whose unmount is being attempted, if any
    mounted   \* the Disks that are mounted

vars == <<stage, claimed, asked, trying, mounted>>

Init ==
    /\ stage = [d \in Disks |-> "absent"]
    /\ claimed = [d \in Disks |-> FALSE]
    /\ asked = [d \in Disks |-> {}]
    /\ trying = {}
    /\ mounted = {}

Moves(d, from, to) == stage[d] = from /\ stage' = [stage EXCEPT ![d] = to]

Create(d) == Moves(d, "absent", "new") /\ UNCHANGED <<claimed, asked, trying, mounted>>

(* The finalizer is added, and from now on the Disk is kept.               *)
Keep(d) == Moves(d, "new", "kept") /\ UNCHANGED <<claimed, asked, trying, mounted>>

Delete(d) ==
    /\ Moves(d, "new", "absent") \/ Moves(d, "kept", "leaving")
    /\ UNCHANGED <<claimed, asked, trying, mounted>>

Claim(d) ==
    /\ stage[d] = "kept"
    /\ \E c \in BOOLEAN :
          /\ c => "mount" \in asked[d]
          /\ claimed' = [claimed EXCEPT ![d] = c]
    /\ UNCHANGED <<stage, asked, trying, mounted>>

(* A Disk may be deleted while the reconciler is about to ask.             *)
AskMount(d) ==
    /\ stage[d] \in {"kept", "leaving"} /\ trying = {}
    /\ asked' = [asked EXCEPT ![d] = @ \cup {"mount"}]
    /\ UNCHANGED <<stage, claimed, trying, mounted>>

(* The request may be lost.                                                *)
TryUnmount(d) ==
    /\ stage[d] # "kept" /\ trying = {}
    /\ "mount" \in asked[d]
    /\ asked' = asked \/ asked' = [asked EXCEPT ![d] = @ \cup {"unmount"}]
    /\ trying' = {d}
    /\ UNCHANGED <<stage, claimed, mounted>>

(* The end of an attempt, whatever the agent has done.                     *)
StopTrying ==
    /\ trying # {} /\ trying' = {}
    /\ UNCHANGED <<stage, claimed, asked, mounted>>

(* The finalizer is removed, and the Disk disappears.                      *)
GiveUp(d) ==
    /\ Moves(d, "leaving", "absent")
    /\ claimed[d] => d \in trying
    /\ claimed' = [claimed EXCEPT ![d] = FALSE]
    /\ trying' = {}
    /\ UNCHANGED <<asked, mounted>>

Perform(d) ==
    /\ \/ "mount" \in asked[d] /\ mounted' = mounted \cup {d}
       \/ "unmount" \in asked[d] /\ mounted' = mounted \ {d}
    /\ UNCHANGED <<stage, claimed, asked, trying>>

(* Mounts may be gone when the agent starts again.                         *)
LoseMounts ==
    /\ mounted' \in SUBSET mounted
    /\ UNCHANGED <<stage, claimed, asked, trying>>

Next ==
    \/ \E d \in Disks : \/ Create(d) \/ Keep(d) \/ Delete(d) \/ Claim(d)
                        \/ AskMount(d) \/ TryUnmount(d) \/ GiveUp(d) \/ Perform(d)
    \/ StopTrying
    \/ LoseMounts

Spec == Init /\ [][Next]_vars
=============================================================================
