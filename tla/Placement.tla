----------------------------- MODULE Placement -----------------------------
(***************************************************************************)
(* The two schedulers that choose the disk of a new file: the              *)
(* PlacementScheduler of the operator and the Engine of storage/scheduler. *)
(* A candidate is a record of                                              *)
(*   name                                                                  *)
(*   cap, avail   bytes of the file system, and free bytes                 *)
(*   ready        phase Ready (Eligible, for the Engine)                   *)
(*   health, io   HealthScore and IOLoadScore, in tenths                   *)
(*   rotational                                                            *)
(* Candidates form a set: the code keeps the first of equals in the order  *)
(* of its list, or any of them after sort.Slice, and callers give the list *)
(* in any order. Weights are in tenths, and fractions are compared after   *)
(* multiplication, where the code compares floats.                         *)
(***************************************************************************)
EXTENDS Integers

Strategies == {"balanced", "least-used", "fill-first", "tiered"}

Used(d) == d.cap - d.avail

(* filterEligible: at least 5 % of the space is free.                      *)
Eligible(S) == {d \in S : d.ready /\ d.cap # 0 /\ 20 * d.avail >= d.cap}

(* The disks no other disk beats.                                          *)
Best(S, Beats(_, _)) == {d \in S : ~ \E e \in S : Beats(e, d)}

DefaultWeights == [free |-> 7, load |-> 2, health |-> 1]

(* Mutant: the lowest score wins.                                          *)
ScoreBeats_lowest(w, e, d) ==
    LET Scaled(x, other) ==
            other.cap * (10 * x.avail * (w.free + w.load) + x.health * w.health * x.cap)
    IN  Scaled(e, d) < Scaled(d, e)

(* score = free * (wFree + wLoad) + health * wHealth: the load is taken    *)
(* from the free space too.                                                *)
ScoreBeats(w, e, d) ==
    LET Scaled(x, other) ==
            other.cap * (10 * x.avail * (w.free + w.load) + x.health * w.health * x.cap)
    IN  Scaled(e, d) > Scaled(d, e)

SelectBalanced(w, S) ==
    LET Beats(e, d) == ScoreBeats(w, e, d) IN Best(S, Beats)

SelectLeastUsed(S) ==
    LET Beats(e, d) == e.avail > d.avail IN Best(S, Beats)

SelectFillFirst(S) ==
    LET Beats(e, d) == Used(e) > Used(d) IN Best(S, Beats)

SelectTiered(S) ==
    LET fast == {d \in S : ~d.rotational}
    IN  IF fast # {} THEN fast ELSE SelectLeastUsed(S)

(* SelectDisk: the disks it may return, none when it returns an error.     *)
SelectDisk(strategy, w, S) ==
    CASE strategy = "least-used" -> SelectLeastUsed(Eligible(S))
      [] strategy = "fill-first" -> SelectFillFirst(Eligible(S))
      [] strategy = "tiered"     -> SelectTiered(Eligible(S))
      [] OTHER                   -> SelectBalanced(w, Eligible(S))

-----------------------------------------------------------------------------
(* The Engine of storage/scheduler: any free byte makes a disk eligible,   *)
(* and the load is a score of its own.                                     *)

EngineEligible(S) == {d \in S : d.ready /\ d.cap > 0 /\ d.avail > 0}

EngineWeights == [free |-> 7, health |-> 2, io |-> 1]

EngineScoreBeats(w, e, d) ==
    LET Scaled(x, other) ==
            other.cap * (10 * x.avail * w.free + x.cap * (x.health * w.health + x.io * w.io))
    IN  Scaled(e, d) > Scaled(d, e)

EngineBalanced(w, S) ==
    LET Beats(e, d) == EngineScoreBeats(w, e, d) IN Best(S, Beats)

EngineLeastUsed(S) ==
    LET Beats(e, d) == e.avail > d.avail IN Best(S, Beats)

EngineFillFirst(S) ==
    LET Beats(e, d) == Used(e) > Used(d) IN Best(S, Beats)

EngineTiered(S) ==
    LET fast == {d \in S : ~d.rotational}
    IN  IF fast # {} THEN fast ELSE EngineLeastUsed(S)

EngineSelect(strategy, S) ==
    CASE strategy = "least-used" -> EngineLeastUsed(EngineEligible(S))
      [] strategy = "fill-first" -> EngineFillFirst(EngineEligible(S))
      [] strategy = "tiered"     -> EngineTiered(EngineEligible(S))
      [] OTHER                   -> EngineBalanced(EngineWeights, EngineEligible(S))

-----------------------------------------------------------------------------
(* isImbalanced of the RebalanceReconciler: two disks of known capacity    *)
(* whose utilisations lie more than t percent apart. A threshold that is   *)
(* not positive never triggers.                                            *)
Imbalanced(S, t) ==
    LET known == {d \in S : d.cap > 0}
    IN  t > 0 /\ \E d, e \in known :
            100 * (Used(e) * d.cap - Used(d) * e.cap) > t * d.cap * e.cap
=============================================================================
