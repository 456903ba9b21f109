-------------------------- MODULE Rebalance_proofs --------------------------
(***************************************************************************)
(* Proofs about Rebalance, for any disks, thresholds and bounds, and about *)
(* the operators of Placement, for any finite set of candidates.           *)
(***************************************************************************)
EXTENDS Rebalance, FiniteSetTheorems, WellFoundedInduction, TLAPS

(* A cached copy that is the latest version is the job.                    *)
FreshMeansCurrent == fresh => view = job

(* As long as no other write has come between, the job of a pass is still  *)
(* as the pass has judged it: not at its end, and no dry run that is to    *)
(* run.                                                                    *)
PassFounded ==
    pass.current => /\ job # NoJob
                    /\ job.phase \notin Terminal
                    /\ pass.phase = "Running" => ~job.dryRun

IInv == TypeOK /\ FreshMeansCurrent /\ PassFounded

-----------------------------------------------------------------------------
(* The bounds of the environment are kept.                                 *)
LEMMA Bounds ==
    /\ 0 \in 0..MaxChanges /\ 0 \in 0..MaxFailures /\ 0 \in 0..MaxRestarts
    /\ \A n \in 0..MaxChanges : n < MaxChanges => n + 1 \in 0..MaxChanges
    /\ \A n \in 0..MaxFailures : n < MaxFailures => n + 1 \in 0..MaxFailures
    /\ \A n \in 0..MaxRestarts : n < MaxRestarts => n + 1 \in 0..MaxRestarts
BY RebalanceAssumption DEF RebalanceAssumption

(* What the reconciler may find: a job is opened again by no verdict, and  *)
(* no dry run is started.                                                  *)
LEMMA VerdictFounded ==
    ASSUME NEW j
    PROVE  /\ Verdict(j) \in {"Failed", "Completed", "Planning", "Running"}
           /\ Verdict(j) = "Running" => ~j.dryRun
BY DEF Verdict

(* The jobs and passes of the model, field by field.                       *)
LEMMA Records ==
    /\ NoJob.phase = "absent" /\ NoPass.current = FALSE /\ NoPass.phase = "none"
    /\ NewJobs \subseteq Jobs
    /\ \A j \in Jobs : j # NoJob /\ j.phase \in Phases
    /\ \A j \in NewJobs : j.phase = ""
    /\ \A p \in [phase : Phases, current : BOOLEAN] : p # NoPass
<1>1. \A j \in Jobs : j.phase \in Phases /\ j.phase # "absent"
  BY DEF Jobs, Phases
<1>2. \A p \in [phase : Phases, current : BOOLEAN] : p.phase # "none"
  BY DEF Phases
<1>3. /\ NoJob.phase = "absent" /\ NoPass.current = FALSE /\ NoPass.phase = "none"
  BY DEF NoJob, NoPass
<1>4. NewJobs \subseteq Jobs /\ \A j \in NewJobs : j.phase = ""
  BY DEF NewJobs, Jobs, Phases
<1> QED
  BY <1>1, <1>2, <1>3, <1>4

LEMMA InitInv == Init => IInv
<1> SUFFICES ASSUME Init PROVE IInv
  OBVIOUS
<1>1. TypeOK
  <2>1. disk \in [Disks -> DiskStates]
    BY DEF Init
  <2>2. job \in Jobs /\ job.phase = ""
    BY Records DEF Init
  <2> QED
    BY <2>1, <2>2, Bounds DEF Init, TypeOK
<1>2. FreshMeansCurrent /\ PassFounded
  BY Records DEF Init, FreshMeansCurrent, PassFounded
<1> QED
  BY <1>1, <1>2 DEF IInv

(* A write of another client takes the version away from every copy.       *)
LEMMA RewriteInv ==
    ASSUME IInv, NEW new \in Jobs \cup {NoJob}, Rewrite(new),
           new.phase = "Running" => new.started
    PROVE  IInv'
<1> USE DEF IInv, Rewrite, Change
<1>1. pass' \in [phase : Phases, current : BOOLEAN] \cup {NoPass} /\ pass'.current = FALSE
  <2>1. CASE pass = NoPass
    BY <2>1 DEF NoPass
  <2>2. CASE pass \in [phase : Phases, current : BOOLEAN]
    BY <2>2
  <2> QED
    BY <2>1, <2>2 DEF TypeOK
<1>2. TypeOK'
  BY <1>1, Bounds DEF TypeOK, envVars
<1>3. FreshMeansCurrent' /\ PassFounded'
  BY <1>1 DEF FreshMeansCurrent, PassFounded
<1> QED
  BY <1>2, <1>3

LEMMA EditSpecInv == IInv /\ EditSpec => IInv'
<1> SUFFICES ASSUME IInv, EditSpec PROVE IInv'
  OBVIOUS
<1>1. PICK dryRun \in BOOLEAN, t \in Thresholds :
          Rewrite([job EXCEPT !.dryRun = dryRun, !.threshold = t])
  BY DEF EditSpec
<1>2. job \in Jobs
  BY DEF EditSpec, IInv, TypeOK
<1> DEFINE new == [job EXCEPT !.dryRun = dryRun, !.threshold = t]
<1>3. new \in Jobs /\ new.phase = job.phase /\ new.started = job.started
  BY <1>2 DEF Jobs
<1> HIDE DEF new
<1>4. new.phase = "Running" => new.started
  BY <1>3 DEF IInv, TypeOK
<1> QED
  BY <1>1, <1>3, <1>4, RewriteInv DEF new

LEMMA MarkPendingInv == IInv /\ MarkPending => IInv'
<1> SUFFICES ASSUME IInv, MarkPending PROVE IInv'
  OBVIOUS
<1>1. job \in Jobs
  BY Records DEF MarkPending, IInv, TypeOK
<1>2. [job EXCEPT !.phase = "Pending"] \in Jobs /\ [job EXCEPT !.phase = "Pending"].phase = "Pending"
  BY <1>1 DEF Jobs, Phases
<1> QED
  BY <1>2, RewriteInv DEF MarkPending

LEMMA ReplaceInv == IInv /\ Replace => IInv'
<1> SUFFICES ASSUME IInv, NEW new \in NewJobs \cup {NoJob}, Rewrite(new) PROVE IInv'
  BY DEF Replace
<1>1. new \in Jobs \cup {NoJob} /\ new.phase # "Running"
  BY Records
<1> QED
  BY <1>1, RewriteInv

(* Pool, policy, disks, watches and restarts leave the job alone.          *)
LEMMA EnvironmentInv ==
    ASSUME IInv, (\E d \in Disks : DiskChanges(d)) \/ PoolChanges \/ Sync \/ OperatorRestart
    PROVE  IInv'
<1> USE DEF IInv
<1>1. CASE \E d \in Disks : DiskChanges(d)
  <2>1. PICK d \in Disks, s \in DiskStates : disk' = [disk EXCEPT ![d] = s]
    BY <1>1 DEF DiskChanges
  <2>2. disk' \in [Disks -> DiskStates]
    BY <2>1 DEF TypeOK
  <2>3. TypeOK'
    BY <1>1, <2>2, Bounds DEF TypeOK, DiskChanges, Change, jobVars
  <2>4. FreshMeansCurrent' /\ PassFounded'
    BY <1>1 DEF DiskChanges, jobVars, FreshMeansCurrent, PassFounded
  <2> QED
    BY <2>3, <2>4
<1>2. CASE PoolChanges
  <2>1. TypeOK'
    BY <1>2, Bounds DEF TypeOK, PoolChanges, Change, jobVars
  <2>2. FreshMeansCurrent' /\ PassFounded'
    BY <1>2 DEF PoolChanges, jobVars, FreshMeansCurrent, PassFounded
  <2> QED
    BY <2>1, <2>2
<1>3. CASE Sync
  <2>1. TypeOK'
    BY <1>3 DEF TypeOK, Sync, envVars, boundVars
  <2>2. FreshMeansCurrent' /\ PassFounded'
    BY <1>3 DEF Sync, FreshMeansCurrent, PassFounded
  <2> QED
    BY <2>1, <2>2
<1>4. CASE OperatorRestart
  <2>1. TypeOK'
    BY <1>4, Bounds DEF TypeOK, OperatorRestart, envVars
  <2>2. FreshMeansCurrent' /\ PassFounded'
    BY <1>4, Records DEF OperatorRestart, FreshMeansCurrent, PassFounded
  <2> QED
    BY <2>1, <2>2
<1> QED
  BY <1>1, <1>2, <1>3, <1>4

-----------------------------------------------------------------------------
(* The reconciler.                                                         *)

LEMMA ReadInv == IInv /\ Read => IInv'
<1> SUFFICES ASSUME IInv, Read PROVE IInv'
  OBVIOUS
<1> USE DEF IInv, Read, jobVars, envVars, boundVars
<1>1. CASE view = NoJob \/ view.phase \in Terminal
  <2>1. pass' = NoPass /\ pass'.current = FALSE
    BY <1>1, Records
  <2>2. TypeOK'
    BY <2>1 DEF TypeOK
  <2>3. FreshMeansCurrent' /\ PassFounded'
    BY <2>1 DEF FreshMeansCurrent, PassFounded
  <2> QED
    BY <2>2, <2>3
<1>2. CASE ~(view = NoJob \/ view.phase \in Terminal)
  <2>1. pass' = [phase |-> Verdict(view), current |-> fresh]
    BY <1>2
  <2>2. pass'.phase = Verdict(view) /\ pass'.current = fresh
    BY <2>1
  <2>3. pass' \in [phase : Phases, current : BOOLEAN]
    <3>1. Verdict(view) \in Phases /\ fresh \in BOOLEAN
      BY VerdictFounded DEF TypeOK, Phases
    <3> HIDE DEF Phases, Read
    <3> QED
      BY <2>1, <3>1
  <2>4. TypeOK' /\ FreshMeansCurrent'
    BY <2>3 DEF TypeOK, FreshMeansCurrent
  <2>5. PassFounded'
    BY <1>2, <2>2, VerdictFounded DEF PassFounded, FreshMeansCurrent
  <2> QED
    BY <2>4, <2>5
<1> QED
  BY <1>1, <1>2

(* What an accepted update makes of the job.                               *)
LEMMA AcceptedJob ==
    ASSUME IInv, Update, Accepted
    PROVE  /\ job \in Jobs /\ job' \in Jobs
           /\ job'.phase = pass.phase
           /\ job'.phase = "Running" => job'.started
           /\ job.phase \notin Terminal
           /\ pass.phase = "Running" => ~job.dryRun
<1>1. job \in Jobs /\ pass.phase \in Phases
  BY DEF IInv, TypeOK, PassFounded, Update, Accepted
<1>2. job' = [job EXCEPT !.phase = pass.phase,
                         !.started = job.started \/ pass.phase = "Running"]
  BY DEF Accepted, Judged
<1>3. job' \in Jobs /\ job'.phase = pass.phase
                    /\ job'.started = (job.started \/ pass.phase = "Running")
  BY <1>1, <1>2 DEF Jobs
<1> QED
  BY <1>1, <1>3 DEF IInv, PassFounded, Accepted

LEMMA UpdateInv == IInv /\ Update => IInv'
<1> SUFFICES ASSUME IInv, Update PROVE IInv'
  OBVIOUS
<1> USE DEF IInv, Update, envVars
<1>1. PassFounded'
  BY Records DEF PassFounded
<1>2. CASE Accepted
  <2>1. fresh' \in BOOLEAN /\ queued' \in BOOLEAN /\ failures' \in 0..MaxFailures
    BY <1>2 DEF Accepted, TypeOK
  <2>2. TypeOK'
    BY <1>2, <2>1, AcceptedJob DEF TypeOK
  <2>3. FreshMeansCurrent'
    BY <1>2 DEF Accepted, FreshMeansCurrent
  <2> QED
    BY <1>1, <2>2, <2>3
<1>3. CASE Refused
  <2>1. TypeOK'
    BY <1>3, Bounds DEF Refused, TypeOK
  <2>2. FreshMeansCurrent'
    BY <1>3 DEF Refused, FreshMeansCurrent
  <2> QED
    BY <1>1, <2>1, <2>2
<1> QED
  BY <1>2, <1>3

LEMMA NextInv == IInv /\ [Next]_vars => IInv'
<1> SUFFICES ASSUME IInv, [Next]_vars PROVE IInv'
  OBVIOUS
<1>1. CASE UNCHANGED vars
  BY <1>1 DEF IInv, vars, jobVars, envVars, boundVars, TypeOK, FreshMeansCurrent, PassFounded
<1>2. CASE Next
  BY <1>2, EditSpecInv, MarkPendingInv, ReplaceInv, EnvironmentInv, ReadInv, UpdateInv
     DEF Next, Reconciler
<1> QED
  BY <1>1, <1>2

THEOREM Invariance == Spec => []IInv
BY InitInv, NextInv, PTL DEF Spec

-----------------------------------------------------------------------------
(* The types of Rebalance are kept, and a job that runs has a start time.  *)
THEOREM TypeCorrect == Spec => []TypeOK
<1>1. IInv => TypeOK
  BY DEF IInv
<1> QED
  BY <1>1, Invariance, PTL

(* Only an accepted update writes a phase, except that other clients make  *)
(* a job new or Pending.                                                   *)
LEMMA WhoWrites ==
    ASSUME IInv, [Next]_vars, job'.phase # job.phase
    PROVE  \/ Update /\ Accepted
           \/ job.phase = "" /\ job'.phase = "Pending"
           \/ job'.phase \in {"", "absent"}
<1>1. CASE EditSpec
  <2>1. PICK dryRun \in BOOLEAN, t \in Thresholds :
            job' = [job EXCEPT !.dryRun = dryRun, !.threshold = t]
    BY <1>1 DEF EditSpec, Rewrite
  <2>2. job \in Jobs
    BY <1>1 DEF EditSpec, IInv, TypeOK
  <2> QED
    BY <2>1, <2>2 DEF Jobs
<1>2. CASE MarkPending
  <2>1. job \in Jobs
    BY <1>2, Records DEF MarkPending, IInv, TypeOK
  <2> QED
    BY <1>2, <2>1 DEF MarkPending, Rewrite, Jobs
<1>3. CASE Replace
  BY <1>3, Records DEF Replace, Rewrite
<1>4. CASE \/ PoolChanges \/ \E d \in Disks : DiskChanges(d)
           \/ Sync \/ OperatorRestart \/ Read \/ UNCHANGED vars
  BY <1>4 DEF PoolChanges, DiskChanges, Sync, OperatorRestart, Read, vars, jobVars
<1>5. CASE Update
  BY <1>5 DEF Update, Refused
<1> QED
  BY <1>1, <1>2, <1>3, <1>4, <1>5 DEF Next, Reconciler

(* A finished job is final, for every bound (the terminal phases of        *)
(* Reconcile and the resourceVersion of the status update).                *)
THEOREM FinalCorrect == Spec => TerminalIsFinal
<1>1. IInv /\ [Next]_vars =>
          [job.phase \in Terminal => job'.phase \in {job.phase, "", "absent"}]_vars
  BY WhoWrites, AcceptedJob DEF Terminal
<1> QED
  BY <1>1, Invariance, PTL DEF Spec, TerminalIsFinal

(* No dry run is ever started, for every bound (Reconcile and the          *)
(* resourceVersion of the status update).                                  *)
THEOREM DryRunCorrect == Spec => DryRunNeverRuns
<1>1. IInv /\ [Next]_vars =>
          [job.phase # "Running" /\ job'.phase = "Running" => ~job.dryRun]_vars
  BY WhoWrites, AcceptedJob
<1> QED
  BY <1>1, Invariance, PTL DEF Spec, DryRunNeverRuns

-----------------------------------------------------------------------------
(* The strategies that the two schedulers share choose alike from the same *)
(* eligible disks.                                                         *)
LEMMA SameStrategies ==
    ASSUME NEW S
    PROVE  /\ SelectLeastUsed(S) = EngineLeastUsed(S)
           /\ SelectFillFirst(S) = EngineFillFirst(S)
           /\ SelectTiered(S) = EngineTiered(S)
<1>1. SelectLeastUsed(S) = EngineLeastUsed(S)
  BY DEF SelectLeastUsed, EngineLeastUsed, Best
<1>2. SelectFillFirst(S) = EngineFillFirst(S)
  BY DEF SelectFillFirst, EngineFillFirst, Best
<1>3. SelectTiered(S) = EngineTiered(S)
  BY <1>1 DEF SelectTiered, EngineTiered
<1> QED
  BY <1>1, <1>2, <1>3

-----------------------------------------------------------------------------
(* A file that balanced places does not unbalance a set of disks.          *)

LEMMA TimesMonotonic ==
    ASSUME NEW a \in Int, NEW b \in Int, NEW c \in Nat, a <= b
    PROVE  a * c <= b * c
OBVIOUS

(* n bytes, at most t percent of their disk, on a disk of size dc with da  *)
(* bytes free: against a disk with a smaller share of free space it gets   *)
(* no further ahead than t percent, and nothing gets further ahead of it.  *)
LEMMA UtilisationAfter ==
    ASSUME NEW t \in Int, NEW n \in Nat, NEW dc \in Nat, NEW da \in Nat,
           NEW yc \in Nat, NEW ya \in Nat, 100 * n <= t * dc
    PROVE  /\ dc * ya <= yc * da =>
                100 * ((dc - (da - n)) * yc - (yc - ya) * dc) <= t * yc * dc
           /\ 100 * ((yc - ya) * dc - (dc - da) * yc) <= t * dc * yc =>
                100 * ((yc - ya) * dc - (dc - (da - n)) * yc) <= t * dc * yc
<1> DEFINE A == dc * yc
           B == da * yc
           C == ya * dc
           N == n * yc
           T == t * dc * yc
<1>1. A \in Int /\ B \in Int /\ C \in Int /\ N \in Int /\ N >= 0
  <2>1. 0 * yc <= n * yc
    BY TimesMonotonic
  <2> QED
    BY <2>1
<1>2. /\ (dc - (da - n)) * yc = A - B + N
      /\ (dc - da) * yc = A - B
      /\ (yc - ya) * dc = A - C
      /\ dc * ya = C /\ yc * da = B
      /\ t * yc * dc = T
  OBVIOUS
<1>3. 100 * N <= T /\ T \in Int
  <2>1. t * dc \in Int /\ 100 * n \in Int
    OBVIOUS
  <2>2. (100 * n) * yc <= (t * dc) * yc
    BY <2>1, TimesMonotonic
  <2>3. (100 * n) * yc = 100 * N
    OBVIOUS
  <2> QED
    BY <2>1, <2>2, <2>3
<1> HIDE DEF A, B, C, N, T
<1>4. C <= B => 100 * (A - B + N - (A - C)) <= T
  BY <1>1, <1>3
<1>5. 100 * (A - C - (A - B)) <= T => 100 * (A - C - (A - B + N)) <= T
  BY <1>1, <1>3
<1> QED
  BY <1>2, <1>4, <1>5 DEF T

(* Among equally healthy disks, balanced takes one with the greatest share *)
(* of free space.                                                          *)
LEMMA BalancedTakesEmptiest ==
    ASSUME NEW S, \A x \in S : x.cap \in Nat /\ x.avail \in Nat /\ x.health = 10,
           NEW d \in SelectBalanced(DefaultWeights, S), NEW e \in S
    PROVE  d \in S /\ d.cap * e.avail <= e.cap * d.avail
<1>1. d \in S /\ ~ScoreBeats(DefaultWeights, e, d)
  BY DEF SelectBalanced, Best
<1>2. /\ DefaultWeights.free = 7 /\ DefaultWeights.load = 2 /\ DefaultWeights.health = 1
  BY DEF DefaultWeights
<1>3. ~(d.cap * (10 * e.avail * (7 + 2) + 10 * 1 * e.cap)
           > e.cap * (10 * d.avail * (7 + 2) + 10 * 1 * d.cap))
  BY <1>1, <1>2 DEF ScoreBeats
<1>4. ASSUME NEW dc \in Nat, NEW da \in Nat, NEW ec \in Nat, NEW ea \in Nat,
             ~(dc * (10 * ea * (7 + 2) + 10 * 1 * ec) > ec * (10 * da * (7 + 2) + 10 * 1 * dc))
      PROVE  dc * ea <= ec * da
  <2>1. /\ dc * (10 * ea * (7 + 2) + 10 * 1 * ec) = 90 * (dc * ea) + 10 * (dc * ec)
        /\ ec * (10 * da * (7 + 2) + 10 * 1 * dc) = 90 * (ec * da) + 10 * (dc * ec)
        /\ dc * ea \in Int /\ ec * da \in Int /\ dc * ec \in Int
    OBVIOUS
  <2> QED
    BY <1>4, <2>1
<1> QED
  BY <1>1, <1>3, <1>4

(* The candidates are as the disks are.                                    *)
LEMMA EligibleTypes ==
    ASSUME TypeOK, NEW a, NEW d \in Eligible(Candidates(a))
    PROVE  /\ d.cap \in Nat \ {0} /\ d.avail \in Nat /\ d.health = 10
           /\ d \in Eligible(Eligible(Candidates(a)))
           /\ \A n : LET e == [d EXCEPT !.avail = @ - n] IN
                     e.cap = d.cap /\ e.avail = d.avail - n
<1>1. PICK m \in Members :
        d = [name |-> m.name, cap |-> m.cap, avail |-> m.avail,
             ready |-> a[m.name] # "degraded", health |-> 10, io |-> 10,
             rotational |-> a[m.name] = "slow"]
  BY DEF Eligible, Candidates
<1>2. m.cap \in Nat /\ m.avail \in Nat
  <2>1. PICK k \in members : disk[k] # NoDisk /\ m.cap = disk[k].cap /\ m.avail = disk[k].avail
    BY DEF Members
  <2>2. disk[k] \in [cap : Capacities, avail : Frees]
    BY <2>1 DEF TypeOK, DiskStates
  <2> QED
    BY <2>1, <2>2, RebalanceAssumption DEF RebalanceAssumption
<1> QED
  BY <1>1, <1>2 DEF Eligible

(* The balanced strategy and the rebalancer do not fight, for any disks,   *)
(* sizes and thresholds (selectBalanced and isImbalanced).                 *)
THEOREM BalancedCorrect == Spec => []BalancedKeepsBalance
<1>1. ASSUME TypeOK PROVE BalancedKeepsBalance
  <2> SUFFICES ASSUME NEW a \in Attributes, NEW t \in Thresholds, t > 0,
                      ~Imbalanced(Eligible(Candidates(a)), t),
                      NEW d \in SelectDisk("balanced", DefaultWeights, Eligible(Candidates(a))),
                      NEW n \in Frees, n <= d.avail, 100 * n <= t * d.cap
               PROVE  ~Imbalanced(After(Eligible(Candidates(a)), d, n), t)
    BY DEF BalancedKeepsBalance
  <2> DEFINE S == Eligible(Candidates(a))
             raised == [d EXCEPT !.avail = @ - n]
  <2>1. \A x \in S : /\ x.cap \in Nat \ {0} /\ x.avail \in Nat /\ x.health = 10
                    /\ x \in Eligible(S)
    BY <1>1, EligibleTypes
  <2>2. d \in SelectBalanced(DefaultWeights, Eligible(S))
    BY DEF SelectDisk
  <2>3. Eligible(S) \subseteq S
    BY DEF Eligible
  <2> HIDE DEF S
  <2>4. d \in S /\ \A e \in S : d.cap * e.avail <= e.cap * d.avail
    <3>1. \A x \in Eligible(S) : x.cap \in Nat /\ x.avail \in Nat /\ x.health = 10
      BY <2>1, <2>3
    <3>2. d \in Eligible(S)
      BY <2>2 DEF SelectBalanced, Best
    <3> QED
      BY <2>1, <2>2, <2>3, <3>1, <3>2, BalancedTakesEmptiest
  <2>5. raised.cap = d.cap /\ raised.avail = d.avail - n
    BY <1>1, <2>4, EligibleTypes DEF S
  <2>6. n \in Nat /\ t \in Int
    BY RebalanceAssumption DEF RebalanceAssumption
  <2>7. ASSUME NEW x \in S, NEW y \in S
        PROVE  100 * (Used(y) * x.cap - Used(x) * y.cap) <= t * x.cap * y.cap
    <3>1. x.cap > 0 /\ y.cap > 0 /\ x.avail \in Nat /\ y.avail \in Nat
      BY <2>1
    <3>2. ~(100 * (Used(y) * x.cap - Used(x) * y.cap) > t * x.cap * y.cap)
      BY <3>1 DEF Imbalanced, S
    <3>3. 100 * (Used(y) * x.cap - Used(x) * y.cap) \in Int /\ t * x.cap * y.cap \in Int
      BY <2>1, <2>6 DEF Used
    <3> QED
      BY <3>2, <3>3
  <2> HIDE DEF raised
  <2>8. ASSUME NEW y \in S
        PROVE  /\ 100 * (Used(raised) * y.cap - Used(y) * raised.cap) <= t * y.cap * raised.cap
               /\ 100 * (Used(y) * raised.cap - Used(raised) * y.cap) <= t * raised.cap * y.cap
    <3>1. d.cap \in Nat /\ d.avail \in Nat /\ y.cap \in Nat /\ y.avail \in Nat
      BY <2>1, <2>4
    <3>2. d.cap * y.avail <= y.cap * d.avail
      BY <2>4
    <3>3. 100 * ((y.cap - y.avail) * d.cap - (d.cap - d.avail) * y.cap) <= t * d.cap * y.cap
      BY <2>4, <2>7 DEF Used
    <3> QED
      BY <2>5, <2>6, <3>1, <3>2, <3>3, UtilisationAfter DEF Used
  <2>9. ASSUME NEW x \in After(S, d, n), NEW y \in After(S, d, n), x.cap > 0, y.cap > 0
        PROVE  ~(100 * (Used(y) * x.cap - Used(x) * y.cap) > t * x.cap * y.cap)
    <3>1. x \in S \/ x = raised
      BY DEF After, raised
    <3>2. y \in S \/ y = raised
      BY DEF After, raised
    <3>3. /\ x.cap \in Nat /\ y.cap \in Nat /\ x.avail \in Int /\ y.avail \in Int
      BY <2>1, <2>4, <2>5, <2>6, <3>1, <3>2
    <3>4. 100 * (Used(y) * x.cap - Used(x) * y.cap) \in Int /\ t * x.cap * y.cap \in Int
      BY <2>6, <3>3 DEF Used
    <3>5. 100 * (Used(y) * x.cap - Used(x) * y.cap) <= t * x.cap * y.cap
      <4>1. CASE x = raised /\ y = raised
        <5>1. 100 * (Used(y) * x.cap - Used(x) * y.cap) = 0
          BY <3>3, <4>1 DEF Used
        <5>2. 0 <= t * x.cap * y.cap
          <6>1. t \in Nat
            BY <2>6
          <6>2. t * x.cap \in Nat
            BY <3>3, <6>1
          <6> QED
            BY <3>3, <6>2
        <5> QED
          BY <5>1, <5>2
      <4> QED
        BY <2>7, <2>8, <3>1, <3>2, <4>1
    <3> QED
      BY <3>4, <3>5
  <2> QED
    BY <2>9 DEF Imbalanced, S
<1> QED
  BY <1>1, TypeCorrect, PTL

-----------------------------------------------------------------------------
(* A disk is found whenever one is eligible.                               *)

(* The operators above leave out whoever is beaten; in a finite set that   *)
(* is never everyone, as long as to beat is a strict order. Otherwise take *)
(* a smallest set in which everyone is beaten: without one of its members, *)
(* somebody is unbeaten, who is then beaten by that member only, and so is *)
(* beaten by whoever beats it.                                             *)
LEMMA SomeoneUnbeaten ==
    ASSUME NEW S, IsFiniteSet(S), S # {}, NEW R,
           \A x \in S : <<x, x>> \notin R,
           \A x, y, z \in S : <<x, y>> \in R /\ <<y, z>> \in R => <<x, z>> \in R
    PROVE  \E x \in S : \A y \in S : <<y, x>> \notin R
<1> DEFINE Beaten(T) == \A x \in T : \E y \in T : <<y, x>> \in R
           Bad == {T \in SUBSET S : T # {} /\ Beaten(T)}
<1> SUFFICES ASSUME Beaten(S) PROVE FALSE
  OBVIOUS
<1>1. Bad \subseteq FiniteSubsetsOf(S) /\ Bad # {}
  BY FS_FiniteSubsetsOfFinite
<1>2. PICK T \in Bad : \A U \in Bad : <<U, T>> \notin StrictSubsetOrdering(S)
  <2> HIDE DEF Bad
  <2> QED
    BY <1>1, FS_StrictSubsetOrderingWellFounded, WFMin
<1>3. PICK d \in T : TRUE
  OBVIOUS
<1>4. PICK c \in T : <<c, d>> \in R
  OBVIOUS
<1> DEFINE U == T \ {d}
<1>5. U \in SUBSET S /\ c \in U
  BY <1>3, <1>4
<1>6. <<U, T>> \in StrictSubsetOrdering(S)
  BY <1>3, <1>5 DEF StrictSubsetOrdering
<1>7. PICK e \in U : \A y \in U : <<y, e>> \notin R
  BY <1>2, <1>5, <1>6
<1>8. <<d, e>> \in R
  BY <1>7
<1>9. <<c, e>> \in R
  BY <1>3, <1>4, <1>5, <1>7, <1>8
<1> QED
  BY <1>5, <1>7, <1>9

(* Fractions are compared transitively.                                    *)
LEMMA CrossTransitive ==
    ASSUME NEW a \in Int, NEW b \in Int, NEW c \in Int,
           NEW ac \in Nat \ {0}, NEW bc \in Nat \ {0}, NEW cc \in Nat \ {0},
           bc * a > ac * b, cc * b > bc * c
    PROVE  cc * a > ac * c
<1>1. bc * a >= ac * b + 1 /\ cc * b >= bc * c + 1
  OBVIOUS
<1> DEFINE X == cc * a
           Y == ac * c
<1>2. X \in Int /\ Y \in Int
  OBVIOUS
<1>3. (ac * b + 1) * cc <= (bc * a) * cc
  <2>1. ac * b + 1 \in Int /\ bc * a \in Int /\ cc \in Nat /\ ac * b + 1 <= bc * a
    BY <1>1
  <2> QED
    BY <2>1, TimesMonotonic
<1>4. (bc * c + 1) * ac <= (cc * b) * ac
  <2>1. bc * c + 1 \in Int /\ cc * b \in Int /\ ac \in Nat /\ bc * c + 1 <= cc * b
    BY <1>1
  <2> QED
    BY <2>1, TimesMonotonic
<1> DEFINE Z == ac * b * cc
<1>5. /\ (ac * b + 1) * cc = Z + cc
      /\ (bc * a) * cc = X * bc
      /\ (bc * c + 1) * ac = Y * bc + ac
      /\ (cc * b) * ac = Z
      /\ Z \in Int /\ X * bc \in Int /\ Y * bc \in Int
  OBVIOUS
<1> HIDE DEF X, Y, Z
<1>6. Y * bc < X * bc
  BY <1>3, <1>4, <1>5
<1>7. ~(X <= Y)
  BY <1>2, <1>5, <1>6, TimesMonotonic
<1> QED
  BY <1>2, <1>7 DEF X, Y

(* Best leaves somebody when to beat is to be greater in some number.      *)
LEMMA SomeoneGreatest ==
    ASSUME NEW S, IsFiniteSet(S), S # {}, NEW f, \A x \in S : f[x] \in Int
    PROVE  \E x \in S : \A y \in S : ~(f[y] > f[x])
<1> DEFINE R == {q \in S \X S : f[q[1]] > f[q[2]]}
<1>1. \A x, y \in S : <<x, y>> \in R <=> f[x] > f[y]
  OBVIOUS
<1> HIDE DEF R
<1>2. \A x \in S : <<x, x>> \notin R
  BY <1>1
<1>3. \A x, y, z \in S : <<x, y>> \in R /\ <<y, z>> \in R => <<x, z>> \in R
  BY <1>1
<1>4. PICK x \in S : \A y \in S : <<y, x>> \notin R
  BY <1>2, <1>3, SomeoneUnbeaten
<1> QED
  BY <1>1, <1>4

(* And when to beat is to have the greater score, whatever the weights.    *)
LEMMA SomeoneScoresBest ==
    ASSUME NEW S, IsFiniteSet(S), S # {}, NEW f, NEW c,
           \A x \in S : f[x] \in Int /\ c[x] \in Nat \ {0}
    PROVE  \E x \in S : \A y \in S : ~(c[x] * f[y] > c[y] * f[x])
<1> DEFINE R == {q \in S \X S : c[q[2]] * f[q[1]] > c[q[1]] * f[q[2]]}
<1>1. \A x, y \in S : <<x, y>> \in R <=> c[y] * f[x] > c[x] * f[y]
  OBVIOUS
<1> HIDE DEF R
<1>2. \A x \in S : <<x, x>> \notin R
  BY <1>1
<1>3. ASSUME NEW x \in S, NEW y \in S, NEW z \in S, <<x, y>> \in R, <<y, z>> \in R
      PROVE  <<x, z>> \in R
  BY <1>1, <1>3, CrossTransitive
<1>4. PICK x \in S : \A y \in S : <<y, x>> \notin R
  BY <1>2, <1>3, SomeoneUnbeaten
<1> QED
  BY <1>1, <1>4

LEMMA LeastUsedFinds ==
    ASSUME NEW S, IsFiniteSet(S), S # {}, \A d \in S : d.avail \in Int
    PROVE  SelectLeastUsed(S) # {}
<1> DEFINE f == [d \in S |-> d.avail]
<1>1. \A d \in S : f[d] = d.avail /\ f[d] \in Int
  OBVIOUS
<1> HIDE DEF f
<1>2. PICK x \in S : \A y \in S : ~(f[y] > f[x])
  BY <1>1, SomeoneGreatest
<1> QED
  BY <1>1, <1>2 DEF SelectLeastUsed, Best

LEMMA FillFirstFinds ==
    ASSUME NEW S, IsFiniteSet(S), S # {}, \A d \in S : d.cap \in Int /\ d.avail \in Int
    PROVE  SelectFillFirst(S) # {}
<1> DEFINE f == [d \in S |-> Used(d)]
<1>1. \A d \in S : f[d] = Used(d) /\ f[d] \in Int
  BY DEF Used
<1> HIDE DEF f
<1>2. PICK x \in S : \A y \in S : ~(f[y] > f[x])
  BY <1>1, SomeoneGreatest
<1> QED
  BY <1>1, <1>2 DEF SelectFillFirst, Best

LEMMA TieredFinds ==
    ASSUME NEW S, IsFiniteSet(S), S # {}, \A d \in S : d.avail \in Int
    PROVE  SelectTiered(S) # {}
BY LeastUsedFinds DEF SelectTiered

LEMMA BalancedFinds ==
    ASSUME NEW S, IsFiniteSet(S), S # {},
           \A d \in S : d.cap \in Nat \ {0} /\ d.avail \in Int /\ d.health \in Int,
           NEW w, w.free \in Int, w.load \in Int, w.health \in Int
    PROVE  SelectBalanced(w, S) # {}
<1> DEFINE c == [d \in S |-> d.cap]
           f == [d \in S |-> 10 * d.avail * (w.free + w.load) + d.health * w.health * d.cap]
<1>1. \A d \in S : /\ c[d] = d.cap
                  /\ f[d] = 10 * d.avail * (w.free + w.load) + d.health * w.health * d.cap
  OBVIOUS
<1>2. \A d \in S : f[d] \in Int /\ c[d] \in Nat \ {0}
  OBVIOUS
<1> HIDE DEF c, f
<1>3. PICK x \in S : \A y \in S : ~(c[x] * f[y] > c[y] * f[x])
  BY <1>2, SomeoneScoresBest
<1>4. \A y \in S : ~ScoreBeats(w, y, x)
  BY <1>1, <1>3 DEF ScoreBeats
<1> QED
  BY <1>4 DEF SelectBalanced, Best

LEMMA EngineBalancedFinds ==
    ASSUME NEW S, IsFiniteSet(S), S # {},
           \A d \in S : /\ d.cap \in Nat \ {0} /\ d.avail \in Int
                        /\ d.health \in Int /\ d.io \in Int
    PROVE  EngineBalanced(EngineWeights, S) # {}
<1> DEFINE w == EngineWeights
           c == [d \in S |-> d.cap]
           f == [d \in S |-> 10 * d.avail * w.free + d.cap * (d.health * w.health + d.io * w.io)]
<1>1. \A d \in S :
         /\ c[d] = d.cap
         /\ f[d] = 10 * d.avail * w.free + d.cap * (d.health * w.health + d.io * w.io)
  OBVIOUS
<1>2. w.free = 7 /\ w.health = 2 /\ w.io = 1
  BY DEF EngineWeights
<1> HIDE DEF w, c, f
<1>3. \A d \in S : f[d] \in Int /\ c[d] \in Nat \ {0}
  BY <1>1, <1>2
<1>4. PICK x \in S : \A y \in S : ~(c[x] * f[y] > c[y] * f[x])
  BY <1>3, SomeoneScoresBest
<1>5. \A y \in S : ~EngineScoreBeats(w, y, x)
  BY <1>1, <1>4 DEF EngineScoreBeats
<1> QED
  BY <1>5 DEF EngineBalanced, Best, w

(* A file is turned away only if no disk is eligible: with every strategy, *)
(* any weights and any number of disks, both schedulers find one of those  *)
(* that are, and where the PlacementScheduler finds one, so does the       *)
(* Engine (SelectDisk and Engine.Select).                                  *)
THEOREM PlacementFinds ==
    ASSUME NEW S, IsFiniteSet(S),
           \A d \in S : /\ d.cap \in Nat /\ d.avail \in Nat
                        /\ d.health \in Nat /\ d.io \in Nat,
           NEW w, w.free \in Int, w.load \in Int, w.health \in Int, NEW strategy
    PROVE  /\ SelectDisk(strategy, w, S) = {} <=> Eligible(S) = {}
           /\ EngineSelect(strategy, S) = {} <=> EngineEligible(S) = {}
           /\ SelectDisk(strategy, w, S) # {} => EngineSelect(strategy, S) # {}
<1> DEFINE E == Eligible(S)
           F == EngineEligible(S)
<1>1. /\ IsFiniteSet(E)
      /\ \A d \in E : d.cap \in Nat \ {0} /\ d.avail \in Int /\ d.health \in Int
  <2>1. E \subseteq S
    BY DEF Eligible
  <2>2. IsFiniteSet(E)
    BY <2>1, FS_Subset
  <2> QED
    BY <2>2 DEF Eligible
<1>2. /\ IsFiniteSet(F)
      /\ \A d \in F : /\ d.cap \in Nat \ {0} /\ d.avail \in Int
                      /\ d.health \in Int /\ d.io \in Int
  <2>1. F \subseteq S
    BY DEF EngineEligible
  <2>2. IsFiniteSet(F)
    BY <2>1, FS_Subset
  <2> QED
    BY <2>2 DEF EngineEligible
<1>3. E \subseteq F
  BY DEF Eligible, EngineEligible
<1>4. SelectDisk(strategy, w, S) \subseteq E /\ EngineSelect(strategy, S) \subseteq F
  <2>1. /\ SelectLeastUsed(E) \subseteq E /\ SelectFillFirst(E) \subseteq E
        /\ SelectBalanced(w, E) \subseteq E
    BY DEF SelectLeastUsed, SelectFillFirst, SelectBalanced, Best
  <2>2. SelectTiered(E) \subseteq E
    BY <2>1 DEF SelectTiered
  <2>3. /\ EngineLeastUsed(F) \subseteq F /\ EngineFillFirst(F) \subseteq F
        /\ EngineBalanced(EngineWeights, F) \subseteq F
    BY DEF EngineLeastUsed, EngineFillFirst, EngineBalanced, Best
  <2>4. EngineTiered(F) \subseteq F
    BY <2>3 DEF EngineTiered
  <2> HIDE DEF E, F
  <2> QED
    BY <2>1, <2>2, <2>3, <2>4 DEF SelectDisk, EngineSelect, E, F
<1>5. E # {} => SelectDisk(strategy, w, S) # {}
  <2> SUFFICES ASSUME E # {} PROVE SelectDisk(strategy, w, S) # {}
    OBVIOUS
  <2> HIDE DEF E
  <2>1. /\ SelectLeastUsed(E) # {} /\ SelectFillFirst(E) # {}
        /\ SelectTiered(E) # {} /\ SelectBalanced(w, E) # {}
    BY <1>1, LeastUsedFinds, FillFirstFinds, TieredFinds, BalancedFinds
  <2> QED
    BY <2>1 DEF SelectDisk, E
<1>6. F # {} => EngineSelect(strategy, S) # {}
  <2> SUFFICES ASSUME F # {} PROVE EngineSelect(strategy, S) # {}
    OBVIOUS
  <2> HIDE DEF F
  <2>1. EngineLeastUsed(F) # {} /\ EngineFillFirst(F) # {} /\ EngineTiered(F) # {}
    BY <1>2, LeastUsedFinds, FillFirstFinds, TieredFinds, SameStrategies
  <2>2. EngineBalanced(EngineWeights, F) # {}
    BY <1>2, EngineBalancedFinds
  <2> QED
    BY <2>1, <2>2 DEF EngineSelect, F
<1> HIDE DEF E, F
<1>7. E = {} => SelectDisk(strategy, w, S) = {}
  BY <1>4
<1>8. F = {} => EngineSelect(strategy, S) = {}
  BY <1>4
<1> QED
  BY <1>3, <1>4, <1>5, <1>6, <1>7, <1>8 DEF E, F
=============================================================================
