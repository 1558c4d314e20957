------------------------ MODULE PlanExecutionProofs ------------------------
(***************************************************************************)
(* Theorems about PlanExecution, for plans of any size.                    *)
(*                                                                         *)
(* The waves are computed from Level, a function defined by recursion over *)
(* the steps of the plan.  The first part of the module shows that it is   *)
(* well defined and what it says of a plan, each time from a smallest      *)
(* counterexample; the second part is the inductive invariant.             *)
(***************************************************************************)
EXTENDS PlanExecution, TLAPS, WellFoundedInduction

-----------------------------------------------------------------------------
(* Numbers.                                                                *)

(* A non-empty set of natural numbers has a smallest element.              *)
LEMMA Smallest ==
  ASSUME NEW T \in SUBSET Nat, T # {}
  PROVE  \E m \in T : \A k \in T : m <= k
  <1>1. IsWellFoundedOn(OpToRel(<, Nat), Nat)
    BY NatLessThanWellFounded
  <1>2. PICK m \in T : \A k \in T : <<k, m>> \notin OpToRel(<, Nat)
    BY <1>1, WFMin
  <1>3. \A k \in T : ~(k < m)
    BY <1>2 DEF OpToRel
  <1>4. \A k \in T : m <= k
    <2>. TAKE k \in T
    <2>1. k \in Nat /\ m \in Nat
      OBVIOUS
    <2>. QED  BY <1>3, <2>1
  <1>. QED  BY <1>4

(* A non-empty bounded one has a largest, which Max returns.               *)
LEMMA Largest ==
  ASSUME NEW n \in Nat, NEW T \in SUBSET (0..n), T # {}
  PROVE  Max(T) \in T /\ \A k \in T : k <= Max(T)
  <1>. DEFINE U == {n - k : k \in T}
  <1>1. U \in SUBSET Nat /\ U # {}
    <2>1. \A k \in T : n - k \in Nat
      OBVIOUS
    <2>. QED  BY <2>1
  <1>2. PICK m \in U : \A k \in U : m <= k
    <2>. HIDE DEF U
    <2>. QED  BY <1>1, Smallest
  <1>3. PICK x \in T : m = n - x
    OBVIOUS
  <1>4. \A k \in T : x >= k
    <2>. TAKE k \in T
    <2>1. n - x <= n - k
      BY <1>2, <1>3
    <2>2. k \in 0..n /\ x \in 0..n
      OBVIOUS
    <2>. QED  BY <2>1, <2>2
  <1>5. \E y \in T : \A k \in T : y >= k
    BY <1>4
  <1>. QED  BY <1>5 DEF Max

-----------------------------------------------------------------------------
(* Levels.                                                                 *)

(* The equation of the recursive definition, at one step.                  *)
Follows(f, i) == f[i] = IF plan[i] = {} THEN 0 ELSE 1 + Max({f[j] : j \in plan[i]})

LEMMA PlanShape ==
  ASSUME plan \in Plans
  PROVE  \E n \in Nat : /\ Steps = 1..n
                        /\ plan \in [1..n -> SUBSET (1..n)]
                        /\ \A i \in 1..n : plan[i] \subseteq 1..(i - 1)
  <1>1. MaxSteps \in Nat
    BY PlanExecutionAssumption DEF PlanExecutionAssumption
  <1>. QED  BY <1>1 DEF Plans, Steps

(* The equation can be solved up to any step, by solving it up to the step *)
(* before.                                                                 *)
LEMMA LevelExists ==
  ASSUME NEW n \in Nat, plan \in [1..n -> SUBSET (1..n)],
         \A i \in 1..n : plan[i] \subseteq 1..(i - 1)
  PROVE  \E f \in [1..n -> Nat] : \A i \in 1..n : Follows(f, i)
  <1>. DEFINE Solved(m) == \E f \in [1..m -> 0..m] : \A i \in 1..m : Follows(f, i)
              Bad == {m \in 0..n : ~Solved(m)}
  <1>1. SUFFICES Bad = {}
    <2>1. Solved(n)
      <3>. HIDE DEF Solved
      <3>. QED  BY <1>1
    <2>2. PICK f \in [1..n -> 0..n] : \A i \in 1..n : Follows(f, i)
      BY <2>1
    <2>3. f \in [1..n -> Nat]
      OBVIOUS
    <2>. QED  BY <2>2, <2>3
  <1>2. SUFFICES ASSUME Bad # {} PROVE FALSE
    OBVIOUS
  <1>3. PICK m \in Bad : \A k \in Bad : m <= k
    <2>1. Bad \in SUBSET Nat
      OBVIOUS
    <2>. HIDE DEF Bad
    <2>. QED  BY <1>2, <2>1, Smallest
  <1>4. m # 0
    <2>1. [i \in 1..0 |-> 0] \in [1..0 -> 0..0]
      OBVIOUS
    <2>2. Solved(0)
      <3>1. \A i \in 1..0 : Follows([j \in 1..0 |-> 0], i)
        OBVIOUS
      <3>. QED  BY <2>1, <3>1
    <2>. HIDE DEF Solved
    <2>. QED  BY <2>2
  <1>5. m \in 1..n /\ m - 1 \in 0..n /\ m - 1 \notin Bad
    <2>. HIDE DEF Solved
    <2>1. m \in 1..n /\ m - 1 \in 0..n
      BY <1>4
    <2>2. ~(m <= m - 1)
      BY <2>1
    <2>. HIDE DEF Bad
    <2>. QED  BY <1>3, <2>1, <2>2
  <1>6. PICK f \in [1..(m - 1) -> 0..(m - 1)] : \A i \in 1..(m - 1) : Follows(f, i)
    BY <1>5
  <1>. DEFINE top == IF plan[m] = {} THEN 0 ELSE 1 + Max({f[j] : j \in plan[m]})
              g == [i \in 1..m |-> IF i < m THEN f[i] ELSE top]
  <1>7. top \in 0..m
    <2>1. CASE plan[m] = {}
      BY <1>5, <2>1
    <2>2. CASE plan[m] # {}
      <3>. DEFINE S == {f[j] : j \in plan[m]}
      <3>1. plan[m] \subseteq 1..(m - 1)
        BY <1>5
      <3>2. S \in SUBSET (0..(m - 1)) /\ S # {}
        BY <2>2, <3>1
      <3>3. m - 1 \in Nat
        BY <1>5
      <3>4. Max(S) \in 0..(m - 1)
        <4>. HIDE DEF S
        <4>. QED  BY <3>2, <3>3, Largest
      <3>5. top = 1 + Max(S)
        BY <2>2
      <3>. HIDE DEF S, top
      <3>. QED  BY <1>5, <3>4, <3>5
    <2>. QED  BY <2>1, <2>2
  <1>8. g \in [1..m -> 0..m]
    <2>1. \A i \in 1..m : i < m => f[i] \in 0..m
      BY <1>5
    <2>. HIDE DEF top
    <2>. QED  BY <1>7, <2>1
  <1>9. \A i \in 1..m : Follows(g, i)
    <2>. TAKE i \in 1..m
    <2>1. plan[i] \subseteq 1..(i - 1)
      BY <1>5
    <2>2. \A j \in plan[i] : g[j] = f[j]
      BY <1>5, <2>1
    <2>3. {g[j] : j \in plan[i]} = {f[j] : j \in plan[i]}
      BY <2>2
    <2>4. g[i] = IF plan[i] = {} THEN 0 ELSE 1 + Max({f[j] : j \in plan[i]})
      <3>1. CASE i < m
        <4>1. i \in 1..(m - 1)
          BY <1>5, <3>1
        <4>2. Follows(f, i)
          BY <1>6, <4>1
        <4>. QED  BY <3>1, <4>2 DEF Follows
      <3>2. CASE i = m
        BY <1>5, <3>2
      <3>. QED  BY <1>5, <3>1, <3>2
    <2>. HIDE DEF g
    <2>. QED  BY <2>3, <2>4 DEF Follows
  <1>10. Solved(m)
    <2>. HIDE DEF g
    <2>. QED  BY <1>8, <1>9
  <1>. QED  BY <1>10

LEMMA LevelFollows ==
  ASSUME plan \in Plans
  PROVE  Level = [i \in Steps |->
                    IF plan[i] = {} THEN 0 ELSE 1 + Max({Level[j] : j \in plan[i]})]
  <1>1. PICK n \in Nat : /\ Steps = 1..n
                         /\ plan \in [1..n -> SUBSET (1..n)]
                         /\ \A i \in 1..n : plan[i] \subseteq 1..(i - 1)
    BY PlanShape
  <1>2. PICK f \in [1..n -> Nat] : \A i \in 1..n : Follows(f, i)
    BY <1>1, LevelExists
  <1>3. f = [i \in Steps |-> IF plan[i] = {} THEN 0 ELSE 1 + Max({f[j] : j \in plan[i]})]
    BY <1>1, <1>2 DEF Follows
  <1>. HIDE DEF Max
  <1>. QED  BY <1>3, Zenon DEF Level

(* A step lies above the steps it depends on, and right above one of them. *)
THEOREM LevelOrder ==
  ASSUME plan \in Plans
  PROVE  /\ Level \in [Steps -> Nat]
         /\ \A s \in Steps : \A d \in plan[s] : d \in Steps /\ Level[d] < Level[s]
         /\ \A s \in Steps : Level[s] > 0 => \E d \in plan[s] : Level[s] = Level[d] + 1
  <1>1. PICK n \in Nat : /\ Steps = 1..n
                         /\ plan \in [1..n -> SUBSET (1..n)]
                         /\ \A i \in 1..n : plan[i] \subseteq 1..(i - 1)
    BY PlanShape
  <1>2. /\ DOMAIN Level = 1..n /\ Level = [i \in 1..n |-> Level[i]]
        /\ \A i \in 1..n : Follows(Level, i)
    BY <1>1, LevelFollows DEF Follows
  <1>. HIDE DEF Level
  <1>. DEFINE Bad == {i \in 1..n : Level[i] \notin 0..(i - 1)}
  <1>3. Bad = {}
    <2>1. SUFFICES ASSUME Bad # {} PROVE FALSE
      OBVIOUS
    <2>2. PICK i \in Bad : \A k \in Bad : i <= k
      <3>1. Bad \in SUBSET Nat
        OBVIOUS
      <3>. HIDE DEF Bad
      <3>. QED  BY <2>1, <3>1, Smallest
    <2>. DEFINE S == {Level[j] : j \in plan[i]}
    <2>3. CASE plan[i] = {}
      <3>1. i \in 1..n /\ Level[i] \notin 0..(i - 1)
        OBVIOUS
      <3>2. Follows(Level, i)
        BY <1>2, <3>1
      <3>. HIDE DEF S, Bad
      <3>. QED  BY <2>3, <3>1, <3>2 DEF Follows
    <2>4. CASE plan[i] # {}
      <3>1. plan[i] \subseteq 1..(i - 1) /\ i \in 1..n
        BY <1>1
      <3>2. \A j \in plan[i] : j \in 1..n /\ j < i /\ j \notin Bad
        BY <2>2, <3>1
      <3>3. \A j \in plan[i] : Level[j] \in 0..(i - 2)
        BY <3>1, <3>2
      <3>4. S \in SUBSET (0..(i - 2)) /\ S # {} /\ i - 2 \in Nat
        BY <2>4, <3>1, <3>3
      <3>5. Max(S) \in 0..(i - 2)
        <4>. HIDE DEF S
        <4>. QED  BY <3>4, Largest
      <3>6. Level[i] = 1 + Max(S)
        BY <1>2, <2>4, <3>1 DEF Follows
      <3>. HIDE DEF S
      <3>7. Level[i] \in 0..(i - 1)
        BY <3>1, <3>5, <3>6
      <3>. QED  BY <3>7
    <2>. QED  BY <2>3, <2>4
  <1>4. \A i \in 1..n : Level[i] \in 0..(i - 1)
    BY <1>3
  <1>5. Level \in [Steps -> Nat]
    BY <1>1, <1>2, <1>4
  <1>6. ASSUME NEW s \in Steps, plan[s] # {}
        PROVE  /\ \A d \in plan[s] : d \in Steps /\ Level[d] < Level[s]
               /\ \E d \in plan[s] : Level[s] = Level[d] + 1
    <2>. DEFINE S == {Level[j] : j \in plan[s]}
    <2>1. S \in SUBSET (0..n) /\ S # {}
      <3>1. \A j \in plan[s] : j \in 1..n /\ Level[j] \in 0..(j - 1)
        BY <1>1, <1>4
      <3>2. \A j \in plan[s] : Level[j] \in 0..n
        BY <3>1
      <3>. QED  BY <1>6, <3>2
    <2>2. Max(S) \in S /\ \A k \in S : k <= Max(S)
      <3>. HIDE DEF S
      <3>. QED  BY <2>1, Largest
    <2>3. Level[s] = 1 + Max(S)
      BY <1>1, <1>2, <1>6 DEF Follows
    <2>4. PICK d \in plan[s] : Level[d] = Max(S)
      <3>. DEFINE M == Max(S)
      <3>1. M \in S
        BY <2>2
      <3>. HIDE DEF M
      <3>2. \E d \in plan[s] : Level[d] = M
        BY <3>1
      <3>. QED  BY <3>2 DEF M
    <2>5. \A e \in plan[s] : Level[e] <= Max(S) /\ e \in Steps /\ Level[e] \in Nat
      BY <1>1, <1>5, <2>2
    <2>. DEFINE M == Max(S)
    <2>6. Level[s] = 1 + M /\ Level[d] = M /\ \A e \in plan[s] : Level[e] <= M
      BY <2>3, <2>4, <2>5
    <2>. HIDE DEF S, M
    <2>. QED  BY <1>5, <2>5, <2>6
  <1>7. ASSUME NEW s \in Steps, plan[s] = {} PROVE Level[s] = 0
    BY <1>1, <1>2, <1>7 DEF Follows
  <1>. QED  BY <1>5, <1>6, <1>7

(* No level is skipped: above an empty level there is none.                *)
THEOREM LevelsContiguous ==
  ASSUME plan \in Plans, NEW w \in Nat, WaveLevel(w + 1) = {}
  PROVE  \A s \in Steps : Level[s] <= w
  <1>. USE LevelOrder
  <1>. HIDE DEF Level
  <1>. DEFINE Above == {Level[s] : s \in {t \in Steps : Level[t] > w}}
  <1>1. SUFFICES Above = {}
    <2>. QED  BY <1>1
  <1>2. SUFFICES ASSUME Above # {} PROVE FALSE
    OBVIOUS
  <1>3. PICK m \in Above : \A k \in Above : m <= k
    <2>1. Above \in SUBSET Nat
      OBVIOUS
    <2>. HIDE DEF Above
    <2>. QED  BY <1>2, <2>1, Smallest
  <1>4. PICK s \in Steps : Level[s] = m /\ m > w
    OBVIOUS
  <1>5. PICK d \in plan[s] : Level[s] = Level[d] + 1
    BY <1>4
  <1>6. d \in Steps /\ Level[d] \in Nat /\ Level[d] < m
    BY <1>4, <1>5
  <1>7. Level[d] <= w
    <2>1. SUFFICES ASSUME Level[d] > w PROVE FALSE
      BY <1>6
    <2>2. Level[d] \in Above
      BY <1>6, <2>1
    <2>3. m \in Nat
      BY <1>4
    <2>. HIDE DEF Above
    <2>. QED  BY <1>3, <1>6, <2>2, <2>3
  <1>8. Level[s] = w + 1
    BY <1>4, <1>5, <1>6, <1>7
  <1>. QED  BY <1>8 DEF WaveLevel

-----------------------------------------------------------------------------
(* The inductive invariant.                                                *)

Typed ==
  /\ plan \in Plans /\ wave \in Nat
  /\ step \in [Steps -> Row]
  /\ run \in [Steps -> {"idle", "executing", "verifying", "checking", "rechecking", "done"}]
  /\ res \in [Steps -> {"none", "text", "blocked", "error", "lost"}]
  /\ gate \in {"none", "invalid_plan", "goal_not_satisfied"}

(* Between decomposition and execution nothing of the plan has run.        *)
Before == {"anchor", "replanning", "anchor again", "validating", "revising", "running"}

NotRun ==
  /\ pc \in Before => \A s \in Steps : run[s] = "idle" /\ step[s] = Absent /\ res[s] = "none"
  /\ pc = "single" => Cardinality(Steps) = 1

(* Outside the waves no subtask's coroutine is suspended.                  *)
Quiet == pc # "waves" => \A s \in Steps : run[s] \in {"idle", "done"}

(* What a gate recorded stands until the caller looks at it.               *)
Gated ==
  /\ gate = "invalid_plan" => pc \in {"closing", "returned", "gone"}
  /\ gate = "goal_not_satisfied" =>
       pc \in {"synthesis", "closing", "returned", "backoff", "routing", "gone"}
  /\ pc \in {"synthesis", "closing"} /\ gate # "none" => row = gate

(* In the waves: the levels below have ended, those above have not begun.  *)
InWaves ==
  pc = "waves" => \A s \in Steps :
    /\ Level[s] < wave => run[s] = "done"
    /\ Level[s] = wave => run[s] # "idle"
    /\ Level[s] > wave => run[s] = "idle"
    /\ run[s] = "done" <=> res[s] # "none"
    /\ res[s] = "text" => step[s] = "completed"

Through ==
  /\ pc \in {"satisfaction", "synthesis"} => \A s \in Steps : step[s] = "completed"
  /\ pc = "closing" /\ gate # "invalid_plan" /\ Cardinality(Steps) > 1 =>
       \A s \in Steps : step[s] = "completed"

NoneActive ==
  pc \notin {"waves", "gone"} /\ Cardinality(Steps) > 1 => \A s \in Steps : step[s] \notin Active

IInv ==
  /\ Typed /\ NotRun /\ Quiet /\ Gated /\ InWaves /\ Through /\ NoneActive
  /\ StepsRunAfterDependencies /\ OutcomeMatchesSteps /\ RejectedPlanNotRun

LEMMA LevelUnchanged ==
  ASSUME plan' = plan PROVE Level' = Level /\ Steps' = Steps
  BY DEF Level, Steps

LEMMA RaisedEnds ==
  ASSUME NEW why, Raised(why)
  PROVE  \/ pc' = "backoff" /\ row' = row
         \/ pc' = "returned" /\ row' \in {"failed", "cancelled"}
  BY DEF Raised, Return

LEMMA InitIInv == Init => IInv
  <1>. SUFFICES ASSUME Init PROVE IInv
    OBVIOUS
  <1>1. plan = <<{}>> /\ Steps = {1} /\ plan[1] = {}
    BY DEF Init, Steps
  <1>2. <<{}>> \in Plans
    <2>1. 1 \in 1..MaxSteps
      BY PlanExecutionAssumption DEF PlanExecutionAssumption
    <2>2. <<{}>> \in [1..1 -> SUBSET (1..1)]
      OBVIOUS
    <2>. QED  BY <2>1, <2>2 DEF Plans
  <1>3. /\ step = [i \in Steps |-> Absent] /\ run = [i \in Steps |-> "idle"]
        /\ res = [i \in Steps |-> "none"] /\ pc = "new" /\ wave = 0 /\ gate = "none"
    BY <1>1 DEF Init, Fresh, Steps
  <1>4. Typed
    BY <1>1, <1>2, <1>3 DEF Typed, Row
  <1>. HIDE DEF Steps
  <1>. QED  BY <1>3, <1>4
       DEF IInv, NotRun, Before, Quiet, Gated, InWaves, Through, NoneActive, Active, Absent,
           StepsRunAfterDependencies, OutcomeMatchesSteps, RejectedPlanNotRun

(* Steps of the pipeline that leave the subtasks alone.                    *)
LEMMA SubtasksAlone ==
  ASSUME IInv, UNCHANGED <<plan, step, run, res>>, wave' \in Nat,
         pc # "waves", pc' # "waves",
         NotRun', Gated', Through', RejectedPlanNotRun',
         gate' \in {"none", "invalid_plan", "goal_not_satisfied"},
         pc = "gone" => pc' = "gone",
         caller = "chat" /\ pc' = "returned" /\ row' = "completed" =>
           gate' = "none" /\ (Cardinality(Steps) > 1 => \A s \in Steps : step[s] = "completed"),
         caller' = caller
  PROVE  IInv'
  <1>1. Steps' = Steps
    BY LevelUnchanged
  <1>2. Typed'
    BY <1>1 DEF IInv, Typed
  <1>3. Quiet' /\ InWaves'
    BY <1>1 DEF IInv, Quiet, InWaves
  <1>4. StepsRunAfterDependencies'
    BY <1>1 DEF IInv, StepsRunAfterDependencies
  <1>5. NoneActive'
    BY <1>1 DEF IInv, NoneActive
  <1>6. OutcomeMatchesSteps'
    BY <1>1, <1>5 DEF OutcomeMatchesSteps, NoneActive
  <1>. QED  BY <1>2, <1>3, <1>4, <1>5, <1>6 DEF IInv

LEMMA CallerKeepsIInv ==
  ASSUME IInv, Accept \/ RunBackground \/ Retry \/ Route \/ Close
  PROVE  IInv'
  <1>. USE DEF IInv, Typed, NotRun, Before, Gated, Through, RejectedPlanNotRun, setup, stepVars
  <1>1. CASE Accept
    BY <1>1, LevelUnchanged, SubtasksAlone DEF Accept
  <1>2. CASE RunBackground
    BY <1>2, LevelUnchanged, SubtasksAlone DEF RunBackground
  <1>3. CASE Retry
    BY <1>3, LevelUnchanged, SubtasksAlone DEF Retry
  <1>4. CASE Route
    <2>1. UNCHANGED <<caller, plan, step, run, res>> /\ wave' = 0 /\ gate' = "none"
      BY <1>4 DEF Route
    <2>. QED  BY <1>4, LevelUnchanged, SubtasksAlone DEF Route
  <1>5. CASE Close
    <2>1. /\ pc = "closing" /\ pc' = "returned"
          /\ row' = (IF caller = "chat" THEN Closed(row) ELSE "completed")
          /\ UNCHANGED <<caller, plan, stepVars, gate>>
      BY <1>5 DEF Close, Return
    <2>2. caller = "chat" /\ row' = "completed" => gate = "none"
      BY <2>1 DEF Closed, Terminal
    <2>. QED  BY <2>1, <2>2, LevelUnchanged, SubtasksAlone
  <1>. QED  BY <1>1, <1>2, <1>3, <1>4, <1>5

LEMMA RaisedKeepsIInv ==
  ASSUME IInv, NEW why, Raised(why), UNCHANGED <<setup, tier, plan, stepVars, stop, gate>>,
         pc \in {"planning", "anchor", "anchor again", "validating", "revising",
                 "single", "satisfaction", "synthesis"}
  PROVE  IInv'
  <1>1. \/ pc' = "backoff" /\ row' = row
        \/ pc' = "returned" /\ row' \in {"failed", "cancelled"}
    BY RaisedEnds
  <1>. QED  BY <1>1, LevelUnchanged, SubtasksAlone
            DEF IInv, Typed, NotRun, Before, Gated, Through, RejectedPlanNotRun, setup, stepVars

LEMMA RecordKeepsIInv ==
  ASSUME IInv, Record("invalid_plan"), pc \in Before
  PROVE  IInv'
  BY LevelUnchanged, SubtasksAlone
  DEF Record, IInv, Typed, NotRun, Before, Gated, Through, RejectedPlanNotRun, setup, stepVars

LEMMA DecomposeKeepsIInv ==
  ASSUME IInv, NEW from \in {"planning", "replanning", "revising"},
         NEW to \in Before, Decompose(from, to)
  PROVE  IInv'
  <1>. PICK d \in Plans : /\ plan' = d
                          /\ step' = Fresh(d, Absent) /\ run' = Fresh(d, "idle")
                          /\ res' = Fresh(d, "none")
    BY DEF Decompose
  <1>1. pc = from /\ pc' = to /\ UNCHANGED <<caller, wave, row, gate>>
    BY DEF Decompose, setup
  <1>2. Typed'
    BY <1>1 DEF IInv, Typed, Fresh, Steps, Row
  <1>3. \A s \in Steps' : run'[s] = "idle" /\ step'[s] = Absent /\ res'[s] = "none"
    BY DEF Fresh, Steps
  <1>4. gate = "none"
    BY <1>1 DEF IInv, Typed, Gated
  <1>. QED  BY <1>1, <1>2, <1>3, <1>4
       DEF IInv, NotRun, Before, Quiet, Gated, InWaves, Through, NoneActive, Active, Absent,
           StepsRunAfterDependencies, OutcomeMatchesSteps, RejectedPlanNotRun

LEMMA GatesKeepIInv ==
  ASSUME IInv, NEW v \in Verdict,
         \/ ValidateAnchor(v) \/ ValidateAnchorAgain(v) \/ ValidatePlan(v)
         \/ ValidateSatisfaction(v) \/ Replan \/ Synthesise \/ SingleDone
  PROVE  IInv'
  <1>1. CASE ValidateAnchor(v)
    <2>1. CASE Record("invalid_plan")
      BY <1>1, <2>1, RecordKeepsIInv DEF ValidateAnchor, Before
    <2>2. CASE ~Record("invalid_plan")
      <3>1. /\ pc = "anchor" /\ pc' \in {"validating", "running", "replanning"}
            /\ UNCHANGED <<caller, plan, row, stepVars, gate>>
        BY <1>1, <2>2 DEF ValidateAnchor, AnchorAccepted, setup
      <3>. QED  BY <3>1, LevelUnchanged, SubtasksAlone
           DEF IInv, Typed, NotRun, Before, Gated, Through, RejectedPlanNotRun, stepVars
    <2>. QED  BY <2>1, <2>2
  <1>2. CASE ValidateAnchorAgain(v)
    <2>1. CASE Record("invalid_plan")
      BY <1>2, <2>1, RecordKeepsIInv DEF ValidateAnchorAgain, Before
    <2>2. CASE ~Record("invalid_plan")
      <3>1. /\ pc = "anchor again" /\ pc' \in {"validating", "running"}
            /\ UNCHANGED <<caller, plan, row, stepVars, gate>>
        BY <1>2, <2>2 DEF ValidateAnchorAgain, AnchorAccepted, setup
      <3>. QED  BY <3>1, LevelUnchanged, SubtasksAlone
           DEF IInv, Typed, NotRun, Before, Gated, Through, RejectedPlanNotRun, stepVars
    <2>. QED  BY <2>1, <2>2
  <1>3. CASE ValidatePlan(v)
    <2>1. CASE Record("invalid_plan")
      BY <1>3, <2>1, RecordKeepsIInv DEF ValidatePlan, Before
    <2>2. CASE ~Record("invalid_plan")
      <3>1. /\ pc = "validating" /\ pc' \in {"revising", "running"}
            /\ UNCHANGED <<caller, plan, row, stepVars, gate>>
        BY <1>3, <2>2 DEF ValidatePlan, setup
      <3>. QED  BY <3>1, LevelUnchanged, SubtasksAlone
           DEF IInv, Typed, NotRun, Before, Gated, Through, RejectedPlanNotRun, stepVars
    <2>. QED  BY <2>1, <2>2
  <1>4. CASE ValidateSatisfaction(v)
    <2>1. /\ pc = "satisfaction" /\ pc' = "synthesis"
          /\ \/ row' = "goal_not_satisfied" /\ gate' = "goal_not_satisfied"
             \/ UNCHANGED <<row, gate>>
          /\ UNCHANGED <<caller, plan, stepVars>>
      BY <1>4 DEF ValidateSatisfaction, setup
    <2>. QED  BY <2>1, LevelUnchanged, SubtasksAlone
         DEF IInv, Typed, NotRun, Before, Gated, Through, RejectedPlanNotRun, stepVars
  <1>5. CASE Replan
    <2>1. CASE Decompose("replanning", "anchor again")
      BY <2>1, DecomposeKeepsIInv DEF Before
    <2>2. CASE pc = "replanning" /\ Record("invalid_plan")
      BY <2>2, RecordKeepsIInv DEF Before
    <2>. QED  BY <1>5, <2>1, <2>2 DEF Replan
  <1>6. CASE Synthesise \/ SingleDone
    <2>1. /\ pc \in {"synthesis", "single"} /\ pc' = "closing"
          /\ UNCHANGED <<caller, plan, stepVars, row, gate>>
      BY <1>6 DEF Synthesise, SingleDone, setup
    <2>2. pc = "single" => gate = "none" /\ ~(Cardinality(Steps) > 1)
      BY DEF IInv, NotRun, Gated, Typed
    <2>. QED  BY <2>1, <2>2, LevelUnchanged, SubtasksAlone
         DEF IInv, Typed, NotRun, Before, Gated, Through, RejectedPlanNotRun, stepVars
  <1>. QED  BY <1>1, <1>2, <1>3, <1>4, <1>5, <1>6

LEMMA CancelKeepsIInv ==
  ASSUME IInv, Cancel
  PROVE  IInv'
  <1>1. UNCHANGED <<caller, plan, row, step, run, res, wave, pc, gate>>
    BY DEF Cancel, setup, stepVars
  <1>2. Level' = Level /\ Steps' = Steps
    BY <1>1, LevelUnchanged
  <1>. HIDE DEF Level, Steps
  <1>. QED  BY <1>1, <1>2
       DEF IInv, Typed, NotRun, Quiet, Gated, InWaves, Through, NoneActive,
           StepsRunAfterDependencies, OutcomeMatchesSteps, RejectedPlanNotRun

LEMMA DisconnectKeepsIInv ==
  ASSUME IInv, Disconnect
  PROVE  IInv'
  <1>1. /\ UNCHANGED <<caller, plan, row, step, res, wave, gate>> /\ pc' = "gone"
        /\ run' = [i \in Steps |-> IF run[i] = "idle" THEN "idle" ELSE "done"]
    BY DEF Disconnect, setup
  <1>2. Steps' = Steps
    BY <1>1, LevelUnchanged
  <1>. HIDE DEF Steps
  <1>. QED  BY <1>1, <1>2
       DEF IInv, Typed, NotRun, Before, Quiet, Gated, InWaves, Through, NoneActive,
           StepsRunAfterDependencies, OutcomeMatchesSteps, RejectedPlanNotRun

LEMMA StartSingleKeepsIInv ==
  ASSUME IInv, StartSingle
  PROVE  IInv'
  <1>1. /\ UNCHANGED <<caller, plan, row, run, res, wave, gate>>
        /\ pc = "running" /\ pc' = "single" /\ Cardinality(Steps) = 1
        /\ step' = [i \in Steps |-> "pending"]
    BY DEF StartSingle, Fresh, Steps, setup
  <1>2. Steps' = Steps
    BY <1>1, LevelUnchanged
  <1>3. gate = "none"
    BY <1>1 DEF IInv, Typed, Gated
  <1>4. Typed'
    BY <1>1, <1>2 DEF IInv, Typed, Row, TaskStatus, Active
  <1>. HIDE DEF Steps
  <1>. QED  BY <1>1, <1>2, <1>3, <1>4
       DEF IInv, NotRun, Before, Quiet, Gated, InWaves, Through, NoneActive,
           StepsRunAfterDependencies, OutcomeMatchesSteps, RejectedPlanNotRun

(* A wave is started: the steps of its level leave idle.                   *)
LEMMA StartKeepsIInv ==
  ASSUME IInv, NEW w \in Nat, Start(w), pc' = "waves", gate = "none",
         UNCHANGED <<caller, plan, res, gate>>,
         NEW st, step' = [i \in Steps |-> IF i \in WaveLevel(w) THEN "in_progress" ELSE st[i]],
         st \in [Steps -> Row],
         \A s \in Steps :
           /\ Level[s] < w => run[s] = "done"
           /\ Level[s] >= w => run[s] = "idle"
           /\ run[s] = "done" <=> res[s] # "none"
           /\ res[s] = "text" => st[s] = "completed"
  PROVE  IInv'
  <1>1. Level' = Level /\ Steps' = Steps
    BY LevelUnchanged
  <1>2. /\ plan \in Plans /\ Level \in [Steps -> Nat]
        /\ \A s \in Steps : \A d \in plan[s] : d \in Steps /\ Level[d] < Level[s]
    BY LevelOrder DEF IInv, Typed
  <1>3. wave' = w /\ run' = [i \in Steps |-> IF Level[i] = w THEN "executing" ELSE run[i]]
    BY DEF Start, WaveLevel
  <1>4. step' = [i \in Steps |-> IF Level[i] = w THEN "in_progress" ELSE st[i]]
    BY DEF WaveLevel
  <1>. HIDE DEF Level, Steps
  <1>5. Typed'
    BY <1>1, <1>3, <1>4 DEF IInv, Typed, Row, TaskStatus, Active
  <1>6. InWaves'
    BY <1>1, <1>2, <1>3, <1>4 DEF InWaves
  <1>7. StepsRunAfterDependencies'
    <2>1. ASSUME NEW s \in Steps, run'[s] # "idle", NEW d \in plan[s]
          PROVE  res[d] # "none"
      <3>1. Level[s] <= w
        BY <1>2, <1>3, <2>1
      <3>2. d \in Steps /\ Level[d] < w
        BY <1>2, <3>1
      <3>. QED  BY <3>2
    <2>. QED  BY <1>1, <2>1 DEF StepsRunAfterDependencies
  <1>. QED  BY <1>1, <1>5, <1>6, <1>7
       DEF IInv, NotRun, Before, Quiet, Gated, Through, NoneActive,
           OutcomeMatchesSteps, RejectedPlanNotRun

LEMMA StartWavesKeepsIInv ==
  ASSUME IInv, StartWaves \/ NextWave
  PROVE  IInv'
  <1>0. plan \in Plans /\ Level \in [Steps -> Nat]
    BY LevelOrder DEF IInv, Typed
  <1>. HIDE DEF Level
  <1>1. CASE StartWaves
    <2>. DEFINE st == [i \in Steps |-> "pending"]
    <2>1. /\ pc = "running" /\ pc' = "waves" /\ Start(0)
          /\ UNCHANGED <<caller, plan, res, gate>>
          /\ step' = [i \in Steps |-> IF i \in WaveLevel(0) THEN "in_progress" ELSE st[i]]
      BY <1>1 DEF StartWaves, setup
    <2>2. gate = "none"
      BY <2>1 DEF IInv, Typed, Gated
    <2>3. \A s \in Steps : run[s] = "idle" /\ res[s] = "none" /\ ~(Level[s] < 0) /\ Level[s] >= 0
      BY <1>0, <2>1 DEF IInv, NotRun, Before
    <2>4. st \in [Steps -> Row]
      BY DEF Row, TaskStatus, Active
    <2>. HIDE DEF st
    <2>. QED  BY <2>1, <2>2, <2>3, <2>4, StartKeepsIInv
  <1>2. CASE NextWave
    <2>1. /\ pc = "waves" /\ pc' = "waves" /\ Start(wave + 1)
          /\ \A s \in Steps : Level[s] = wave => run[s] = "done"
          /\ UNCHANGED <<caller, plan, res, gate>>
          /\ step' = [i \in Steps |-> IF i \in WaveLevel(wave + 1) THEN "in_progress" ELSE step[i]]
      BY <1>2 DEF NextWave, WaveOver, WaveLevel, setup
    <2>2. gate = "none" /\ wave + 1 \in Nat /\ wave \in Nat /\ step \in [Steps -> Row]
      BY <2>1 DEF IInv, Typed, Gated
    <2>3. \A s \in Steps : /\ Level[s] < wave + 1 => run[s] = "done"
                           /\ Level[s] >= wave + 1 => run[s] = "idle"
                           /\ run[s] = "done" <=> res[s] # "none"
                           /\ res[s] = "text" => step[s] = "completed"
      <3>. TAKE s \in Steps
      <3>1. Level[s] \in Nat
        BY <1>0
      <3>2. /\ Level[s] < wave => run[s] = "done"
            /\ Level[s] > wave => run[s] = "idle"
            /\ run[s] = "done" <=> res[s] # "none"
            /\ res[s] = "text" => step[s] = "completed"
        BY <2>1 DEF IInv, InWaves
      <3>. QED  BY <2>1, <2>2, <3>1, <3>2
    <2>. HIDE DEF Start, WaveLevel
    <2>. QED  BY <2>1, <2>2, <2>3, StartKeepsIInv
  <1>. QED  BY <1>1, <1>2

(* A coroutine of the wave goes on, or ends.                               *)
LEMMA StepKeepsIInv ==
  ASSUME IInv, NEW s \in Steps, Step(s)
  PROVE  IInv'
  <1>1. /\ run[s] \in {"executing", "verifying", "checking", "rechecking"}
        /\ UNCHANGED <<caller, plan, row, pc, wave, gate>>
        /\ \/ /\ \E v \in {"verifying", "checking", "rechecking"} : run' = [run EXCEPT ![s] = v]
              /\ UNCHANGED <<step, res>>
           \/ /\ run' = [run EXCEPT ![s] = "done"]
              /\ \/ /\ res' = [res EXCEPT ![s] = "text"]
                    /\ step' = [step EXCEPT ![s] = "completed"]
                 \/ /\ \E r \in {"blocked", "error", "lost"} : res' = [res EXCEPT ![s] = r]
                    /\ step' = step \/ step' = [step EXCEPT ![s] = "goal_not_satisfied"]
    BY DEF Step, ExecutorReturns, StepRaises, CheckDrift, VerifyStep, Verdict, EndStep,
           CompleteStep, UpdateStatus, StepFrame, setup
  <1>2. Level' = Level /\ Steps' = Steps
    BY <1>1, LevelUnchanged
  <1>3. pc = "waves" /\ pc' = "waves"
    BY <1>1 DEF IInv, Quiet
  <1>. HIDE DEF Level, Steps
  <1>4. Typed'
    BY <1>1, <1>2 DEF IInv, Typed, Row, TaskStatus, Terminal
  <1>5. InWaves'
    BY <1>1, <1>2, <1>3 DEF IInv, Typed, InWaves
  <1>6. StepsRunAfterDependencies'
    <2>1. \A t \in Steps : \A d \in plan[t] : d \in Steps
      BY LevelOrder DEF IInv, Typed
    <2>2. \A t \in Steps : run'[t] # "idle" => run[t] # "idle"
      BY <1>1 DEF IInv, Typed
    <2>3. \A d \in Steps : res[d] # "none" => res'[d] # "none"
      BY <1>1 DEF IInv, Typed
    <2>4. plan' = plan
      BY <1>1
    <2>. QED  BY <1>2, <2>1, <2>2, <2>3, <2>4 DEF IInv, StepsRunAfterDependencies
  <1>. QED  BY <1>1, <1>2, <1>3, <1>4, <1>5, <1>6
       DEF IInv, NotRun, Before, Quiet, Gated, Through, NoneActive,
           OutcomeMatchesSteps, RejectedPlanNotRun

(* After the last wave every step has ended.                               *)
LEMMA WavesOverKeepsIInv ==
  ASSUME IInv, WavesOver
  PROVE  IInv'
  <1>0. /\ plan \in Plans /\ wave \in Nat /\ pc = "waves" /\ WaveLevel(wave + 1) = {}
        /\ Level \in [Steps -> Nat]
    BY LevelOrder DEF IInv, Typed, WavesOver, WaveOver
  <1>1. /\ UNCHANGED <<caller, plan, run, res, wave, gate>>
        /\ step' = [i \in Steps |-> IF i \in Failed THEN "failed" ELSE step[i]]
        /\ \/ Failed # {} /\ \/ pc' = "backoff"
                             \/ pc' = "returned" /\ row' \in {"failed", "cancelled"}
           \/ Failed = {} /\ pc' \in {"satisfaction", "synthesis"}
    <2>1. /\ UNCHANGED <<caller, plan, run, res, wave, gate>>
          /\ step' = [i \in Steps |-> IF i \in Failed THEN "failed" ELSE step[i]]
          /\ \/ Failed # {} /\ Raised(res[Min(Failed)])
             \/ Failed = {} /\ pc' \in {"satisfaction", "synthesis"}
      BY DEF WavesOver, setup
    <2>. HIDE DEF Failed
    <2>. QED  BY <2>1, RaisedEnds
  <1>2. Steps' = Steps
    BY <1>1, LevelUnchanged
  <1>3. \A s \in Steps : Level[s] <= wave
    BY <1>0, LevelsContiguous
  <1>. HIDE DEF Level
  <1>4. \A s \in Steps : run[s] = "done" /\ res[s] # "none"
    <2>. TAKE s \in Steps
    <2>1. Level[s] < wave \/ Level[s] = wave
      BY <1>0, <1>3
    <2>2. Level[s] = wave => run[s] = "done"
      BY DEF WavesOver, WaveOver, WaveLevel
    <2>3. run[s] = "done"
      BY <1>0, <2>1, <2>2 DEF IInv, InWaves
    <2>. QED  BY <1>0, <2>3 DEF IInv, InWaves
  <1>5. \A s \in Steps : s \in Failed \/ step[s] = "completed"
    BY <1>0, <1>4 DEF IInv, Typed, InWaves, Failed
  <1>6. \A s \in Steps : step'[s] = (IF s \in Failed THEN "failed" ELSE "completed")
    BY <1>1, <1>5
  <1>. HIDE DEF Steps, Failed
  <1>7. Typed'
    BY <1>1, <1>2 DEF IInv, Typed, Row, TaskStatus, Terminal
  <1>8. gate = "none"
    BY <1>0 DEF IInv, Typed, Gated
  <1>9. StepsRunAfterDependencies'
    BY <1>1, <1>2 DEF IInv, StepsRunAfterDependencies
  <1>10. Through' /\ NoneActive'
    BY <1>1, <1>2, <1>6, <1>8 DEF Through, NoneActive, Active
  <1>. QED  BY <1>1, <1>2, <1>4, <1>6, <1>7, <1>8, <1>9, <1>10
       DEF IInv, NotRun, Before, Quiet, Gated, InWaves, NoneActive,
           OutcomeMatchesSteps, RejectedPlanNotRun

LEMMA NextIInv == IInv /\ [Next]_vars => IInv'
  <1>. SUFFICES ASSUME IInv, [Next]_vars PROVE IInv'
    OBVIOUS
  <1>1. CASE UNCHANGED vars
    <2>1. UNCHANGED <<caller, plan, row, step, run, res, wave, pc, gate>>
      BY <1>1 DEF vars
    <2>2. Level' = Level /\ Steps' = Steps
      BY <2>1, LevelUnchanged
    <2>. HIDE DEF Level, Steps
    <2>. QED  BY <2>1, <2>2
         DEF IInv, Typed, NotRun, Quiet, Gated, InWaves, Through, NoneActive,
             StepsRunAfterDependencies, OutcomeMatchesSteps, RejectedPlanNotRun
  <1>2. CASE Accept \/ RunBackground \/ Retry \/ Close \/ Route
    BY <1>2, CallerKeepsIInv
  <1>3. CASE Decompose("planning", "anchor") \/ Revise
    BY <1>3, DecomposeKeepsIInv DEF Revise, Before
  <1>4. ASSUME NEW v \in Verdict,
               \/ ValidateAnchor(v) \/ ValidateAnchorAgain(v) \/ ValidatePlan(v)
               \/ ValidateSatisfaction(v)
        PROVE  IInv'
    BY <1>4, GatesKeepIInv
  <1>5. CASE Replan \/ Synthesise \/ SingleDone
    <2>1. "pass" \in Verdict
      BY DEF Verdict
    <2>. QED  BY <1>5, <2>1, GatesKeepIInv
  <1>6. CASE StartSingle
    BY <1>6, StartSingleKeepsIInv
  <1>7. CASE StartWaves \/ NextWave
    BY <1>7, StartWavesKeepsIInv
  <1>8. CASE WavesOver
    BY <1>8, WavesOverKeepsIInv
  <1>9. CASE PipelineRaises
    BY <1>9, RaisedKeepsIInv DEF PipelineRaises
  <1>10. ASSUME NEW s \in Steps, Step(s) PROVE IInv'
    BY <1>10, StepKeepsIInv
  <1>11. CASE Cancel
    BY <1>11, CancelKeepsIInv
  <1>12. CASE Disconnect
    BY <1>12, DisconnectKeepsIInv
  <1>. QED  BY <1>1, <1>2, <1>3, <1>4, <1>5, <1>6, <1>7, <1>8, <1>9, <1>10, <1>11, <1>12
            DEF Next, Pipeline

LEMMA Invariant == Spec => []IInv
  BY InitIInv, NextIInv, PTL DEF Spec

-----------------------------------------------------------------------------
(* The refinement of Dag.                                                  *)

LEMMA StepsIsDomain == Steps = DOMAIN plan
  BY DEF Steps

LEMMA InitOrder == Init => Order!Init
  <1>. SUFFICES ASSUME Init PROVE Order!Init
    OBVIOUS
  <1>1. plan \in Plans
    BY InitIInv DEF IInv, Typed
  <1>2. \A s \in Steps : run[s] = "idle"
    BY DEF Init, Fresh, Steps
  <1>3. Begun = {} /\ Ended = {}
    BY <1>2 DEF Begun, Ended
  <1>. QED  BY <1>1, <1>3 DEF Order!Init

(* A step that leaves the plan and where its subtasks are.                 *)
LEMMA OrderStutters ==
  ASSUME UNCHANGED <<plan, run>>
  PROVE  UNCHANGED Order!dagVars
  BY DEF Order!dagVars, Begun, Ended, Steps

(* A wave begins: what its steps depend on lies below, and has ended.      *)
LEMMA StartBegins ==
  ASSUME IInv, NEW w \in Nat, Start(w), plan' = plan,
         \A s \in Steps : /\ Level[s] < w => run[s] = "done"
                          /\ Level[s] >= w => run[s] = "idle"
  PROVE  Order!Begin
  <1>1. Steps' = Steps
    BY LevelUnchanged
  <1>2. /\ Level \in [Steps -> Nat]
        /\ \A s \in Steps : \A d \in plan[s] : d \in Steps /\ Level[d] < Level[s]
    BY LevelOrder DEF IInv, Typed
  <1>. DEFINE S == {s \in Steps : Level[s] = w}
  <1>3. \A s \in Steps : run'[s] = (IF s \in S THEN "executing" ELSE run[s])
    BY DEF Start, WaveLevel
  <1>. HIDE DEF Level, Steps
  <1>4. \A s \in S : s \in Steps /\ run[s] = "idle"
    BY <1>2
  <1>5. Begun' = Begun \cup S /\ Ended' = Ended
    BY <1>1, <1>3, <1>4 DEF Begun, Ended
  <1>6. S \in SUBSET (DOMAIN plan \ Begun)
    BY <1>4, StepsIsDomain DEF Begun
  <1>7. \A s \in S : plan[s] \subseteq Ended
    <2>. TAKE s \in S
    <2>1. \A d \in plan[s] : d \in Steps /\ Level[d] < w
      BY <1>2
    <2>. QED  BY <2>1 DEF Ended
  <1>. HIDE DEF S
  <1>. QED  BY <1>5, <1>6, <1>7 DEF Order!Begin

LEMMA WavesBegin ==
  ASSUME IInv, StartWaves \/ NextWave
  PROVE  Order!Begin
  <1>0. plan \in Plans /\ Level \in [Steps -> Nat]
    BY LevelOrder DEF IInv, Typed
  <1>. HIDE DEF Level
  <1>1. CASE StartWaves
    <2>1. pc = "running" /\ Start(0) /\ plan' = plan
      BY <1>1 DEF StartWaves
    <2>2. \A s \in Steps : run[s] = "idle" /\ ~(Level[s] < 0)
      BY <1>0, <2>1 DEF IInv, NotRun, Before
    <2>. HIDE DEF Start
    <2>. QED  BY <2>1, <2>2, StartBegins
  <1>2. CASE NextWave
    <2>1. /\ pc = "waves" /\ Start(wave + 1) /\ plan' = plan
          /\ \A s \in Steps : Level[s] = wave => run[s] = "done"
      BY <1>2 DEF NextWave, WaveOver, WaveLevel
    <2>2. wave \in Nat /\ wave + 1 \in Nat
      BY DEF IInv, Typed
    <2>3. \A s \in Steps : /\ Level[s] < wave + 1 => run[s] = "done"
                           /\ Level[s] >= wave + 1 => run[s] = "idle"
      <3>. TAKE s \in Steps
      <3>1. Level[s] \in Nat
        BY <1>0
      <3>2. /\ Level[s] < wave => run[s] = "done"
            /\ Level[s] > wave => run[s] = "idle"
        BY <2>1 DEF IInv, InWaves
      <3>. QED  BY <2>1, <2>2, <3>1, <3>2
    <2>. HIDE DEF Start
    <2>. QED  BY <2>1, <2>2, <2>3, StartBegins
  <1>. QED  BY <1>1, <1>2

(* Decomposition and revision: nothing of the old plan is suspended.       *)
LEMMA DecomposeAdopts ==
  ASSUME IInv, NEW from, NEW to, from # "waves", Decompose(from, to)
  PROVE  Order!Adopt
  <1>1. PICK d \in Plans : plan' = d /\ run' = Fresh(d, "idle") /\ pc = from
    BY DEF Decompose
  <1>2. \A s \in Steps : run[s] \in {"idle", "done"}
    BY <1>1 DEF IInv, Quiet
  <1>3. Begun = Ended
    BY <1>2 DEF Begun, Ended
  <1>4. \A s \in Steps' : run'[s] = "idle"
    BY <1>1 DEF Fresh, Steps
  <1>5. Begun' = {} /\ Ended' = {}
    BY <1>4 DEF Begun, Ended
  <1>. QED  BY <1>1, <1>3, <1>5 DEF Order!Adopt

(* A suspended subtask goes on, or ends.                                   *)
LEMMA StepOrdered ==
  ASSUME IInv, NEW s \in Steps, Step(s)
  PROVE  Order!End \/ UNCHANGED Order!dagVars
  <1>1. /\ run[s] \in {"executing", "verifying", "checking", "rechecking"}
        /\ plan' = plan
        /\ \E v \in {"verifying", "checking", "rechecking", "done"} :
             run' = [run EXCEPT ![s] = v]
    BY DEF Step, ExecutorReturns, StepRaises, CheckDrift, VerifyStep, Verdict, EndStep,
           CompleteStep, StepFrame
  <1>2. Steps' = Steps
    BY <1>1, LevelUnchanged
  <1>3. DOMAIN run = Steps
    BY DEF IInv, Typed
  <1>. HIDE DEF Steps
  <1>4. s \in Begun /\ s \notin Ended /\ Begun' = Begun
    BY <1>1, <1>2, <1>3 DEF Begun, Ended
  <1>5. Ended' = Ended \/ Ended' = Ended \cup {s}
    BY <1>1, <1>2, <1>3 DEF Ended
  <1>. QED  BY <1>1, <1>4, <1>5 DEF Order!End, Order!dagVars

LEMMA DisconnectAbandons ==
  ASSUME IInv, Disconnect
  PROVE  Order!Abandon
  <1>1. plan' = plan /\ run' = [i \in Steps |-> IF run[i] = "idle" THEN "idle" ELSE "done"]
    BY DEF Disconnect
  <1>2. Steps' = Steps
    BY <1>1, LevelUnchanged
  <1>. HIDE DEF Steps
  <1>3. Begun' = Begun /\ Ended' = Begun
    BY <1>1, <1>2 DEF Begun, Ended
  <1>. QED  BY <1>1, <1>3 DEF Order!Abandon

(* Every step of a planned task is a step of Dag, or none.                 *)
LEMMA NextOrder ==
  ASSUME IInv, [Next]_vars
  PROVE  [Order!Next]_(Order!dagVars)
  <1>1. CASE UNCHANGED vars
    BY <1>1, OrderStutters DEF vars
  <1>2. CASE \/ Accept \/ RunBackground \/ Retry \/ Close \/ Route
             \/ StartSingle \/ SingleDone \/ WavesOver \/ Synthesise \/ PipelineRaises \/ Cancel
    <2>1. UNCHANGED <<plan, run>>
      BY <1>2 DEF Accept, RunBackground, Retry, Close, Route, StartSingle, SingleDone,
                  WavesOver, Synthesise, PipelineRaises, Cancel, stepVars
    <2>. QED  BY <2>1, OrderStutters
  <1>3. ASSUME NEW v \in Verdict,
               \/ ValidateAnchor(v) \/ ValidateAnchorAgain(v) \/ ValidatePlan(v)
               \/ ValidateSatisfaction(v)
        PROVE  UNCHANGED Order!dagVars
    <2>1. UNCHANGED <<plan, run>>
      BY <1>3 DEF ValidateAnchor, ValidateAnchorAgain, ValidatePlan, ValidateSatisfaction,
                  Record, stepVars
    <2>. QED  BY <2>1, OrderStutters
  <1>4. CASE Decompose("planning", "anchor") \/ Revise
    BY <1>4, DecomposeAdopts DEF Revise, Order!Next
  <1>5. CASE Replan
    <2>1. CASE Decompose("replanning", "anchor again")
      BY <2>1, DecomposeAdopts DEF Order!Next
    <2>2. CASE Record("invalid_plan")
      BY <2>2, OrderStutters DEF Record, stepVars
    <2>. QED  BY <1>5, <2>1, <2>2 DEF Replan
  <1>6. CASE StartWaves \/ NextWave
    BY <1>6, WavesBegin DEF Order!Next
  <1>7. ASSUME NEW s \in Steps, Step(s) PROVE [Order!Next]_(Order!dagVars)
    BY <1>7, StepOrdered DEF Order!Next
  <1>8. CASE Disconnect
    BY <1>8, DisconnectAbandons DEF Order!Next
  <1>. QED  BY <1>1, <1>2, <1>3, <1>4, <1>5, <1>6, <1>7, <1>8 DEF Next, Pipeline

-----------------------------------------------------------------------------
(* The counters of the retry loop and of the drift check, and the row.     *)
Counted ==
  /\ row \in Row /\ counter \in Nat /\ attempt \in 1..MaxRetries
  /\ pc = "backoff" => attempt < MaxRetries

LEMMA RaisedCounted ==
  ASSUME Counted, NEW why, Raised(why)
  PROVE  /\ row' \in Row /\ attempt' = attempt
         /\ pc' = "backoff" => attempt' < MaxRetries
  BY PlanExecutionAssumption DEF Raised, Return, Counted, Row, TaskStatus, Terminal

LEMMA NextCounted ==
  ASSUME Counted, [Next]_vars
  PROVE  Counted'
  <1>1. CASE Accept \/ RunBackground \/ Retry \/ Route
    BY <1>1, PlanExecutionAssumption
    DEF Accept, RunBackground, Retry, Route, Counted, Row, TaskStatus, Active, stepVars
  <1>2. CASE Close
    BY <1>2 DEF Close, Return, Closed, Counted, Row, TaskStatus, Terminal, stepVars
  <1>3. CASE Replan \/ Revise \/ Decompose("planning", "anchor")
    BY <1>3 DEF Replan, Revise, Decompose, Record, Counted, Row, TaskStatus, Terminal, stepVars
  <1>4. ASSUME NEW v \in Verdict,
               \/ ValidateAnchor(v) \/ ValidateAnchorAgain(v) \/ ValidatePlan(v)
               \/ ValidateSatisfaction(v)
        PROVE  Counted'
    BY <1>4
    DEF ValidateAnchor, ValidateAnchorAgain, ValidatePlan, ValidateSatisfaction, AnchorAccepted,
        Record, Counted, Row, TaskStatus, Terminal, stepVars
  <1>5. CASE StartSingle \/ SingleDone \/ StartWaves \/ NextWave \/ Synthesise
    BY <1>5
    DEF StartSingle, SingleDone, StartWaves, NextWave, Synthesise, WaveOver, Counted, Row,
        TaskStatus, Active, stepVars
  <1>6. CASE WavesOver
    <2>1. UNCHANGED counter
      BY <1>6 DEF WavesOver
    <2>2. CASE \E why : Raised(why)
      BY <2>1, <2>2, RaisedCounted DEF Counted
    <2>3. CASE UNCHANGED <<row, attempt>> /\ pc' \in {"satisfaction", "synthesis"}
      BY <2>1, <2>3 DEF Counted
    <2>. QED  BY <1>6, <2>2, <2>3 DEF WavesOver
  <1>7. CASE PipelineRaises
    BY <1>7, RaisedCounted DEF PipelineRaises, Counted, stepVars
  <1>8. ASSUME NEW s \in Steps, Step(s) PROVE Counted'
    <2>1. UNCHANGED <<row, pc, attempt>> /\ counter' \in {counter, counter + 1}
      BY <1>8 DEF Step, ExecutorReturns, StepRaises, CheckDrift, VerifyStep, StepFrame
    <2>. QED  BY <2>1 DEF Counted
  <1>9. CASE Cancel \/ Disconnect
    BY <1>9 DEF Cancel, Disconnect, Counted, stepVars
  <1>10. CASE UNCHANGED vars
    BY <1>10 DEF vars, Counted
  <1>. QED  BY <1>1, <1>2, <1>3, <1>4, <1>5, <1>6, <1>7, <1>8, <1>9, <1>10 DEF Next, Pipeline

-----------------------------------------------------------------------------
(* The theorems.                                                           *)

(* The type of the state: rows only hold statuses of the table, and the    *)
(* retry loop of process() ends at its last attempt.                       *)
THEOREM PlanTypes == Spec => []TypeOK
  <1>1. Init => Counted
    BY PlanExecutionAssumption DEF Init, Counted, Row
  <1>2. IInv /\ Counted => TypeOK
    BY DEF IInv, Typed, Counted, TypeOK
  <1>. QED  BY <1>1, <1>2, Invariant, NextCounted, PTL DEF Spec

(* A subtask of any plan starts only when every subtask it depends on has  *)
(* ended, so that their results are part of its context: _wave_levels()    *)
(* orders the steps, and gather() ends each wave.                          *)
THEOREM DependenciesFirst == Spec => []StepsRunAfterDependencies
  <1>1. IInv => StepsRunAfterDependencies
    BY DEF IInv
  <1>. QED  BY <1>1, Invariant, PTL

(* A planned task implements Dag, for plans of any size: in the plan in    *)
(* force each subtask begins when all it depends on have ended, begins and *)
(* ends once, and neither a gate that has the plan made again nor the      *)
(* retry of process() replaces a plan of which something still runs.       *)
THEOREM PlanKeepsOrder == Spec => ImplementsDag
  <1>. QED  BY InitOrder, NextOrder, Invariant, PTL DEF Spec, ImplementsDag, Order!Spec

(* process() records COMPLETED only when no gate of the critic rejected    *)
(* the task and every one of several steps is completed, and however a     *)
(* plan of several steps ends, none of its rows stays active.              *)
THEOREM Outcome == Spec => []OutcomeMatchesSteps
  <1>1. IInv => OutcomeMatchesSteps
    BY DEF IInv
  <1>. QED  BY <1>1, Invariant, PTL

(* A plan that validate_anchor_structure or validate_plan blocked has not  *)
(* been run at all.                                                        *)
THEOREM RejectedNotRun == Spec => []RejectedPlanNotRun
  <1>1. IInv => RejectedPlanNotRun
    BY DEF IInv
  <1>. QED  BY <1>1, Invariant, PTL
=============================================================================
