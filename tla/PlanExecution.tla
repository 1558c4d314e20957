--------------------------- MODULE PlanExecution ---------------------------
(***************************************************************************)
(* One planned task: the second half of Orchestrator._execute_task         *)
(* (app/core/orchestrator.py), from decomposition through the critic's     *)
(* gates and the waves of subtasks to the synthesis, inside the caller     *)
(* that decides what is recorded in the end: process(), for a chat         *)
(* request, or _run_background(), for a task a monitor submitted.          *)
(*                                                                         *)
(* A verdict of the critic is reduced to what the code does with it:       *)
(* "block" and "revise" are verdicts at or above ACCEPT_THRESHOLD, "pass"  *)
(* is every other one.  The tool calls inside a step are the executor's.   *)
(***************************************************************************)
EXTENDS Naturals, FiniteSetsExt, TaskStore

CONSTANTS
  Callers,      \* which callers are considered
  MaxSteps,     \* bound: subtasks of a plan
  CRITIC_K,     \* a drift check every so many executed steps, 5 in the code
  MaxRetries,   \* max_retries of process(), 3 in the code
  LostClass     \* class of the exception a lost inference connection raises

ASSUME PlanExecutionAssumption ==
  /\ Callers \subseteq {"chat", "background"}
  /\ {MaxSteps, CRITIC_K, MaxRetries} \subseteq Nat \ {0}
  /\ LostClass \in {"httpx.ConnectError", "aiohttp.ClientConnectorError"}

(* What PlannerAgent.decompose returns: the dependencies of each subtask.  *)
(* A reference that does not name an earlier step of the plan is dropped,  *)
(* and an unusable answer becomes the one-step plan.                       *)
Plans ==
  UNION {{d \in [1..n -> SUBSET (1..n)] : \A i \in 1..n : d[i] \subseteq 1..(i - 1)}
           : n \in 1..MaxSteps}

VARIABLES
  caller,    \* "chat" or "background"
  goalTier,  \* what classify() and the path test say of the goal
  tier,      \* the tier the pipeline is working at
  plan,      \* the dependencies of the current subtasks
  row,       \* status of the task
  step,      \* status of each subtask
  run,       \* where each subtask's coroutine is suspended
  res,       \* results: nothing yet, a text, or the class of an exception
  pc,        \* what the pipeline awaits
  wave,      \* the wave being gathered
  counter,   \* step_counter
  attempt,   \* the retry loop's attempt
  stop,      \* cancel_event.is_set()
  gate       \* history: the verdict the pipeline recorded on the task itself

vars == <<caller, goalTier, tier, plan, row, step, run, res, pc, wave,
          counter, attempt, stop, gate>>
setup == <<caller, goalTier>>
stepVars == <<step, run, res, wave, counter>>

Steps == DOMAIN plan

(* Mutant of Level: dependencies of dependencies are forgotten.            *)
Level_Flat == [i \in Steps |-> IF plan[i] = {} THEN 0 ELSE 1]

(* Depth of each subtask in the dependency graph.                          *)
Level ==
  LET depth[i \in Steps] ==
        IF plan[i] = {} THEN 0 ELSE 1 + Max({depth[j] : j \in plan[i]})
  IN  depth

WaveLevel(w) == {i \in Steps : Level[i] = w}

Dependents(s) == {t \in Steps : s \in plan[t]}

Fresh(d, v) == [i \in DOMAIN d |-> v]

Init ==
  /\ caller \in Callers
  /\ goalTier \in {"medium", "complex"}
  /\ tier = goalTier
  /\ plan = <<{}>>
  /\ row = Absent
  /\ step = Fresh(plan, Absent) /\ run = Fresh(plan, "idle") /\ res = Fresh(plan, "none")
  /\ pc = "new" /\ wave = 0 /\ counter = 0 /\ attempt = 1
  /\ stop = FALSE /\ gate = "none"

-----------------------------------------------------------------------------
(* The caller.                                                             *)

Return(status) == row' = status /\ pc' = "returned" /\ UNCHANGED attempt

(* An exception left the pipeline: why is "lost" for a lost inference      *)
(* connection.                                                             *)
Raised(why) ==
  \/ /\ caller = "chat" /\ why = "lost" /\ LostClass = "httpx.ConnectError"
     /\ attempt < MaxRetries
     /\ pc' = "backoff" /\ UNCHANGED <<row, attempt>>
  \/ /\ caller = "chat" /\ why = "lost" /\ LostClass = "httpx.ConnectError"
     /\ attempt = MaxRetries
     /\ Return("failed")
  \/ /\ ~(caller = "chat" /\ why = "lost" /\ LostClass = "httpx.ConnectError")
     /\ Return(IF caller = "chat" /\ stop THEN "cancelled" ELSE "failed")

(* process() writes IN_PROGRESS at once; submit() leaves the row PENDING   *)
(* until its coroutine is scheduled.                                       *)
Accept ==
  /\ pc = "new"
  /\ \/ caller = "chat" /\ row' = "in_progress" /\ pc' = "routing"
     \/ caller = "background" /\ row' = "pending" /\ pc' = "queued"
  /\ UNCHANGED <<setup, tier, plan, stepVars, attempt, stop, gate>>

RunBackground ==
  /\ pc = "queued"
  /\ row' = "in_progress" /\ pc' = "routing"
  /\ UNCHANGED <<setup, tier, plan, stepVars, attempt, stop, gate>>

(* cancel_session of the chat: nothing in the planned path is given the    *)
(* event.                                                                  *)
Cancel ==
  /\ caller = "chat" /\ pc \notin {"new", "returned", "gone"}
  /\ ~stop /\ stop' = TRUE
  /\ UNCHANGED <<setup, tier, plan, row, stepVars, pc, attempt, gate>>

(* The HTTP client goes away: the request is cancelled where it is         *)
(* suspended, the gathered steps with it.  No handler of process() catches *)
(* that, so no row is written any more.                                    *)
Disconnect ==
  /\ caller = "chat" /\ pc \notin {"new", "returned", "gone"}
  /\ pc' = "gone"
  /\ run' = [i \in Steps |-> IF run[i] = "idle" THEN "idle" ELSE "done"]
  /\ UNCHANGED <<setup, tier, plan, row, step, res, wave, counter, attempt, stop, gate>>

(* Mutant of Retry: the attempt is not counted.                            *)
Retry_Uncounted ==
  /\ pc = "backoff" /\ pc' = "routing"
  /\ UNCHANGED <<setup, tier, plan, row, stepVars, attempt, stop, gate>>

Retry ==
  /\ pc = "backoff"
  /\ attempt' = attempt + 1 /\ pc' = "routing"
  /\ UNCHANGED <<setup, tier, plan, row, stepVars, stop, gate>>

(* The generator ended without an exception: process() keeps a terminal    *)
(* status the pipeline recorded, _run_background() does not look.  The     *)
(* pipeline's own record was committed, and is seen, before this.          *)
Close ==
  /\ pc = "closing"
  /\ Return(IF caller = "chat" THEN Closed(row) ELSE "completed")
  /\ UNCHANGED <<setup, tier, plan, stepVars, stop, gate>>

-----------------------------------------------------------------------------
(* Planning and the gates before execution.                                *)

(* The connectivity probe is over: _execute_task starts from nothing.      *)
Route ==
  /\ pc = "routing"
  /\ tier' = goalTier /\ row' = "planning" /\ pc' = "planning"
  /\ counter' = 0 /\ wave' = 0 /\ gate' = "none"
  /\ UNCHANGED <<setup, plan, step, run, res, attempt, stop>>

(* New Task objects, none of which has a row yet.                          *)
Decompose(from, to) ==
  /\ pc = from /\ pc' = to
  /\ \E d \in Plans :
       /\ plan' = d
       /\ step' = Fresh(d, Absent) /\ run' = Fresh(d, "idle") /\ res' = Fresh(d, "none")
  /\ UNCHANGED <<setup, tier, row, wave, counter, attempt, stop, gate>>

(* update_status(task, s) followed by a return of the generator.           *)
Record(s) ==
  /\ row' = s /\ gate' = s /\ pc' = "closing"
  /\ UNCHANGED <<setup, plan, stepVars, attempt, stop>>

(* Run the steps of wave w: the whole wave is handed to gather().          *)
Start(w) ==
  /\ wave' = w
  /\ run' = [i \in Steps |-> IF i \in WaveLevel(w) THEN "executing" ELSE run[i]]

(* Where a structurally sound anchor leads.                                *)
AnchorAccepted(t) ==
  pc' = IF Cardinality(Steps) > 1 /\ t = "complex" THEN "validating" ELSE "running"

(* validate_anchor_structure, first time.  A revision only replaces the    *)
(* success criteria.                                                       *)
ValidateAnchor(verdict) ==
  /\ pc = "anchor"
  /\ \/ /\ verdict # "block" /\ AnchorAccepted(tier)
        /\ UNCHANGED <<setup, tier, plan, row, stepVars, attempt, stop, gate>>
     \/ /\ verdict = "block" /\ tier = "medium"
        /\ tier' = "complex" /\ pc' = "replanning"
        /\ UNCHANGED <<setup, plan, row, stepVars, attempt, stop, gate>>
     \/ /\ verdict = "block" /\ tier = "complex"
        /\ Record("invalid_plan") /\ UNCHANGED tier

(* Re-decomposition after a blocked anchor.                                *)
Replan ==
  \/ Decompose("replanning", "anchor again")
  \/ /\ pc = "replanning"
     /\ Record("invalid_plan") /\ UNCHANGED tier

ValidateAnchorAgain(verdict) ==
  /\ pc = "anchor again"
  /\ \/ /\ verdict # "block" /\ AnchorAccepted(tier)
        /\ UNCHANGED <<setup, tier, plan, row, stepVars, attempt, stop, gate>>
     \/ verdict = "block" /\ Record("invalid_plan") /\ UNCHANGED tier

(* validate_plan, for a complex plan of several steps.                     *)
ValidatePlan(verdict) ==
  /\ pc = "validating"
  /\ \/ /\ verdict = "pass" /\ pc' = "running"
        /\ UNCHANGED <<setup, tier, plan, row, stepVars, attempt, stop, gate>>
     \/ /\ verdict = "revise" /\ pc' = "revising"
        /\ UNCHANGED <<setup, tier, plan, row, stepVars, attempt, stop, gate>>
     \/ /\ verdict = "block" /\ Record("invalid_plan") /\ UNCHANGED tier

(* The plan made from the critic's feedback is not validated again.        *)
Revise == Decompose("revising", "running")

-----------------------------------------------------------------------------
(* Execution.                                                              *)

(* One subtask: its row is saved and never written again.                  *)
StartSingle ==
  /\ pc = "running" /\ Cardinality(Steps) = 1
  /\ step' = Fresh(plan, "pending") /\ pc' = "single"
  /\ UNCHANGED <<setup, tier, plan, row, run, res, wave, counter, attempt, stop, gate>>

SingleDone ==
  /\ pc = "single" /\ pc' = "closing"
  /\ UNCHANGED <<setup, tier, plan, row, stepVars, attempt, stop, gate>>

(* Several: all rows are saved, and the first wave is started.             *)
StartWaves ==
  /\ pc = "running" /\ Cardinality(Steps) > 1
  /\ row' = "in_progress" /\ pc' = "waves"
  /\ Start(0)
  /\ step' = [i \in Steps |-> IF i \in WaveLevel(0) THEN "in_progress" ELSE "pending"]
  /\ UNCHANGED <<setup, tier, plan, res, counter, attempt, stop, gate>>

StepFrame == UNCHANGED <<setup, tier, plan, row, pc, wave, attempt, stop, gate>>

(* A coroutine of the wave ends: r is its return value or its exception.   *)
EndStep(s, r) ==
  /\ run' = [run EXCEPT ![s] = "done"]
  /\ res' = [res EXCEPT ![s] = r]

CompleteStep(s) == EndStep(s, "text") /\ step' = UpdateStatus(step, s, "completed")

ExecutorReturns(s) ==
  /\ run[s] = "executing"
  /\ run' = [run EXCEPT ![s] = "verifying"]
  /\ counter' = counter + 1
  /\ UNCHANGED <<step, res>> /\ StepFrame

(* The executor, or a call of the critic, raises.                          *)
StepRaises(s) ==
  /\ run[s] \in {"executing", "verifying", "checking", "rechecking"}
  /\ \E r \in {"error", "lost"} : EndStep(s, r)
  /\ UNCHANGED <<step, counter>> /\ StepFrame

(* verify_step.  A revision is a block when another step depends on this   *)
(* one.  The drift check is due by the counter as the other steps of the   *)
(* wave left it meanwhile, or when a high-risk tool ran.                   *)
VerifyStep(s, verdict) ==
  /\ run[s] = "verifying"
  /\ IF verdict = "block" \/ (verdict = "revise" /\ Dependents(s) # {})
     THEN EndStep(s, "blocked") /\ step' = UpdateStatus(step, s, "goal_not_satisfied")
     ELSE \E highRisk \in BOOLEAN :
            IF tier = "complex" /\ (counter % CRITIC_K = 0 \/ highRisk)
            THEN run' = [run EXCEPT ![s] = "checking"] /\ UNCHANGED <<step, res>>
            ELSE CompleteStep(s)
  /\ UNCHANGED counter /\ StepFrame

(* quick_anchor_check, and a second one when the first is "suspect".       *)
CheckDrift(s) ==
  /\ run[s] \in {"checking", "rechecking"}
  /\ \/ CompleteStep(s)
     \/ EndStep(s, "blocked") /\ UNCHANGED step
     \/ /\ run[s] = "checking"
        /\ run' = [run EXCEPT ![s] = "rechecking"] /\ UNCHANGED <<step, res>>
  /\ UNCHANGED counter /\ StepFrame

WaveOver == pc = "waves" /\ \A s \in WaveLevel(wave) : run[s] = "done"

(* Whatever the results of a wave, exceptions included, the next one runs. *)
NextWave ==
  /\ WaveOver /\ WaveLevel(wave + 1) # {}
  /\ Start(wave + 1)
  /\ step' = [i \in Steps |-> IF i \in WaveLevel(wave + 1) THEN "in_progress" ELSE step[i]]
  /\ UNCHANGED <<setup, tier, plan, row, pc, res, counter, attempt, stop, gate>>

Failed == {i \in Steps : res[i] \in {"blocked", "error", "lost"}}

(* Mutant of WavesOver: the rows of the steps that raised are left alone.  *)
WavesOver_RowsKept ==
  /\ WaveOver /\ WaveLevel(wave + 1) = {}
  /\ \/ Failed # {} /\ Raised(res[Min(Failed)])
     \/ /\ Failed = {} /\ UNCHANGED <<row, attempt>>
        /\ pc' = IF tier = "complex" THEN "satisfaction" ELSE "synthesis"
  /\ UNCHANGED <<setup, tier, plan, stepVars, stop, gate>>

(* After the last wave: the steps that raised are FAILED, and the first of *)
(* their exceptions is raised.                                             *)
WavesOver ==
  /\ WaveOver /\ WaveLevel(wave + 1) = {}
  /\ step' = [i \in Steps |-> IF i \in Failed THEN "failed" ELSE step[i]]
  /\ \/ Failed # {} /\ Raised(res[Min(Failed)])
     \/ /\ Failed = {} /\ UNCHANGED <<row, attempt>>
        /\ pc' = IF tier = "complex" THEN "satisfaction" ELSE "synthesis"
  /\ UNCHANGED <<setup, tier, plan, run, res, wave, counter, stop, gate>>

(* validate_anchor_satisfaction: a block is recorded, the synthesis runs   *)
(* all the same.                                                           *)
ValidateSatisfaction(verdict) ==
  /\ pc = "satisfaction" /\ pc' = "synthesis"
  /\ IF verdict = "block"
     THEN row' = "goal_not_satisfied" /\ gate' = "goal_not_satisfied"
     ELSE UNCHANGED <<row, gate>>
  /\ UNCHANGED <<setup, tier, plan, stepVars, attempt, stop>>

Synthesise ==
  /\ pc = "synthesis" /\ pc' = "closing"
  /\ UNCHANGED <<setup, tier, plan, row, stepVars, attempt, stop, gate>>

(* Any other await of the pipeline raises.                                 *)
PipelineRaises ==
  /\ pc \in {"planning", "anchor", "anchor again", "validating", "revising",
             "single", "satisfaction", "synthesis"}
  /\ \E why \in {"error", "lost"} : Raised(why)
  /\ UNCHANGED <<setup, tier, plan, stepVars, stop, gate>>

Verdict == {"pass", "revise", "block"}

Step(s) ==
  \/ ExecutorReturns(s) \/ StepRaises(s) \/ CheckDrift(s)
  \/ \E v \in Verdict : VerifyStep(s, v)

Pipeline ==
  \/ Accept \/ RunBackground \/ Retry \/ Close \/ Route
  \/ Decompose("planning", "anchor")
  \/ \E v \in Verdict :
       ValidateAnchor(v) \/ ValidateAnchorAgain(v) \/ ValidatePlan(v) \/ ValidateSatisfaction(v)
  \/ Replan \/ Revise \/ StartSingle \/ SingleDone \/ StartWaves
  \/ NextWave \/ WavesOver \/ Synthesise \/ PipelineRaises
  \/ \E s \in Steps : Step(s)

Next == Pipeline \/ Cancel \/ Disconnect

(* Every await of the pipeline has a time limit, so it is resumed.         *)
Spec == Init /\ [][Next]_vars /\ WF_vars(Pipeline)
-----------------------------------------------------------------------------
(***************************************************************************)
(* Properties                                                              *)
(***************************************************************************)

(* The types of the variables.                                             *)
TypeOK ==
  /\ row \in Row
  /\ plan \in Plans
  /\ step \in [Steps -> Row]
  /\ run \in [Steps -> {"idle", "executing", "verifying", "checking", "rechecking", "done"}]
  /\ res \in [Steps -> {"none", "text", "blocked", "error", "lost"}]
  /\ attempt \in 1..MaxRetries
  /\ counter \in Nat

(* The waves of _wave_levels(): a step starts only when each step it       *)
(* depends on has ended, so that its result is part of the step's context. *)
StepsRunAfterDependencies ==
  \A s \in Steps : run[s] # "idle" => \A d \in plan[s] : res[d] # "none"

(* The promise of Dag: over gates that replace the plan, a retry of the    *)
(* whole task and a client that goes away, every step of the plan in force *)
(* waits for the steps it depends on and runs at most once, and no step of *)
(* a plan that was replaced is still running.                              *)
Begun == {s \in Steps : run[s] # "idle"}
Ended == {s \in Steps : run[s] = "done"}

Order == INSTANCE Dag WITH deps <- plan, begun <- Begun, ended <- Ended
ImplementsDag == Order!Spec

(* The outcome of a task and the rows of its steps agree: a chat task is   *)
(* recorded as completed only if no gate rejected it and every one of      *)
(* several steps was completed, and however a plan of several steps ends,  *)
(* no row of it stays active.                                              *)
OutcomeMatchesSteps ==
  /\ caller = "chat" /\ pc = "returned" /\ row = "completed" =>
       /\ gate = "none"
       /\ Cardinality(Steps) > 1 => \A s \in Steps : step[s] = "completed"
  /\ pc \in {"returned", "backoff"} /\ Cardinality(Steps) > 1 =>
       \A s \in Steps : step[s] \notin Active

(* A rejected plan was not run: no step of it has even a row.              *)
RejectedPlanNotRun ==
  gate = "invalid_plan" => \A s \in Steps : run[s] = "idle" /\ step[s] = Absent

(* INVALID_PLAN, GOAL_NOT_SATISFIED and the other terminal statuses are    *)
(* terminal: a task does not leave them.                                   *)
TerminalIsFinal == [][(row \in Terminal) => (row' = row)]_row

(* Every task the orchestrator accepted gets its outcome, unless its       *)
(* client went away.                                                       *)
TaskEnds == pc = "new" ~> pc = "gone" \/ (pc = "returned" /\ row \in Terminal)
=============================================================================
