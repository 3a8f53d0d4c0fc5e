----------------------------- MODULE PlanExecution -----------------------------
(***************************************************************************)
(* A goal worked off as a plan: PlanningOrchestrator.orchestrate of        *)
(* core/orchestrator/planning.py, with the plans of plan_think and         *)
(* replan_think (core/orchestrator/thinking/provider.py) and the waves of  *)
(* ExecutionPlan.compute_execution_order (core/orchestrator/models.py).    *)
(*                                                                         *)
(* The steps of a wave are tasks of one asyncio.gather and end in any      *)
(* order; between two awaits the orchestrator runs alone.  A plan is what  *)
(* the LLM answers: its dependencies may be circular or name no step, and  *)
(* neither place checks.  What a step does is left out: it ends, and it    *)
(* did or did not do its work (a raised exception is a failure).           *)
(***************************************************************************)
EXTENDS Integers, FiniteSets

CONSTANTS
    Step,          \* the ids plans give their steps
    Plan,          \* the plans the LLM may answer, the one-step fallback included
    ReplanLimits,  \* values of MAX_REPLANS
    MaxRounds      \* bound: from this round on, plans are acyclic

ASSUME PlanAssumption ==
    /\ IsFiniteSet(Step)
    /\ Plan \subseteq [steps : (SUBSET Step) \ {{}},
                       deps : [Step -> SUBSET Step],
                       critical : SUBSET Step]
    /\ ReplanLimits \subseteq Nat
    /\ MaxRounds \in Nat \ {0}

VARIABLES
    pc,          \* where orchestrate stands
    limit,       \* MAX_REPLANS of this instance
    plan,        \* the current plan
    planStatus,  \* plan.status
    status,      \* step.status, of the current plan's steps
    placed,      \* the steps of the waves begun so far
    answer,      \* what the tasks of the current wave returned
    input,       \* per step: the dependency results it was given, by round
    known,       \* the results in the context (step_result.<id>), by round
    replans,     \* replan_count of this call of orchestrate
    rounds,      \* history: plans made from the goal alone
    cancel,      \* cancel_event is set
    outcome      \* how the goal ended

tasks == <<status, answer, input>>
vars == <<pc, limit, plan, planStatus, tasks, placed, known, replans, rounds, cancel,
          outcome>>

Place == {"idle", "planning", "waves", "gather", "replanning", "revised", "synthesis",
          "done"}

TypeOK ==
    /\ pc \in Place
    /\ limit \in ReplanLimits
    /\ plan \in Plan
    /\ planStatus \in {"pending", "executing", "completed", "failed", "cancelled"}
    /\ status \in [Step -> {"pending", "running", "completed", "failed"}]
    /\ placed \in SUBSET Step
    /\ answer \in [Step -> {"none", "success", "failure"}]
    /\ input \in [Step -> [Step -> 0..rounds]]
    /\ known \in [Step -> 0..rounds]
    /\ replans \in 0..limit
    /\ rounds \in Nat
    /\ cancel \in BOOLEAN
    /\ outcome \in {"none", "success", "failed", "cancelled", "raised"}

Init ==
    /\ pc = "idle"
    /\ limit \in ReplanLimits
    /\ plan \in Plan
    /\ planStatus = "pending"
    /\ status = [s \in Step |-> "pending"]
    /\ placed = {}
    /\ answer = [s \in Step |-> "none"]
    /\ input = [s \in Step |-> [d \in Step |-> 0]]
    /\ known = [s \in Step |-> 0]
    /\ replans = 0
    /\ rounds = 0
    /\ cancel = FALSE
    /\ outcome = "none"

-----------------------------------------------------------------------------
End(how) == pc' = "done" /\ outcome' = how

\* Every set of steps has one that depends on none of the set.
Acyclic(p) ==
    \A S \in SUBSET p.steps : S # {} => \E s \in S : p.deps[s] \cap S = {}

\* The in-degree of a step has come down to zero; a dependency that is not a
\* step of the plan does not count.  (Fault: one dependency is enough.)
ReadyWithOne(s) ==
    LET before == plan.deps[s] \cap plan.steps IN
    before = {} \/ before \cap placed # {}
Ready(s) == plan.deps[s] \cap plan.steps \subseteq placed

\* The next wave of execution_order, empty after the last one.
NextWave == {s \in plan.steps \ placed : Ready(s)}

\* The cancel event, which is looked at before every wave.
Cancelled == cancel

\* gather returns.  (Fault: it waits for tasks that were never made.)
AllAnswered == \A s \in plan.steps : answer[s] # "none"
WaveAnswered == \A s \in plan.steps : status[s] = "running" => answer[s] # "none"

\* context.set of the results.  (Fault: a result that is there already stays.)
KeepOld(done) ==
    known' = [s \in Step |-> IF s \in done /\ known[s] = 0 THEN rounds ELSE known[s]]
Remember(done) == known' = [s \in Step |-> IF s \in done THEN rounds ELSE known[s]]

ReplansLeft == replans < limit

\* A plan in execution with steps that no wave reached.  (Fault: not looked at.)
NeverRestart == FALSE
MustRestart == planStatus = "executing" /\ \E s \in plan.steps : status[s] = "pending"

Completed == {s \in plan.steps : status[s] = "completed"}

\* What plan_think may answer.
PlanThink == {p \in Plan : rounds + 1 < MaxRounds \/ Acyclic(p)}

\* The statuses in a plan p of replan_think: a step with the id of a completed
\* one is taken to be completed.
CarriedOver(p) ==
    [s \in Step |-> IF s \in Completed \cap p.steps THEN "completed" ELSE "pending"]

-----------------------------------------------------------------------------
(* orchestrate is called; without agents it returns at once. *)
Begin ==
    /\ pc = "idle"
    /\ \/ pc' = "planning" /\ UNCHANGED outcome
       \/ End("failed")
    /\ UNCHANGED <<limit, plan, planStatus, tasks, placed, known, replans, rounds, cancel>>

(* The user asks for cancellation. *)
Cancel ==
    /\ pc # "done"
    /\ ~cancel
    /\ cancel' = TRUE
    /\ UNCHANGED <<pc, limit, plan, planStatus, tasks, placed, known, replans, rounds,
                   outcome>>

(* plan_think answers with a plan, or the LLM call raises. *)
MakePlan ==
    /\ pc = "planning"
    /\ \/ /\ plan' \in PlanThink
          /\ planStatus' = "executing"
          /\ status' = [s \in Step |-> "pending"]
          /\ placed' = {}
          /\ rounds' = rounds + 1
          /\ replans' = 0
          /\ pc' = "waves"
          /\ UNCHANGED outcome
       \/ /\ End("raised")
          /\ UNCHANGED <<plan, planStatus, status, placed, rounds, replans>>
    /\ UNCHANGED <<limit, answer, input, known, cancel>>

(* The next wave: a task for each of its steps that is not completed.  Each  *)
(* reads the results of its dependencies from the context as it starts.    *)
StartWave ==
    /\ pc = "waves"
    /\ NextWave # {}
    /\ ~Cancelled
    /\ LET wave == {s \in NextWave : status[s] # "completed"} IN
       /\ status' = [s \in Step |-> IF s \in wave THEN "running" ELSE status[s]]
       /\ answer' = [s \in Step |-> "none"]
       /\ input' = [s \in Step |->
                       IF s \in wave
                          THEN [d \in Step |-> IF d \in plan.deps[s] THEN known[d] ELSE 0]
                          ELSE input[s]]
    /\ placed' = placed \cup NextWave
    /\ pc' = "gather"
    /\ UNCHANGED <<limit, plan, planStatus, known, replans, rounds, cancel, outcome>>

CancelWave ==
    /\ pc = "waves"
    /\ NextWave # {}
    /\ Cancelled
    /\ planStatus' = "cancelled"
    /\ End("cancelled")
    /\ UNCHANGED <<limit, plan, tasks, placed, known, replans, rounds, cancel>>

StepEnds(s) ==
    /\ pc = "gather"
    /\ status[s] = "running"
    /\ answer[s] = "none"
    /\ \E a \in {"success", "failure"} : answer' = [answer EXCEPT ![s] = a]
    /\ UNCHANGED <<pc, limit, plan, planStatus, status, input, placed, known, replans,
                   rounds, cancel, outcome>>

(* gather has returned: the answers are taken up, and a critical failure    *)
(* asks for a new plan or ends the goal.                                   *)
EndWave ==
    /\ pc = "gather"
    /\ WaveAnswered
    /\ LET ended == {s \in plan.steps : status[s] = "running"}
           done == {s \in ended : answer[s] = "success"}
           lost == (ended \ done) \cap plan.critical
       IN
       /\ status' = [s \in Step |-> IF s \in done THEN "completed"
                                    ELSE IF s \in ended THEN "failed" ELSE status[s]]
       /\ Remember(done)
       /\ \/ /\ lost = {}
             /\ pc' = "waves"
             /\ UNCHANGED <<planStatus, replans, outcome>>
          \/ /\ lost # {}
             /\ ReplansLeft
             /\ replans' = replans + 1
             /\ pc' = "replanning"
             /\ UNCHANGED <<planStatus, outcome>>
          \/ /\ lost # {}
             /\ ~ReplansLeft
             /\ planStatus' = "failed"
             /\ End("failed")
             /\ UNCHANGED replans
    /\ UNCHANGED <<limit, plan, answer, input, placed, rounds, cancel>>

(* replan_think answers with a new plan, whose steps of the same id stay     *)
(* completed and whose own status is the default, or with None.  The break *)
(* leaves the loop over the waves.                                         *)
Replan ==
    /\ pc = "replanning"
    /\ \/ /\ plan' \in Plan
          /\ planStatus' = "pending"
          /\ status' = CarriedOver(plan')
          /\ placed' = {}
          /\ pc' = "revised"
          /\ UNCHANGED outcome
       \/ /\ planStatus' = "failed"
          /\ End("failed")
          /\ UNCHANGED <<plan, status, placed>>
    /\ UNCHANGED <<limit, answer, input, known, replans, rounds, cancel>>

(* After the loop: start again from the goal, or the plan counts as          *)
(* completed and its results are put together by an LLM call if there are  *)
(* two of them.                                                            *)
AfterLoop ==
    /\ pc = "revised" \/ (pc = "waves" /\ NextWave = {})
    /\ \/ /\ MustRestart
          /\ pc' = "planning"
          /\ UNCHANGED <<planStatus, outcome>>
       \/ /\ ~MustRestart
          /\ planStatus' = "completed"
          /\ IF Cardinality(Completed) > 1
                THEN pc' = "synthesis" /\ UNCHANGED outcome
                ELSE End("success")
    /\ UNCHANGED <<limit, plan, tasks, placed, known, replans, rounds, cancel>>

Synthesize ==
    /\ pc = "synthesis"
    /\ End("success") \/ End("raised")
    /\ UNCHANGED <<limit, plan, planStatus, tasks, placed, known, replans, rounds, cancel>>

Next ==
    \/ Begin \/ Cancel
    \/ MakePlan \/ StartWave \/ CancelWave \/ EndWave \/ Replan \/ AfterLoop \/ Synthesize
    \/ \E s \in Step : StepEnds(s)

Spec == Init /\ [][Next]_vars

(* The event loop keeps going, every LLM call returns or raises, and a step  *)
(* ends: its ReAct loop is bounded by the leash.                           *)
Fairness ==
    /\ WF_vars(MakePlan \/ StartWave \/ CancelWave \/ EndWave \/ Replan \/ AfterLoop
                  \/ Synthesize)
    /\ \A s \in Step : WF_vars(StepEnds(s))

FairSpec == Spec /\ Fairness
-----------------------------------------------------------------------------
\* Topological order: a step that has started finds every dependency the plan
\* knows behind it, completed or failed, whatever else runs beside it.
DependenciesFirst ==
    \A s \in plan.steps : status[s] \in {"running", "failed"} =>
        \A d \in plan.deps[s] \cap plan.steps : status[d] \in {"completed", "failed"}

\* A step is given the result of every dependency that this plan completed, and
\* never in its place one that an earlier plan left in the context.
InputsComplete ==
    \A s \in plan.steps : status[s] = "running" =>
        \A d \in plan.deps[s] \cap plan.steps :
            status[d] = "completed" => input[s][d] = rounds

\* A goal whose plan was never revised succeeds only when all its critical steps
\* are completed: not with a wave left out, and not past a failure.
SuccessIsEarned ==
    outcome = "success" /\ replans = 0 => plan.critical \cap plan.steps \subseteq Completed

\* Once the user has cancelled, no further step starts.
NoStartAfterCancel ==
    [][cancel => \A s \in Step : status'[s] = "running" => status[s] = "running"]_vars

\* A goal that was taken up ends, whatever the LLM plans, as long as it does not
\* answer circular plans for ever.
GoalEnds == (pc # "idle") ~> (pc = "done")

\* What happens to a revised plan (planning.py:312): "If we broke out for
\* replanning, re-execute with new plan", so a success has done its critical steps.
RevisedPlanIsExecuted ==
    outcome = "success" => plan.critical \cap plan.steps \subseteq Completed
=============================================================================
