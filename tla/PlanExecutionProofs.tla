-------------------------- MODULE PlanExecutionProofs --------------------------
(***************************************************************************)
(* Proofs about plans: the executor of the orchestrator, for every set of  *)
(* steps, every set of plans (circular ones too) and every MAX_REPLANS;    *)
(* then the saved plan with its rows and background tasks, for every set   *)
(* of graphs, handlers, executions and faults.                             *)
(***************************************************************************)
EXTENDS PlanExecution, SavedPlan, TLAPS

\* Steps run only while gather does, and only steps of the plan.
RunningInGather ==
    \A s \in Step : status[s] = "running" => pc = "gather" /\ s \in plan.steps

\* While the waves of a plan are worked off: a step is pending until its wave, a
\* result of this plan is in the context, and no critical step has failed.
InLoop ==
    pc \in {"waves", "gather"} =>
        /\ planStatus = "executing"
        /\ \A s \in plan.steps : s \in placed <=> status[s] # "pending"
        /\ \A s \in plan.steps : status[s] = "completed" => known[s] = rounds
        /\ \A s \in plan.critical \cap plan.steps : status[s] # "failed"

\* What the last stages of orchestrate start from.
AtTheEnd ==
    /\ pc \in {"replanning", "revised"} => replans > 0
    /\ pc = "synthesis" /\ replans = 0 => plan.critical \cap plan.steps \subseteq Completed
    /\ outcome # "none" => pc = "done"

IInv ==
    /\ TypeOK
    /\ DependenciesFirst
    /\ InputsComplete
    /\ SuccessIsEarned
    /\ RunningInGather
    /\ InLoop
    /\ AtTheEnd

-----------------------------------------------------------------------------
\* The parts of a plan.
LEMMA PlanType ==
    ASSUME NEW p \in Plan
    PROVE  /\ p.steps \subseteq Step
           /\ p.critical \subseteq Step
           /\ p.deps \in [Step -> SUBSET Step]
  BY PlanAssumption

LEMMA Initially == Init => IInv
<1> SUFFICES ASSUME Init PROVE IInv
  OBVIOUS
<1> USE DEF Init
<1>1. TypeOK
  <2>1. limit \in Nat /\ replans \in 0..limit
    BY PlanAssumption
  <2>2. input \in [Step -> [Step -> 0..rounds]] /\ known \in [Step -> 0..rounds]
    <3>1. 0 \in 0..rounds
      OBVIOUS
    <3> QED
      BY <3>1
  <2>3. /\ status \in [Step -> {"pending", "running", "completed", "failed"}]
        /\ answer \in [Step -> {"none", "success", "failure"}]
    OBVIOUS
  <2> QED
    BY <2>1, <2>2, <2>3 DEF TypeOK, Place
<1>2. \A s \in Step : status[s] = "pending"
  OBVIOUS
<1>3. DependenciesFirst /\ InputsComplete /\ RunningInGather
  <2>1. plan.steps \subseteq Step
    BY PlanType
  <2> QED
    BY <1>2, <2>1 DEF DependenciesFirst, InputsComplete, RunningInGather
<1>4. SuccessIsEarned /\ InLoop /\ AtTheEnd
  BY DEF SuccessIsEarned, InLoop, AtTheEnd
<1> QED
  BY <1>1, <1>3, <1>4 DEF IInv

\* A step that leaves the plan and its bookkeeping alone, and is outside the loop
\* over the waves before and after, has only the last stages to account for.
LEMMA Outside ==
    ASSUME IInv, TypeOK', SuccessIsEarned', AtTheEnd',
           UNCHANGED <<plan, tasks, rounds>>,
           pc # "gather",
           pc' \notin {"waves", "gather"}
    PROVE  IInv'
<1>1. DependenciesFirst' /\ InputsComplete'
  BY DEF IInv, DependenciesFirst, InputsComplete, tasks
<1>2. RunningInGather' /\ InLoop'
  BY DEF IInv, RunningInGather, InLoop, tasks
<1> QED
  BY <1>1, <1>2 DEF IInv

\* A plan none of whose steps has begun, or all of whose steps are completed or
\* pending, satisfies what is said of the steps under way.
LEMMA FreshPlan ==
    ASSUME plan' \in Plan,
           \A s \in Step : status'[s] \in {"pending", "completed"}
    PROVE  DependenciesFirst' /\ InputsComplete' /\ RunningInGather'
<1>1. plan'.steps \subseteq Step
  BY PlanType
<1> QED
  BY <1>1 DEF DependenciesFirst, InputsComplete, RunningInGather

LEMMA BeginSafe == IInv /\ Begin => IInv'
<1> SUFFICES ASSUME IInv, Begin PROVE IInv'
  OBVIOUS
<1> USE DEF Begin, End
<1>1. TypeOK'
  BY DEF IInv, TypeOK, Place, tasks
<1>2. SuccessIsEarned' /\ AtTheEnd'
  BY DEF IInv, SuccessIsEarned, AtTheEnd
<1> QED
  BY <1>1, <1>2, Outside

LEMMA CancelSafe == IInv /\ Cancel => IInv'
<1> SUFFICES ASSUME IInv, Cancel PROVE IInv'
  OBVIOUS
<1> USE DEF Cancel, tasks
<1>1. TypeOK'
  BY DEF IInv, TypeOK
<1>2. DependenciesFirst' /\ InputsComplete' /\ RunningInGather'
  BY DEF IInv, DependenciesFirst, InputsComplete, RunningInGather
<1>3. SuccessIsEarned' /\ InLoop' /\ AtTheEnd'
  BY DEF IInv, SuccessIsEarned, InLoop, AtTheEnd, Completed
<1> QED
  BY <1>1, <1>2, <1>3 DEF IInv

LEMMA MakePlanSafe == IInv /\ MakePlan => IInv'
<1> SUFFICES ASSUME IInv, MakePlan PROVE IInv'
  OBVIOUS
<1> USE DEF MakePlan, PlanThink
<1>1. CASE pc' = "waves"
  <2>1. /\ plan' \in Plan /\ planStatus' = "executing" /\ placed' = {}
        /\ status' = [s \in Step |-> "pending"]
        /\ rounds' = rounds + 1 /\ replans' = 0
        /\ UNCHANGED <<limit, answer, input, known, cancel, outcome>>
    BY <1>1 DEF End
  <2>2. TypeOK'
    <3>1. rounds' \in Nat /\ 0..rounds \subseteq 0..rounds'
      BY <2>1 DEF IInv, TypeOK
    <3>2. known' \in [Step -> 0..rounds'] /\ input' \in [Step -> [Step -> 0..rounds']]
      BY <2>1, <3>1 DEF IInv, TypeOK
    <3>3. limit' \in Nat /\ replans' \in 0..limit'
      BY <2>1, PlanAssumption DEF IInv, TypeOK
    <3> QED
      BY <1>1, <2>1, <3>1, <3>2, <3>3 DEF IInv, TypeOK, Place
  <2>3. DependenciesFirst' /\ InputsComplete' /\ RunningInGather'
    BY <2>1, FreshPlan
  <2>4. outcome' = "none"
    BY <2>1 DEF IInv, AtTheEnd, TypeOK
  <2>5. InLoop'
    BY <2>1, PlanType DEF InLoop
  <2>6. SuccessIsEarned' /\ AtTheEnd'
    BY <1>1, <2>4 DEF SuccessIsEarned, AtTheEnd
  <2> QED
    BY <2>2, <2>3, <2>5, <2>6 DEF IInv
<1>2. CASE pc' # "waves"
  <2>1. End("raised") /\ UNCHANGED <<limit, plan, planStatus, tasks, placed, known,
                                     rounds, replans, cancel>>
    BY <1>2 DEF tasks
  <2>2. TypeOK'
    BY <2>1 DEF IInv, TypeOK, Place, End, tasks
  <2>3. SuccessIsEarned' /\ AtTheEnd'
    BY <2>1 DEF SuccessIsEarned, AtTheEnd, End
  <2> QED
    BY <2>1, <2>2, <2>3, Outside DEF End
<1> QED
  BY <1>1, <1>2

LEMMA StartWaveSafe == IInv /\ StartWave => IInv'
<1> SUFFICES ASSUME IInv, StartWave PROVE IInv'
  OBVIOUS
<1> DEFINE wave == {s \in NextWave : status[s] # "completed"}
<1>1. /\ pc = "waves" /\ pc' = "gather"
      /\ status' = [s \in Step |-> IF s \in wave THEN "running" ELSE status[s]]
      /\ answer' = [s \in Step |-> "none"]
      /\ input' = [s \in Step |->
                      IF s \in wave
                         THEN [d \in Step |-> IF d \in plan.deps[s] THEN known[d] ELSE 0]
                         ELSE input[s]]
      /\ placed' = placed \cup NextWave
      /\ UNCHANGED <<limit, plan, planStatus, known, replans, rounds, cancel, outcome>>
  BY DEF StartWave
<1>2. /\ plan \in Plan /\ plan.steps \subseteq Step /\ plan.deps \in [Step -> SUBSET Step]
      /\ rounds \in Nat /\ outcome = "none"
  BY <1>1, PlanType DEF IInv, TypeOK, AtTheEnd
<1>3. /\ \A s \in plan.steps : s \in placed <=> status[s] # "pending"
      /\ \A s \in Step : status[s] # "running"
  BY <1>1 DEF IInv, InLoop, RunningInGather
<1>4. /\ NextWave \subseteq plan.steps
      /\ \A s \in NextWave : status[s] = "pending"
                             /\ plan.deps[s] \cap plan.steps \subseteq placed
      /\ \A s \in plan.steps \cap placed : s \notin NextWave
  BY <1>3 DEF NextWave, Ready
<1>5. wave = NextWave
  BY <1>4
<1>6. \A s \in Step : status'[s] = IF s \in NextWave THEN "running" ELSE status[s]
  BY <1>1, <1>5
<1>7. TypeOK'
  <2>1. status' \in [Step -> {"pending", "running", "completed", "failed"}]
    BY <1>1 DEF IInv, TypeOK
  <2>2. input' \in [Step -> [Step -> 0..rounds]]
    BY <1>1, <1>2 DEF IInv, TypeOK
  <2>3. placed' \in SUBSET Step
    BY <1>1, <1>2, <1>4 DEF IInv, TypeOK
  <2> QED
    BY <1>1, <2>1, <2>2, <2>3 DEF IInv, TypeOK, Place
<1>8. DependenciesFirst'
  <2> SUFFICES ASSUME NEW s \in plan.steps, status'[s] \in {"running", "failed"},
                      NEW d \in plan.deps[s] \cap plan.steps
               PROVE  status'[d] \in {"completed", "failed"}
    BY <1>1 DEF DependenciesFirst
  <2>1. status[d] \in {"completed", "failed"}
    <3>1. CASE s \in NextWave
      <4>1. status[d] # "pending" /\ status[d] # "running"
        BY <1>2, <1>3, <1>4, <3>1
      <4> QED
        BY <1>2, <4>1 DEF IInv, TypeOK
    <3>2. CASE s \notin NextWave
      BY <1>2, <1>3, <1>6, <3>2 DEF IInv, DependenciesFirst
    <3> QED
      BY <3>1, <3>2
  <2> QED
    BY <1>2, <1>4, <1>6, <2>1
<1>9. InputsComplete'
  <2> SUFFICES ASSUME NEW s \in plan.steps, status'[s] = "running",
                      NEW d \in plan.deps[s] \cap plan.steps, status'[d] = "completed"
               PROVE  input'[s][d] = rounds
    BY <1>1 DEF InputsComplete
  <2>1. s \in NextWave
    BY <1>2, <1>3, <1>6
  <2>2. status[d] = "completed"
    BY <1>2, <1>6
  <2>3. known[d] = rounds
    BY <1>1, <2>2 DEF IInv, InLoop
  <2>4. input'[s][d] = known[d]
    BY <1>1, <1>2, <1>5, <2>1
  <2> QED
    BY <2>3, <2>4
<1>10. RunningInGather'
  BY <1>1, <1>3, <1>4, <1>6 DEF RunningInGather
<1>11. InLoop'
  BY <1>1, <1>2, <1>3, <1>4, <1>6 DEF IInv, InLoop
<1>12. SuccessIsEarned' /\ AtTheEnd'
  BY <1>1, <1>2 DEF SuccessIsEarned, AtTheEnd
<1> QED
  BY <1>7, <1>8, <1>9, <1>10, <1>11, <1>12 DEF IInv

LEMMA CancelWaveSafe == IInv /\ CancelWave => IInv'
<1> SUFFICES ASSUME IInv, CancelWave PROVE IInv'
  OBVIOUS
<1> USE DEF CancelWave, End
<1>1. TypeOK'
  BY DEF IInv, TypeOK, Place, tasks
<1>2. SuccessIsEarned' /\ AtTheEnd'
  BY DEF SuccessIsEarned, AtTheEnd
<1> QED
  BY <1>1, <1>2, Outside

LEMMA StepEndsSafe == IInv /\ (\E s \in Step : StepEnds(s)) => IInv'
<1> SUFFICES ASSUME IInv, NEW r \in Step, StepEnds(r) PROVE IInv'
  OBVIOUS
<1>1. /\ \E a \in {"success", "failure"} : answer' = [answer EXCEPT ![r] = a]
      /\ UNCHANGED <<pc, limit, plan, planStatus, status, input, placed, known, replans,
                     rounds, cancel, outcome>>
  BY DEF StepEnds
<1>2. TypeOK'
  BY <1>1 DEF IInv, TypeOK
<1>3. DependenciesFirst' /\ InputsComplete' /\ RunningInGather'
  BY <1>1 DEF IInv, DependenciesFirst, InputsComplete, RunningInGather
<1>4. SuccessIsEarned' /\ InLoop' /\ AtTheEnd'
  BY <1>1 DEF IInv, SuccessIsEarned, InLoop, AtTheEnd, Completed
<1> QED
  BY <1>2, <1>3, <1>4 DEF IInv

LEMMA EndWaveSafe == IInv /\ EndWave => IInv'
<1> SUFFICES ASSUME IInv, EndWave PROVE IInv'
  OBVIOUS
<1> DEFINE ended == {s \in plan.steps : status[s] = "running"}
           done == {s \in ended : answer[s] = "success"}
           lost == (ended \ done) \cap plan.critical
<1>1. /\ pc = "gather"
      /\ status' = [s \in Step |-> IF s \in done THEN "completed"
                                   ELSE IF s \in ended THEN "failed" ELSE status[s]]
      /\ known' = [s \in Step |-> IF s \in done THEN rounds ELSE known[s]]
      /\ \/ lost = {} /\ pc' = "waves" /\ UNCHANGED <<planStatus, replans, outcome>>
         \/ /\ replans < limit /\ replans' = replans + 1 /\ pc' = "replanning"
            /\ UNCHANGED <<planStatus, outcome>>
         \/ planStatus' = "failed" /\ End("failed") /\ UNCHANGED replans
      /\ UNCHANGED <<limit, plan, answer, input, placed, rounds, cancel>>
  BY DEF EndWave, Remember, ReplansLeft
<1>2. /\ plan \in Plan /\ plan.steps \subseteq Step /\ plan.deps \in [Step -> SUBSET Step]
      /\ plan.critical \subseteq Step /\ rounds \in Nat /\ limit \in Nat /\ replans \in Nat
      /\ outcome = "none"
  BY <1>1, PlanType, PlanAssumption DEF IInv, TypeOK, AtTheEnd
<1>3. /\ \A s \in ended : s \in Step /\ status[s] = "running" /\ s \in plan.steps
      /\ \A s \in Step : status[s] = "running" => s \in ended
  BY <1>2 DEF IInv, RunningInGather
<1>4. /\ \A s \in done : status'[s] = "completed" /\ known'[s] = rounds
      /\ \A s \in ended \ done : status'[s] = "failed"
      /\ \A s \in Step \ ended : status'[s] = status[s] /\ status[s] # "running"
                                 /\ known'[s] = known[s]
  BY <1>1, <1>3
<1>5. TypeOK'
  <2>1. status' \in [Step -> {"pending", "running", "completed", "failed"}]
    BY <1>1 DEF IInv, TypeOK
  <2>2. known' \in [Step -> 0..rounds]
    BY <1>1, <1>2 DEF IInv, TypeOK
  <2>3. replans' \in 0..limit
    BY <1>1, <1>2 DEF IInv, TypeOK
  <2> QED
    BY <1>1, <2>1, <2>2, <2>3 DEF IInv, TypeOK, Place, End
<1>6. DependenciesFirst'
  <2> SUFFICES ASSUME NEW s \in plan.steps, status'[s] \in {"running", "failed"},
                      NEW d \in plan.deps[s] \cap plan.steps
               PROVE  status'[d] \in {"completed", "failed"}
    BY <1>1 DEF DependenciesFirst
  <2>1. status[s] \in {"running", "failed"}
    BY <1>2, <1>4
  <2>2. status[d] \in {"completed", "failed"}
    BY <2>1 DEF IInv, DependenciesFirst
  <2> QED
    BY <1>2, <1>3, <1>4, <2>2
<1>7. \A s \in Step : status'[s] # "running"
  BY <1>2, <1>4
<1>8. InputsComplete' /\ RunningInGather'
  BY <1>1, <1>2, <1>7 DEF InputsComplete, RunningInGather
<1>9. InLoop'
  <2> SUFFICES ASSUME pc' = "waves" PROVE InLoop'
    BY <1>1 DEF InLoop, End
  <2>1. lost = {} /\ planStatus' = "executing" /\ UNCHANGED <<plan, placed, rounds>>
    BY <1>1 DEF End, IInv, InLoop
  <2>2. \A s \in plan.steps : status'[s] = "pending" <=> status[s] = "pending"
    BY <1>2, <1>3, <1>4
  <2>3. \A s \in plan.steps : s \in placed <=> status'[s] # "pending"
    BY <1>1, <2>2 DEF IInv, InLoop
  <2>4. \A s \in plan.steps : status'[s] = "completed" => known'[s] = rounds
    BY <1>1, <1>2, <1>4 DEF IInv, InLoop
  <2>5. \A s \in plan.critical \cap plan.steps : status'[s] # "failed"
    BY <1>1, <1>2, <1>4, <2>1 DEF IInv, InLoop
  <2> QED
    BY <2>1, <2>3, <2>4, <2>5 DEF InLoop
<1>10. SuccessIsEarned' /\ AtTheEnd'
  BY <1>1, <1>2 DEF SuccessIsEarned, AtTheEnd, End
<1> QED
  BY <1>5, <1>6, <1>8, <1>9, <1>10 DEF IInv

LEMMA ReplanSafe == IInv /\ Replan => IInv'
<1> SUFFICES ASSUME IInv, Replan PROVE IInv'
  OBVIOUS
<1> USE DEF Replan, CarriedOver
<1>1. CASE pc' = "revised"
  <2>1. /\ plan' \in Plan /\ planStatus' = "pending" /\ placed' = {}
        /\ status' = [s \in Step |->
                         IF s \in Completed \cap plan'.steps THEN "completed" ELSE "pending"]
        /\ UNCHANGED <<limit, answer, input, known, replans, rounds, cancel, outcome>>
    BY <1>1 DEF End
  <2>2. TypeOK'
    BY <1>1, <2>1 DEF IInv, TypeOK, Place
  <2>3. DependenciesFirst' /\ InputsComplete' /\ RunningInGather'
    BY <2>1, FreshPlan
  <2>4. SuccessIsEarned' /\ InLoop' /\ AtTheEnd'
    BY <1>1, <2>1 DEF IInv, SuccessIsEarned, InLoop, AtTheEnd
  <2> QED
    BY <2>2, <2>3, <2>4 DEF IInv
<1>2. CASE pc' # "revised"
  <2>1. End("failed") /\ planStatus' = "failed"
        /\ UNCHANGED <<limit, plan, tasks, placed, known, rounds, replans, cancel>>
    BY <1>2 DEF tasks
  <2>2. TypeOK'
    BY <2>1 DEF IInv, TypeOK, Place, End, tasks
  <2>3. SuccessIsEarned' /\ AtTheEnd'
    BY <2>1 DEF SuccessIsEarned, AtTheEnd, End
  <2> QED
    BY <2>1, <2>2, <2>3, Outside DEF End
<1> QED
  BY <1>1, <1>2

LEMMA AfterLoopSafe == IInv /\ AfterLoop => IInv'
<1> SUFFICES ASSUME IInv, AfterLoop PROVE IInv'
  OBVIOUS
<1>1. /\ pc = "revised" \/ (pc = "waves" /\ NextWave = {})
      /\ pc' \in {"planning", "synthesis", "done"}
      /\ planStatus' \in {"completed", planStatus}
      /\ outcome' = "success" => pc' = "done"
      /\ outcome' \in {"success", outcome}
      /\ pc' = "done" => outcome' = "success"
      /\ pc' # "planning" => ~MustRestart
      /\ UNCHANGED <<limit, plan, tasks, placed, known, replans, rounds, cancel>>
  BY DEF AfterLoop, End, IInv, AtTheEnd
<1>2. outcome = "none"
  BY <1>1 DEF IInv, TypeOK, AtTheEnd
<1>3. TypeOK'
  BY <1>1 DEF IInv, TypeOK, Place, tasks
<1>4. pc' # "planning" /\ replans = 0 => plan.critical \cap plan.steps \subseteq Completed
  <2> SUFFICES ASSUME pc' # "planning", replans = 0, NEW s \in plan.critical \cap plan.steps
               PROVE  s \in Completed
    OBVIOUS
  <2>1. pc = "waves"
    BY <1>1 DEF IInv, AtTheEnd
  <2>2. planStatus = "executing" /\ status[s] # "failed"
    BY <2>1 DEF IInv, InLoop
  <2>3. status[s] # "pending"
    BY <1>1, <2>2 DEF MustRestart
  <2>4. s \in Step /\ status[s] # "running"
    BY <2>1, PlanType DEF IInv, TypeOK, RunningInGather
  <2> QED
    BY <2>2, <2>3, <2>4 DEF IInv, TypeOK, Completed
<1>5. SuccessIsEarned' /\ AtTheEnd'
  BY <1>1, <1>2, <1>4 DEF SuccessIsEarned, AtTheEnd, Completed, tasks
<1> QED
  BY <1>1, <1>3, <1>5, Outside

LEMMA SynthesizeSafe == IInv /\ Synthesize => IInv'
<1> SUFFICES ASSUME IInv, Synthesize PROVE IInv'
  OBVIOUS
<1> USE DEF Synthesize, End
<1>1. TypeOK'
  BY DEF IInv, TypeOK, Place, tasks
<1>2. SuccessIsEarned' /\ AtTheEnd'
  BY DEF IInv, SuccessIsEarned, AtTheEnd, Completed, tasks
<1> QED
  BY <1>1, <1>2, Outside

LEMMA StutterSafe == IInv /\ UNCHANGED vars => IInv'
  BY DEF IInv, TypeOK, DependenciesFirst, InputsComplete, SuccessIsEarned,
         RunningInGather, InLoop, AtTheEnd, Completed, vars, tasks

-----------------------------------------------------------------------------
\* The invariant of every behaviour.
THEOREM Inductive == Spec => []IInv
<1>1. IInv /\ [Next]_vars => IInv'
  BY BeginSafe, CancelSafe, MakePlanSafe, StartWaveSafe, CancelWaveSafe, StepEndsSafe,
     EndWaveSafe, ReplanSafe, AfterLoopSafe, SynthesizeSafe, StutterSafe DEF Next
<1> QED
  BY <1>1, Initially, PTL DEF Spec

\* The variables keep their types; in particular one call of orchestrate never
\* replans more than MAX_REPLANS times.
THEOREM TypeCorrect == Spec => []TypeOK
<1>1. IInv => TypeOK
  BY DEF IInv
<1> QED
  BY <1>1, Inductive, PTL

\* Whatever plan the LLM answers, a step starts only behind its dependencies.
THEOREM Topological == Spec => []DependenciesFirst
<1>1. IInv => DependenciesFirst
  BY DEF IInv
<1> QED
  BY <1>1, Inductive, PTL

\* A step is given this plan's result of each dependency that was completed.
THEOREM ResultsReachSteps == Spec => []InputsComplete
<1>1. IInv => InputsComplete
  BY DEF IInv
<1> QED
  BY <1>1, Inductive, PTL

\* An unrevised plan that counts as a success has done its critical steps, with
\* circular plans too.
THEOREM EarnedSuccess == Spec => []SuccessIsEarned
<1>1. IInv => SuccessIsEarned
  BY DEF IInv
<1> QED
  BY <1>1, Inductive, PTL

\* No step starts once the user has cancelled.
THEOREM CancellationHolds == Spec => NoStartAfterCancel
<1> DEFINE A == cancel => \A s \in Step : status'[s] = "running" => status[s] = "running"
<1>1. IInv /\ [Next]_vars => [A]_vars
  <2> SUFFICES ASSUME IInv, Next, cancel, NEW s \in Step, status'[s] = "running"
               PROVE  status[s] = "running"
    OBVIOUS
  <2>1. CASE MakePlan
    BY <2>1 DEF MakePlan
  <2>2. CASE EndWave
    BY <2>2 DEF EndWave
  <2>3. CASE Replan
    BY <2>3 DEF Replan, CarriedOver
  <2>4. CASE StartWave
    BY <2>4 DEF StartWave, Cancelled
  <2>5. CASE ~(MakePlan \/ EndWave \/ Replan \/ StartWave)
    BY <2>5 DEF Next, Begin, Cancel, CancelWave, AfterLoop, Synthesize, StepEnds, tasks
  <2> QED
    BY <2>1, <2>2, <2>3, <2>4, <2>5
<1> QED
  BY <1>1, Inductive, PTL DEF Spec, NoStartAfterCancel
-----------------------------------------------------------------------------
(***************************************************************************)
(* A saved plan and its executions.  The inductive invariant says of a     *)
(* task where its node is, why each node that was skipped was skipped, and *)
(* that a verdict of success means a whole plan, and what a transaction on *)
(* the row is going to write; of the database, that a row without its task *)
(* is gone with the plan, and that none is executing behind a task that    *)
(* is past its first commit.                                               *)
(***************************************************************************)
Whole(e) ==
    /\ Entries(e) = loaded[e].nodes
    /\ \A n \in loaded[e].nodes \ Dropped(loaded[e]) : results[e][n] = "completed"

\* All that n depends on was completed.
InputsCompleted(e, n) ==
    \A m \in loaded[e].nodes : <<m, n>> \in loaded[e].edges => results[e][m] = "completed"

AtItsNode(e) ==
    /\ stage[e] \notin {"agent", "done"} => at[e] = System
    /\ stage[e] = "agent" => at[e] \in loaded[e].nodes /\ results[e][at[e]] = "none"

NodesRunBehindInputs(e) ==
    \A n \in loaded[e].nodes :
        at[e] = n \/ results[e][n] \in Outcome => InputsCompleted(e, n)

\* While the nodes are worked off, results are of nodes of the plan, the nodes
\* of cycles are skipped, and any other is skipped behind one that failed.
SkipsExplained(e) ==
    stage[e] \in {"next", "agent", "entry"} =>
        /\ Entries(e) \subseteq loaded[e].nodes
        /\ \A n \in Dropped(loaded[e]) : results[e][n] = "skipped"
        /\ \A n \in Node \ Dropped(loaded[e]) : results[e][n] = "skipped" => Blocked(e, n)

SuccessIsWhole(e) ==
    /\ stage[e] \in {"result", "row"} /\ Judged(e) = "completed" => Whole(e)
    /\ row[e] = "completed" =>
          /\ stage[e] \in {"plan", "mark", "done"}
          /\ Whole(e)
          /\ stored[e] = loaded[e].nodes \/ e \in overtaken

\* A transaction on the row writes a status in the end only; and what it does not
\* write then is in the row already, unless a reset put its own entry there.
WritesJudged(e) ==
    /\ stage[e] = "entry" => writes[e].status = Keep
    /\ stage[e] = "row" /\ row[e] # "none" =>
          /\ writes[e].status \in {Judged(e), Keep}
          /\ writes[e].status = Keep => row[e] = Judged(e)
          /\ writes[e].entries \in {Entries(e), Keep}
          /\ writes[e].entries = Keep => stored[e] = Entries(e) \/ e \in overtaken

TaskInv(e) ==
    /\ AtItsNode(e) /\ NodesRunBehindInputs(e) /\ SkipsExplained(e)
    /\ SuccessIsWhole(e) /\ WritesJudged(e)

RowInv(e) ==
    /\ stage[e] # "unused" /\ row[e] = "none" => ~Exists
    /\ stage[e] \in {"plan", "markPlan"} => row[e] # "executing"
    /\ row[e] = "executing" \/ (dbStatus = "executing" /\ setter = e) =>
          Active(e) \/ e \in forgotten

BareAreReset == \A r \in Request : call[r].bare \subseteq call[r].rows

SavedInv ==
    /\ SavedTypeOK
    /\ BareAreReset
    /\ \A e \in Exec : TaskInv(e) /\ RowInv(e)

-----------------------------------------------------------------------------
\* The nodes that cycles keep out of the order are the greatest set of nodes
\* that each have a predecessor in it.

LEMMA GraphType ==
    ASSUME NEW g \in Graph
    PROVE  g.nodes \subseteq Node /\ Dropped(g) \subseteq g.nodes
<1>1. g.nodes \subseteq Node
  BY SavedPlanAssumption
<1>2. Dropped(g) \subseteq g.nodes
  BY DEF Dropped
<1> QED
  BY <1>1, <1>2

LEMMA CyclesAreDropped ==
    ASSUME NEW g, NEW S \in SUBSET g.nodes,
           \A n \in S : \E m \in S : <<m, n>> \in g.edges
    PROVE  S \subseteq Dropped(g)
  BY DEF Dropped

\* When nothing is left to come next, every node has its result; and when none
\* of them failed, only the nodes of cycles were skipped.
LEMMA AllWorked ==
    ASSUME NEW e \in Exec, SavedTypeOK, SkipsExplained(e), stage[e] = "next",
           Available(e) = {}, Judged(e) = "completed"
    PROVE  Whole(e)
<1> DEFINE g == loaded[e]
           left == {n \in g.nodes : results[e][n] = "none"}
           skipped == {n \in g.nodes : results[e][n] = "skipped"}
<1>1. g \in Graph /\ g.nodes \subseteq Node /\ Dropped(g) \subseteq g.nodes
  BY GraphType DEF SavedTypeOK
<1>2. \A n \in left : \E m \in left : <<m, n>> \in g.edges
  BY DEF Available
<1>3. left \subseteq Dropped(g)
  BY <1>2, CyclesAreDropped
<1>4. left = {}
  BY <1>3 DEF SkipsExplained
<1>5. \A n \in Node : results[e][n] \notin {"failed", "degraded"}
  BY DEF Judged, Entry
<1>6. \A n \in skipped : \E m \in skipped : <<m, n>> \in g.edges
  <2> SUFFICES ASSUME NEW n \in skipped PROVE \E m \in skipped : <<m, n>> \in g.edges
    OBVIOUS
  <2>1. CASE n \in Dropped(g)
    <3>1. \E m \in Dropped(g) : <<m, n>> \in g.edges
      BY <2>1 DEF Dropped
    <3> QED
      BY <1>1, <3>1 DEF SkipsExplained
  <2>2. CASE n \notin Dropped(g)
    <3>1. PICK m \in FailedNodes(e) : <<m, n>> \in g.edges
      BY <1>1, <2>2 DEF SkipsExplained, Blocked
    <3>2. m \in Node /\ results[e][m] = "skipped" /\ m \in Entries(e)
      BY <1>5 DEF FailedNodes, Entries, Entry
    <3> QED
      BY <3>1, <3>2 DEF SkipsExplained
  <2> QED
    BY <2>1, <2>2
<1>7. skipped \subseteq Dropped(g)
  BY <1>6, CyclesAreDropped
<1>8. \A n \in g.nodes \ Dropped(g) : results[e][n] = "completed"
  BY <1>1, <1>4, <1>5, <1>7 DEF SavedTypeOK, Outcome, Entry
<1>9. Entries(e) = g.nodes
  BY <1>1, <1>4 DEF Entries, Entry, SkipsExplained
<1> QED
  BY <1>8, <1>9 DEF Whole

-----------------------------------------------------------------------------
\* Typing.

LEMMA IdleType ==
    Idle \in [op : {"none", "update", "delete", "reset", "execute"},
              seen : Status, status : Status \cup {Keep},
              graph : Graph \cup {Keep}, rows : SUBSET Exec, bare : SUBSET Exec]
  BY DEF Idle, Status

LEMMA ReadType == ASSUME SavedTypeOK, NEW r \in Request, Read(r) PROVE SavedTypeOK'
<1> DEFINE Calls == [op : {"none", "update", "delete", "reset", "execute"},
                     seen : Status, status : Status \cup {Keep},
                     graph : Graph \cup {Keep}, rows : SUBSET Exec, bare : SUBSET Exec]
<1>1. \E c \in Calls : call' = [call EXCEPT ![r] = c]
  <2>1. CASE ReadUpdate(r)
    <3>1. PICK s \in Settable \cup {Keep}, g \in Graph \cup {Keep} :
             call' = [call EXCEPT ![r] =
               [Idle EXCEPT !.op = "update", !.seen = dbStatus, !.status = s, !.graph = g]]
      BY <2>1 DEF ReadUpdate
    <3>2. dbStatus \in Status
      BY <2>1 DEF ReadUpdate, Exists, SavedTypeOK
    <3>3. [Idle EXCEPT !.op = "update", !.seen = dbStatus, !.status = s, !.graph = g] \in Calls
      BY <3>2, IdleType, SavedPlanAssumption
    <3> QED
      BY <3>1, <3>3
  <2>2. CASE ReadDelete(r)
    <3>1. [Idle EXCEPT !.op = "delete", !.rows = {e \in Exec : row[e] # "none"}] \in Calls
      BY IdleType
    <3> QED
      BY <2>2, <3>1 DEF ReadDelete
  <2>3. CASE ReadReset(r)
    <3>1. \A A \in SUBSET Exec, B \in SUBSET Exec :
             [Idle EXCEPT !.op = "reset", !.rows = A, !.bare = B] \in Calls
      BY IdleType
    <3> QED
      BY <2>3, <3>1 DEF ReadReset
  <2>4. CASE ReadExecute(r)
    <3>1. [Idle EXCEPT !.op = "execute"] \in Calls
      BY IdleType
    <3> QED
      BY <2>4, <3>1 DEF ReadExecute
  <2> QED
    BY <2>1, <2>2, <2>3, <2>4 DEF Read
<1> QED
  BY <1>1 DEF Read, SavedTypeOK, planColumns, rows, task, history

LEMMA HandlerType == ASSUME SavedTypeOK, NEW r \in Request, Handler(r) PROVE SavedTypeOK'
<1>1. CASE Read(r)
  BY <1>1, ReadType
<1>2. ASSUME Ends(r)
      PROVE  call' \in [Request -> [op : {"none", "update", "delete", "reset", "execute"},
                                    seen : Status, status : Status \cup {Keep},
                                    graph : Graph \cup {Keep},
                                    rows : SUBSET Exec, bare : SUBSET Exec]]
  BY <1>2, IdleType DEF Ends, SavedTypeOK
<1>3. CASE CommitUpdate(r)
  <2>1. dbStatus' \in Status \cup {"deleted"} /\ setter' \in Exec \cup {Nobody}
    BY <1>3 DEF CommitUpdate, WritePlan, SavedTypeOK
  <2>2. graph' \in Graph
    BY <1>3 DEF CommitUpdate, SavedTypeOK
  <2> QED
    BY <1>2, <1>3, <2>1, <2>2 DEF CommitUpdate, rows, task, history, SavedTypeOK
<1>4. CASE CommitDelete(r)
  BY <1>2, <1>4 DEF CommitDelete, WritePlan, task, history, SavedTypeOK
<1>5. CASE CommitReset(r)
  <2>1. stored' \in [Exec -> SUBSET Entry]
    BY <1>5 DEF CommitReset, Entry, SavedTypeOK
  <2>2. overtaken' \in SUBSET Exec
    BY <1>5 DEF CommitReset, SavedTypeOK
  <2> QED
    BY <1>2, <1>5, <2>1, <2>2 DEF CommitReset, WritePlan, Status, task, SavedTypeOK
<1>6. CASE CommitExecute(r)
  BY <1>2, <1>6 DEF CommitExecute, WritePlan, Goes, Status, history, SavedTypeOK
<1>7. CASE CommitFails(r)
  BY <1>2, <1>7 DEF CommitFails, planColumns, rows, task, history, SavedTypeOK
<1> QED
  BY <1>1, <1>3, <1>4, <1>5, <1>6, <1>7 DEF Handler

LEMMA ColumnsType ==
    ASSUME NEW s \in {"completed", "failed", Keep}, NEW S \in (SUBSET Entry) \cup {Keep}
    PROVE  [status |-> s, entries |-> S]
              \in [status : {"completed", "failed", Keep}, entries : (SUBSET Entry) \cup {Keep}]
  OBVIOUS

LEMMA EntriesType ==
    ASSUME NEW e \in Exec
    PROVE  /\ System \in Entry
           /\ Judged(e) \in {"completed", "failed"}
           /\ Entries(e) \in SUBSET Entry
<1>1. System \in Entry
  BY DEF Entry
<1>2. Judged(e) \in {"completed", "failed"}
  BY DEF Judged
<1>3. Entries(e) \in SUBSET Entry
  BY DEF Entries
<1> QED
  BY <1>1, <1>2, <1>3

LEMMA ReportType ==
    ASSUME SavedTypeOK, NEW e \in Exec, NEW n \in Node, NEW how \in Outcome \cup {"skipped"},
           Report(e, n, how)
    PROVE  /\ results' \in [Exec -> [Entry -> Outcome \cup {"none", "skipped"}]]
           /\ writes' \in [Exec -> [status : {"completed", "failed", Keep},
                                    entries : (SUBSET Entry) \cup {Keep}]]
           /\ stage' \in [Exec -> {"unused", "answer", "queued", "next", "agent", "entry",
                                  "result", "row", "plan", "mark", "markPlan", "done"}]
           /\ faults' \in 0..MaxFaults
<1> USE DEF SavedTypeOK
<1>1. results' \in [Exec -> [Entry -> Outcome \cup {"none", "skipped"}]]
  BY DEF Report
<1>2. stored[e] \cup {n} \in SUBSET Entry
  BY DEF Entry
<1>3. writes' \in [Exec -> [status : {"completed", "failed", Keep},
                          entries : (SUBSET Entry) \cup {Keep}]]
  BY <1>2 DEF Report, Plans
<1>4. stage' \in [Exec -> {"unused", "answer", "queued", "next", "agent", "entry",
                         "result", "row", "plan", "mark", "markPlan", "done"}]
  BY DEF Report, Goes
<1>5. faults' \in 0..MaxFaults
  BY SavedPlanAssumption DEF Report, Fault
<1> QED
  BY <1>1, <1>3, <1>4, <1>5

LEMMA TaskType ==
    ASSUME SavedTypeOK, NEW e \in Exec, AtItsNode(e), Task(e)
    PROVE  SavedTypeOK'
<1> USE DEF SavedTypeOK
<1>0. ASSUME Fault PROVE faults' \in 0..MaxFaults
  BY <1>0, SavedPlanAssumption DEF Fault
<1>1. CASE HandOver(e)
  <2>1. faults' \in 0..MaxFaults /\ forgotten' \in SUBSET Exec
    BY <1>0, <1>1 DEF HandOver
  <2> QED
    BY <1>1, <2>1 DEF HandOver, Goes, planColumns, rows
<1>2. CASE Load(e)
  <2>1. CASE /\ Exists /\ Goes(e, "next")
             /\ loaded' = [loaded EXCEPT ![e] = graph]
             /\ results' = [results EXCEPT ![e] =
                   [n \in Entry |-> IF n \in Dropped(graph) THEN "skipped" ELSE "none"]]
             /\ stored' = [stored EXCEPT ![e] = IF row[e] = "none" THEN @
                                                 ELSE @ \cup Dropped(graph)]
             /\ UNCHANGED faults
    <3>1. Dropped(graph) \subseteq Entry
      BY GraphType DEF Entry
    <3>2. [n \in Entry |-> IF n \in Dropped(graph) THEN "skipped" ELSE "none"]
             \in [Entry -> Outcome \cup {"none", "skipped"}]
      OBVIOUS
    <3>3. results' \in [Exec -> [Entry -> Outcome \cup {"none", "skipped"}]]
      BY <2>1, <3>2
    <3>4. stored' \in [Exec -> SUBSET Entry]
      BY <2>1, <3>1
    <3> QED
      BY <1>2, <2>1, <3>3, <3>4 DEF Load, Goes, planColumns, history
  <2>2. CASE Goes(e, "mark") /\ UNCHANGED <<loaded, results, stored, faults>>
    BY <1>2, <2>2 DEF Load, Goes, planColumns, history
  <2>3. CASE /\ Fault /\ Goes(e, "result")
             /\ results' = [results EXCEPT ![e][System] = "failed"]
             /\ UNCHANGED <<loaded, stored>>
    <3>1. results' \in [Exec -> [Entry -> Outcome \cup {"none", "skipped"}]]
      BY <2>3 DEF Outcome
    <3> QED
      BY <1>0, <1>2, <2>3, <3>1 DEF Load, Goes, planColumns, history
  <2> QED
    BY <1>2, <2>1, <2>2, <2>3 DEF Load
<1>3. CASE \E n \in Node : ComeTo(e, n)
  <2>1. PICK n \in Node : ComeTo(e, n)
    BY <1>3
  <2>2. CASE Blocked(e, n)
    <3>1. Report(e, n, "skipped")
      BY <2>1, <2>2 DEF ComeTo
    <3> QED
      BY <2>1, <2>2, <3>1, ReportType DEF ComeTo, planColumns, rows, history
  <2>3. CASE ~Blocked(e, n)
    <3>1. at' \in [Exec -> Entry]
      BY <2>1, <2>3 DEF ComeTo, Entry
    <3> QED
      BY <2>1, <2>3, <3>1 DEF ComeTo, Goes, planColumns, rows, history
  <2> QED
    BY <2>2, <2>3
<1>4. ASSUME NEW how \in Outcome, AgentEnds(e, how) PROVE SavedTypeOK'
  <2>1. Report(e, at[e], how) /\ at[e] \in Node
    BY <1>4, GraphType DEF AgentEnds, AtItsNode
  <2>2. at' \in [Exec -> Entry]
    BY <1>4 DEF AgentEnds, Entry
  <2> QED
    BY <1>4, <2>1, <2>2, ReportType DEF AgentEnds, planColumns, rows, history
<1>5. CASE Conclude(e)
  <2>1. results' \in [Exec -> [Entry -> Outcome \cup {"none", "skipped"}]]
    <3>1. [results[e] EXCEPT ![System] = "failed"] \in [Entry -> Outcome \cup {"none", "skipped"}]
      BY DEF Outcome
    <3> QED
      BY <1>5, <3>1 DEF Conclude
  <2>2. at' \in [Exec -> Entry]
    BY <1>5 DEF Conclude, Entry
  <2> QED
    BY <1>5, <2>1, <2>2 DEF Conclude, Goes, planColumns, rows, history
<1>6. CASE ReadRow(e)
  <2>1. faults' \in 0..MaxFaults
    BY <1>0, <1>6 DEF ReadRow
  <2>2. Judged(e) \in {"completed", "failed"} /\ Entries(e) \in SUBSET Entry
    BY EntriesType
  <2>3. writes' \in [Exec -> [status : {"completed", "failed", Keep},
                            entries : (SUBSET Entry) \cup {Keep}]]
    <3>1. PICK s \in {"completed", "failed", Keep}, S \in (SUBSET Entry) \cup {Keep} :
             writes' = writes \/ Plans(e, [status |-> s, entries |-> S])
      <4>1. (IF row[e] = Judged(e) THEN Keep ELSE Judged(e)) \in {"completed", "failed", Keep}
        BY <2>2
      <4>2. (IF stored[e] = Entries(e) THEN Keep ELSE Entries(e)) \in (SUBSET Entry) \cup {Keep}
        BY <2>2
      <4> QED
        BY <1>6, <4>1, <4>2 DEF ReadRow
    <3>2. [status |-> s, entries |-> S]
             \in [status : {"completed", "failed", Keep}, entries : (SUBSET Entry) \cup {Keep}]
      BY ColumnsType
    <3> QED
      BY <3>1, <3>2 DEF Plans
  <2> QED
    BY <1>6, <2>1, <2>3 DEF ReadRow, Goes, planColumns, rows, history
<1>7. CASE StoreRow(e)
  <2>1. faults' \in 0..MaxFaults
    BY <1>0, <1>7 DEF StoreRow
  <2>2. writes' \in [Exec -> [status : {"completed", "failed", Keep},
                            entries : (SUBSET Entry) \cup {Keep}]]
    <3>1. Nothing \in [status : {"completed", "failed", Keep}, entries : (SUBSET Entry) \cup {Keep}]
      BY ColumnsType DEF Nothing
    <3> QED
      BY <1>7, <3>1 DEF StoreRow, Plans
  <2>3. stage' \in [Exec -> {"unused", "answer", "queued", "next", "agent", "entry",
                           "result", "row", "plan", "mark", "markPlan", "done"}]
    BY <1>7 DEF StoreRow, Goes
  <2>4. writes[e].status # Keep => writes[e].status \in {"completed", "failed"}
    OBVIOUS
  <2>5. row' \in [Exec -> {"none", "executing", "completed", "failed"}]
    BY <1>7, <2>4 DEF StoreRow, rows
  <2>6. writes[e].entries # Keep => writes[e].entries \in SUBSET Entry
    OBVIOUS
  <2>7. stored' \in [Exec -> SUBSET Entry]
    BY <1>7, <2>6 DEF StoreRow, rows
  <2> QED
    BY <1>7, <2>1, <2>2, <2>3, <2>5, <2>7 DEF StoreRow, planColumns, history
<1>8. CASE StorePlan(e)
  <2>1. faults' \in 0..MaxFaults
    BY <1>0, <1>8 DEF StorePlan
  <2>2. dbStatus' \in Status \cup {"deleted"} /\ setter' \in Exec \cup {Nobody}
    BY <1>8, EntriesType DEF StorePlan, WritePlan, Status
  <2> QED
    BY <1>8, <2>1, <2>2 DEF StorePlan, Goes, rows, history
<1>9. CASE Mark(e)
  <2>1. faults' \in 0..MaxFaults
    BY <1>0, <1>9 DEF Mark
  <2>2. row' \in [Exec -> {"none", "executing", "completed", "failed"}]
    BY <1>9 DEF Mark, rows
  <2>3. stored' \in [Exec -> SUBSET Entry]
    BY <1>9, EntriesType DEF Mark, rows
  <2>4. forgotten' \in SUBSET Exec
    BY <1>9 DEF Mark
  <2>5. stage' \in [Exec -> {"unused", "answer", "queued", "next", "agent", "entry",
                           "result", "row", "plan", "mark", "markPlan", "done"}]
    BY <1>9 DEF Mark, Goes
  <2> QED
    BY <1>9, <2>1, <2>2, <2>3, <2>4, <2>5 DEF Mark, planColumns
<1>10. CASE MarkPlan(e)
  <2>1. faults' \in 0..MaxFaults
    BY <1>0, <1>10 DEF MarkPlan
  <2>2. /\ dbStatus' \in Status \cup {"deleted"} /\ setter' \in Exec \cup {Nobody}
        /\ forgotten' \in SUBSET Exec
    BY <1>10 DEF MarkPlan, PlanFailed, WritePlan, Status
  <2> QED
    BY <1>10, <2>1, <2>2 DEF MarkPlan, Goes, rows
<1> QED
  BY <1>1, <1>2, <1>3, <1>4, <1>5, <1>6, <1>7, <1>8, <1>9, <1>10 DEF Task

-----------------------------------------------------------------------------
\* What a step means for the executions it is not about.

Undisturbed(q) ==
    /\ stage'[q] = stage[q] /\ at'[q] = at[q] /\ loaded'[q] = loaded[q]
    /\ results'[q] = results[q] /\ writes'[q] = writes[q]
    /\ row'[q] = row[q] /\ stored'[q] = stored[q]
    /\ q \in overtaken => q \in overtaken'

LEMMA TaskKept == ASSUME NEW q \in Exec, TaskInv(q), Undisturbed(q) PROVE TaskInv(q)'
<1> USE DEF Undisturbed
<1>1. AtItsNode(q)' /\ NodesRunBehindInputs(q)'
  BY DEF TaskInv, AtItsNode, NodesRunBehindInputs, InputsCompleted
<1>2. SkipsExplained(q)'
  BY DEF TaskInv, SkipsExplained, Entries, Blocked, FailedNodes
<1>3. Judged(q)' = Judged(q) /\ Entries(q)' = Entries(q) /\ (Whole(q) => Whole(q)')
  BY DEF Judged, Entries, Whole
<1>4. SuccessIsWhole(q)'
  BY <1>3 DEF TaskInv, SuccessIsWhole
<1>5. WritesJudged(q)'
  BY <1>3 DEF TaskInv, WritesJudged
<1> QED
  BY <1>1, <1>2, <1>4, <1>5 DEF TaskInv

LEMMA RowKept ==
    ASSUME NEW q \in Exec, RowInv(q), row'[q] = row[q], stage'[q] = stage[q],
           Exists' => Exists,
           dbStatus' = "executing" /\ setter' = q => dbStatus = "executing" /\ setter = q,
           forgotten \subseteq forgotten'
    PROVE  RowInv(q)'
  BY DEF RowInv, Active

\* A row that is put to failed, or goes with the plan, while its task works on.
LEMMA TaskKeptRowFailed ==
    ASSUME NEW q \in Exec, TaskInv(q), stage'[q] = stage[q], at'[q] = at[q],
           loaded'[q] = loaded[q], results'[q] = results[q], writes'[q] = writes[q],
           row'[q] \in {"none", "failed"},
           row'[q] = "failed" /\ stage[q] = "row" =>
              row[q] # "none" /\ (stored'[q] = stored[q] \/ q \in overtaken'),
           q \in overtaken => q \in overtaken'
    PROVE  TaskInv(q)'
<1>1. AtItsNode(q)' /\ NodesRunBehindInputs(q)'
  BY DEF TaskInv, AtItsNode, NodesRunBehindInputs, InputsCompleted
<1>2. SkipsExplained(q)'
  BY DEF TaskInv, SkipsExplained, Entries, Blocked, FailedNodes
<1>3. Judged(q)' = Judged(q) /\ Entries(q)' = Entries(q) /\ (Whole(q) => Whole(q)')
  BY DEF Judged, Entries, Whole
<1>4. SuccessIsWhole(q)'
  BY <1>3 DEF TaskInv, SuccessIsWhole
<1>5. WritesJudged(q)'
  <2>1. stage[q] = "row" /\ row[q] = Judged(q) => Judged(q) = "failed"
    BY DEF TaskInv, SuccessIsWhole, Judged
  <2> QED
    BY <1>3, <2>1 DEF TaskInv, WritesJudged
<1> QED
  BY <1>1, <1>2, <1>4, <1>5 DEF TaskInv

-----------------------------------------------------------------------------
\* The handlers.

LEMMA EndsBare == ASSUME SavedTypeOK, BareAreReset, NEW r \in Request, Ends(r) PROVE BareAreReset'
  BY DEF Ends, Idle, BareAreReset, SavedTypeOK

LEMMA ReadInv == ASSUME SavedInv, NEW r \in Request, Read(r) PROVE SavedInv'
<1>1. SavedTypeOK'
  BY ReadType DEF SavedInv
<1>2. \A e \in Exec : TaskInv(e)' /\ RowInv(e)'
  BY TaskKept, RowKept DEF SavedInv, Read, Undisturbed, planColumns, rows, task, history, Exists
<1>3. BareAreReset'
  <2>1. \A q \in Request \ {r} : call'[q] = call[q]
    BY DEF Read, ReadUpdate, ReadDelete, ReadReset, ReadExecute, SavedInv, SavedTypeOK
  <2>2. call'[r].bare \subseteq call'[r].rows
    <3>1. CASE ReadUpdate(r)
      BY <3>1 DEF ReadUpdate, Idle, SavedInv, SavedTypeOK
    <3>2. CASE ReadDelete(r)
      BY <3>2 DEF ReadDelete, Idle, SavedInv, SavedTypeOK
    <3>3. CASE ReadReset(r)
      BY <3>3 DEF ReadReset, Idle, SavedInv, SavedTypeOK
    <3>4. CASE ReadExecute(r)
      BY <3>4 DEF ReadExecute, Idle, SavedInv, SavedTypeOK
    <3> QED
      BY <3>1, <3>2, <3>3, <3>4 DEF Read
  <2> QED
    BY <2>1, <2>2 DEF SavedInv, BareAreReset
<1> QED
  BY <1>1, <1>2, <1>3 DEF SavedInv

LEMMA CommitUpdateInv == ASSUME SavedInv, NEW r \in Request, CommitUpdate(r) PROVE SavedInv'
<1>1. SavedTypeOK' /\ BareAreReset'
  BY HandlerType, EndsBare DEF SavedInv, Handler, CommitUpdate
<1>2. ASSUME NEW e \in Exec PROVE TaskInv(e)' /\ RowInv(e)'
  <2>1. TaskInv(e)'
    BY TaskKept DEF SavedInv, CommitUpdate, Undisturbed, rows, task, history
  <2>2. RowInv(e)'
    BY RowKept, SavedPlanAssumption DEF SavedInv, CommitUpdate, WritePlan, rows, task, history, Exists
  <2> QED
    BY <2>1, <2>2
<1> QED
  BY <1>1, <1>2 DEF SavedInv

LEMMA CommitDeleteInv == ASSUME SavedInv, NEW r \in Request, CommitDelete(r) PROVE SavedInv'
<1>1. SavedTypeOK' /\ BareAreReset'
  BY HandlerType, EndsBare DEF SavedInv, Handler, CommitDelete
<1>2. ASSUME NEW e \in Exec PROVE TaskInv(e)' /\ RowInv(e)'
  <2>1. row'[e] = "none" /\ dbStatus' = "deleted"
    BY DEF CommitDelete, WritePlan
  <2>2. TaskInv(e)'
    BY <2>1, TaskKeptRowFailed DEF SavedInv, CommitDelete, task, history
  <2>3. RowInv(e)'
    BY <2>1 DEF RowInv, Exists
  <2> QED
    BY <2>2, <2>3
<1> QED
  BY <1>1, <1>2 DEF SavedInv

LEMMA CommitResetInv == ASSUME SavedInv, NEW r \in Request, CommitReset(r) PROVE SavedInv'
<1>1. SavedTypeOK' /\ BareAreReset'
  BY HandlerType, EndsBare DEF SavedInv, Handler, CommitReset
<1>2. ASSUME NEW e \in Exec PROVE TaskInv(e)' /\ RowInv(e)'
  <2>1. CASE e \in call[r].rows
    <3>1. row'[e] = "failed" /\ dbStatus' = "failed"
      BY <2>1 DEF CommitReset, WritePlan
    <3>2. stage[e] = "row" => row[e] # "none" /\ (stored'[e] = stored[e] \/ e \in overtaken')
      BY DEF CommitReset, RowInv, SavedInv, SavedTypeOK
    <3>3. e \in overtaken => e \in overtaken'
      BY DEF CommitReset
    <3>4. TaskInv(e)'
      BY <3>1, <3>2, <3>3, TaskKeptRowFailed DEF SavedInv, CommitReset, task
    <3>5. RowInv(e)'
      BY <3>1 DEF RowInv
    <3> QED
      BY <3>4, <3>5
  <2>2. CASE e \notin call[r].rows
    <3>1. row'[e] = row[e] /\ stored'[e] = stored[e] /\ dbStatus' = "failed" /\ Exists
      BY <2>2 DEF CommitReset, WritePlan, SavedInv, BareAreReset
    <3>2. TaskInv(e)'
      BY <3>1, TaskKept DEF SavedInv, CommitReset, Undisturbed, task
    <3>3. RowInv(e)'
      BY <3>1, RowKept DEF SavedInv, CommitReset, task, Exists
    <3> QED
      BY <3>2, <3>3
  <2> QED
    BY <2>1, <2>2
<1> QED
  BY <1>1, <1>2 DEF SavedInv

LEMMA CommitExecuteInv == ASSUME SavedInv, NEW r \in Request, CommitExecute(r) PROVE SavedInv'
<1>1. SavedTypeOK' /\ BareAreReset'
  BY HandlerType, EndsBare DEF SavedInv, Handler, CommitExecute
<1>2. PICK e \in Exec : /\ stage[e] = "unused" /\ WritePlan("executing", e) /\ Goes(e, "answer")
                        /\ row' = [row EXCEPT ![e] = "executing"]
  BY DEF CommitExecute
<1>3. /\ stage'[e] = "answer" /\ row'[e] = "executing" /\ Exists' /\ setter' = e
      /\ \A q \in Exec \ {e} : stage'[q] = stage[q] /\ row'[q] = row[q]
  BY <1>2 DEF WritePlan, Goes, Exists, SavedInv, SavedTypeOK
<1>4. TaskInv(e)' /\ RowInv(e)'
  <2>1. TaskInv(e) /\ stage[e] = "unused"
    BY <1>2 DEF SavedInv
  <2>2. AtItsNode(e)' /\ NodesRunBehindInputs(e)'
    BY <1>3, <2>1
       DEF TaskInv, AtItsNode, NodesRunBehindInputs, InputsCompleted, CommitExecute
  <2>3. SkipsExplained(e)' /\ SuccessIsWhole(e)' /\ WritesJudged(e)'
    BY <1>3 DEF SkipsExplained, SuccessIsWhole, WritesJudged
  <2>4. RowInv(e)'
    BY <1>3 DEF RowInv, Active
  <2> QED
    BY <2>2, <2>3, <2>4 DEF TaskInv
<1>5. ASSUME NEW q \in Exec \ {e} PROVE TaskInv(q)' /\ RowInv(q)'
  <2>1. TaskInv(q)'
    BY <1>3, TaskKept DEF SavedInv, CommitExecute, Undisturbed, history
  <2>2. RowInv(q)'
    BY <1>3, RowKept DEF SavedInv, CommitExecute, history
  <2> QED
    BY <2>1, <2>2
<1> QED
  BY <1>1, <1>4, <1>5 DEF SavedInv

LEMMA RefineInv == ASSUME SavedInv, Refine PROVE SavedInv'
<1>1. SavedTypeOK' /\ BareAreReset'
  BY DEF SavedInv, SavedTypeOK, BareAreReset, Refine, rows, task, history
<1>2. \A e \in Exec : TaskInv(e)' /\ RowInv(e)'
  BY TaskKept, RowKept DEF SavedInv, Refine, Undisturbed, rows, task, history, Exists
<1> QED
  BY <1>1, <1>2 DEF SavedInv

LEMMA CommitFailsInv == ASSUME SavedInv, NEW r \in Request, CommitFails(r) PROVE SavedInv'
<1>1. SavedTypeOK' /\ BareAreReset'
  BY HandlerType, EndsBare DEF SavedInv, Handler, CommitFails
<1>2. \A e \in Exec : TaskInv(e)' /\ RowInv(e)'
  BY TaskKept, RowKept DEF SavedInv, CommitFails, Undisturbed, planColumns, rows, task, history, Exists
<1> QED
  BY <1>1, <1>2 DEF SavedInv

-----------------------------------------------------------------------------
\* The task.  A step of one execution leaves the others as they were, but for
\* the plan, which no other execution has set then.
TaskOf(e) ==
    /\ \A q \in Exec \ {e} : Undisturbed(q)
    /\ call' = call
    /\ forgotten \subseteq forgotten'
    /\ Exists' = Exists
    /\ \A q \in Exec \ {e} :
          dbStatus' = "executing" /\ setter' = q => dbStatus = "executing" /\ setter = q

LEMMA ReportOf ==
    ASSUME SavedTypeOK, NEW e \in Exec, NEW n \in Node, NEW how, Report(e, n, how)
    PROVE  /\ \A q \in Exec \ {e} : /\ results'[q] = results[q]
                                   /\ writes'[q] = writes[q] /\ stage'[q] = stage[q]
           /\ results'[e] = [results[e] EXCEPT ![n] = how]
           /\ stage'[e] \in {"entry", "next"}
           /\ stage'[e] = "entry" => writes'[e].status = Keep
  BY DEF Report, Goes, Plans, SavedTypeOK

LEMMA TaskIsOfOne == ASSUME SavedInv, NEW e \in Exec, Task(e) PROVE TaskOf(e)
<1> USE DEF SavedTypeOK
<1>0. SavedTypeOK
  BY DEF SavedInv
<1>1. CASE HandOver(e)
  BY <1>0, <1>1 DEF HandOver, Goes, TaskOf, Undisturbed, planColumns, rows, Exists
<1>2. CASE Load(e)
  BY <1>0, <1>2 DEF Load, Goes, TaskOf, Undisturbed, planColumns, history, Exists
<1>3. ASSUME NEW n \in Node, ComeTo(e, n) PROVE TaskOf(e)
  <2>1. CASE Blocked(e, n)
    <3>1. Report(e, n, "skipped")
      BY <1>3, <2>1 DEF ComeTo
    <3> QED
      BY <1>0, <1>3, <2>1, <3>1, ReportOf
         DEF ComeTo, TaskOf, Undisturbed, planColumns, rows, history, Exists
  <2>2. CASE ~Blocked(e, n)
    BY <1>0, <1>3, <2>2
       DEF ComeTo, Goes, TaskOf, Undisturbed, planColumns, rows, history, Exists
  <2> QED
    BY <2>1, <2>2
<1>4. ASSUME NEW how \in Outcome, AgentEnds(e, how) PROVE TaskOf(e)
  <2>1. at[e] \in Node
    BY <1>0, <1>4, GraphType DEF AgentEnds, SavedInv, TaskInv, AtItsNode
  <2>2. \A q \in Exec \ {e} : /\ results'[q] = results[q]
                             /\ writes'[q] = writes[q] /\ stage'[q] = stage[q]
    BY <1>0, <1>4, <2>1, ReportOf DEF AgentEnds
  <2> QED
    BY <1>0, <1>4, <2>2 DEF AgentEnds, TaskOf, Undisturbed, planColumns, rows, history, Exists
<1>5. CASE Conclude(e)
  BY <1>0, <1>5 DEF Conclude, Goes, TaskOf, Undisturbed, planColumns, rows, history, Exists
<1>6. CASE ReadRow(e)
  BY <1>0, <1>6 DEF ReadRow, Goes, Plans, TaskOf, Undisturbed, planColumns, rows, history, Exists
<1>7. CASE StoreRow(e)
  BY <1>0, <1>7 DEF StoreRow, Goes, Plans, TaskOf, Undisturbed, planColumns, rows, history, Exists
<1>8. CASE StorePlan(e)
  <2>1. Judged(e) \in {"completed", "failed"}
    BY DEF Judged
  <2> QED
    BY <1>0, <1>8, <2>1
       DEF StorePlan, WritePlan, Goes, TaskOf, Undisturbed, rows, history, Exists
<1>9. CASE Mark(e)
  BY <1>0, <1>9 DEF Mark, Goes, TaskOf, Undisturbed, planColumns, rows, Exists
<1>10. CASE MarkPlan(e)
  BY <1>0, <1>10 DEF MarkPlan, PlanFailed, WritePlan, Goes, TaskOf, Undisturbed, rows, Exists
<1> QED
  BY <1>1, <1>2, <1>3, <1>4, <1>5, <1>6, <1>7, <1>8, <1>9, <1>10 DEF Task

\* So it is enough to look at the execution that the step is of.
LEMMA TaskOfOneKeeps ==
    ASSUME SavedInv, NEW e \in Exec, Task(e), TaskInv(e)', RowInv(e)'
    PROVE  SavedInv'
<1>0. SavedTypeOK /\ AtItsNode(e) /\ TaskOf(e)
  BY TaskIsOfOne DEF SavedInv, TaskInv
<1>1. SavedTypeOK' /\ BareAreReset'
  BY <1>0, TaskType DEF SavedInv, BareAreReset, TaskOf
<1>2. \A q \in Exec \ {e} : TaskInv(q)' /\ RowInv(q)'
  BY <1>0, TaskKept, RowKept DEF SavedInv, TaskOf, Undisturbed
<1> QED
  BY <1>1, <1>2 DEF SavedInv

LEMMA HandOverInv == ASSUME SavedInv, NEW e \in Exec, HandOver(e) PROVE SavedInv'
<1>0. SavedTypeOK /\ TaskInv(e) /\ RowInv(e) /\ Task(e)
  BY DEF SavedInv, Task
<1>1. /\ stage[e] = "answer" /\ at[e] = System /\ at' = at /\ loaded' = loaded
      /\ results' = results /\ row' = row /\ dbStatus' = dbStatus /\ setter' = setter
      /\ row[e] # "completed"
      /\ stage'[e] = "queued" \/ (stage'[e] = "done" /\ e \in forgotten')
  BY <1>0 DEF HandOver, Goes, planColumns, rows, TaskInv, AtItsNode, SuccessIsWhole, SavedTypeOK
<1>2. AtItsNode(e)' /\ NodesRunBehindInputs(e)'
  BY <1>0, <1>1 DEF TaskInv, AtItsNode, NodesRunBehindInputs, InputsCompleted
<1>3. SkipsExplained(e)' /\ SuccessIsWhole(e)' /\ WritesJudged(e)'
  BY <1>1 DEF SkipsExplained, SuccessIsWhole, WritesJudged
<1>4. RowInv(e)'
  BY <1>0, <1>1 DEF RowInv, Exists, Active
<1> QED
  BY <1>0, <1>2, <1>3, <1>4, TaskOfOneKeeps DEF TaskInv

\* The entry of an error makes a failure of the execution, and is no node's.
LEMMA SystemFails ==
    ASSUME SavedTypeOK, NEW e \in Exec, NodesRunBehindInputs(e), loaded' = loaded,
           results' = [results EXCEPT ![e][System] = "failed"],
           at'[e] \in {at[e], System}
    PROVE  /\ Judged(e)' = "failed"
           /\ NodesRunBehindInputs(e)'
<1>1. System \notin loaded[e].nodes /\ loaded[e].nodes \subseteq Node
  BY GraphType, SavedPlanAssumption DEF SavedTypeOK
<1>2. results'[e][System] = "failed"
  BY DEF SavedTypeOK, Entry
<1>3. \A n \in loaded[e].nodes : results'[e][n] = results[e][n]
  BY <1>1 DEF SavedTypeOK
<1>4. Judged(e)' = "failed"
  BY <1>2 DEF Judged, Entry
<1>5. NodesRunBehindInputs(e)'
  BY <1>1, <1>3 DEF NodesRunBehindInputs, InputsCompleted
<1> QED
  BY <1>4, <1>5

LEMMA LoadInv == ASSUME SavedInv, NEW e \in Exec, Load(e) PROVE SavedInv'
<1>0. SavedTypeOK /\ TaskInv(e) /\ RowInv(e) /\ Task(e)
  BY DEF SavedInv, Task
<1>1. at[e] = System /\ at'[e] = at[e] /\ row'[e] = row[e] /\ row[e] # "completed"
  BY <1>0 DEF Load, TaskInv, AtItsNode, SuccessIsWhole
<1>2. RowInv(e)'
  BY <1>0 DEF Load, RowInv, Goes, Exists, Active, planColumns, history, SavedTypeOK
<1>3. CASE /\ loaded' = [loaded EXCEPT ![e] = graph] /\ Goes(e, "next")
           /\ results' = [results EXCEPT ![e] =
                 [n \in Entry |-> IF n \in Dropped(graph) THEN "skipped" ELSE "none"]]
  <2>1. /\ loaded'[e] = graph /\ stage'[e] = "next" /\ at'[e] = System
        /\ \A n \in Entry : results'[e][n] = IF n \in Dropped(graph) THEN "skipped" ELSE "none"
    BY <1>0, <1>1, <1>3 DEF Goes, SavedTypeOK
  <2>2. graph.nodes \subseteq Node /\ Dropped(graph) \subseteq graph.nodes
    BY <1>0, GraphType DEF SavedTypeOK
  <2>3. AtItsNode(e)' /\ NodesRunBehindInputs(e)'
    BY <2>1, <2>2, SavedPlanAssumption DEF AtItsNode, NodesRunBehindInputs, Outcome, Entry
  <2>4. Dropped(loaded[e])' = Dropped(graph)
    BY <2>1 DEF Dropped
  <2>5. SkipsExplained(e)'
    BY <2>1, <2>2, <2>4 DEF SkipsExplained, Entries, Entry
  <2>6. SuccessIsWhole(e)' /\ WritesJudged(e)'
    BY <1>1, <2>1 DEF SuccessIsWhole, WritesJudged
  <2> QED
    BY <1>0, <1>2, <2>3, <2>5, <2>6, TaskOfOneKeeps DEF TaskInv
<1>4. CASE Goes(e, "mark") /\ UNCHANGED <<loaded, results>>
  <2>1. stage'[e] = "mark"
    BY <1>0, <1>4 DEF Goes, SavedTypeOK
  <2>2. AtItsNode(e)' /\ NodesRunBehindInputs(e)'
    BY <1>0, <1>1, <1>4, <2>1
       DEF TaskInv, AtItsNode, NodesRunBehindInputs, InputsCompleted
  <2>3. SkipsExplained(e)' /\ SuccessIsWhole(e)' /\ WritesJudged(e)'
    BY <1>1, <2>1 DEF SkipsExplained, SuccessIsWhole, WritesJudged
  <2> QED
    BY <1>0, <1>2, <2>2, <2>3, TaskOfOneKeeps DEF TaskInv
<1>5. CASE /\ Goes(e, "result") /\ results' = [results EXCEPT ![e][System] = "failed"]
           /\ UNCHANGED <<loaded, stored>>
  <2>1. stage'[e] = "result"
    BY <1>0, <1>5 DEF Goes, SavedTypeOK
  <2>2. NodesRunBehindInputs(e)' /\ Judged(e)' = "failed"
    BY <1>0, <1>1, <1>5, SystemFails DEF TaskInv
  <2>3. AtItsNode(e)' /\ SkipsExplained(e)' /\ SuccessIsWhole(e)' /\ WritesJudged(e)'
    BY <1>1, <2>1, <2>2 DEF AtItsNode, SkipsExplained, SuccessIsWhole, WritesJudged
  <2> QED
    BY <1>0, <1>2, <2>2, <2>3, TaskOfOneKeeps DEF TaskInv
<1> QED
  BY <1>3, <1>4, <1>5 DEF Load

\* A node that is neither recorded nor awaited gets its result: nothing that
\* ran stands behind it.
LEMMA NothingRanBehind ==
    ASSUME NEW e \in Exec, NodesRunBehindInputs(e), NEW m \in loaded[e].nodes,
           results[e][m] # "completed", NEW n \in loaded[e].nodes,
           <<m, n>> \in loaded[e].edges
    PROVE  at[e] # n /\ results[e][n] \notin Outcome
  BY DEF NodesRunBehindInputs, InputsCompleted

LEMMA ResultAdded ==
    ASSUME SavedTypeOK, NEW e \in Exec, NEW n \in loaded[e].nodes, NEW how \in Outcome \cup {"skipped"},
           results[e][n] = "none", loaded' = loaded,
           results'[e] = [results[e] EXCEPT ![n] = how],
           NodesRunBehindInputs(e), at'[e] = System, n \in Node,
           how \in Outcome => InputsCompleted(e, n)
    PROVE  NodesRunBehindInputs(e)'
<1>1. System \notin loaded[e].nodes /\ loaded[e].nodes \subseteq Node
  BY GraphType, SavedPlanAssumption DEF SavedTypeOK
<1> SUFFICES ASSUME NEW k \in loaded[e].nodes, results'[e][k] \in Outcome,
                    NEW m \in loaded[e].nodes, <<m, k>> \in loaded[e].edges
             PROVE  results'[e][m] = "completed"
  BY <1>1 DEF NodesRunBehindInputs, InputsCompleted
<1>2. results'[e][n] = how /\ \A j \in Node \ {n} : results'[e][j] = results[e][j]
  BY DEF SavedTypeOK, Entry
<1>3. results[e][m] = "completed"
  <2>1. CASE k = n
    BY <1>2, <2>1 DEF InputsCompleted
  <2>2. CASE k # n
    BY <1>1, <1>2, <2>2 DEF NodesRunBehindInputs, InputsCompleted
  <2> QED
    BY <2>1, <2>2
<1>4. m # n
  BY <1>3
<1> QED
  BY <1>1, <1>2, <1>3, <1>4

\* What is skipped stays explained.
LEMMA SkipsKept ==
    ASSUME SavedTypeOK, NEW e \in Exec, NEW n \in loaded[e].nodes, NEW how \in Outcome \cup {"skipped"},
           results[e][n] = "none", loaded' = loaded, n \in Node,
           results'[e] = [results[e] EXCEPT ![n] = how],
           SkipsExplained(e), stage[e] \in {"next", "agent"},
           how = "skipped" => Blocked(e, n)
    PROVE  SkipsExplained(e)'
<1>1. results'[e][n] = how /\ \A j \in Entry \ {n} : results'[e][j] = results[e][j]
  BY DEF SavedTypeOK, Entry
<1>2. Entries(e)' \subseteq loaded[e].nodes
  BY <1>1 DEF SkipsExplained, Entries
<1>3. \A j \in Node : Blocked(e, j) => Blocked(e, j)'
  <2>1. FailedNodes(e) \subseteq FailedNodes(e)'
    BY <1>1 DEF FailedNodes, Entry
  <2> QED
    BY <2>1 DEF Blocked
<1>4. Dropped(loaded[e])' = Dropped(loaded[e])
  BY DEF Dropped
<1>5. \A j \in Dropped(loaded[e]) : j \in Node /\ j # n /\ results'[e][j] = "skipped"
  <2>1. Dropped(loaded[e]) \subseteq Node
    BY GraphType DEF SavedTypeOK
  <2> QED
    BY <1>1, <2>1 DEF SkipsExplained, Entry
<1>6. ASSUME NEW j \in Node \ Dropped(loaded[e]), results'[e][j] = "skipped"
      PROVE  Blocked(e, j)'
  BY <1>1, <1>3, <1>6 DEF SkipsExplained, Entry
<1> QED
  BY <1>2, <1>4, <1>5, <1>6 DEF SkipsExplained

LEMMA ComeToInv == ASSUME SavedInv, NEW e \in Exec, NEW n \in Node, ComeTo(e, n) PROVE SavedInv'
<1>0. SavedTypeOK /\ TaskInv(e) /\ RowInv(e) /\ Task(e)
  BY DEF SavedInv, Task
<1>1. /\ stage[e] = "next" /\ at[e] = System /\ n \in loaded[e].nodes /\ results[e][n] = "none"
      /\ row[e] # "completed" /\ loaded' = loaded /\ row' = row
  BY <1>0 DEF ComeTo, Available, TaskInv, AtItsNode, SuccessIsWhole, rows
<1>2. CASE Blocked(e, n)
  <2>0. Report(e, n, "skipped") /\ at' = at
    BY <1>2 DEF ComeTo
  <2>1. /\ results'[e] = [results[e] EXCEPT ![n] = "skipped"]
        /\ stage'[e] \in {"entry", "next"}
        /\ stage'[e] = "entry" => writes'[e].status = Keep
    BY <1>0, <2>0, ReportOf
  <2>2. NodesRunBehindInputs(e)'
    BY <1>0, <1>1, <2>0, <2>1, ResultAdded DEF TaskInv, Outcome
  <2>3. SkipsExplained(e)'
    BY <1>0, <1>1, <1>2, <2>1, SkipsKept DEF TaskInv
  <2>4. AtItsNode(e)' /\ SuccessIsWhole(e)' /\ WritesJudged(e)'
    BY <1>1, <2>0, <2>1 DEF AtItsNode, SuccessIsWhole, WritesJudged
  <2>5. RowInv(e)'
    BY <1>0, <1>1, <2>1 DEF ComeTo, RowInv, Exists, Active, planColumns, history
  <2> QED
    BY <1>0, <2>2, <2>3, <2>4, <2>5, TaskOfOneKeeps DEF TaskInv
<1>3. CASE ~Blocked(e, n)
  <2>1. stage'[e] = "agent" /\ at'[e] = n /\ results' = results
    BY <1>0, <1>3 DEF ComeTo, Goes, SavedTypeOK
  <2>2. InputsCompleted(e, n)
    <3> SUFFICES ASSUME NEW m \in loaded[e].nodes, <<m, n>> \in loaded[e].edges
                 PROVE  results[e][m] = "completed"
      BY DEF InputsCompleted
    <3>1. m \in Node
      BY <1>0, GraphType DEF SavedTypeOK
    <3>2. results[e][m] # "none"
      BY DEF ComeTo, Available
    <3>3. results[e][m] \notin {"failed", "degraded", "skipped"}
      BY <1>3, <3>1 DEF Blocked, FailedNodes
    <3>4. results[e][m] \in {"completed", "failed", "degraded", "none", "skipped"}
      BY <1>0, <3>1 DEF SavedTypeOK, Outcome, Entry
    <3> QED
      BY <3>2, <3>3, <3>4
  <2>3. NodesRunBehindInputs(e)'
    BY <1>0, <1>1, <2>1, <2>2 DEF TaskInv, NodesRunBehindInputs, InputsCompleted
  <2>4. SkipsExplained(e)'
    BY <1>0, <1>1, <2>1 DEF TaskInv, SkipsExplained, Entries, Blocked, FailedNodes
  <2>5. AtItsNode(e)' /\ SuccessIsWhole(e)' /\ WritesJudged(e)'
    BY <1>1, <2>1 DEF AtItsNode, SuccessIsWhole, WritesJudged
  <2>6. RowInv(e)'
    BY <1>0, <1>1, <2>1 DEF ComeTo, RowInv, Exists, Active, planColumns, history
  <2> QED
    BY <1>0, <2>3, <2>4, <2>5, <2>6, TaskOfOneKeeps DEF TaskInv
<1> QED
  BY <1>2, <1>3

LEMMA AgentEndsInv ==
    ASSUME SavedInv, NEW e \in Exec, NEW how \in Outcome, AgentEnds(e, how)
    PROVE  SavedInv'
<1> DEFINE n == at[e]
<1>0. SavedTypeOK /\ TaskInv(e) /\ RowInv(e) /\ Task(e)
  BY DEF SavedInv, Task
<1>1. /\ stage[e] = "agent" /\ n \in loaded[e].nodes /\ results[e][n] = "none"
      /\ row[e] # "completed" /\ loaded' = loaded /\ row' = row
      /\ InputsCompleted(e, n)
  BY <1>0 DEF AgentEnds, TaskInv, AtItsNode, SuccessIsWhole, NodesRunBehindInputs, rows
<1>2. n \in Node
  BY <1>0, <1>1, GraphType DEF SavedTypeOK
<1>3. /\ results'[e] = [results[e] EXCEPT ![n] = how]
      /\ stage'[e] \in {"entry", "next"} /\ at'[e] = System
      /\ stage'[e] = "entry" => writes'[e].status = Keep
  <2>1. Report(e, n, how) /\ at'[e] = System
    BY <1>0 DEF AgentEnds, SavedTypeOK
  <2> QED
    BY <1>0, <1>2, <2>1, ReportOf
<1>4. NodesRunBehindInputs(e)'
  BY <1>0, <1>1, <1>2, <1>3, ResultAdded DEF TaskInv
<1>5. SkipsExplained(e)'
  BY <1>0, <1>1, <1>2, <1>3, SkipsKept DEF TaskInv, Outcome
<1>6. AtItsNode(e)' /\ SuccessIsWhole(e)' /\ WritesJudged(e)'
  BY <1>1, <1>3 DEF AtItsNode, SuccessIsWhole, WritesJudged
<1>7. RowInv(e)'
  BY <1>0, <1>1, <1>3 DEF AgentEnds, RowInv, Exists, Active, planColumns, history
<1> QED
  BY <1>0, <1>4, <1>5, <1>6, <1>7, TaskOfOneKeeps DEF TaskInv

\* After the last node, the results are not touched any more.
LEMMA ResultsKept ==
    ASSUME NEW e \in Exec, TaskInv(e), stage[e] # "agent",
           stage'[e] \notin {"next", "agent", "entry"},
           loaded' = loaded, results' = results, at' = at,
           at[e] = System
    PROVE  /\ AtItsNode(e)' /\ NodesRunBehindInputs(e)' /\ SkipsExplained(e)'
           /\ Whole(e) => Whole(e)'
           /\ Judged(e)' = Judged(e) /\ Entries(e)' = Entries(e)
<1>1. AtItsNode(e)' /\ NodesRunBehindInputs(e)'
  BY DEF TaskInv, AtItsNode, NodesRunBehindInputs, InputsCompleted
<1>2. SkipsExplained(e)'
  BY DEF SkipsExplained
<1>3. Judged(e)' = Judged(e) /\ Entries(e)' = Entries(e)
  BY DEF Judged, Entries
<1>4. Whole(e) => Whole(e)'
  BY DEF Whole, Entries
<1> QED
  BY <1>1, <1>2, <1>3, <1>4

LEMMA ConcludeInv == ASSUME SavedInv, NEW e \in Exec, Conclude(e) PROVE SavedInv'
<1>0. SavedTypeOK /\ TaskInv(e) /\ RowInv(e) /\ Task(e)
  BY DEF SavedInv, Task
<1>1. /\ stage[e] \in {"next", "agent"} /\ stage'[e] = "result"
      /\ row' = row /\ loaded' = loaded /\ row[e] # "completed"
  BY <1>0 DEF Conclude, Goes, rows, TaskInv, SuccessIsWhole, SavedTypeOK
<1>2. RowInv(e)'
  BY <1>0, <1>1 DEF Conclude, RowInv, Exists, Active, planColumns, history
<1>3. WritesJudged(e)'
  BY <1>1 DEF WritesJudged
<1>4. CASE stage[e] = "next" /\ Available(e) = {} /\ UNCHANGED <<at, results>>
  <2>1. at[e] = System
    BY <1>0, <1>4 DEF TaskInv, AtItsNode
  <2>2. /\ AtItsNode(e)' /\ NodesRunBehindInputs(e)' /\ SkipsExplained(e)'
        /\ Whole(e) => Whole(e)'
        /\ Judged(e)' = Judged(e)
    BY <1>0, <1>1, <1>4, <2>1, ResultsKept
  <2>3. Judged(e) = "completed" => Whole(e)
    BY <1>0, <1>4, AllWorked DEF TaskInv
  <2>4. SuccessIsWhole(e)'
    BY <1>1, <2>2, <2>3 DEF SuccessIsWhole
  <2> QED
    BY <1>0, <1>2, <1>3, <2>2, <2>4, TaskOfOneKeeps DEF TaskInv
<1>5. CASE /\ at' = [at EXCEPT ![e] = System]
           /\ results' = [results EXCEPT ![e][System] = "failed"]
  <2>1. at'[e] = System
    BY <1>0, <1>5 DEF SavedTypeOK
  <2>2. Judged(e)' = "failed" /\ NodesRunBehindInputs(e)'
    BY <1>0, <1>1, <1>5, <2>1, SystemFails DEF TaskInv
  <2>3. AtItsNode(e)' /\ SkipsExplained(e)' /\ SuccessIsWhole(e)'
    BY <1>1, <2>1, <2>2 DEF AtItsNode, SkipsExplained, SuccessIsWhole
  <2> QED
    BY <1>0, <1>2, <1>3, <2>2, <2>3, TaskOfOneKeeps DEF TaskInv
<1> QED
  BY <1>4, <1>5 DEF Conclude

LEMMA ReadRowInv == ASSUME SavedInv, NEW e \in Exec, ReadRow(e) PROVE SavedInv'
<1>0. SavedTypeOK /\ TaskInv(e) /\ RowInv(e) /\ Task(e)
  BY DEF SavedInv, Task
<1>1. /\ stage[e] = "result" /\ stage'[e] \in {"row", "plan", "mark"}
      /\ at[e] = System /\ at' = at /\ loaded' = loaded /\ results' = results
      /\ row' = row /\ stored' = stored /\ row[e] # "completed"
      /\ stage'[e] = "plan" => row[e] = "none"
  BY <1>0 DEF ReadRow, Goes, rows, TaskInv, AtItsNode, SuccessIsWhole, SavedTypeOK
<1>2. /\ AtItsNode(e)' /\ NodesRunBehindInputs(e)' /\ SkipsExplained(e)'
      /\ Whole(e) => Whole(e)'
      /\ Judged(e)' = Judged(e) /\ Entries(e)' = Entries(e)
  BY <1>0, <1>1, ResultsKept
<1>3. SuccessIsWhole(e)'
  BY <1>0, <1>1, <1>2 DEF TaskInv, SuccessIsWhole
<1>4. WritesJudged(e)'
  <2>1. stage'[e] = "row" =>
          writes'[e] = [status |-> IF row[e] = Judged(e) THEN Keep ELSE Judged(e),
                        entries |-> IF stored[e] = Entries(e) THEN Keep ELSE Entries(e)]
    BY <1>0 DEF ReadRow, Goes, Plans, SavedTypeOK
  <2>2. Judged(e) # Keep /\ Entries(e) # Keep
    BY SavedPlanAssumption DEF Judged, Entries, Status
  <2> QED
    BY <1>1, <1>2, <2>1, <2>2 DEF WritesJudged
<1>5. RowInv(e)'
  BY <1>0, <1>1 DEF ReadRow, RowInv, Exists, Active, planColumns, history
<1> QED
  BY <1>0, <1>2, <1>3, <1>4, <1>5, TaskOfOneKeeps DEF TaskInv

LEMMA StoreRowInv == ASSUME SavedInv, NEW e \in Exec, StoreRow(e) PROVE SavedInv'
<1>0. SavedTypeOK /\ TaskInv(e) /\ RowInv(e) /\ Task(e)
  BY DEF SavedInv, Task
<1>1. /\ stage[e] \in {"entry", "row"} /\ at[e] = System /\ row[e] # "completed"
      /\ at' = at /\ loaded' = loaded /\ results' = results
      /\ dbStatus' = dbStatus /\ setter' = setter
      /\ forgotten' = forgotten /\ overtaken' = overtaken
      /\ stage'[e] \in {"next", "plan", "mark"}
      /\ stage'[e] = "next" <=> stage[e] = "entry"
  BY <1>0 DEF StoreRow, Goes, planColumns, history, TaskInv, AtItsNode, SuccessIsWhole, SavedTypeOK
<1>2. AtItsNode(e)' /\ NodesRunBehindInputs(e)'
  BY <1>0, <1>1 DEF TaskInv, AtItsNode, NodesRunBehindInputs, InputsCompleted
<1>3. SkipsExplained(e)'
  BY <1>0, <1>1 DEF TaskInv, SkipsExplained, Entries, Blocked, FailedNodes
<1>4. Judged(e)' = Judged(e) /\ Entries(e)' = Entries(e) /\ (Whole(e) => Whole(e)')
  BY <1>1 DEF Judged, Entries, Whole
<1>5. WritesJudged(e)'
  BY <1>1 DEF WritesJudged
<1>6. CASE /\ row[e] # "none" /\ stage[e] = "entry"
           /\ row' = [row EXCEPT ![e] = IF writes[e].status = Keep THEN @
                                         ELSE writes[e].status]
  <2>1. row'[e] = row[e] /\ stage'[e] = "next"
    BY <1>0, <1>1, <1>6 DEF TaskInv, WritesJudged, SavedTypeOK
  <2>2. SuccessIsWhole(e)'
    BY <1>1, <2>1 DEF SuccessIsWhole
  <2>3. RowInv(e)'
    BY <1>0, <1>1, <2>1 DEF RowInv, Exists, Active
  <2> QED
    BY <1>0, <1>2, <1>3, <1>5, <2>2, <2>3, TaskOfOneKeeps DEF TaskInv
<1>7. CASE /\ row[e] # "none" /\ stage[e] = "row"
           /\ row' = [row EXCEPT ![e] = IF writes[e].status = Keep THEN @
                                         ELSE writes[e].status]
           /\ stored' = [stored EXCEPT ![e] = IF writes[e].entries = Keep THEN @
                                               ELSE writes[e].entries]
  <2>1. row'[e] = Judged(e) /\ (stored'[e] = Entries(e) \/ e \in overtaken)
    BY <1>0, <1>7 DEF TaskInv, WritesJudged, SavedTypeOK
  <2>2. Judged(e) \in {"completed", "failed"} /\ stage'[e] \in {"plan", "mark"}
    BY <1>1, <1>7 DEF Judged
  <2>3. SuccessIsWhole(e)'
    <3>1. Judged(e) = "completed" => Whole(e) /\ Entries(e) = loaded[e].nodes
      BY <1>0, <1>7 DEF TaskInv, SuccessIsWhole, Whole
    <3> QED
      BY <1>1, <1>4, <2>1, <2>2, <3>1 DEF SuccessIsWhole
  <2>4. RowInv(e)'
    BY <1>0, <1>1, <2>1, <2>2 DEF RowInv, Exists, Active
  <2> QED
    BY <1>0, <1>2, <1>3, <1>5, <2>3, <2>4, TaskOfOneKeeps DEF TaskInv
<1>8. CASE UNCHANGED rows /\ stage'[e] # "plan"
  <2>1. row' = row /\ stored' = stored
    BY <1>8 DEF rows
  <2>2. SuccessIsWhole(e)'
    BY <1>1, <1>8, <2>1 DEF SuccessIsWhole
  <2>3. RowInv(e)'
    BY <1>0, <1>1, <1>8, <2>1 DEF RowInv, Exists, Active
  <2> QED
    BY <1>0, <1>2, <1>3, <1>5, <2>2, <2>3, TaskOfOneKeeps DEF TaskInv
<1> QED
  <2>1. CASE /\ row[e] # "none"
             /\ row' = [row EXCEPT ![e] = IF writes[e].status = Keep THEN @
                                           ELSE writes[e].status]
             /\ stored' = [stored EXCEPT ![e] = IF writes[e].entries = Keep THEN @
                                                 ELSE writes[e].entries]
    BY <1>1, <1>6, <1>7, <2>1
  <2>2. CASE UNCHANGED rows /\ Goes(e, IF stage[e] = "entry" THEN "next" ELSE "mark")
    BY <1>0, <1>8, <2>2 DEF Goes, SavedTypeOK
  <2> QED
    BY <2>1, <2>2 DEF StoreRow

LEMMA StorePlanInv == ASSUME SavedInv, NEW e \in Exec, StorePlan(e) PROVE SavedInv'
<1>0. SavedTypeOK /\ TaskInv(e) /\ RowInv(e) /\ Task(e)
  BY DEF SavedInv, Task
<1>1. /\ stage[e] = "plan" /\ stage'[e] \in {"done", "mark"} /\ row' = row /\ stored' = stored
      /\ at[e] = System /\ at' = at /\ loaded' = loaded /\ results' = results
      /\ row[e] # "executing" /\ forgotten' = forgotten /\ overtaken' = overtaken
  BY <1>0 DEF StorePlan, Goes, rows, history, TaskInv, AtItsNode, RowInv, SavedTypeOK
<1>2. /\ AtItsNode(e)' /\ NodesRunBehindInputs(e)' /\ SkipsExplained(e)'
      /\ Whole(e) => Whole(e)'
  BY <1>0, <1>1, ResultsKept
<1>3. SuccessIsWhole(e)' /\ WritesJudged(e)'
  BY <1>0, <1>1, <1>2 DEF TaskInv, SuccessIsWhole, WritesJudged
<1>4. /\ Exists' = Exists
      /\ stage'[e] = "done" => dbStatus' # "executing"
      /\ stage'[e] = "mark" => dbStatus' = dbStatus /\ setter' = setter
  <2>1. Judged(e) \in {"completed", "failed"}
    BY DEF Judged
  <2> QED
    BY <1>0, <2>1 DEF StorePlan, WritePlan, Goes, Exists, SavedTypeOK
<1>5. RowInv(e)'
  BY <1>0, <1>1, <1>4 DEF RowInv, Active
<1> QED
  BY <1>0, <1>2, <1>3, <1>5, TaskOfOneKeeps DEF TaskInv

LEMMA MarkInv == ASSUME SavedInv, NEW e \in Exec, Mark(e) PROVE SavedInv'
<1>0. SavedTypeOK /\ TaskInv(e) /\ RowInv(e) /\ Task(e)
  BY DEF SavedInv, Task
<1>1. /\ stage[e] = "mark" /\ stage'[e] \in {"markPlan", "done"}
      /\ at[e] = System /\ at' = at /\ loaded' = loaded /\ results' = results
      /\ dbStatus' = dbStatus /\ setter' = setter /\ overtaken' = overtaken
  BY <1>0 DEF Mark, Goes, planColumns, TaskInv, AtItsNode, SavedTypeOK
<1>2. /\ AtItsNode(e)' /\ NodesRunBehindInputs(e)' /\ SkipsExplained(e)'
      /\ Whole(e) => Whole(e)'
  BY <1>0, <1>1, ResultsKept
<1>3. CASE row'[e] = "failed" /\ stage'[e] = "markPlan" /\ forgotten' = forgotten
  <2>1. SuccessIsWhole(e)' /\ WritesJudged(e)'
    BY <1>3 DEF SuccessIsWhole, WritesJudged
  <2>2. RowInv(e)'
    BY <1>0, <1>1, <1>3 DEF RowInv, Exists, Active
  <2> QED
    BY <1>0, <1>2, <2>1, <2>2, TaskOfOneKeeps DEF TaskInv
<1>4. CASE /\ row' = row /\ stored' = stored /\ stage'[e] = "done"
           /\ (row[e] = "none" /\ forgotten' = forgotten) \/ e \in forgotten'
  <2>1. SuccessIsWhole(e)' /\ WritesJudged(e)'
    BY <1>0, <1>1, <1>2, <1>4 DEF TaskInv, SuccessIsWhole, WritesJudged
  <2>2. RowInv(e)'
    BY <1>0, <1>1, <1>4 DEF RowInv, Exists, Active
  <2> QED
    BY <1>0, <1>2, <2>1, <2>2, TaskOfOneKeeps DEF TaskInv
<1> QED
  BY <1>0, <1>3, <1>4 DEF Mark, Goes, rows, SavedTypeOK

LEMMA MarkPlanInv == ASSUME SavedInv, NEW e \in Exec, MarkPlan(e) PROVE SavedInv'
<1>0. SavedTypeOK /\ TaskInv(e) /\ RowInv(e) /\ Task(e)
  BY DEF SavedInv, Task
<1>1. /\ stage[e] = "markPlan" /\ stage'[e] = "done" /\ row' = row /\ stored' = stored
      /\ at[e] = System /\ at' = at /\ loaded' = loaded /\ results' = results
      /\ row[e] # "executing" /\ row[e] # "completed"
  BY <1>0 DEF MarkPlan, Goes, rows, TaskInv, AtItsNode, SuccessIsWhole, RowInv, SavedTypeOK
<1>2. AtItsNode(e)' /\ NodesRunBehindInputs(e)' /\ SkipsExplained(e)'
  BY <1>0, <1>1, ResultsKept
<1>3. SuccessIsWhole(e)' /\ WritesJudged(e)'
  BY <1>1 DEF SuccessIsWhole, WritesJudged
<1>4. Exists' = Exists /\ (dbStatus' # "executing" \/ e \in forgotten')
  BY <1>0 DEF MarkPlan, PlanFailed, WritePlan, Exists
<1>5. RowInv(e)'
  BY <1>0, <1>1, <1>4 DEF RowInv, Active
<1> QED
  BY <1>0, <1>2, <1>3, <1>5, TaskOfOneKeeps DEF TaskInv

LEMMA TaskKeepsInv == ASSUME SavedInv, NEW e \in Exec, Task(e) PROVE SavedInv'
  BY HandOverInv, LoadInv, ComeToInv, AgentEndsInv, ConcludeInv, ReadRowInv, StoreRowInv,
     StorePlanInv, MarkInv, MarkPlanInv DEF Task

\* A restart leaves every task at its end, and forgotten.
LEMMA RestartInv == ASSUME SavedInv, Restart PROVE SavedInv'
<1>0. SavedTypeOK
  BY DEF SavedInv
<1>1. SavedTypeOK' /\ BareAreReset'
  <2>1. faults' \in 0..MaxFaults
    BY <1>0, SavedPlanAssumption DEF Restart, Fault, SavedTypeOK
  <2>2. call' \in [Request -> [op : {"none", "update", "delete", "reset", "execute"},
                               seen : Status, status : Status \cup {Keep},
                               graph : Graph \cup {Keep},
                               rows : SUBSET Exec, bare : SUBSET Exec]]
    BY IdleType DEF Restart
  <2>3. BareAreReset'
    BY DEF Restart, BareAreReset, Idle
  <2>4. stage' \in [Exec -> {"unused", "answer", "queued", "next", "agent", "entry",
                           "result", "row", "plan", "mark", "markPlan", "done"}]
    BY <1>0 DEF Restart, SavedTypeOK
  <2> QED
    BY <1>0, <2>1, <2>2, <2>3, <2>4 DEF Restart, planColumns, rows, SavedTypeOK
<1>2. ASSUME NEW e \in Exec PROVE TaskInv(e)' /\ RowInv(e)'
  <2>0. TaskInv(e) /\ RowInv(e)
    BY DEF SavedInv
  <2>1. /\ at' = at /\ loaded' = loaded /\ results' = results /\ writes' = writes
        /\ row' = row /\ stored' = stored /\ dbStatus' = dbStatus /\ setter' = setter
        /\ overtaken' = overtaken
    BY DEF Restart, planColumns, rows
  <2>2. CASE Active(e)
    <3>1. stage'[e] = "done" /\ e \in forgotten' /\ stage[e] # "unused"
      BY <2>2 DEF Restart, Active
    <3>2. AtItsNode(e)' /\ NodesRunBehindInputs(e)' /\ SkipsExplained(e)'
      BY <2>0, <2>1, <3>1
         DEF TaskInv, AtItsNode, NodesRunBehindInputs, InputsCompleted, SkipsExplained
    <3>3. SuccessIsWhole(e)' /\ WritesJudged(e)'
      BY <2>0, <2>1, <3>1 DEF TaskInv, SuccessIsWhole, Whole, Entries, WritesJudged
    <3>4. RowInv(e)'
      BY <2>0, <2>1, <3>1 DEF RowInv, Exists
    <3> QED
      BY <3>2, <3>3, <3>4 DEF TaskInv
  <2>3. CASE ~Active(e)
    <3>1. stage'[e] = stage[e] /\ forgotten \subseteq forgotten'
      BY <2>3 DEF Restart
    <3> QED
      BY <2>0, <2>1, <3>1, TaskKept, RowKept DEF Undisturbed, Exists
  <2> QED
    BY <2>2, <2>3
<1> QED
  BY <1>1, <1>2 DEF SavedInv

LEMMA SavedInitInv == SavedInit => SavedInv
<1> SUFFICES ASSUME SavedInit PROVE SavedInv
  OBVIOUS
<1>1. SavedTypeOK
  <2>1. Nothing \in [status : {"completed", "failed", Keep}, entries : (SUBSET Entry) \cup {Keep}]
    BY ColumnsType DEF Nothing
  <2>2. results \in [Exec -> [Entry -> Outcome \cup {"none", "skipped"}]]
    BY DEF SavedInit
  <2>3. at \in [Exec -> Entry] /\ stored \in [Exec -> SUBSET Entry]
    BY EntriesType DEF SavedInit, Entry
  <2>4. /\ dbStatus \in Status \cup {"deleted"} /\ setter \in Exec \cup {Nobody}
        /\ faults \in 0..MaxFaults
    BY SavedPlanAssumption DEF SavedInit
  <2>5. call \in [Request -> [op : {"none", "update", "delete", "reset", "execute"},
                             seen : Status, status : Status \cup {Keep},
                             graph : Graph \cup {Keep},
                             rows : SUBSET Exec, bare : SUBSET Exec]]
    BY IdleType DEF SavedInit
  <2> QED
    BY <2>1, <2>2, <2>3, <2>4, <2>5 DEF SavedInit, SavedTypeOK
<1>2. BareAreReset
  BY DEF SavedInit, BareAreReset, Idle
<1>3. ASSUME NEW e \in Exec PROVE TaskInv(e) /\ RowInv(e)
  <2>1. graph.nodes \subseteq Node
    BY <1>1, GraphType DEF SavedTypeOK
  <2>2. AtItsNode(e) /\ NodesRunBehindInputs(e)
    BY <2>1, SavedPlanAssumption
       DEF SavedInit, AtItsNode, NodesRunBehindInputs, Outcome, Entry
  <2>3. SkipsExplained(e) /\ SuccessIsWhole(e) /\ WritesJudged(e)
    BY DEF SavedInit, SkipsExplained, SuccessIsWhole, WritesJudged
  <2>4. RowInv(e)
    BY SavedPlanAssumption DEF SavedInit, RowInv
  <2> QED
    BY <2>2, <2>3, <2>4 DEF TaskInv
<1> QED
  BY <1>1, <1>2, <1>3 DEF SavedInv

LEMMA SavedStep == SavedInv /\ [SavedNext]_savedVars => SavedInv'
<1> SUFFICES ASSUME SavedInv, [SavedNext]_savedVars PROVE SavedInv'
  OBVIOUS
<1>1. CASE UNCHANGED savedVars
  <2>1. SavedTypeOK' /\ BareAreReset'
    BY <1>1 DEF SavedInv, SavedTypeOK, BareAreReset, savedVars, planColumns, rows, task,
                   history
  <2>2. \A e \in Exec : TaskInv(e)' /\ RowInv(e)'
    BY <1>1, TaskKept, RowKept
       DEF SavedInv, Undisturbed, savedVars, planColumns, rows, task, history, Exists
  <2> QED
    BY <2>1, <2>2 DEF SavedInv
<1>2. ASSUME NEW r \in Request, Handler(r) PROVE SavedInv'
  BY <1>2, ReadInv, CommitUpdateInv, CommitDeleteInv, CommitResetInv, CommitExecuteInv,
     CommitFailsInv DEF Handler
<1> QED
  BY <1>1, <1>2, RefineInv, TaskKeepsInv, RestartInv DEF SavedNext

THEOREM SavedInductive == SavedSpec => []SavedInv
  BY SavedInitInv, SavedStep, PTL DEF SavedSpec

-----------------------------------------------------------------------------
\* The state of the saved plan, its rows and its tasks keeps its type, with
\* any number of handlers and executions under way (plans.py).
THEOREM SavedTypeCorrect == SavedSpec => []SavedTypeOK
<1>1. SavedInv => SavedTypeOK
  BY DEF SavedInv
<1> QED
  BY <1>1, SavedInductive, PTL

\* A node is given to its agent only when all it depends on was completed in
\* the same execution, in every graph, with cycles, and under every
\* interleaving of handlers, executions and faults (_execute_plan_background).
THEOREM NodesRunOnCompletedInputs == SavedSpec => []RunsOnCompletedInputs
<1>1. SavedInv => RunsOnCompletedInputs
  BY DEF SavedInv, TaskInv, NodesRunBehindInputs, InputsCompleted, RunsOnCompletedInputs
<1> QED
  BY <1>1, SavedInductive, PTL

\* An execution recorded as completed has completed every node that no cycle
\* kept out, and its record speaks of every node, unless a reset put its own
\* entry there between the task's last read of the row and its commit
\* (_execute_plan_background, reset_stuck_plan, _mark_execution_failed).
THEOREM CompletedRowsAreComplete == SavedSpec => []CompletedIsComplete
<1>1. SavedInv => CompletedIsComplete
  BY DEF SavedInv, TaskInv, SuccessIsWhole, Whole, CompletedIsComplete
<1> QED
  BY <1>1, SavedInductive, PTL

\* A row or a plan that is executing has its handler or its task, unless a
\* restart, an error between the commit and the hand-over, or a database that
\* fails in the recovery took it (execute_plan, _mark_execution_failed).
THEOREM ExecutingHasItsTask == SavedSpec => []ExecutingIsRunning
<1>1. SavedInv => ExecutingIsRunning
  BY DEF SavedInv, RowInv, ExecutingIsRunning
<1> QED
  BY <1>1, SavedInductive, PTL
=============================================================================
