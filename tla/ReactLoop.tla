----------------------------- MODULE ReactLoop -----------------------------
(***************************************************************************)
(* One orchestration: ReActLoop.run with the retries of RetryExecutor, the *)
(* graduated failure handling of FailureHandler and the checkpoints that a *)
(* ROLLBACK restores (src/dryade-core/core/orchestrator/).                 *)
(*                                                                         *)
(* An iteration looks at the leash and at the cancel event, asks the LLM   *)
(* for a thought, executes its tasks (several of them in parallel), hands  *)
(* every failed result to the failure handler and records the results.     *)
(* The LLM, the tools and the clock are the environment: what they answer  *)
(* is a choice.  What an answer says is left out; the failure action a     *)
(* failed result carries is what the control depends on.                   *)
(*                                                                         *)
(* Checkpoints are kept per execution id.  Those of the loop's own tasks   *)
(* go under the id that run() draws, those of the sub-steps of DECOMPOSE   *)
(* under state.execution_id, and the handler asks for the latter only: the *)
(* former are never read and are left out, and of the ring buffer the last *)
(* entry is kept, which is the one that restore_latest returns.            *)
(*                                                                         *)
(* Off by default and left out: failure middleware, failure learning (it   *)
(* changes the number of retries) and the judge (it fails a result).       *)
(***************************************************************************)
EXTENDS Naturals, FiniteSets

CONSTANTS
    MaxActions,    \* leash.max_actions
    MaxRetries,    \* max_retries of the agents
    Prior,         \* actions_taken a run may start with, 0 or a resumed count
    Chosen,        \* failure actions the LLM and the classifier choose, but retry
    Width,         \* bound: tasks the LLM may ask for in one thought
    NoCheckpoint   \* no checkpoint under state.execution_id

FailureAction == {"retry", "alternative", "skip", "escalate", "decompose",
                  "context_reduce", "abort", "rollback"}

Checkpoint == [actions : Nat, observations : Nat, depth : Nat]

ASSUME ReactAssumption ==
    /\ MaxActions \in Nat \ {0} /\ MaxRetries \in Nat /\ Width \in Nat \ {0}
    /\ Prior \subseteq 0..MaxActions
    /\ Chosen \subseteq FailureAction \ {"retry"}
    /\ NoCheckpoint \notin Checkpoint

VARIABLES
    pc,            \* where run() is, or how it ended
    actions,       \* state.actions_taken
    depth,         \* failure_depth
    observations,  \* observations made by this run, beyond the seeded ones
    tries,         \* retries used, for each task of the batch (0 when it is done)
    results,       \* the results of the batch so far
    at,            \* the result that is handled next
    checkpoint,    \* the latest one under state.execution_id
    cancelled,     \* the cancel event of the conversation
    late,          \* leash.max_duration_seconds has passed since started_at
    streak,        \* history: failed results since a success, in the order the loop
                   \* looks at them (up to LastRung)
    thoughts       \* history: thoughts of this run (up to MaxActions + 1)

batch == <<tries, results, at>>
history == <<streak, thoughts>>
vars == <<pc, actions, depth, observations, batch, checkpoint, cancelled, late, history>>

(* What the handler reads of an observation.  action: that of the attached  *)
(* failure_thought, "escalate" if none is attached (the handler's default)  *)
(* and "none" for a success; hard: the category AUTH, PERMANENT or          *)
(* RATE_LIMIT is attached.                                                  *)
Result == [ok : BOOLEAN, action : FailureAction \cup {"none"}, hard : BOOLEAN]

Success == [ok |-> TRUE, action |-> "none", hard |-> FALSE]
Failed(action, hard) == [ok |-> FALSE, action |-> action, hard |-> hard]

(* A failed attempt that is not tried again.  The classifier's rules give   *)
(* an action with the category; for a SEMANTIC error the LLM chooses any.   *)
(* A timeout the classifier would retry is escalated instead.               *)
FinalFailures ==
    {Failed(action, FALSE) : action \in Chosen} \cup {Failed("escalate", TRUE)}

(* Exits of RetryExecutor.execute before the first attempt: a capability,   *)
(* connectivity or schema check that fails (no thought is attached), an     *)
(* open circuit, and no such agent, which is classified like a failure.     *)
Refusals == {Failed("escalate", FALSE), Failed("skip", FALSE)} \cup FinalFailures

(* All retries used: a new observation, without the classification.         *)
Exhausted == Failed("retry", FALSE)

Ends == {"answered", "escalated", "cancelled", "leash", "fallback"}
Ended == pc \in Ends

LastRung == 6

(* Fresh, or resumed from an approved escalation with its state: the action *)
(* count and started_at are restored, so the run may be late from the start. *)
Init ==
    /\ pc = "top"
    /\ actions \in Prior
    /\ depth = 0
    /\ observations = 0
    /\ tries = <<>> /\ results = <<>> /\ at = 1
    /\ checkpoint = NoCheckpoint
    /\ cancelled = FALSE
    /\ late \in IF actions = 0 THEN {FALSE} ELSE BOOLEAN
    /\ streak = 0 /\ thoughts = 0

----------------------------------------------------------------------------
(* The environment.                                                        *)

Cancel ==
    /\ ~cancelled /\ cancelled' = TRUE
    /\ UNCHANGED <<pc, actions, depth, observations, batch, checkpoint, late, history>>

TimePasses ==
    /\ ~late /\ late' = TRUE
    /\ UNCHANGED <<pc, actions, depth, observations, batch, checkpoint, cancelled, history>>

----------------------------------------------------------------------------
(* The top of the loop and the thought.                                    *)

(* (Fault: the time limit is not looked at.)                                *)
LeashOnActions == actions >= MaxActions

LeashExceeded == actions >= MaxActions \/ late

MayThink == ~LeashExceeded /\ ~cancelled

Moves(place) ==
    /\ pc' = place
    /\ UNCHANGED <<actions, depth, observations, batch, checkpoint, cancelled, late, history>>

LeashStops == pc = "top" /\ LeashExceeded /\ Moves("leash")

CancelStops == pc = "top" /\ ~LeashExceeded /\ cancelled /\ Moves("cancelled")

Think == pc = "top" /\ MayThink /\ Moves("think")

(* orchestrate_think has answered: one more action is counted.              *)
Thought ==
    /\ pc = "think"
    /\ actions' = actions + 1
    /\ thoughts' = IF thoughts > MaxActions THEN thoughts ELSE thoughts + 1
    /\ UNCHANGED <<depth, checkpoint, cancelled, late, streak>>

(* A self-modification tool that only reads: its result is recorded and the *)
(* loop goes on.                                                            *)
ReadOnlyTool ==
    /\ Thought
    /\ observations' = observations + 1
    /\ pc' = "top" /\ UNCHANGED batch

(* Any other self-modification tool asks the user.                          *)
SelfModification ==
    /\ Thought
    /\ observations' = observations + 1
    /\ pc' = "escalated" /\ UNCHANGED batch

(* The final answer, a direct answer or a question of clarification.        *)
Answer ==
    /\ Thought
    /\ pc' = "answered" /\ UNCHANGED <<observations, batch>>

(* A thought with neither a task nor an answer is a failed result.          *)
NoAction ==
    /\ Thought
    /\ pc' = "handle"
    /\ tries' = [i \in {1} |-> 0] /\ at' = 1
    /\ results' = [i \in {1} |-> Failed("escalate", FALSE)]
    /\ UNCHANGED observations

Dispatch(n) ==
    /\ Thought
    /\ pc' = "execute"
    /\ tries' = [i \in 1..n |-> 0] /\ results' = <<>> /\ at' = 1
    /\ UNCHANGED observations

(* The error boundary turns an exception into a question to the user.       *)
BoundaryCatches == pc \in {"think", "handle"} /\ Moves("fallback")

----------------------------------------------------------------------------
(* The tasks of the batch.  An exception in one of them ends the gather and *)
(* with it the run; what the others still do is read by nobody.             *)

Executing(i) == pc = "execute" /\ i \in DOMAIN tries \ DOMAIN results

Outside == <<actions, depth, observations, checkpoint, cancelled, late, history>>

TaskEnds(i, result) ==
    /\ Executing(i)
    /\ results' = [j \in DOMAIN results \cup {i} |-> IF j = i THEN result ELSE results[j]]
    /\ tries' = [tries EXCEPT ![i] = 0]
    /\ UNCHANGED <<at, Outside>>

Refuse(i) ==
    /\ i \in DOMAIN tries /\ tries[i] = 0
    /\ \E refusal \in Refusals : TaskEnds(i, refusal)
    /\ UNCHANGED pc

TaskSucceeds(i) == TaskEnds(i, Success) /\ UNCHANGED pc

TaskFails(i) ==
    /\ \E failure \in FinalFailures : TaskEnds(i, failure)
    /\ UNCHANGED pc

Retry(i) ==
    /\ Executing(i) /\ tries[i] < MaxRetries
    /\ tries' = [tries EXCEPT ![i] = @ + 1]
    /\ UNCHANGED <<pc, results, at, Outside>>

RetriesExhausted(i) ==
    /\ i \in DOMAIN tries /\ tries[i] = MaxRetries
    /\ TaskEnds(i, Exhausted)
    /\ UNCHANGED pc

TaskRaises(i) == Executing(i) /\ Moves("fallback")

TaskStep(i) ==
    \/ Refuse(i) \/ TaskSucceeds(i) \/ TaskFails(i) \/ Retry(i)
    \/ RetriesExhausted(i) \/ TaskRaises(i)

GatherReturns ==
    /\ pc = "execute" /\ DOMAIN results = DOMAIN tries
    /\ Moves("handle")

----------------------------------------------------------------------------
(* The failure handler, one rung of the ladder at a time.  depth is counted *)
(* up before the handler is called.                                        *)

HasCheckpoint == checkpoint # NoCheckpoint

Graduated(result, d) ==
    CASE result.hard \/ d < 3 -> result.action
      [] ~result.hard /\ d >= LastRung -> "abort"
      [] ~result.hard /\ d = 5 -> "context_reduce"
      [] ~result.hard /\ d = 4 -> "decompose"
      [] ~result.hard /\ d = 3 /\ result.action # "retry" -> result.action
      [] ~result.hard /\ d = 3 /\ result.action = "retry" ->
            IF HasCheckpoint THEN "rollback" ELSE "alternative"

InBatch == pc = "handle" /\ at \in DOMAIN results

(* A result that succeeded needs no handling.                               *)
Pass ==
    /\ InBatch /\ results[at].ok
    /\ at' = at + 1
    /\ streak' = 0
    /\ UNCHANGED <<pc, actions, depth, observations, tries, results, checkpoint,
                   cancelled, late, thoughts>>

Handling(action) ==
    /\ InBatch /\ ~results[at].ok
    /\ Graduated(results[at], depth + 1) = action
    /\ streak' = IF streak < LastRung THEN streak + 1 ELSE streak
    /\ UNCHANGED <<tries, results, cancelled, late, thoughts>>

(* The handler returned: the loop looks at the next result.                 *)
GoesOn ==
    /\ pc' = pc /\ at' = at + 1
    /\ depth' = depth + 1
    /\ UNCHANGED <<actions, observations>>

(* The run ends with a question to the user.                                *)
Asks ==
    /\ pc' = "escalated" /\ depth' = depth + 1
    /\ UNCHANGED <<actions, observations, at>>

(* What the handler tries is settled, or it is a question for the user.     *)
SettlesOrAsks == (GoesOn \/ Asks) /\ UNCHANGED checkpoint

(* Retries are the executor's, and an aborted task does not end the run.    *)
HandleRetry == Handling("retry") /\ GoesOn /\ UNCHANGED checkpoint
HandleAbort == Handling("abort") /\ GoesOn /\ UNCHANGED checkpoint

(* A critical task cannot be skipped.                                       *)
HandleSkip == Handling("skip") /\ SettlesOrAsks

(* The agent factory may make an agent, where the wording of the error      *)
(* reads as if none had been found.                                         *)
HandleEscalate == Handling("escalate") /\ SettlesOrAsks

(* Another agent, or the same one with half the history, is tried.          *)
HandleAlternative == Handling("alternative") /\ SettlesOrAsks
HandleContextReduce == Handling("context_reduce") /\ SettlesOrAsks

(* What a checkpoint of a sub-step holds: the state of this moment, and the *)
(* failure depth 0 that the handler does not pass on.                       *)
Snapshot == [actions |-> actions, observations |-> observations, depth |-> 0]

(* A plan of sub-steps.  One that has an agent and passes the first checks  *)
(* is checkpointed before it is executed, unless that fails.                *)
HandleDecompose ==
    /\ Handling("decompose")
    /\ GoesOn \/ Asks
    /\ checkpoint' \in {checkpoint, Snapshot}

(* (Fault: a fresh state in place of the checkpoint's.)                     *)
RestoreFresh ==
    /\ actions' = 0
    /\ observations' = checkpoint.observations
    /\ depth' = checkpoint.depth

Restore ==
    /\ actions' = checkpoint.actions
    /\ observations' = checkpoint.observations
    /\ depth' = checkpoint.depth

(* The state goes back to the latest checkpoint; the loop over the results  *)
(* goes on with the next one.  Without a checkpoint: the alternative.       *)
HandleRollback ==
    /\ Handling("rollback")
    /\ \/ HasCheckpoint /\ Restore /\ pc' = pc /\ at' = at + 1 /\ UNCHANGED checkpoint
       \/ ~HasCheckpoint /\ SettlesOrAsks

HandleResult ==
    \/ Pass \/ HandleRetry \/ HandleAbort \/ HandleSkip \/ HandleEscalate
    \/ HandleAlternative \/ HandleContextReduce \/ HandleDecompose \/ HandleRollback

AnySuccess == \E i \in DOMAIN results : results[i].ok

DepthAfter == IF AnySuccess THEN 0 ELSE depth

(* All results are handled: they are recorded, and the loop starts again.   *)
Record ==
    /\ pc = "handle" /\ at \notin DOMAIN results
    /\ pc' = "top"
    /\ observations' = observations + Cardinality(DOMAIN results)
    /\ depth' = DepthAfter
    /\ tries' = <<>> /\ results' = <<>> /\ at' = 1
    /\ UNCHANGED <<actions, checkpoint, cancelled, late, history>>

----------------------------------------------------------------------------

Thinks ==
    \/ LeashStops \/ CancelStops \/ Think \/ BoundaryCatches
    \/ ReadOnlyTool \/ SelfModification \/ Answer \/ NoAction
    \/ \E n \in 1..Width : Dispatch(n)

Loop ==
    \/ Thinks \/ (\E i \in 1..Width : TaskStep(i)) \/ GatherReturns
    \/ HandleResult \/ Record

Next == Cancel \/ TimePasses \/ Loop

(* The LLM and the tools answer, with a result or a timeout.  Nothing is    *)
(* assumed of the user, nor that the clock reaches the leash.               *)
Spec == Init /\ [][Next]_vars /\ WF_vars(Loop)

----------------------------------------------------------------------------

TypeOK ==
    /\ pc \in {"top", "think", "execute", "handle"} \cup Ends
    /\ actions \in 0..MaxActions
    /\ depth \in Nat /\ observations \in Nat /\ at \in Nat
    /\ DOMAIN tries \in SUBSET (1..Width)
    /\ \A i \in DOMAIN tries : tries[i] \in 0..MaxRetries
    /\ DOMAIN results \in SUBSET DOMAIN tries
    /\ \A i \in DOMAIN results : results[i] \in Result
    /\ checkpoint \in Checkpoint \cup {NoCheckpoint}
    /\ cancelled \in BOOLEAN /\ late \in BOOLEAN
    /\ streak \in 0..LastRung /\ thoughts \in 0..(MaxActions + 1)

(* A rollback takes the run no further back than its latest checkpoint, and *)
(* never forward: a checkpoint holds no action the run has not taken and no *)
(* observation it has not made, and none of those it holds is forgotten,    *)
(* even after rollbacks took the run back behind later work (693).          *)
CheckpointsAreBehind ==
    HasCheckpoint => /\ checkpoint.actions <= actions
                     /\ checkpoint.observations <= observations

(* A user who cancels is heard, and so is the time limit: the run ends,     *)
(* however the tasks fail, even if rollbacks keep setting the action count  *)
(* back (the cancel event and the leash at the top of the loop, 198-250).   *)
StopsEnd == (cancelled \/ late) ~> Ended

(* The documented meaning of max_actions: no more thoughts than the leash   *)
(* allows.  Rollbacks restore actions_taken, and the code does not keep it. *)
LeashHolds == thoughts <= MaxActions

(* The documented meaning of failure_depth, the number of consecutive       *)
(* failures.  A success between the failures of a batch does not interrupt  *)
(* the count, and the code does not keep it.                                *)
DepthIsConsecutive == depth <= streak \/ streak = LastRung
============================================================================
