---------------------------- MODULE ReactProofs ----------------------------
(***************************************************************************)
(* Proofs about ReactLoop, for every leash, number of retries and width of *)
(* a batch.  CheckpointsAreBehind is inductive with the types, and these   *)
(* with the fact that a thought is only waited for below the leash.        *)
(***************************************************************************)
EXTENDS ReactLoop, FiniteSetTheorems, TLAPS

Inv ==
    /\ TypeOK
    /\ pc = "think" => actions < MaxActions
    /\ CheckpointsAreBehind

(* The counters of the run and the checkpoint, apart from the batch.        *)
Counters ==
    /\ actions \in 0..MaxActions /\ depth \in Nat /\ observations \in Nat
    /\ checkpoint \in Checkpoint \cup {NoCheckpoint}
    /\ cancelled \in BOOLEAN /\ late \in BOOLEAN
    /\ streak \in 0..LastRung /\ thoughts \in 0..(MaxActions + 1)
    /\ CheckpointsAreBehind

BatchOK ==
    /\ at \in Nat
    /\ DOMAIN tries \in SUBSET (1..Width)
    /\ \A i \in DOMAIN tries : tries[i] \in 0..MaxRetries
    /\ DOMAIN results \in SUBSET DOMAIN tries
    /\ \A i \in DOMAIN results : results[i] \in Result

PlaceOK ==
    /\ pc \in {"top", "think", "execute", "handle"} \cup Ends
    /\ pc = "think" => actions < MaxActions

LEMMA Parts == Inv <=> Counters /\ BatchOK /\ PlaceOK
  BY DEF Inv, TypeOK, Counters, BatchOK, PlaceOK

(* Every result a task may end with is a result.                            *)
LEMMA Outcomes ==
    /\ Refusals \subseteq Result /\ FinalFailures \subseteq Result
    /\ Success \in Result /\ Exhausted \in Result
    /\ Failed("escalate", FALSE) \in Result
<1>1. ASSUME NEW a \in FailureAction, NEW h \in BOOLEAN
      PROVE  Failed(a, h) \in Result
  BY <1>1 DEF Failed, Result
<1>2. /\ Chosen \subseteq FailureAction
      /\ "escalate" \in FailureAction /\ "skip" \in FailureAction /\ "retry" \in FailureAction
  BY ReactAssumption DEF FailureAction
<1>4. Success \in Result
  BY DEF Success, Result
<1>5. Exhausted \in Result /\ Failed("escalate", FALSE) \in Result
      /\ Failed("escalate", TRUE) \in Result /\ Failed("skip", FALSE) \in Result
  BY <1>2 DEF Exhausted, Failed, Result
<1>6. \A a \in Chosen : Failed(a, FALSE) \in Result
  BY <1>2 DEF Failed, Result
<1> QED
  BY <1>4, <1>5, <1>6 DEF Refusals, FinalFailures

(* Steps that leave the counters, or the batch, alone.                      *)
LEMMA SameCounters == ASSUME Counters, UNCHANGED Outside PROVE Counters'
  BY DEF Counters, Outside, history, CheckpointsAreBehind, HasCheckpoint

LEMMA SameBatch == ASSUME BatchOK, UNCHANGED batch PROVE BatchOK'
  BY DEF BatchOK, batch

LEMMA SmallBatch == ASSUME BatchOK PROVE Cardinality(DOMAIN results) \in Nat
<1>1. IsFiniteSet(1..Width)
  BY ReactAssumption, FS_Interval
<1>2. IsFiniteSet(DOMAIN results)
  BY <1>1, FS_Subset DEF BatchOK
<1> QED
  BY <1>2, FS_CardinalityType

(* A thought counts one action and starts at most one batch.                *)
LEMMA ThoughtCounts ==
    ASSUME Counters, PlaceOK, Thought,
           observations' = observations \/ observations' = observations + 1
    PROVE  Counters'
<1>1. actions < MaxActions /\ actions' = actions + 1
  BY DEF Thought, PlaceOK
<1>2. actions' \in 0..MaxActions /\ observations' \in Nat /\ observations <= observations'
  BY <1>1, ReactAssumption DEF Counters
<1>3. thoughts' \in 0..(MaxActions + 1)
  BY ReactAssumption DEF Thought, Counters
<1>4. UNCHANGED <<depth, checkpoint, cancelled, late, streak>>
  BY DEF Thought
<1>5. CheckpointsAreBehind'
  BY <1>1, <1>2, <1>4, ReactAssumption DEF CheckpointsAreBehind, HasCheckpoint, Counters, Checkpoint
<1> QED
  BY <1>2, <1>3, <1>4, <1>5 DEF Counters, HasCheckpoint

(* The handler returns or asks.                                             *)
LEMMA FailureCounts ==
    ASSUME Counters, NEW a, Handling(a),
           depth' = depth + 1, UNCHANGED <<actions, observations>>,
           checkpoint' \in {checkpoint, Snapshot}
    PROVE  Counters'
<1>1. streak' = (IF streak < LastRung THEN streak + 1 ELSE streak)
      /\ UNCHANGED <<cancelled, late, thoughts>>
  BY DEF Handling
<1>2. Snapshot \in Checkpoint
      /\ Snapshot.actions = actions /\ Snapshot.observations = observations
  BY ReactAssumption DEF Snapshot, Checkpoint, Counters
<1>3. /\ checkpoint' \in Checkpoint \cup {NoCheckpoint}
      /\ CheckpointsAreBehind'
  BY <1>2, ReactAssumption DEF Counters, HasCheckpoint, CheckpointsAreBehind, Checkpoint
<1>4. streak' \in 0..LastRung /\ depth' \in Nat
  BY <1>1 DEF Counters, LastRung
<1> QED
  BY <1>1, <1>3, <1>4 DEF Counters

(* A rollback takes the counters to those of a checkpoint.                  *)
LEMMA RollbackCounts ==
    ASSUME Counters, NEW a, Handling(a), HasCheckpoint, Restore, UNCHANGED checkpoint
    PROVE  Counters'
<1>1. /\ checkpoint \in Checkpoint
      /\ checkpoint.actions <= actions /\ checkpoint.observations <= observations
  BY DEF Counters, HasCheckpoint, CheckpointsAreBehind
<1>2. /\ actions' = checkpoint.actions /\ observations' = checkpoint.observations
      /\ depth' = checkpoint.depth
  BY <1>1 DEF Restore
<1>3. actions' \in 0..MaxActions /\ observations' \in Nat /\ depth' \in Nat
  BY <1>1, <1>2, ReactAssumption DEF Checkpoint, Counters
<1>4. streak' \in 0..LastRung /\ UNCHANGED <<cancelled, late, thoughts>>
  BY DEF Handling, Counters, LastRung
<1>6. CheckpointsAreBehind'
  BY <1>1, <1>2, <1>3 DEF CheckpointsAreBehind, HasCheckpoint, Counters, Checkpoint
<1> QED
  BY <1>1, <1>3, <1>4, <1>6 DEF Counters, HasCheckpoint

(* The steps of the failure handler change the batch only by its index.     *)
LEMMA NextResult ==
    ASSUME BatchOK, PlaceOK, InBatch, UNCHANGED <<tries, results>>,
           at' = at \/ at' = at + 1, pc' = pc \/ pc' = "escalated",
           UNCHANGED actions \/ pc' # "think"
    PROVE  BatchOK' /\ PlaceOK'
<1>1. at' \in Nat
  BY DEF BatchOK
<1>2. BatchOK'
  BY <1>1 DEF BatchOK
<1>3. PlaceOK'
  BY DEF PlaceOK, InBatch, Ends
<1> QED
  BY <1>2, <1>3

LEMMA HandlingFacts ==
    ASSUME NEW a, Handling(a)
    PROVE  InBatch /\ UNCHANGED <<tries, results>> /\ pc # "think"
  BY DEF Handling, InBatch

LEMMA GoesOnKeeps ==
    ASSUME Counters, BatchOK, PlaceOK, NEW a, Handling(a), GoesOn,
           checkpoint' \in {checkpoint, Snapshot}
    PROVE  Counters' /\ BatchOK' /\ PlaceOK'
<1>1. Counters'
  BY FailureCounts DEF GoesOn
<1>2. BatchOK' /\ PlaceOK'
  BY HandlingFacts, NextResult DEF GoesOn
<1> QED
  BY <1>1, <1>2

LEMMA AskingKeeps ==
    ASSUME Counters, BatchOK, PlaceOK, NEW a, Handling(a), Asks,
           checkpoint' \in {checkpoint, Snapshot}
    PROVE  Counters' /\ BatchOK' /\ PlaceOK'
<1>1. Counters'
  BY FailureCounts DEF Asks
<1>2. BatchOK' /\ PlaceOK'
  BY HandlingFacts, NextResult DEF Asks
<1> QED
  BY <1>1, <1>2

LEMMA SettlingKeeps ==
    ASSUME Counters, BatchOK, PlaceOK, NEW a, Handling(a), SettlesOrAsks
    PROVE  Counters' /\ BatchOK' /\ PlaceOK'
  BY GoesOnKeeps, AskingKeeps DEF SettlesOrAsks

(* One result: passed, or handled on one rung of the ladder.                *)
LEMMA HandlerKeeps ==
    ASSUME Counters, BatchOK, PlaceOK, HandleResult
    PROVE  Counters' /\ BatchOK' /\ PlaceOK'
<1>1. CASE Pass
  <2>1. Counters'
    BY <1>1 DEF Pass, Counters, CheckpointsAreBehind, HasCheckpoint, LastRung
  <2>2. BatchOK' /\ PlaceOK'
    BY <1>1, NextResult DEF Pass
  <2> QED
    BY <2>1, <2>2
<1>2. CASE HandleRetry
  BY <1>2, GoesOnKeeps DEF HandleRetry
<1>3. CASE HandleAbort
  BY <1>3, GoesOnKeeps DEF HandleAbort
<1>4. CASE HandleSkip
  BY <1>4, SettlingKeeps DEF HandleSkip
<1>5. CASE HandleEscalate
  BY <1>5, SettlingKeeps DEF HandleEscalate
<1>6. CASE HandleAlternative
  BY <1>6, SettlingKeeps DEF HandleAlternative
<1>7. CASE HandleContextReduce
  BY <1>7, SettlingKeeps DEF HandleContextReduce
<1>8. CASE HandleDecompose
  BY <1>8, GoesOnKeeps, AskingKeeps DEF HandleDecompose
<1>9. CASE HandleRollback
  <2>1. CASE HasCheckpoint /\ Restore /\ pc' = pc /\ at' = at + 1 /\ UNCHANGED checkpoint
    <3>1. Handling("rollback")
      BY <1>9 DEF HandleRollback
    <3>2. Counters'
      BY <2>1, <3>1, RollbackCounts
    <3>3. pc' # "think"
      BY <2>1, <3>1, HandlingFacts
    <3>4. BatchOK' /\ PlaceOK'
      BY <2>1, <3>1, <3>3, HandlingFacts, NextResult
    <3> QED
      BY <3>2, <3>4
  <2>2. CASE ~HasCheckpoint /\ SettlesOrAsks
    BY <1>9, <2>2, SettlingKeeps DEF HandleRollback
  <2> QED
    BY <1>9, <2>1, <2>2 DEF HandleRollback
<1> QED
  BY <1>1, <1>2, <1>3, <1>4, <1>5, <1>6, <1>7, <1>8, <1>9 DEF HandleResult

(* A new batch, or none.                                                    *)
LEMMA FreshBatch ==
    /\ tries' = <<>> /\ results' = <<>> /\ at' = 1 => BatchOK'
    /\ \A r \in Result :
          tries' = [i \in {1} |-> 0] /\ results' = [i \in {1} |-> r] /\ at' = 1 => BatchOK'
    /\ \A n \in 1..Width :
          tries' = [i \in 1..n |-> 0] /\ results' = <<>> /\ at' = 1 => BatchOK'
<1>1. tries' = <<>> /\ results' = <<>> /\ at' = 1 => BatchOK'
  BY DEF BatchOK
<1>2. ASSUME NEW r \in Result,
             tries' = [i \in {1} |-> 0], results' = [i \in {1} |-> r], at' = 1
      PROVE  BatchOK'
  BY <1>2, ReactAssumption DEF BatchOK
<1>3. ASSUME NEW n \in 1..Width, tries' = [i \in 1..n |-> 0], results' = <<>>, at' = 1
      PROVE  BatchOK'
  BY <1>3, ReactAssumption DEF BatchOK
<1> QED
  BY <1>1, <1>2, <1>3

LEMMA ThinkingKeeps ==
    ASSUME Counters, BatchOK, PlaceOK, Thinks
    PROVE  Counters' /\ BatchOK' /\ PlaceOK'
<1>1. ASSUME NEW p \in Ends, Moves(p) PROVE Counters' /\ BatchOK' /\ PlaceOK'
  BY <1>1, SameCounters, SameBatch DEF Moves, Outside, PlaceOK, Ends
<1>2. CASE LeashStops \/ CancelStops \/ BoundaryCatches
  BY <1>1, <1>2 DEF LeashStops, CancelStops, BoundaryCatches, Ends
<1>3. CASE Think
  <2>1. actions < MaxActions
    BY <1>3, ReactAssumption DEF Think, MayThink, LeashExceeded, Counters
  <2>2. Counters' /\ BatchOK'
    BY <1>3, SameCounters, SameBatch DEF Think, Moves, Outside
  <2> QED
    BY <1>3, <2>1, <2>2 DEF Think, Moves, PlaceOK
<1>4. CASE ReadOnlyTool \/ SelfModification \/ Answer
  <2>1. Counters'
    BY <1>4, ThoughtCounts DEF ReadOnlyTool, SelfModification, Answer
  <2>2. BatchOK'
    BY <1>4, SameBatch DEF ReadOnlyTool, SelfModification, Answer
  <2>3. PlaceOK'
    BY <1>4 DEF ReadOnlyTool, SelfModification, Answer, PlaceOK, Ends
  <2> QED
    BY <2>1, <2>2, <2>3
<1>5. CASE NoAction \/ \E n \in 1..Width : Dispatch(n)
  <2>1. Counters'
    BY <1>5, ThoughtCounts DEF NoAction, Dispatch
  <2>2. BatchOK'
    <3>1. ASSUME NoAction PROVE BatchOK'
      <4>1. PICK r \in Result : results' = [i \in {1} |-> r]
        BY <3>1, Outcomes DEF NoAction
      <4> QED
        BY <3>1, <4>1, FreshBatch DEF NoAction
    <3>2. ASSUME NEW n \in 1..Width, Dispatch(n) PROVE BatchOK'
      BY <3>2, FreshBatch DEF Dispatch
    <3> QED
      BY <1>5, <3>1, <3>2
  <2>3. PlaceOK'
    BY <1>5 DEF NoAction, Dispatch, PlaceOK
  <2> QED
    BY <2>1, <2>2, <2>3
<1> QED
  BY <1>2, <1>3, <1>4, <1>5 DEF Thinks

(* A task ends with a result or is tried again.                             *)
LEMMA TaskKeeps ==
    ASSUME Counters, BatchOK, PlaceOK, NEW i \in 1..Width, TaskStep(i)
    PROVE  Counters' /\ BatchOK' /\ PlaceOK'
<1>1. ASSUME NEW r \in Result, TaskEnds(i, r) PROVE Counters' /\ BatchOK'
  <2>1. Counters'
    BY <1>1, SameCounters DEF TaskEnds
  <2>2. /\ i \in DOMAIN tries
        /\ DOMAIN tries' = DOMAIN tries
        /\ \A j \in DOMAIN tries : tries'[j] = IF j = i THEN 0 ELSE tries[j]
    BY <1>1 DEF TaskEnds, Executing
  <2>3. /\ DOMAIN results' = DOMAIN results \cup {i}
        /\ \A j \in DOMAIN results' : results'[j] = IF j = i THEN r ELSE results[j]
    BY <1>1 DEF TaskEnds
  <2>4. at' \in Nat
    BY <1>1 DEF TaskEnds, BatchOK
  <2>5. BatchOK'
    BY <2>2, <2>3, <2>4, ReactAssumption DEF BatchOK
  <2> QED
    BY <2>1, <2>5
<1>2. CASE Refuse(i) \/ TaskSucceeds(i) \/ TaskFails(i) \/ RetriesExhausted(i)
  <2>1. PICK r \in Result : TaskEnds(i, r)
    BY <1>2, Outcomes DEF Refuse, TaskSucceeds, TaskFails, RetriesExhausted
  <2>2. pc' = pc /\ pc = "execute"
    BY <1>2 DEF Refuse, TaskSucceeds, TaskFails, RetriesExhausted, TaskEnds, Executing
  <2> QED
    BY <1>1, <2>1, <2>2 DEF PlaceOK
<1>3. CASE Retry(i)
  <2>1. Counters'
    BY <1>3, SameCounters DEF Retry
  <2>2. /\ i \in DOMAIN tries /\ tries[i] < MaxRetries
        /\ DOMAIN tries' = DOMAIN tries
        /\ \A j \in DOMAIN tries : tries'[j] = IF j = i THEN tries[i] + 1 ELSE tries[j]
    BY <1>3 DEF Retry, Executing
  <2>3. UNCHANGED <<pc, results, at>> /\ pc = "execute"
    BY <1>3 DEF Retry, Executing
  <2>4. \A j \in DOMAIN tries' : tries'[j] \in 0..MaxRetries
    BY <2>2, ReactAssumption DEF BatchOK
  <2>5. BatchOK'
    BY <2>2, <2>3, <2>4 DEF BatchOK
  <2> QED
    BY <2>1, <2>3, <2>5 DEF PlaceOK
<1>4. CASE TaskRaises(i)
  BY <1>4, SameCounters, SameBatch DEF TaskRaises, Moves, Outside, PlaceOK, Ends
<1> QED
  BY <1>2, <1>3, <1>4 DEF TaskStep

LEMMA RecordKeeps ==
    ASSUME Counters, BatchOK, PlaceOK, Record
    PROVE  Counters' /\ BatchOK' /\ PlaceOK'
<1>1. observations' \in Nat /\ observations <= observations'
  BY SmallBatch DEF Record, Counters
<1>2. UNCHANGED <<actions, checkpoint, cancelled, late, streak, thoughts>>
  BY DEF Record, history
<1>3. CheckpointsAreBehind'
  BY <1>1, <1>2, ReactAssumption DEF CheckpointsAreBehind, HasCheckpoint, Counters, Checkpoint
<1>5. depth' \in Nat
  BY DEF Record, DepthAfter, Counters
<1>6. Counters'
  BY <1>1, <1>2, <1>3, <1>5 DEF Counters, HasCheckpoint
<1>7. BatchOK' /\ PlaceOK'
  BY FreshBatch DEF Record, PlaceOK
<1> QED
  BY <1>6, <1>7

LEMMA Initially == Init => Inv
<1> SUFFICES ASSUME Init PROVE Inv
  OBVIOUS
<1>1. Counters
  <2>1. /\ actions \in Prior /\ depth = 0 /\ observations = 0
        /\ checkpoint = NoCheckpoint /\ cancelled = FALSE
        /\ streak = 0 /\ thoughts = 0
    BY DEF Init
  <2>2. late \in BOOLEAN
    BY DEF Init
  <2>3. actions \in 0..MaxActions
    BY <2>1, ReactAssumption
  <2>4. ~HasCheckpoint /\ CheckpointsAreBehind
    BY <2>1 DEF HasCheckpoint, CheckpointsAreBehind
  <2>5. streak \in 0..LastRung /\ thoughts \in 0..(MaxActions + 1)
    BY <2>1, ReactAssumption DEF LastRung
  <2>6. depth \in Nat /\ observations \in Nat /\ checkpoint \in Checkpoint \cup {NoCheckpoint}
    BY <2>1
  <2>7. cancelled \in BOOLEAN
    BY <2>1
  <2> QED
    BY <2>2, <2>3, <2>4, <2>5, <2>6, <2>7 DEF Counters
<1>2. tries = <<>> /\ results = <<>> /\ at = 1 /\ pc = "top"
  BY DEF Init
<1>3. BatchOK /\ PlaceOK
  BY <1>2 DEF BatchOK, PlaceOK
<1> QED
  BY <1>1, <1>3, Parts

LEMMA Step == Inv /\ [Next]_vars => Inv'
<1> SUFFICES ASSUME Counters, BatchOK, PlaceOK, [Next]_vars
             PROVE  Counters' /\ BatchOK' /\ PlaceOK'
  BY Parts, PTL
<1>1. CASE Cancel \/ TimePasses
  <2>1. Counters'
    BY <1>1 DEF Cancel, TimePasses, Counters, history, CheckpointsAreBehind, HasCheckpoint
  <2>2. BatchOK' /\ PlaceOK'
    BY <1>1, SameBatch DEF Cancel, TimePasses, PlaceOK
  <2> QED
    BY <2>1, <2>2
<1>2. CASE Thinks
  BY <1>2, ThinkingKeeps
<1>3. CASE \E i \in 1..Width : TaskStep(i)
  BY <1>3, TaskKeeps
<1>4. CASE GatherReturns
  BY <1>4, SameCounters, SameBatch DEF GatherReturns, Moves, Outside, PlaceOK
<1>5. CASE HandleResult
  BY <1>5, HandlerKeeps
<1>6. CASE Record
  BY <1>6, RecordKeeps
<1>7. CASE UNCHANGED vars
  BY <1>7, SameCounters, SameBatch DEF vars, batch, Outside, PlaceOK
<1> QED
  BY <1>1, <1>2, <1>3, <1>4, <1>5, <1>6, <1>7 DEF Next, Loop

LEMMA Always == Spec => []Inv
  BY Initially, Step, PTL DEF Spec

(* The counters stay in their ranges: no run counts more than max_actions,  *)
(* no task is retried more than max_retries times.                          *)
THEOREM ReactTypeCorrect == Spec => []TypeOK
<1>1. Inv => TypeOK
  BY DEF Inv
<1> QED
  BY <1>1, Always, PTL

(* For every width of a batch: a rollback never takes the run forward, nor  *)
(* behind its latest checkpoint.                                            *)
THEOREM RollbacksGoBack == Spec => []CheckpointsAreBehind
<1>1. Inv => CheckpointsAreBehind
  BY DEF Inv
<1> QED
  BY <1>1, Always, PTL
==============================================================================
