----------------------------- MODULE BreakerProofs -----------------------------
(***************************************************************************)
(* Proofs about the circuit breaker, alone, with its history and as the    *)
(* failover shares it, for every set of servers and requests, every chain, *)
(* threshold, timeout and window.  Typing and the order of the recorded    *)
(* times are proved first; the properties of BreakerHistory follow from    *)
(* them, and those of ProviderFailover rest on what is proved of the       *)
(* breaker alone.                                                          *)
(***************************************************************************)
EXTENDS BreakerHistory, ProviderFailover, FiniteSetTheorems, SequenceTheorems, TLAPS

\* No recorded time is in the future, and no failure in the log is later than
\* last_failure_time.
TimesOrdered ==
    \A s \in Server :
        /\ lastFailureTime[s] <= now
        /\ \A f \in failLog[s] : f.at <= lastFailureTime[s]

LEMMA NewStampType ==
    ASSUME BreakerTypeOK, NEW s \in Server
    PROVE  NewStamp(s) \in Stamp /\ NewStamp(s).at = now
<1>1. IsFiniteSet({f \in failureTimes[s] : f.at = now})
  BY FS_Subset DEF BreakerTypeOK
<1>2. Cardinality({f \in failureTimes[s] : f.at = now}) \in Nat
  BY <1>1, FS_CardinalityType
<1> QED
  BY <1>2 DEF NewStamp, Stamp, BreakerTypeOK

LEMMA KeptType ==
    ASSUME BreakerTypeOK, NEW s \in Server, NEW t \in Nat
    PROVE  LET kept == Unexpired(failureTimes[s] \cup {NewStamp(s)}, t)
           IN  /\ kept \in SUBSET Stamp
               /\ IsFiniteSet(kept)
               /\ Cardinality(kept) \in Nat
<1> DEFINE all == failureTimes[s] \cup {NewStamp(s)}
<1>1. all \in SUBSET Stamp
  BY NewStampType DEF BreakerTypeOK
<1>2. IsFiniteSet(all)
  BY FS_AddElement DEF BreakerTypeOK
<1>3. IsFiniteSet(Unexpired(all, t))
  BY <1>2, FS_Subset DEF Unexpired
<1> QED
  BY <1>1, <1>3, FS_CardinalityType DEF Unexpired

-----------------------------------------------------------------------------
\* The breaker alone: typing, and the count of a CLOSED circuit.

LEMMA BreakerInitType == BreakerInit => BreakerTypeOK
  BY TimeAssumption, FS_EmptySet DEF BreakerInit, BreakerTypeOK, CircuitState

LEMMA SuccessType ==
    ASSUME BreakerTypeOK, NEW s \in Server, RecordSuccess(s), UNCHANGED now
    PROVE  BreakerTypeOK'
<1>1. CASE ForgetFailures(s) /\ state' \in [Server -> CircuitState] /\ successCount' \in [Server -> Nat]
  <2>1. failureTimes' \in [Server -> SUBSET Stamp] /\ failureCount' \in [Server -> Nat]
    BY <1>1 DEF ForgetFailures, BreakerTypeOK
  <2>2. \A r \in Server : IsFiniteSet(failureTimes'[r])
    BY <1>1, FS_EmptySet DEF ForgetFailures, BreakerTypeOK
  <2> QED
    BY <1>1, <2>1, <2>2 DEF RecordSuccess, BreakerTypeOK, stats
<1>2. CASE UNCHANGED <<state, failureTimes, failureCount, lastFailureTime>>
  BY <1>2 DEF RecordSuccess, ForgetFailures, BreakerTypeOK, stats
<1> QED
  BY <1>1, <1>2 DEF RecordSuccess, BreakerTypeOK, CircuitState, stats

LEMMA FailureType ==
    ASSUME BreakerTypeOK, NEW s \in Server, RecordFailure(s), UNCHANGED now
    PROVE  BreakerTypeOK'
<1> DEFINE kept == Unexpired(failureTimes[s] \cup {NewStamp(s)}, now)
<1>1. /\ kept \in SUBSET Stamp
      /\ IsFiniteSet(kept)
      /\ Cardinality(kept) \in Nat
  BY KeptType DEF BreakerTypeOK
<1>2. now' \in Nat /\ lastFailureTime' \in [Server -> Nat]
  BY DEF RecordFailure, NoteFailure, BreakerTypeOK
<1>3. CASE state[s] # "closed"
  BY <1>2, <1>3 DEF RecordFailure, Trip, BreakerTypeOK, CircuitState
<1>4. CASE state[s] = "closed"
  <2>1. /\ failureTimes' = [failureTimes EXCEPT ![s] = kept]
        /\ failureCount' = [failureCount EXCEPT ![s] = Cardinality(kept)]
        /\ state' = [state EXCEPT ![s] = "open"] \/ state' = state
        /\ successCount' = successCount
    BY <1>4 DEF RecordFailure, Trip
  <2> QED
    BY <1>1, <1>2, <2>1 DEF BreakerTypeOK, CircuitState
<1> QED
  BY <1>3, <1>4

LEMMA BreakerStepType == BreakerTypeOK /\ [BreakerNext]_breakerVars => BreakerTypeOK'
<1> SUFFICES ASSUME BreakerTypeOK, [BreakerNext]_breakerVars PROVE BreakerTypeOK'
  OBVIOUS
<1>1. CASE BreakerTick
  BY <1>1 DEF BreakerTick, BreakerTypeOK, stats
<1>2. ASSUME NEW s \in Server, UNCHANGED now, Admit(s) \/ Reject(s) \/ Preempt(s)
      PROVE  BreakerTypeOK'
  BY <1>2 DEF Admit, HalfOpen, Reject, Preempt, Trip, BreakerTypeOK, CircuitState, stats
<1>3. ASSUME NEW s \in Server, UNCHANGED now, Reset(s) PROVE BreakerTypeOK'
  BY <1>3, FS_EmptySet DEF Reset, ForgetFailures, BreakerTypeOK, CircuitState
<1>4. CASE UNCHANGED breakerVars
  BY <1>4 DEF breakerVars, stats, BreakerTypeOK
<1> QED
  BY <1>1, <1>2, <1>3, <1>4, SuccessType, FailureType DEF BreakerNext, BreakerCall

LEMMA BreakerStepClosed ==
    ASSUME BreakerTypeOK, ClosedBelowThreshold, [BreakerNext]_breakerVars
    PROVE  ClosedBelowThreshold'
<1> DEFINE Below(r) == /\ failureCount[r] = Cardinality(failureTimes[r])
                       /\ failureCount[r] < FailureThreshold
<1> SUFFICES ASSUME NEW r \in Server, state'[r] = "closed"
             PROVE  Below(r)'
  BY DEF ClosedBelowThreshold
<1> USE DEF BreakerTypeOK
<1>0. state[r] = "closed" => Below(r)
  BY DEF ClosedBelowThreshold
<1>1. CASE BreakerTick \/ UNCHANGED breakerVars
  BY <1>0, <1>1 DEF BreakerTick, breakerVars, stats
<1>2. ASSUME NEW s \in Server, Admit(s) \/ Reject(s) \/ Preempt(s) PROVE Below(r)'
  BY <1>0, <1>2 DEF Admit, Reject, Preempt, HalfOpen, Trip, stats
<1>3. ASSUME NEW s \in Server, ForgetFailures(s), r # s => state'[r] = state[r]
      PROVE  Below(r)'
  BY <1>0, <1>3, FS_EmptySet, ThresholdAssumption DEF ForgetFailures
<1>4. ASSUME NEW s \in Server, RecordSuccess(s) PROVE Below(r)'
  <2>1. CASE ForgetFailures(s)
    BY <1>3, <1>4, <2>1 DEF RecordSuccess, stats
  <2>2. CASE state' = state /\ failureCount' = failureCount /\ failureTimes' = failureTimes
    BY <1>0, <2>2
  <2> QED
    BY <1>4, <2>1, <2>2 DEF RecordSuccess, stats
<1>5. ASSUME NEW s \in Server, RecordFailure(s) PROVE Below(r)'
  <2>1. CASE r = s
    <3> DEFINE kept == Unexpired(failureTimes[s] \cup {NewStamp(s)}, now)
    <3>1. state[s] = "closed"
      BY <1>5, <2>1 DEF RecordFailure, Trip, CircuitState
    <3>2. /\ failureTimes'[s] = kept
          /\ failureCount'[s] = Cardinality(kept)
          /\ ~ReachesFailures(Cardinality(kept))
      BY <1>5, <2>1, <3>1 DEF RecordFailure, Trip
    <3>3. Cardinality(kept) \in Nat
      BY KeptType
    <3> QED
      BY <2>1, <3>2, <3>3, ThresholdAssumption DEF ReachesFailures
  <2>2. CASE r # s
    BY <1>0, <1>5, <2>2 DEF RecordFailure, Trip
  <2> QED
    BY <2>1, <2>2
<1>6. ASSUME NEW s \in Server, Reset(s) PROVE Below(r)'
  BY <1>3, <1>6 DEF Reset
<1> QED
  BY <1>1, <1>2, <1>4, <1>5, <1>6 DEF BreakerNext, BreakerCall

\* The statistics keep their types, and a CLOSED circuit stores the number of
\* its stamps, below failure_threshold, under every sequence of calls of the
\* breaker's methods (BreakerTypeOK, ClosedBelowThreshold).
THEOREM ClosedCircuit == BreakerSpec => [](BreakerTypeOK /\ ClosedBelowThreshold)
<1>1. BreakerInit => ClosedBelowThreshold
  BY FS_EmptySet, ThresholdAssumption DEF BreakerInit, ClosedBelowThreshold
<1> QED
  BY <1>1, BreakerInitType, BreakerStepType, BreakerStepClosed, PTL DEF BreakerSpec

-----------------------------------------------------------------------------
\* The breaker with its history: typing, initially and by every method.

LEMMA HStepIsBreakerStep == [HNext]_hvars => [BreakerNext]_breakerVars
  BY DEF HNext, HTick, HAdmit, HReject, HRecordSuccess, HRecordFailure, HPreempt, HReset,
         BreakerNext, BreakerCall, hvars

LEMMA InitType == HInit => HTypeOK
  BY BreakerInitType, ThresholdAssumption DEF HInit, HTypeOK

LEMMA StepType == HTypeOK /\ [HNext]_hvars => HTypeOK'
<1> SUFFICES ASSUME HTypeOK, [HNext]_hvars PROVE HTypeOK'
  OBVIOUS
<1> USE DEF HTypeOK
<1>1. BreakerTypeOK'
  BY BreakerStepType, HStepIsBreakerStep
<1>2. streak' \in [Server -> 0..SuccessThreshold]
  BY ThresholdAssumption
     DEF HNext, HTick, HAdmit, HReject, HRecordSuccess, HRecordFailure, HPreempt, HReset,
         historyVars, hvars
<1>3. openedAt' \in [Server -> Nat]
  BY DEF HNext, HTick, HAdmit, HReject, HRecordSuccess, HRecordFailure, HPreempt, HReset,
         Opened, BreakerTypeOK, historyVars, hvars
<1>4. failLog' \in [Server -> SUBSET Stamp]
  BY NewStampType
     DEF HNext, HTick, HAdmit, HReject, HRecordSuccess, HRecordFailure, HPreempt, HReset,
         historyVars, hvars
<1> QED
  BY <1>1, <1>2, <1>3, <1>4

\* The statistics of the breaker and the history keep their types under every
\* sequence of calls (HTypeOK).
THEOREM TypeCorrect == HSpec => []HTypeOK
  BY InitType, StepType, PTL DEF HSpec

-----------------------------------------------------------------------------
\* The inductive invariant.  WindowExact alone is not inductive: that pruning
\* at a later instant loses nothing needs the recorded times to be ordered.
IInv ==
    /\ HTypeOK
    /\ TimesOrdered
    /\ ClosedBelowThreshold
    /\ WindowExact
    /\ ProbesAreConsecutive

LEMMA InitInv == HInit => IInv
<1> SUFFICES ASSUME HInit PROVE IInv
  OBVIOUS
<1>1. HTypeOK
  BY InitType
<1>2. TimesOrdered
  BY <1>1 DEF HInit, BreakerInit, TimesOrdered, HTypeOK, BreakerTypeOK
<1>3. ClosedBelowThreshold
  BY FS_EmptySet, ThresholdAssumption DEF HInit, BreakerInit, ClosedBelowThreshold
<1>4. WindowExact /\ ProbesAreConsecutive
  BY DEF HInit, BreakerInit, WindowExact, ProbesAreConsecutive
<1> QED
  BY <1>1, <1>2, <1>3, <1>4 DEF IInv

LEMMA StepTimes == IInv /\ [HNext]_hvars => TimesOrdered'
<1> SUFFICES ASSUME IInv, [HNext]_hvars PROVE TimesOrdered'
  OBVIOUS
<1> USE DEF IInv, TimesOrdered, HTypeOK, BreakerTypeOK
<1>1. CASE HTick
  BY <1>1 DEF HTick, BreakerTick, stats, historyVars
<1>2. ASSUME NEW s \in Server, HAdmit(s) \/ HReject(s) PROVE TimesOrdered'
  BY <1>2 DEF HAdmit, HReject, Admit, Reject, stats, historyVars
<1>3. ASSUME NEW s \in Server, HRecordSuccess(s) PROVE TimesOrdered'
  BY <1>3 DEF HRecordSuccess, RecordSuccess, stats
<1>4. ASSUME NEW s \in Server, HRecordFailure(s) PROVE TimesOrdered'
  <2>1. NewStamp(s).at = now /\ now' = now
    BY <1>4, NewStampType DEF HRecordFailure
  <2>2. lastFailureTime' = [lastFailureTime EXCEPT ![s] = now]
    BY <1>4 DEF HRecordFailure, RecordFailure, NoteFailure
  <2>3. failLog' = [failLog EXCEPT ![s] = @ \cup {NewStamp(s)}]
    BY <1>4 DEF HRecordFailure
  <2>4. \A f \in failLog[s] : f.at <= now
    BY DEF Stamp
  <2> QED
    BY <2>1, <2>2, <2>3, <2>4
<1>5. ASSUME NEW s \in Server, HPreempt(s) PROVE TimesOrdered'
  BY <1>5 DEF HPreempt, Preempt
<1>6. ASSUME NEW s \in Server, HReset(s) PROVE TimesOrdered'
  BY <1>6 DEF HReset, Reset
<1>7. CASE UNCHANGED hvars
  BY <1>7 DEF hvars, breakerVars, stats, historyVars
<1> QED
  BY <1>1, <1>2, <1>3, <1>4, <1>5, <1>6, <1>7 DEF HNext

\* What a failure recorded in CLOSED leaves in the list is the log, with the
\* new stamp, cut at the window that ends now.
LEMMA KeptIsWindowOfLog ==
    ASSUME IInv, NEW s \in Server, state[s] = "closed"
    PROVE  Unexpired(failureTimes[s] \cup {NewStamp(s)}, now)
              = {f \in failLog[s] \cup {NewStamp(s)} : f.at > now - SlidingWindow}
<1>1. failureTimes[s] = {f \in failLog[s] : f.at > lastFailureTime[s] - SlidingWindow}
  BY DEF IInv, WindowExact
<1>2. lastFailureTime[s] <= now /\ lastFailureTime[s] \in Nat /\ now \in Nat
  BY DEF IInv, TimesOrdered, HTypeOK, BreakerTypeOK
<1>3. \A f \in failLog[s] : f.at \in Nat
  BY DEF IInv, HTypeOK, Stamp
<1>4. \A f \in failLog[s] : f.at > now - SlidingWindow => f \in failureTimes[s]
  BY <1>1, <1>2, <1>3, TimeAssumption
<1>5. failureTimes[s] \subseteq failLog[s]
  BY <1>1
<1> QED
  BY <1>4, <1>5 DEF Unexpired

LEMMA StepWindow == IInv /\ [HNext]_hvars => WindowExact'
<1> SUFFICES ASSUME IInv, [HNext]_hvars, NEW r \in Server, state'[r] = "closed"
             PROVE  failureTimes'[r]
                      = {f \in failLog'[r] : f.at > lastFailureTime'[r] - SlidingWindow}
  BY DEF WindowExact
<1> USE DEF IInv, HTypeOK, BreakerTypeOK
<1>0. state[r] = "closed" =>
        failureTimes[r] = {f \in failLog[r] : f.at > lastFailureTime[r] - SlidingWindow}
  BY DEF WindowExact
<1>1. CASE HTick
  BY <1>0, <1>1 DEF HTick, BreakerTick, stats, historyVars
<1>2. ASSUME NEW s \in Server, HAdmit(s) \/ HReject(s)
      PROVE  failureTimes'[r]
               = {f \in failLog'[r] : f.at > lastFailureTime'[r] - SlidingWindow}
  BY <1>0, <1>2 DEF HAdmit, HReject, Admit, Reject, HalfOpen, stats, historyVars
<1>3. ASSUME NEW s \in Server, HRecordSuccess(s)
      PROVE  failureTimes'[r]
               = {f \in failLog'[r] : f.at > lastFailureTime'[r] - SlidingWindow}
  <2>1. CASE r = s
    <3>1. failLog'[r] = {}
      BY <1>3, <2>1 DEF HRecordSuccess
    <3>2. failureTimes'[r] = {}
      BY <1>3, <2>1 DEF HRecordSuccess, RecordSuccess, ForgetFailures, stats
    <3> QED
      BY <3>1, <3>2
  <2>2. CASE r # s
    BY <1>0, <1>3, <2>2 DEF HRecordSuccess, RecordSuccess, ForgetFailures, stats
  <2> QED
    BY <2>1, <2>2
<1>4. ASSUME NEW s \in Server, HRecordFailure(s)
      PROVE  failureTimes'[r]
               = {f \in failLog'[r] : f.at > lastFailureTime'[r] - SlidingWindow}
  <2>1. CASE r = s
    <3>1. state[s] = "closed"
      BY <1>4, <2>1 DEF HRecordFailure, RecordFailure, Trip, CircuitState
    <3>2. failureTimes'[s] = Unexpired(failureTimes[s] \cup {NewStamp(s)}, now)
      BY <1>4, <3>1 DEF HRecordFailure, RecordFailure
    <3>3. /\ lastFailureTime'[s] = now
          /\ failLog'[s] = failLog[s] \cup {NewStamp(s)}
      BY <1>4 DEF HRecordFailure, RecordFailure, NoteFailure
    <3> QED
      BY <2>1, <3>1, <3>2, <3>3, KeptIsWindowOfLog
  <2>2. CASE r # s
    BY <1>0, <1>4, <2>2 DEF HRecordFailure, RecordFailure, NoteFailure, Trip
  <2> QED
    BY <2>1, <2>2
<1>5. ASSUME NEW s \in Server, HPreempt(s)
      PROVE  failureTimes'[r]
               = {f \in failLog'[r] : f.at > lastFailureTime'[r] - SlidingWindow}
  BY <1>0, <1>5 DEF HPreempt, Preempt, Trip
<1>6. ASSUME NEW s \in Server, HReset(s)
      PROVE  failureTimes'[r]
               = {f \in failLog'[r] : f.at > lastFailureTime'[r] - SlidingWindow}
  BY <1>0, <1>6 DEF HReset, Reset, ForgetFailures
<1>7. CASE UNCHANGED hvars
  BY <1>0, <1>7 DEF hvars, breakerVars, stats, historyVars
<1> QED
  BY <1>1, <1>2, <1>3, <1>4, <1>5, <1>6, <1>7 DEF HNext

LEMMA StepClosed == IInv /\ [HNext]_hvars => ClosedBelowThreshold'
  BY BreakerStepClosed, HStepIsBreakerStep DEF IInv, HTypeOK

LEMMA StepProbes == IInv /\ [HNext]_hvars => ProbesAreConsecutive'
<1> SUFFICES ASSUME IInv, [HNext]_hvars, NEW r \in Server, state'[r] = "half_open"
             PROVE  successCount'[r] <= streak'[r]
  BY DEF ProbesAreConsecutive
<1> USE DEF IInv, HTypeOK, BreakerTypeOK
<1>0. state[r] = "half_open" => successCount[r] <= streak[r]
  BY DEF ProbesAreConsecutive
<1>1. CASE HTick
  BY <1>0, <1>1 DEF HTick, BreakerTick, stats, historyVars
<1>2. ASSUME NEW s \in Server, HAdmit(s) \/ HReject(s)
      PROVE  successCount'[r] <= streak'[r]
  BY <1>0, <1>2 DEF HAdmit, HReject, Admit, Reject, HalfOpen, stats, historyVars
<1>3. ASSUME NEW s \in Server, HRecordSuccess(s) PROVE successCount'[r] <= streak'[r]
  <2>1. CASE r = s
    <3>1. /\ state[s] = "half_open"
          /\ successCount'[s] = successCount[s] + 1
          /\ successCount[s] + 1 < SuccessThreshold
      BY <1>3, <2>1, ThresholdAssumption
         DEF HRecordSuccess, RecordSuccess, ReachesSuccesses, CircuitState, stats
    <3>2. streak'[s] = IF streak[s] < SuccessThreshold THEN streak[s] + 1 ELSE streak[s]
      BY <1>3 DEF HRecordSuccess
    <3> QED
      BY <1>0, <2>1, <3>1, <3>2, ThresholdAssumption
  <2>2. CASE r # s
    BY <1>0, <1>3, <2>2 DEF HRecordSuccess, RecordSuccess, ForgetFailures, stats
  <2> QED
    BY <2>1, <2>2
<1>4. ASSUME NEW s \in Server, HRecordFailure(s) PROVE successCount'[r] <= streak'[r]
  <2>1. r # s
    BY <1>4 DEF HRecordFailure, RecordFailure, Trip, CircuitState
  <2> QED
    BY <1>0, <1>4, <2>1 DEF HRecordFailure, RecordFailure, Trip
<1>5. ASSUME NEW s \in Server, HPreempt(s) PROVE successCount'[r] <= streak'[r]
  BY <1>0, <1>5 DEF HPreempt, Preempt, Trip
<1>6. ASSUME NEW s \in Server, HReset(s) PROVE successCount'[r] <= streak'[r]
  BY <1>0, <1>6 DEF HReset, Reset
<1>7. CASE UNCHANGED hvars
  BY <1>0, <1>7 DEF hvars, breakerVars, stats, historyVars
<1> QED
  BY <1>1, <1>2, <1>3, <1>4, <1>5, <1>6, <1>7 DEF HNext

LEMMA StepInv == IInv /\ [HNext]_hvars => IInv'
  BY StepType, StepTimes, StepWindow, StepClosed, StepProbes DEF IInv

LEMMA Inductive == HSpec => []IInv
  BY InitInv, StepInv, PTL DEF HSpec

\* Pruning only on failures loses nothing: failure_timestamps of a CLOSED
\* circuit is the history since the last success, cut at the window of the last
\* failure (WindowExact).
THEOREM ExactWindow == HSpec => []WindowExact
<1>1. IInv => WindowExact
  BY DEF IInv
<1> QED
  BY <1>1, Inductive, PTL

\* No success older than the last failure counts towards closing
\* (ProbesAreConsecutive).
THEOREM ConsecutiveProbes == HSpec => []ProbesAreConsecutive
<1>1. IInv => ProbesAreConsecutive
  BY DEF IInv
<1> QED
  BY <1>1, Inductive, PTL

-----------------------------------------------------------------------------
\* The action properties.

LEMMA StepOpens ==
    ASSUME IInv, [HNext]_hvars, NEW s \in Server
    PROVE  OpensExactly(s)
<1> SUFFICES ASSUME state[s] = "closed", NewStamp(s) \in failLog'[s] \ failLog[s]
             PROVE  state'[s] = "open"
                      <=> Cardinality({f \in failLog'[s] : f.at > now - SlidingWindow})
                             >= FailureThreshold
  BY DEF OpensExactly
<1>1. HRecordFailure(s)
  BY DEF HNext, HTick, HAdmit, HReject, HRecordSuccess, HRecordFailure, HPreempt, HReset,
         hvars, historyVars, IInv, HTypeOK
<1>2. failLog'[s] = failLog[s] \cup {NewStamp(s)}
  BY <1>1 DEF HRecordFailure, IInv, HTypeOK
<1>3. Unexpired(failureTimes[s] \cup {NewStamp(s)}, now)
        = {f \in failLog'[s] : f.at > now - SlidingWindow}
  BY <1>2, KeptIsWindowOfLog
<1>4. state'[s] = "open"
        <=> ReachesFailures(Cardinality(Unexpired(failureTimes[s] \cup {NewStamp(s)}, now)))
  BY <1>1 DEF HRecordFailure, RecordFailure, Trip, IInv, HTypeOK, BreakerTypeOK
<1> QED
  BY <1>3, <1>4 DEF ReachesFailures

LEMMA StepProbeIsLate ==
    ASSUME IInv, [HNext]_hvars, NEW s \in Server
    PROVE  ProbeIsLate(s)
<1> SUFFICES ASSUME state[s] = "open", state'[s] = "half_open"
             PROVE  \A f \in failLog[s] : now - f.at >= ResetTimeout
  BY DEF ProbeIsLate
<1>1. now - lastFailureTime[s] >= ResetTimeout
  BY DEF HNext, HTick, HAdmit, HReject, HRecordSuccess, HRecordFailure, HPreempt, HReset,
         BreakerTick, Admit, Reject, RecordSuccess, RecordFailure, Preempt, Reset, HalfOpen, Trip,
         TimeoutElapsed, hvars, breakerVars, stats, IInv, HTypeOK, BreakerTypeOK
<1>2. \A f \in failLog[s] : f.at <= lastFailureTime[s] /\ f.at \in Nat
  BY DEF IInv, TimesOrdered, HTypeOK, Stamp
<1> QED
  BY <1>1, <1>2, TimeAssumption DEF IInv, HTypeOK, BreakerTypeOK

LEMMA StepCloseIsEarned ==
    ASSUME IInv, [HNext]_hvars, NEW s \in Server
    PROVE  CloseIsEarned(s)
<1> SUFFICES ASSUME state[s] = "half_open", state'[s] = "closed"
             PROVE  streak'[s] \in {0, SuccessThreshold}
  BY DEF CloseIsEarned
<1> USE DEF IInv, HTypeOK, BreakerTypeOK
<1>1. HRecordSuccess(s) \/ HReset(s)
  BY DEF HNext, HTick, HAdmit, HReject, HRecordSuccess, HRecordFailure, HPreempt, HReset,
         BreakerTick, Admit, Reject, RecordSuccess, RecordFailure, Preempt, Reset, HalfOpen, Trip,
         hvars, breakerVars, stats
<1>2. CASE HRecordSuccess(s)
  <2>1. successCount[s] + 1 >= SuccessThreshold
    BY <1>2 DEF HRecordSuccess, RecordSuccess, ReachesSuccesses
  <2>2. successCount[s] <= streak[s]
    BY DEF ProbesAreConsecutive
  <2>3. streak'[s] = IF streak[s] < SuccessThreshold THEN streak[s] + 1 ELSE streak[s]
    BY <1>2 DEF HRecordSuccess
  <2> QED
    BY <2>1, <2>2, <2>3, ThresholdAssumption
<1>3. CASE HReset(s)
  BY <1>3 DEF HReset
<1> QED
  BY <1>1, <1>2, <1>3

\* record_failure opens a CLOSED circuit exactly when the failures of the window
\* reach failure_threshold (OpensAtThreshold).
THEOREM OpensExactlyAtThreshold == HSpec => OpensAtThreshold
<1>1. IInv /\ [HNext]_hvars => [\A s \in Server : OpensExactly(s)]_hvars
  BY StepOpens
<1> QED
  BY <1>1, Inductive, PTL DEF HSpec, OpensAtThreshold

\* No probe passes an OPEN circuit within reset_timeout of any logged failure
\* (OpenOutlastsFailures).
THEOREM NoEarlyProbe == HSpec => OpenOutlastsFailures
<1>1. IInv /\ [HNext]_hvars => [\A s \in Server : ProbeIsLate(s)]_hvars
  BY StepProbeIsLate
<1> QED
  BY <1>1, Inductive, PTL DEF HSpec, OpenOutlastsFailures

\* A HALF_OPEN circuit closes on success_threshold successes in a row, or by a
\* reset (ClosesOnConsecutiveSuccesses).
THEOREM ClosingIsEarned == HSpec => ClosesOnConsecutiveSuccesses
<1>1. IInv /\ [HNext]_hvars => [\A s \in Server : CloseIsEarned(s)]_hvars
  BY StepCloseIsEarned
<1> QED
  BY <1>1, Inductive, PTL DEF HSpec, ClosesOnConsecutiveSuccesses
-----------------------------------------------------------------------------
(***************************************************************************)
(* The failover over the shared breaker.  The inductive invariant adds to  *)
(* the properties that a request which waits or calls is at an entry of    *)
(* its chain and has left the earlier ones for a reason, that a circuit    *)
(* which is not CLOSED goes back to a request's failure, that a queue      *)
(* holds nobody twice, so that the head is taken out for good, and that a  *)
(* semaphore has finitely many holders, however many requests there are.   *)
(***************************************************************************)
Members(seq) == {seq[i] : i \in DOMAIN seq}
Once(seq) == \A i, j \in DOMAIN seq : seq[i] = seq[j] => i = j

AtAnEntry ==
    \A r \in Request :
        /\ phase[r] \in {"wait", "call", "stream"} => idx[r] <= Len(Chain[r])
        /\ outcome[r] = "exhausted" => phase[r] = "done"

\* A request has left an entry behind for a reason, and has found nothing yet
\* at those ahead of it; it reports exhaustion at the end of its chain, or
\* because it was cancelled.
Walked ==
    \A r \in Request :
        /\ \A i \in 1..Len(Chain[r]) :
              /\ i < idx[r] => verdict[r][i] \in {"skipped", "failed", "empty"}
              /\ i >= idx[r] => verdict[r][i] \in {"none", "answered"}
        /\ outcome[r] = "exhausted" => cancel[r] \/ idx[r] > Len(Chain[r])

\* A circuit that is not CLOSED, and an entry that was skipped, go back to a
\* failure that some request had there.
Evidence ==
    /\ \A k \in Server : state[k] # "closed" => FailedSomewhere(k)
    /\ \A r \in Request : \A i \in 1..Len(Chain[r]) :
          verdict[r][i] = "skipped" => FailedSomewhere(Chain[r][i])

Waiters(k) == {r \in Request : phase[r] = "wait" /\ Key(r) = k}

QueueExact ==
    \A k \in Server : Once(waiting[k]) /\ Members(waiting[k]) = Waiters(k)

PermitsExact ==
    \A k \in Server :
        /\ IsFiniteSet(Holders(k))
        /\ permits[k] + Cardinality(Holders(k)) = MaxConcurrent

FailoverInv ==
    /\ TypeOK
    /\ AtAnEntry
    /\ Walked
    /\ Evidence
    /\ QueueExact
    /\ PermitsExact

\* The three things that happen to a queue: one joins at its end, the first
\* leaves, or anyone leaves.

LEMMA AppendOnce ==
    ASSUME NEW S, NEW q \in Seq(S), NEW x \in S, Once(q), x \notin Members(q)
    PROVE  /\ Append(q, x) \in Seq(S)
           /\ Once(Append(q, x))
           /\ Members(Append(q, x)) = Members(q) \cup {x}
<1>1. /\ Append(q, x) \in Seq(S) /\ Len(q) \in Nat
      /\ DOMAIN q = 1..Len(q) /\ DOMAIN Append(q, x) = 1..Len(q) + 1
      /\ Append(q, x)[Len(q) + 1] = x
      /\ \A i \in 1..Len(q) : Append(q, x)[i] = q[i]
  OBVIOUS
<1>2. Once(Append(q, x))
  BY <1>1 DEF Once, Members
<1>3. ASSUME NEW y \in Members(q) \cup {x} PROVE y \in Members(Append(q, x))
  <2>1. CASE y = x
    BY <1>1, <2>1 DEF Members
  <2>2. CASE y \in Members(q)
    <3>1. PICK i \in DOMAIN q : q[i] = y
      BY <2>2 DEF Members
    <3> QED
      BY <1>1, <3>1 DEF Members
  <2> QED
    BY <1>3, <2>1, <2>2
<1>4. ASSUME NEW y \in Members(Append(q, x)) PROVE y \in Members(q) \cup {x}
  BY <1>1, <1>4 DEF Members
<1> QED
  BY <1>1, <1>2, <1>3, <1>4

LEMMA TailOnce ==
    ASSUME NEW S, NEW q \in Seq(S), q # <<>>, Once(q)
    PROVE  /\ Tail(q) \in Seq(S)
           /\ Once(Tail(q))
           /\ Members(Tail(q)) = Members(q) \ {Head(q)}
<1>1. /\ Tail(q) \in Seq(S) /\ Len(q) \in Nat \ {0}
      /\ DOMAIN q = 1..Len(q) /\ DOMAIN Tail(q) = 1..Len(q) - 1
      /\ Head(q) = q[1]
      /\ \A i \in 1..Len(q) - 1 : Tail(q)[i] = q[i + 1]
  OBVIOUS
<1>2. Once(Tail(q))
  BY <1>1 DEF Once
<1>3. ASSUME NEW y \in Members(q) \ {Head(q)} PROVE y \in Members(Tail(q))
  <2>1. PICK i \in DOMAIN q : q[i] = y
    BY <1>3 DEF Members
  <2>2. i # 1 /\ i - 1 \in 1..Len(q) - 1 /\ Tail(q)[i - 1] = y
    BY <1>1, <2>1
  <2> QED
    BY <1>1, <2>2 DEF Members
<1>4. ASSUME NEW y \in Members(Tail(q)) PROVE y \in Members(q) \ {Head(q)}
  <2>1. PICK i \in 1..Len(q) - 1 : y = q[i + 1]
    BY <1>1, <1>4 DEF Members
  <2>2. i + 1 \in DOMAIN q /\ 1 \in DOMAIN q /\ i + 1 # 1
    BY <1>1
  <2> QED
    BY <1>1, <2>1, <2>2 DEF Members, Once
<1> QED
  BY <1>1, <1>2, <1>3, <1>4

LEMMA DropOnce ==
    ASSUME NEW S, NEW q \in Seq(S), NEW i \in DOMAIN q, Once(q)
    PROVE  /\ Drop(q, i) \in Seq(S)
           /\ Once(Drop(q, i))
           /\ Members(Drop(q, i)) = Members(q) \ {q[i]}
<1>1. /\ Len(q) \in Nat \ {0} /\ DOMAIN q = 1..Len(q) /\ i \in 1..Len(q)
      /\ \A j \in 1..Len(q) : q[j] \in S
  OBVIOUS
<1>2. /\ DOMAIN Drop(q, i) = 1..Len(q) - 1
      /\ \A j \in 1..Len(q) - 1 : Drop(q, i)[j] = IF j < i THEN q[j] ELSE q[j + 1]
  BY DEF Drop
<1>3. Drop(q, i) \in Seq(S)
  <2>1. Drop(q, i) \in [1..Len(q) - 1 -> S]
    BY <1>1 DEF Drop
  <2> QED
    BY <1>1, <2>1, SeqDef
<1>4. Once(Drop(q, i))
  <2> SUFFICES ASSUME NEW j \in 1..Len(q) - 1, NEW k \in 1..Len(q) - 1,
                      Drop(q, i)[j] = Drop(q, i)[k]
               PROVE  j = k
    BY <1>2 DEF Once
  <2> QED
    BY <1>1, <1>2 DEF Once
<1>5. ASSUME NEW y \in Members(q) \ {q[i]} PROVE y \in Members(Drop(q, i))
  <2>1. PICK j \in 1..Len(q) : q[j] = y /\ j # i
    BY <1>1, <1>5 DEF Members
  <2>2. CASE j < i
    BY <1>1, <1>2, <2>1, <2>2 DEF Members
  <2>3. CASE j > i
    <3>1. j - 1 \in 1..Len(q) - 1 /\ Drop(q, i)[j - 1] = y
      BY <1>1, <1>2, <2>1, <2>3
    <3> QED
      BY <1>2, <3>1 DEF Members
  <2> QED
    BY <1>1, <2>1, <2>2, <2>3
<1>6. ASSUME NEW y \in Members(Drop(q, i)) PROVE y \in Members(q) \ {q[i]}
  <2>1. PICK j \in 1..Len(q) - 1 : y = IF j < i THEN q[j] ELSE q[j + 1]
    BY <1>2, <1>6 DEF Members
  <2>2. PICK m \in 1..Len(q) : y = q[m] /\ m # i
    BY <1>1, <2>1
  <2> QED
    BY <1>1, <2>2 DEF Members, Once
<1> QED
  BY <1>3, <1>4, <1>5, <1>6

-----------------------------------------------------------------------------
\* How a request goes on, or ends: the walk over its chain.

WalkInv ==
    /\ phase \in [Request -> Phase]
    /\ idx \in [Request -> Nat \ {0}]
    /\ DOMAIN verdict = Request
    /\ \A r \in Request : verdict[r] \in [1..Len(Chain[r]) -> Verdict]
    /\ outcome \in [Request -> Outcome]
    /\ AtAnEntry
    /\ Walked

LEMMA InvWalks == FailoverInv => WalkInv
  BY DEF FailoverInv, TypeOK, WalkInv

LEMMA ChainType == \A r \in Request : Chain[r] \in Seq(Server) /\ Len(Chain[r]) \in Nat
  BY RequestAssumption

LEMMA KeyType ==
    ASSUME FailoverInv, NEW r \in Request, idx[r] <= Len(Chain[r])
    PROVE  Key(r) \in Server
  BY ChainType DEF FailoverInv, TypeOK, Key

\* A step to the next entry leaves a failed, skipped or empty one behind.
LEMMA NextEntryWalks ==
    ASSUME WalkInv, NEW r \in Request, NEW what \in {"skipped", "failed", "empty"},
           phase[r] # "done", idx[r] <= Len(Chain[r]), NextEntry(r, what), UNCHANGED cancel
    PROVE  WalkInv'
<1> USE DEF WalkInv, NextEntry
<1>1. /\ phase' = [phase EXCEPT ![r] = "scan"] /\ idx' = [idx EXCEPT ![r] = @ + 1]
      /\ phase' \in [Request -> Phase] /\ idx' \in [Request -> Nat \ {0}]
      /\ outcome' = outcome /\ DOMAIN verdict' = Request
  BY DEF Phase
<1>2. /\ verdict'[r] = [verdict[r] EXCEPT ![idx[r]] = what]
      /\ \A q \in Request \ {r} : verdict'[q] = verdict[q]
  OBVIOUS
<1>3. verdict'[r] \in [1..Len(Chain[r]) -> Verdict]
  BY <1>2 DEF Verdict
<1>4. \A q \in Request : verdict'[q] \in [1..Len(Chain[q]) -> Verdict]
  BY <1>2, <1>3
<1>5. AtAnEntry'
  BY <1>1 DEF AtAnEntry
<1>6. Walked'
  <2>1. ASSUME NEW q \in Request \ {r}, NEW i \in 1..Len(Chain[q])
        PROVE  /\ i < idx'[q] => verdict'[q][i] \in {"skipped", "failed", "empty"}
               /\ i >= idx'[q] => verdict'[q][i] \in {"none", "answered"}
    BY <1>1, <1>2 DEF Walked
  <2>2. ASSUME NEW i \in 1..Len(Chain[r])
        PROVE  /\ i < idx'[r] => verdict'[r][i] \in {"skipped", "failed", "empty"}
               /\ i >= idx'[r] => verdict'[r][i] \in {"none", "answered"}
    <3>1. verdict'[r][i] = IF i = idx[r] THEN what ELSE verdict[r][i]
      BY <1>2
    <3>2. /\ i < idx'[r] => i = idx[r] \/ i < idx[r]
          /\ i >= idx'[r] => i # idx[r] /\ i >= idx[r]
      BY <1>1, ChainType
    <3> QED
      BY <3>1, <3>2 DEF Walked
  <2>3. ASSUME NEW q \in Request, outcome'[q] = "exhausted"
        PROVE  cancel'[q] \/ idx'[q] > Len(Chain[q])
    <3>1. q # r
      BY <1>1, <2>3 DEF AtAnEntry
    <3> QED
      BY <1>1, <2>3, <3>1 DEF Walked
  <2> QED
    BY <2>1, <2>2, <2>3 DEF Walked
<1> QED
  BY <1>1, <1>4, <1>5, <1>6

\* An end leaves the entries before the current one as they are.
LEMMA FinishWalks ==
    ASSUME WalkInv, NEW r \in Request, NEW how \in Outcome, Finish(r, how),
           phase[r] # "done", UNCHANGED <<idx, cancel>>,
           \/ UNCHANGED verdict
           \/ verdict' = [verdict EXCEPT ![r][idx[r]] = "answered"] /\ idx[r] <= Len(Chain[r]),
           how = "exhausted" => cancel[r] \/ idx[r] > Len(Chain[r])
    PROVE  WalkInv'
<1> USE DEF WalkInv, Finish
<1>1. /\ phase' = [phase EXCEPT ![r] = "done"] /\ idx' = idx
      /\ phase' \in [Request -> Phase]
      /\ outcome' = [outcome EXCEPT ![r] = how] /\ outcome' \in [Request -> Outcome]
      /\ DOMAIN verdict' = Request
  BY DEF Phase
<1>2. \A q \in Request \ {r} : verdict'[q] = verdict[q]
  OBVIOUS
<1>3. verdict'[r] \in {verdict[r], [verdict[r] EXCEPT ![idx[r]] = "answered"]}
  OBVIOUS
<1>4. \A q \in Request : verdict'[q] \in [1..Len(Chain[q]) -> Verdict]
  <2>1. verdict'[r] \in [1..Len(Chain[r]) -> Verdict]
    BY <1>3 DEF Verdict
  <2> QED
    BY <1>2, <2>1
<1>5. AtAnEntry'
  BY <1>1 DEF AtAnEntry
<1>6. Walked'
  <2>1. ASSUME NEW q \in Request, NEW i \in 1..Len(Chain[q])
        PROVE  /\ i < idx'[q] => verdict'[q][i] \in {"skipped", "failed", "empty"}
               /\ i >= idx'[q] => verdict'[q][i] \in {"none", "answered"}
    <3>1. verdict'[q][i] = verdict[q][i] \/ (i = idx[q] /\ verdict'[q][i] = "answered")
      BY <1>2, <1>3
    <3>2. ~(idx[q] < idx[q])
      OBVIOUS
    <3> QED
      BY <1>1, <3>1, <3>2 DEF Walked
  <2>2. ASSUME NEW q \in Request, outcome'[q] = "exhausted"
        PROVE  cancel'[q] \/ idx'[q] > Len(Chain[q])
    BY <1>1, <2>2 DEF Walked
  <2> QED
    BY <2>1, <2>2 DEF Walked
<1> QED
  BY <1>1, <1>4, <1>5, <1>6

\* Going from one await to another at the same entry.
LEMMA MoveWalks ==
    ASSUME WalkInv, NEW r \in Request, NEW p \in Phase \ {"done"},
           phase' = [phase EXCEPT ![r] = p], phase[r] # "done",
           p \in {"wait", "call", "stream"} => idx[r] <= Len(Chain[r]),
           UNCHANGED <<idx, verdict, outcome, cancel>>
    PROVE  WalkInv'
<1>1. phase' \in [Request -> Phase]
  BY DEF WalkInv
<1>2. AtAnEntry'
  BY DEF WalkInv, AtAnEntry
<1>3. Walked'
  BY DEF WalkInv, Walked
<1> QED
  BY <1>1, <1>2, <1>3 DEF WalkInv

-----------------------------------------------------------------------------
\* What a step of r does to the permits.

OthersStay(r) == \A q \in Request \ {r} : phase'[q] = phase[q] /\ idx'[q] = idx[q]

LEMMA PermitsKept ==
    ASSUME PermitsExact, NEW r \in Request, OthersStay(r), UNCHANGED permits,
           phase[r] # "call", phase'[r] # "call"
    PROVE  PermitsExact'
<1>1. \A k \in Server : Holders(k)' = Holders(k)
  BY DEF OthersStay, Holders, Key
<1> QED
  BY <1>1 DEF PermitsExact

LEMMA PermitTaken ==
    ASSUME PermitsExact, permits \in [Server -> 0..MaxConcurrent],
           NEW r \in Request, OthersStay(r), idx'[r] = idx[r], NEW k \in Server, k = Key(r),
           permits' = [permits EXCEPT ![k] = @ - 1], permits[k] > 0,
           phase[r] # "call", phase'[r] = "call"
    PROVE  PermitsExact' /\ permits' \in [Server -> 0..MaxConcurrent]
<1>1. Holders(k)' = Holders(k) \cup {r} /\ r \notin Holders(k)
  BY DEF OthersStay, Holders, Key
<1>2. \A l \in Server \ {k} : Holders(l)' = Holders(l) /\ permits'[l] = permits[l]
  BY DEF OthersStay, Holders, Key
<1>3. /\ IsFiniteSet(Holders(k) \cup {r})
      /\ Cardinality(Holders(k) \cup {r}) = Cardinality(Holders(k)) + 1
      /\ Cardinality(Holders(k)) \in Nat
  BY <1>1, FS_AddElement, FS_CardinalityType DEF PermitsExact
<1>4. permits' \in [Server -> 0..MaxConcurrent] /\ permits'[k] = permits[k] - 1
  BY RequestAssumption
<1>5. permits'[k] + Cardinality(Holders(k)') = MaxConcurrent
  BY <1>1, <1>3, <1>4, RequestAssumption DEF PermitsExact
<1> QED
  BY <1>1, <1>2, <1>3, <1>4, <1>5 DEF PermitsExact

LEMMA PermitGiven ==
    ASSUME PermitsExact, permits \in [Server -> 0..MaxConcurrent],
           NEW r \in Request, OthersStay(r), NEW k \in Server, k = Key(r),
           permits' = [permits EXCEPT ![k] = @ + 1],
           phase[r] = "call", phase'[r] # "call"
    PROVE  PermitsExact' /\ permits' \in [Server -> 0..MaxConcurrent]
<1>1. Holders(k)' = Holders(k) \ {r} /\ r \in Holders(k)
  BY DEF OthersStay, Holders, Key
<1>2. \A l \in Server \ {k} : Holders(l)' = Holders(l) /\ permits'[l] = permits[l]
  BY DEF OthersStay, Holders, Key
<1>3. /\ IsFiniteSet(Holders(k) \ {r})
      /\ Cardinality(Holders(k) \ {r}) = Cardinality(Holders(k)) - 1
      /\ Cardinality(Holders(k)) \in Nat
      /\ Cardinality(Holders(k) \ {r}) \in Nat
  BY <1>1, FS_RemoveElement, FS_CardinalityType DEF PermitsExact
<1>4. permits[k] + Cardinality(Holders(k)) = MaxConcurrent
  BY DEF PermitsExact
<1>5. permits' \in [Server -> 0..MaxConcurrent] /\ permits'[k] = permits[k] + 1
  BY <1>3, <1>4, RequestAssumption
<1>6. permits'[k] + Cardinality(Holders(k)') = MaxConcurrent
  BY <1>1, <1>3, <1>4, <1>5, RequestAssumption
<1> QED
  BY <1>1, <1>2, <1>3, <1>5, <1>6 DEF PermitsExact

-----------------------------------------------------------------------------
\* What a step of r does to the queues.

LEMMA QueuesKept ==
    ASSUME QueueExact, NEW r \in Request, OthersStay(r), UNCHANGED waiting,
           phase[r] # "wait", phase'[r] # "wait"
    PROVE  QueueExact'
<1>1. \A k \in Server : Waiters(k)' = Waiters(k)
  BY DEF OthersStay, Waiters, Key
<1> QED
  BY <1>1 DEF QueueExact

LEMMA QueueJoined ==
    ASSUME QueueExact, waiting \in [Server -> Seq(Request)],
           NEW r \in Request, OthersStay(r), idx'[r] = idx[r], NEW k \in Server, k = Key(r),
           waiting' = [waiting EXCEPT ![k] = Append(@, r)],
           phase[r] # "wait", phase'[r] = "wait"
    PROVE  QueueExact' /\ waiting' \in [Server -> Seq(Request)]
<1>1. Waiters(k)' = Waiters(k) \cup {r} /\ r \notin Waiters(k)
  BY DEF OthersStay, Waiters, Key
<1>2. \A l \in Server \ {k} : Waiters(l)' = Waiters(l) /\ waiting'[l] = waiting[l]
  BY DEF OthersStay, Waiters, Key
<1>3. /\ waiting'[k] = Append(waiting[k], r)
      /\ waiting'[k] \in Seq(Request)
      /\ Once(waiting'[k]) /\ Members(waiting'[k]) = Waiters(k) \cup {r}
  BY <1>1, AppendOnce DEF QueueExact
<1>4. waiting' \in [Server -> Seq(Request)]
  BY <1>3
<1> QED
  BY <1>1, <1>2, <1>3, <1>4 DEF QueueExact

\* The queue has lost r, at its head or elsewhere.
LEMMA QueueLeft ==
    ASSUME QueueExact, waiting \in [Server -> Seq(Request)],
           NEW r \in Request, OthersStay(r), idx'[r] = idx[r], NEW k \in Server, k = Key(r),
           NEW q \in Seq(Request), waiting' = [waiting EXCEPT ![k] = q],
           Once(q), Members(q) = Members(waiting[k]) \ {r}, phase'[r] # "wait"
    PROVE  QueueExact' /\ waiting' \in [Server -> Seq(Request)]
<1>1. Waiters(k)' = Waiters(k) \ {r}
  BY DEF OthersStay, Waiters, Key
<1>2. \A l \in Server \ {k} : Waiters(l)' = Waiters(l) /\ waiting'[l] = waiting[l]
  BY DEF OthersStay, Waiters, Key
<1>3. waiting'[k] = q /\ waiting' \in [Server -> Seq(Request)]
  OBVIOUS
<1> QED
  BY <1>1, <1>2, <1>3 DEF QueueExact

-----------------------------------------------------------------------------
\* The breaker is used through its methods only: every step of the failover is
\* a call of one of them for a server, a step of the clock, or no step of it.

LEMMA StepRefines == FailoverInv /\ [Next]_vars => [BreakerNext]_breakerVars
<1> SUFFICES ASSUME FailoverInv, [Next]_vars PROVE [BreakerNext]_breakerVars
  OBVIOUS
<1> USE DEF breakerVars, stats
<1>1. ASSUME NEW s \in Server, UNCHANGED now,
             Admit(s) \/ Reject(s) \/ RecordSuccess(s) \/ RecordFailure(s)
      PROVE  [BreakerNext]_breakerVars
  BY <1>1 DEF BreakerNext, BreakerCall
<1>2. ASSUME NEW r \in Request, Step(r) PROVE [BreakerNext]_breakerVars
  <2>1. CASE Begin(r) \/ SetCancel(r) \/ Abort(r)
    BY <2>1 DEF Begin, SetCancel, Abort
  <2>2. CASE StopCancelled(r) \/ Exhaust(r) \/ Granted(r)
    BY <2>2 DEF StopCancelled, Exhaust, Granted
  <2>3. CASE Skip(r) \/ Call(r) \/ Queue(r) \/ OpenStream(r)
    BY <1>1, <2>3, KeyType DEF Skip, Call, Queue, OpenStream, Considers
  <2>4. CASE CallSucceeds(r) \/ CallFails(r) \/ StreamEnds(r) \/ StreamFails(r)
    <3>1. Key(r) \in Server
      BY <2>4, KeyType
         DEF FailoverInv, AtAnEntry, CallSucceeds, CallFails, StreamEnds, StreamFails
    <3> QED
      BY <1>1, <2>4, <3>1 DEF CallSucceeds, CallFails, StreamEnds, StreamFails, Charge
  <2>5. CASE CallRaises(r) \/ StreamYields(r) \/ StreamEmpty(r)
    BY <2>5 DEF CallRaises, PassOn, StreamYields, StreamEmpty
  <2> QED
    BY <1>2, <2>1, <2>2, <2>3, <2>4, <2>5 DEF Step, Proceed, Answer
<1>3. CASE PingSucceeds
  <2>1. pinging \in Server
    BY <1>3, RequestAssumption DEF PingSucceeds, FailoverInv, TypeOK
  <2> QED
    BY <1>1, <1>3, <2>1 DEF PingSucceeds
<1>4. CASE PingFails \/ AllDone \/ \E k \in MonitorKeys : Ping(k)
  BY <1>4 DEF PingFails, AllDone, Ping, vars
<1>5. CASE Tick
  BY <1>5 DEF Tick, BreakerNext
<1>6. CASE UNCHANGED vars
  BY <1>6 DEF vars
<1> QED
  BY <1>2, <1>3, <1>4, <1>5, <1>6 DEF Next

\* What a step does to the evidence.  A failure stays, a circuit leaves CLOSED
\* only as a request's failure is recorded, and an entry is skipped only where
\* the circuit was already open.

FailuresStay == \A k \in Server : FailedSomewhere(k) => FailedSomewhere(k)'

NoNewSkip ==
    \A r \in Request : \A i \in 1..Len(Chain[r]) :
        verdict'[r][i] = "skipped" =>
            verdict[r][i] = "skipped" \/ FailedSomewhere(Chain[r][i])

NoNewTrip ==
    \A k \in Server : state'[k] # "closed" => state[k] # "closed" \/ FailedSomewhere(k)'

LEMMA EvidenceKept ==
    ASSUME FailoverInv, FailuresStay, NoNewSkip, NoNewTrip
    PROVE  Evidence'
<1>1. \A r \in Request : \A i \in 1..Len(Chain[r]) : Chain[r][i] \in Server
  BY ChainType
<1> QED
  BY <1>1 DEF FailoverInv, Evidence, FailuresStay, NoNewSkip, NoNewTrip

\* A method other than record_failure never opens a CLOSED circuit.
LEMMA CalmMethods ==
    ASSUME FailoverInv, NEW s \in Server,
           Admit(s) \/ Reject(s) \/ RecordSuccess(s) \/ UNCHANGED state
    PROVE  NoNewTrip
  BY DEF Admit, Reject, RecordSuccess, HalfOpen, stats, NoNewTrip, FailoverInv, TypeOK, BreakerTypeOK

LEMMA VerdictsKept ==
    ASSUME UNCHANGED verdict
    PROVE  FailuresStay /\ NoNewSkip
  BY DEF FailuresStay, NoNewSkip, FailedSomewhere

\* A verdict at the current entry takes no failure back.
LEMMA VerdictGiven ==
    ASSUME FailoverInv, NEW r \in Request, NEW what, NEW k, k = Key(r),
           idx[r] <= Len(Chain[r]),
           verdict' = [verdict EXCEPT ![r][idx[r]] = what],
           what \in {"failed", "empty", "answered"} \/ FailedSomewhere(k)
    PROVE  /\ FailuresStay /\ NoNewSkip
           /\ what = "failed" => FailedSomewhere(k)'
<1>1. idx[r] \in 1..Len(Chain[r])
  BY ChainType DEF FailoverInv, TypeOK
<1>2. /\ \A q \in Request \ {r} : verdict'[q] = verdict[q]
      /\ \A i \in 1..Len(Chain[r]) :
            verdict'[r][i] = IF i = idx[r] THEN what ELSE verdict[r][i]
  BY <1>1 DEF FailoverInv, TypeOK
<1>3. verdict[r][idx[r]] \in {"none", "answered"}
  BY <1>1 DEF FailoverInv, Walked, TypeOK
<1>4. FailuresStay
  <2> SUFFICES ASSUME NEW q \in Request, NEW j \in 1..Len(Chain[q]), verdict[q][j] = "failed"
               PROVE  verdict'[q][j] = "failed"
    BY DEF FailuresStay, FailedSomewhere
  <2> QED
    BY <1>2, <1>3
<1>5. NoNewSkip
  BY <1>2 DEF NoNewSkip, Key
<1>6. what = "failed" => FailedSomewhere(k)'
  BY <1>1, <1>2 DEF FailedSomewhere, Key
<1> QED
  BY <1>4, <1>5, <1>6

LEMMA EvidenceStep == FailoverInv /\ [Next]_vars => Evidence'
<1> SUFFICES ASSUME FailoverInv, [Next]_vars PROVE Evidence'
  OBVIOUS
<1>1. ASSUME UNCHANGED <<state, verdict>> PROVE Evidence'
  BY <1>1 DEF FailoverInv, Evidence, FailedSomewhere
<1>2. ASSUME NEW r \in Request, Step(r) PROVE Evidence'
  <2>1. CASE \/ Begin(r) \/ SetCancel(r) \/ Abort(r) \/ StopCancelled(r) \/ Exhaust(r)
            \/ Granted(r) \/ CallRaises(r) \/ StreamYields(r)
    BY <1>1, <2>1 DEF Begin, SetCancel, Abort, StopCancelled, Exhaust, Granted, CallRaises,
                      PassOn, StreamYields, breakerVars, stats, walk
  <2>2. CASE Call(r) \/ Queue(r) \/ OpenStream(r)
    <3>1. Key(r) \in Server /\ Admit(Key(r)) /\ UNCHANGED verdict
      BY <2>2, KeyType DEF Call, Queue, OpenStream, Considers
    <3> QED
      BY <3>1, CalmMethods, VerdictsKept, EvidenceKept
  <2>3. CASE Skip(r)
    <3>1. /\ Key(r) \in Server /\ idx[r] <= Len(Chain[r]) /\ Reject(Key(r))
          /\ verdict' = [verdict EXCEPT ![r][idx[r]] = "skipped"]
      BY <2>3, KeyType DEF Skip, Considers, NextEntry
    <3>2. FailedSomewhere(Key(r))
      BY <3>1 DEF Reject, FailoverInv, Evidence
    <3>3. PICK k \in Server : k = Key(r)
      BY <3>1
    <3>4. FailuresStay /\ NoNewSkip
      BY <3>1, <3>2, <3>3, VerdictGiven
    <3> QED
      BY <3>1, <3>4, CalmMethods, EvidenceKept
  <2>4. CASE CallSucceeds(r) \/ StreamEnds(r)
    <3>1. /\ idx[r] <= Len(Chain[r]) /\ RecordSuccess(Key(r))
          /\ verdict' = [verdict EXCEPT ![r][idx[r]] = "answered"]
      BY <2>4 DEF CallSucceeds, StreamEnds, FailoverInv, AtAnEntry
    <3>2. Key(r) \in Server
      BY <3>1, KeyType
    <3>3. PICK k \in Server : k = Key(r)
      BY <3>2
    <3>4. FailuresStay /\ NoNewSkip
      BY <3>1, <3>3, VerdictGiven
    <3> QED
      BY <3>1, <3>2, <3>4, CalmMethods, EvidenceKept
  <2>5. CASE StreamEmpty(r)
    <3>1. /\ idx[r] <= Len(Chain[r]) /\ UNCHANGED state
          /\ verdict' = [verdict EXCEPT ![r][idx[r]] = "empty"]
      BY <2>5 DEF StreamEmpty, NextEntry, breakerVars, stats, FailoverInv, AtAnEntry
    <3>2. Key(r) \in Server
      BY <3>1, KeyType
    <3>3. PICK k \in Server : k = Key(r)
      BY <3>2
    <3>4. FailuresStay /\ NoNewSkip
      BY <3>1, <3>3, VerdictGiven
    <3> QED
      BY <3>1, <3>2, <3>4, CalmMethods, EvidenceKept
  <2>6. CASE CallFails(r) \/ StreamFails(r)
    <3>1. /\ idx[r] <= Len(Chain[r]) /\ RecordFailure(Key(r))
          /\ verdict' = [verdict EXCEPT ![r][idx[r]] = "failed"]
      BY <2>6 DEF CallFails, StreamFails, NextEntry, Charge, FailoverInv, AtAnEntry
    <3>2. Key(r) \in Server
      BY <3>1, KeyType
    <3>3. PICK k \in Server : k = Key(r)
      BY <3>2
    <3>4. FailuresStay /\ NoNewSkip /\ FailedSomewhere(k)'
      BY <3>1, <3>3, VerdictGiven
    <3>5. \A l \in Server \ {k} : state'[l] = state[l]
      BY <3>1, <3>3 DEF RecordFailure, Trip, FailoverInv, TypeOK, BreakerTypeOK
    <3>6. NoNewTrip
      BY <3>4, <3>5 DEF NoNewTrip
    <3> QED
      BY <3>4, <3>6, EvidenceKept
  <2> QED
    BY <1>2, <2>1, <2>2, <2>3, <2>4, <2>5, <2>6 DEF Step, Proceed, Answer
<1>3. CASE PingSucceeds
  <2>1. pinging \in Server /\ RecordSuccess(pinging) /\ UNCHANGED verdict
    BY <1>3, RequestAssumption DEF PingSucceeds, FailoverInv, TypeOK, walk
  <2> QED
    BY <2>1, CalmMethods, VerdictsKept, EvidenceKept
<1>4. CASE PingFails \/ AllDone \/ (\E k \in MonitorKeys : Ping(k)) \/ Tick \/ UNCHANGED vars
  BY <1>1, <1>4 DEF PingFails, AllDone, Ping, Tick, BreakerTick, vars, breakerVars, stats, walk
<1> QED
  BY <1>2, <1>3, <1>4 DEF Next

\* The parts of the invariant, put together.
LEMMA Assembled ==
    ASSUME FailoverInv, [Next]_vars, WalkInv', QueueExact', PermitsExact',
           waiting' \in [Server -> Seq(Request)], permits' \in [Server -> 0..MaxConcurrent],
           heard' \in [Request -> BOOLEAN], cancel' \in [Request -> BOOLEAN],
           turn' \in Request \cup {NoOne}, pinging' \in MonitorKeys \cup {NoKey}
    PROVE  FailoverInv'
<1>1. BreakerTypeOK'
  BY StepRefines, BreakerStepType DEF FailoverInv, TypeOK
<1>2. Evidence'
  BY EvidenceStep
<1> QED
  BY <1>1, <1>2 DEF FailoverInv, TypeOK, WalkInv

\* The steps that leave the semaphores alone: r is neither queued nor holds a
\* permit, before and after.
LEMMA SemaphoreKept ==
    ASSUME FailoverInv, NEW r \in Request, OthersStay(r), UNCHANGED semaphore,
           phase[r] \notin {"wait", "call"}, phase'[r] \notin {"wait", "call"}
    PROVE  /\ QueueExact' /\ PermitsExact'
           /\ waiting' \in [Server -> Seq(Request)]
           /\ permits' \in [Server -> 0..MaxConcurrent]
  BY QueuesKept, PermitsKept DEF FailoverInv, TypeOK, semaphore

LEMMA BeginInv == ASSUME FailoverInv, NEW r \in Request, Begin(r), [Next]_vars PROVE FailoverInv'
<1>1. WalkInv'
  BY InvWalks, MoveWalks DEF Begin, Phase
<1>2. OthersStay(r) /\ phase'[r] = "scan"
  BY DEF Begin, OthersStay, FailoverInv, TypeOK
<1> QED
  BY <1>1, <1>2, SemaphoreKept, Assembled DEF Begin, FailoverInv, TypeOK

LEMMA SetCancelInv ==
    ASSUME FailoverInv, NEW r \in Request, SetCancel(r), [Next]_vars PROVE FailoverInv'
<1>1. WalkInv'
  BY InvWalks DEF SetCancel, walk, WalkInv, AtAnEntry, Walked
<1>2. QueueExact' /\ PermitsExact'
  BY DEF SetCancel, walk, semaphore, FailoverInv, QueueExact, PermitsExact, Waiters, Holders, Key
<1> QED
  BY <1>1, <1>2, Assembled DEF SetCancel, walk, semaphore, FailoverInv, TypeOK

LEMMA StopInv ==
    ASSUME FailoverInv, NEW r \in Request, StopCancelled(r) \/ Exhaust(r), [Next]_vars
    PROVE  FailoverInv'
<1>1. WalkInv'
  BY InvWalks, FinishWalks, ChainType
     DEF StopCancelled, Exhaust, Outcome, FailoverInv, TypeOK
<1>2. OthersStay(r) /\ phase'[r] = "done"
  BY DEF StopCancelled, Exhaust, Finish, OthersStay, FailoverInv, TypeOK
<1> QED
  BY <1>1, <1>2, SemaphoreKept, Assembled DEF StopCancelled, Exhaust, Yield, FailoverInv, TypeOK

LEMMA SkipInv == ASSUME FailoverInv, NEW r \in Request, Skip(r), [Next]_vars PROVE FailoverInv'
<1>1. WalkInv'
  BY InvWalks, NextEntryWalks DEF Skip, Considers
<1>2. OthersStay(r) /\ phase'[r] = "scan"
  BY DEF Skip, NextEntry, OthersStay, FailoverInv, TypeOK
<1> QED
  BY <1>1, <1>2, SemaphoreKept, Assembled DEF Skip, Considers, FailoverInv, TypeOK

LEMMA CallInv == ASSUME FailoverInv, NEW r \in Request, Call(r), [Next]_vars PROVE FailoverInv'
<1>1. WalkInv'
  BY InvWalks, MoveWalks DEF Call, Considers, Phase
<1>2. OthersStay(r) /\ phase'[r] = "call" /\ idx'[r] = idx[r]
  BY DEF Call, OthersStay, FailoverInv, TypeOK
<1>3. Key(r) \in Server
  BY KeyType DEF Call, Considers
<1>4. PermitsExact' /\ permits' \in [Server -> 0..MaxConcurrent]
  BY <1>2, <1>3, PermitTaken DEF Call, Considers, FailoverInv, TypeOK
<1>5. QueueExact'
  BY <1>2, QueuesKept DEF Call, Considers, FailoverInv
<1> QED
  BY <1>1, <1>4, <1>5, Assembled DEF Call, Yield, FailoverInv, TypeOK

LEMMA QueueInv == ASSUME FailoverInv, NEW r \in Request, Queue(r), [Next]_vars PROVE FailoverInv'
<1>1. WalkInv'
  BY InvWalks, MoveWalks DEF Queue, Considers, Phase
<1>2. OthersStay(r) /\ phase'[r] = "wait" /\ idx'[r] = idx[r]
  BY DEF Queue, OthersStay, FailoverInv, TypeOK
<1>3. Key(r) \in Server
  BY KeyType DEF Queue, Considers
<1>4. QueueExact' /\ waiting' \in [Server -> Seq(Request)]
  BY <1>2, <1>3, QueueJoined DEF Queue, Considers, FailoverInv, TypeOK
<1>5. PermitsExact'
  BY <1>2, PermitsKept DEF Queue, Considers, FailoverInv
<1> QED
  BY <1>1, <1>4, <1>5, Assembled DEF Queue, Yield, FailoverInv, TypeOK

LEMMA GrantedInv ==
    ASSUME FailoverInv, NEW r \in Request, Granted(r), [Next]_vars PROVE FailoverInv'
<1>0. idx[r] <= Len(Chain[r])
  BY DEF Granted, FailoverInv, AtAnEntry
<1>1. WalkInv'
  BY <1>0, InvWalks, MoveWalks DEF Granted, Phase
<1>2. OthersStay(r) /\ phase'[r] = "call" /\ idx'[r] = idx[r]
  BY DEF Granted, OthersStay, FailoverInv, TypeOK
<1>3. Key(r) \in Server
  BY <1>0, KeyType
<1>4. PermitsExact' /\ permits' \in [Server -> 0..MaxConcurrent]
  BY <1>2, <1>3, PermitTaken DEF Granted, FailoverInv, TypeOK
<1> DEFINE q == waiting[Key(r)]
<1>5. q \in Seq(Request) /\ q # <<>> /\ Once(q) /\ Head(q) = r
  <2>1. r \in Members(q)
    BY <1>3 DEF Granted, FailoverInv, QueueExact, Waiters
  <2>2. q # <<>>
    BY <2>1 DEF Members
  <2> QED
    BY <1>3, <2>2 DEF Granted, FailoverInv, TypeOK, QueueExact
<1>6. Tail(q) \in Seq(Request) /\ Once(Tail(q)) /\ Members(Tail(q)) = Members(q) \ {r}
  BY <1>5, TailOnce
<1>7. waiting' = [waiting EXCEPT ![Key(r)] = Tail(q)]
  BY DEF Granted
<1>8. QueueExact' /\ waiting' \in [Server -> Seq(Request)]
  <2> HIDE DEF q
  <2>1. Members(q) = Members(waiting[Key(r)])
    BY DEF q
  <2> QED
    BY <1>2, <1>3, <1>6, <1>7, <2>1, QueueLeft DEF FailoverInv, TypeOK
<1> QED
  BY <1>1, <1>4, <1>8, Assembled DEF Granted, FailoverInv, TypeOK

\* The ends of a call, a cancelled one included.
LEMMA CallEndsInv ==
    ASSUME FailoverInv, NEW r \in Request, [Next]_vars, phase[r] = "call", WalkInv',
           OthersStay(r), phase'[r] \in {"scan", "done"}, Release(Key(r)), UNCHANGED <<waiting, heard, cancel, pinging>>,
           turn' \in Request \cup {NoOne}
    PROVE  FailoverInv'
<1>1. Key(r) \in Server
  BY KeyType DEF FailoverInv, AtAnEntry
<1>2. PermitsExact' /\ permits' \in [Server -> 0..MaxConcurrent]
  BY <1>1, PermitGiven DEF Release, FailoverInv, TypeOK
<1>3. QueueExact'
  BY QueuesKept DEF FailoverInv
<1> QED
  BY <1>2, <1>3, Assembled DEF FailoverInv, TypeOK

LEMMA AnswerInv ==
    ASSUME FailoverInv, NEW r \in Request, Answer(r), [Next]_vars PROVE FailoverInv'
<1>1. phase[r] = "call" /\ idx[r] <= Len(Chain[r])
  BY DEF Answer, CallSucceeds, CallFails, CallRaises, FailoverInv, AtAnEntry
<1>2. CASE CallSucceeds(r)
  <2>1. WalkInv'
    BY <1>1, <1>2, InvWalks, FinishWalks DEF CallSucceeds, Outcome
  <2>2. OthersStay(r) /\ phase'[r] = "done"
    BY <1>2 DEF CallSucceeds, Finish, OthersStay, FailoverInv, TypeOK
  <2> QED
    BY <1>1, <1>2, <2>1, <2>2, CallEndsInv DEF CallSucceeds, FailoverInv, TypeOK
<1>3. CASE CallFails(r)
  <2>1. WalkInv'
    BY <1>1, <1>3, InvWalks, NextEntryWalks DEF CallFails
  <2>2. OthersStay(r) /\ phase'[r] = "scan"
    BY <1>3 DEF CallFails, NextEntry, OthersStay, FailoverInv, TypeOK
  <2> QED
    BY <1>1, <1>3, <2>1, <2>2, CallEndsInv DEF CallFails
<1>4. CASE CallRaises(r)
  <2>1. WalkInv'
    BY <1>1, <1>4, InvWalks, FinishWalks DEF CallRaises, Outcome
  <2>2. OthersStay(r) /\ phase'[r] = "done"
    BY <1>4 DEF CallRaises, Finish, OthersStay, FailoverInv, TypeOK
  <2> QED
    BY <1>1, <1>4, <2>1, <2>2, CallEndsInv DEF CallRaises, FailoverInv, TypeOK
<1> QED
  BY <1>2, <1>3, <1>4 DEF Answer

LEMMA StreamInv ==
    ASSUME FailoverInv, NEW r \in Request, [Next]_vars,
           OpenStream(r) \/ StreamYields(r) \/ StreamEnds(r) \/ StreamEmpty(r) \/ StreamFails(r)
    PROVE  FailoverInv'
<1>1. CASE OpenStream(r)
  <2>1. WalkInv'
    BY <1>1, InvWalks, MoveWalks DEF OpenStream, Considers, Phase
  <2>2. OthersStay(r) /\ phase'[r] = "stream"
    BY <1>1 DEF OpenStream, OthersStay, FailoverInv, TypeOK
  <2> QED
    BY <1>1, <2>1, <2>2, SemaphoreKept, Assembled
       DEF OpenStream, Considers, Yield, FailoverInv, TypeOK
<1>2. CASE StreamYields(r)
  <2>1. WalkInv'
    BY <1>2, InvWalks DEF StreamYields, WalkInv, AtAnEntry, Walked
  <2>2. OthersStay(r) /\ phase'[r] = "stream"
    BY <1>2 DEF StreamYields, OthersStay
  <2> QED
    BY <1>2, <2>1, <2>2, SemaphoreKept, Assembled DEF StreamYields, FailoverInv, TypeOK
<1>3. ASSUME phase[r] = "stream" PROVE idx[r] <= Len(Chain[r])
  BY <1>3 DEF FailoverInv, AtAnEntry
<1>4. CASE StreamEnds(r)
  <2>1. WalkInv'
    BY <1>3, <1>4, InvWalks, FinishWalks DEF StreamEnds, Outcome
  <2>2. OthersStay(r) /\ phase'[r] = "done"
    BY <1>4 DEF StreamEnds, Finish, OthersStay, FailoverInv, TypeOK
  <2> QED
    BY <1>4, <2>1, <2>2, SemaphoreKept, Assembled DEF StreamEnds, FailoverInv, TypeOK
<1>5. CASE StreamEmpty(r)
  <2>1. WalkInv'
    BY <1>3, <1>5, InvWalks, NextEntryWalks DEF StreamEmpty
  <2>2. OthersStay(r) /\ phase'[r] = "scan"
    BY <1>5 DEF StreamEmpty, NextEntry, OthersStay, FailoverInv, TypeOK
  <2> QED
    BY <1>5, <2>1, <2>2, SemaphoreKept, Assembled DEF StreamEmpty, FailoverInv, TypeOK
<1>6. CASE StreamFails(r)
  <2>1. WalkInv'
    BY <1>3, <1>6, InvWalks, NextEntryWalks DEF StreamFails
  <2>2. OthersStay(r) /\ phase'[r] = "scan"
    BY <1>6 DEF StreamFails, NextEntry, OthersStay, FailoverInv, TypeOK
  <2> QED
    BY <1>6, <2>1, <2>2, SemaphoreKept, Assembled DEF StreamFails, FailoverInv, TypeOK
<1> QED
  BY <1>1, <1>2, <1>4, <1>5, <1>6

LEMMA AbortInv ==
    ASSUME FailoverInv, NEW r \in Request, Abort(r), [Next]_vars PROVE FailoverInv'
<1>1. WalkInv'
  BY InvWalks, FinishWalks DEF Abort, Outcome
<1>2. OthersStay(r) /\ phase'[r] = "done" /\ idx'[r] = idx[r]
  BY DEF Abort, Finish, OthersStay, FailoverInv, TypeOK
<1>3. CASE phase[r] = "call"
  BY <1>1, <1>2, <1>3, CallEndsInv DEF Abort, FailoverInv, TypeOK
<1>4. CASE phase[r] = "wait"
  <2> DEFINE k == Key(r)
  <2>1. k \in Server
    BY <1>4, KeyType DEF FailoverInv, AtAnEntry
  <2>2. PICK i \in DOMAIN waiting[k] :
           waiting[k][i] = r /\ waiting' = [waiting EXCEPT ![k] = Drop(@, i)]
    BY <1>4 DEF Abort, Withdraw
  <2>3. waiting[k] \in Seq(Request) /\ Once(waiting[k])
    BY <2>1 DEF FailoverInv, TypeOK, QueueExact
  <2>4. /\ Drop(waiting[k], i) \in Seq(Request)
        /\ Once(Drop(waiting[k], i))
        /\ Members(Drop(waiting[k], i)) = Members(waiting[k]) \ {r}
    BY <2>2, <2>3, DropOnce
  <2>5. waiting' = [waiting EXCEPT ![k] = Drop(waiting[k], i)]
    BY <2>2
  <2>6. QueueExact' /\ waiting' \in [Server -> Seq(Request)]
    BY <1>2, <2>1, <2>4, <2>5, QueueLeft DEF FailoverInv, TypeOK
  <2>7. UNCHANGED permits /\ PermitsExact'
    BY <1>2, <1>4, PermitsKept DEF Abort, Withdraw, FailoverInv
  <2> QED
    BY <1>1, <2>6, <2>7, Assembled DEF Abort, FailoverInv, TypeOK
<1>5. CASE phase[r] \in {"stream", "scan"}
  BY <1>1, <1>2, <1>5, SemaphoreKept, Assembled DEF Abort, FailoverInv, TypeOK
<1> QED
  BY <1>3, <1>4, <1>5 DEF Abort

LEMMA FailoverInit == Init => FailoverInv
<1> SUFFICES ASSUME Init PROVE FailoverInv
  OBVIOUS
<1>1. TypeOK
  BY BreakerInitType, RequestAssumption, ChainType
     DEF Init, TypeOK, Phase, Verdict, Outcome
<1>2. AtAnEntry /\ Walked /\ Evidence
  BY DEF Init, BreakerInit, AtAnEntry, Walked, Evidence
<1>3. QueueExact
  BY DEF Init, QueueExact, Once, Members, Waiters
<1>4. \A k \in Server : Holders(k) = {}
  BY DEF Init, Holders
<1>5. PermitsExact
  <2> SUFFICES ASSUME NEW k \in Server
               PROVE  /\ IsFiniteSet(Holders(k))
                      /\ permits[k] + Cardinality(Holders(k)) = MaxConcurrent
    BY DEF PermitsExact
  <2>1. IsFiniteSet(Holders(k)) /\ Cardinality(Holders(k)) = 0
    BY <1>4, FS_EmptySet
  <2> QED
    BY <2>1, RequestAssumption DEF Init
<1> QED
  BY <1>1, <1>2, <1>3, <1>5 DEF FailoverInv

LEMMA FailoverStep == FailoverInv /\ [Next]_vars => FailoverInv'
<1> SUFFICES ASSUME FailoverInv, [Next]_vars PROVE FailoverInv'
  OBVIOUS
<1>1. ASSUME UNCHANGED <<walk, cancel, turn, semaphore>>, pinging' \in MonitorKeys \cup {NoKey}
      PROVE  FailoverInv'
  <2>1. WalkInv'
    BY <1>1, InvWalks DEF walk, WalkInv, AtAnEntry, Walked
  <2>2. QueueExact' /\ PermitsExact'
    BY <1>1 DEF walk, semaphore, FailoverInv, QueueExact, PermitsExact, Waiters, Holders, Key
  <2> QED
    BY <1>1, <2>1, <2>2, Assembled DEF walk, semaphore, FailoverInv, TypeOK
<1>2. CASE \E r \in Request : Step(r)
  BY <1>2, BeginInv, SetCancelInv, AbortInv, StopInv, SkipInv, CallInv, QueueInv, GrantedInv,
     AnswerInv, StreamInv DEF Step, Proceed
<1>3. CASE (\E k \in MonitorKeys : Ping(k)) \/ PingSucceeds \/ PingFails
  BY <1>1, <1>3 DEF Ping, PingSucceeds, PingFails
<1>4. CASE Tick \/ AllDone \/ UNCHANGED vars
  BY <1>1, <1>4 DEF Tick, AllDone, vars, FailoverInv, TypeOK
<1> QED
  BY <1>2, <1>3, <1>4 DEF Next

LEMMA FailoverInductive == Spec => []FailoverInv
  BY FailoverInit, FailoverStep, PTL DEF Spec

\* The variables of the failover keep their types, for any number of requests,
\* chains and providers.
THEOREM FailoverTypeCorrect == Spec => []TypeOK
<1>1. FailoverInv => TypeOK
  BY DEF FailoverInv
<1> QED
  BY <1>1, FailoverInductive, PTL

\* No path out of a call loses or duplicates a permit, and a queue holds exactly
\* the requests that wait for its provider (PermitsConserved).
THEOREM PermitsAreConserved == Spec => []PermitsConserved
<1>1. FailoverInv => PermitsConserved
  BY DEF FailoverInv, PermitsConserved, PermitsExact, QueueExact, Waiters, Members
<1> QED
  BY <1>1, FailoverInductive, PTL

\* A request that reports exhaustion, and was not cancelled, could not have been
\* answered by any entry of its chain (ExhaustionIsEarned).
THEOREM ExhaustionEarned == Spec => []ExhaustionIsEarned
<1>1. FailoverInv => ExhaustionIsEarned
  <2> SUFFICES ASSUME FailoverInv, NEW r \in Request, outcome[r] = "exhausted", ~cancel[r],
                      NEW i \in 1..Len(Chain[r])
               PROVE  verdict[r][i] = "empty" \/ FailedSomewhere(Chain[r][i])
    BY DEF ExhaustionIsEarned
  <2>1. verdict[r][i] \in {"skipped", "failed", "empty"}
    BY ChainType DEF FailoverInv, TypeOK, Walked
  <2> QED
    BY <2>1 DEF FailoverInv, Evidence, FailedSomewhere
<1> QED
  BY <1>1, FailoverInductive, PTL

\* What is proved of the breaker alone holds of the shared one ...
LEMMA SharedBreakerSpec == Spec => BreakerSpec
<1>1. Init => BreakerInit
  BY DEF Init
<1> QED
  BY <1>1, StepRefines, FailoverInductive, PTL DEF Spec, BreakerSpec

\* ... so a CLOSED circuit that failovers and health checks share is below its
\* threshold (ClosedBelowThreshold).
THEOREM SharedCircuitClosed == Spec => []ClosedBelowThreshold
  BY SharedBreakerSpec, ClosedCircuit, PTL
=============================================================================
