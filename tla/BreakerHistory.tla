---------------------------- MODULE BreakerHistory ----------------------------
(***************************************************************************)
(* The circuit breaker with history variables: what was recorded with it,  *)
(* independently of what its own fields remember.  The properties compare  *)
(* the two.                                                                *)
(***************************************************************************)
EXTENDS CircuitBreaker

VARIABLES
    failLog,   \* per server: every failure recorded since the last success in
               \* CLOSED, the last closing or the last reset; never expired
    streak,    \* per server: successes recorded since the last failure or reset
               \* (saturates at SuccessThreshold)
    openedAt   \* per server: when the circuit last became OPEN

historyVars == <<failLog, streak, openedAt>>
hvars == <<breakerVars, historyVars>>

HTypeOK ==
    /\ BreakerTypeOK
    /\ failLog \in [Server -> SUBSET Stamp]
    /\ streak \in [Server -> 0..SuccessThreshold]
    /\ openedAt \in [Server -> Nat]

HInit ==
    /\ BreakerInit
    /\ failLog = [s \in Server |-> {}]
    /\ streak = [s \in Server |-> 0]
    /\ openedAt = [s \in Server |-> 0]

Opened(s) ==
    openedAt' = [openedAt EXCEPT ![s] =
                    IF state[s] # "open" /\ state'[s] = "open" THEN now ELSE @]

-----------------------------------------------------------------------------
HTick == BreakerTick /\ UNCHANGED historyVars

HAdmit(s) == Admit(s) /\ UNCHANGED <<now, historyVars>>

HReject(s) == Reject(s) /\ UNCHANGED <<now, historyVars>>

HRecordSuccess(s) ==
    /\ RecordSuccess(s)
    /\ streak' = [streak EXCEPT ![s] = IF @ < SuccessThreshold THEN @ + 1 ELSE @]
    /\ failLog' = [failLog EXCEPT ![s] = IF state'[s] = "closed" THEN {} ELSE @]
    /\ UNCHANGED <<now, openedAt>>

HRecordFailure(s) ==
    /\ RecordFailure(s)
    /\ streak' = [streak EXCEPT ![s] = 0]
    /\ failLog' = [failLog EXCEPT ![s] = @ \cup {NewStamp(s)}]
    /\ Opened(s)
    /\ UNCHANGED now

HPreempt(s) ==
    /\ Preempt(s)
    /\ Opened(s)
    /\ UNCHANGED <<now, failLog, streak>>

HReset(s) ==
    /\ Reset(s)
    /\ failLog' = [failLog EXCEPT ![s] = {}]
    /\ streak' = [streak EXCEPT ![s] = 0]
    /\ UNCHANGED <<now, openedAt>>

HNext ==
    \/ HTick
    \/ \E s \in Server :
        \/ HAdmit(s)
        \/ HReject(s)
        \/ HRecordSuccess(s)
        \/ HRecordFailure(s)
        \/ HPreempt(s)
        \/ HReset(s)

HSpec == HInit /\ [][HNext]_hvars

-----------------------------------------------------------------------------
\* The stamps are pruned only when a failure is recorded and only in CLOSED,
\* yet a CLOSED circuit never loses a stamp its window still covers and never
\* keeps an older one: failure_timestamps is the whole history since the last
\* success, cut at the window of the last failure.
WindowExact ==
    \A s \in Server : state[s] = "closed" =>
        failureTimes[s] = {f \in failLog[s] : f.at > lastFailureTime[s] - SlidingWindow}

\* A success recorded before the last failure never counts towards closing:
\* success_count of a HALF_OPEN circuit is at most the number of successes
\* recorded since then (the "consecutive" of success_threshold).
ProbesAreConsecutive ==
    \A s \in Server : state[s] = "half_open" => successCount[s] <= streak[s]

\* record_failure opens a CLOSED circuit exactly when the failures recorded
\* since the last success, and inside the window that ends now, reach
\* failure_threshold.
OpensExactly(s) ==
    (state[s] = "closed" /\ NewStamp(s) \in failLog'[s] \ failLog[s]) =>
        (state'[s] = "open"
           <=> Cardinality({f \in failLog'[s] : f.at > now - SlidingWindow})
                  >= FailureThreshold)
OpensAtThreshold == [][\A s \in Server : OpensExactly(s)]_hvars

\* An OPEN circuit lets the first probe through only after reset_timeout has
\* passed since every failure in the log, those recorded by calls that were
\* already in flight when the circuit opened included.
ProbeIsLate(s) ==
    (state[s] = "open" /\ state'[s] = "half_open") =>
        \A f \in failLog[s] : now - f.at >= ResetTimeout
OpenOutlastsFailures == [][\A s \in Server : ProbeIsLate(s)]_hvars

\* A HALF_OPEN circuit that was not reset closes only on success_threshold
\* successes with no failure between them.
CloseIsEarned(s) ==
    (state[s] = "half_open" /\ state'[s] = "closed") =>
        streak'[s] \in {0, SuccessThreshold}
ClosesOnConsecutiveSuccesses == [][\A s \in Server : CloseIsEarned(s)]_hvars

\* What the class promises (circuit_breaker.py:75-77): "the circuit opens and
\* immediately rejects calls for reset_timeout_seconds", so no probe before
\* reset_timeout has passed since the circuit opened.
OpenRejectsForTimeout ==
    [][\A s \in Server :
          (state[s] = "open" /\ state'[s] = "half_open") =>
             now - openedAt[s] >= ResetTimeout]_hvars
=============================================================================
