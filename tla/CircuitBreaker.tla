---------------------------- MODULE CircuitBreaker ----------------------------
(***************************************************************************)
(* The circuit breaker of core/orchestrator/circuit_breaker.py: one record *)
(* of statistics per server (or per "provider:model" key, when the LLM     *)
(* failover uses it), a sliding window of failure stamps, and the three    *)
(* states CLOSED, OPEN and HALF_OPEN.                                      *)
(*                                                                         *)
(* Every method body runs under one threading.Lock and every caller is a   *)
(* coroutine of the one event loop, so a method is one action, its reading *)
(* of time.monotonic() included.  A server the breaker has not met behaves *)
(* as one with fresh statistics (_ensure_server), so the functions below   *)
(* are total.  total_rejections and last_state_change are only reported,   *)
(* never read back, and are left out.                                      *)
(***************************************************************************)
EXTENDS Integers, FiniteSets

CONSTANTS
    Server,            \* the keys of _servers
    FailureThreshold,  \* CircuitConfig.failure_threshold
    SuccessThreshold,  \* CircuitConfig.success_threshold
    ResetTimeout,      \* CircuitConfig.reset_timeout_seconds, in ticks
    SlidingWindow,     \* CircuitConfig.sliding_window_seconds, in ticks
    BootTimes,         \* the readings time.monotonic() may start from
    MaxTime            \* bound: the clock of the model stops here

ASSUME ThresholdAssumption ==
    /\ FailureThreshold \in Nat \ {0}
    /\ SuccessThreshold \in Nat \ {0}
ASSUME TimeAssumption ==
    /\ ResetTimeout \in Nat
    /\ SlidingWindow \in Nat
    /\ MaxTime \in Nat
    /\ BootTimes \subseteq Nat

VARIABLES
    now,              \* time.monotonic()
    state,            \* CircuitStats.state
    failureTimes,     \* CircuitStats.failure_timestamps
    failureCount,     \* CircuitStats.failure_count
    successCount,     \* CircuitStats.success_count
    lastFailureTime   \* CircuitStats.last_failure_time

stats == <<state, failureTimes, failureCount, successCount, lastFailureTime>>
breakerVars == <<now, stats>>

CircuitState == {"closed", "open", "half_open"}

\* The list of stamps as a set: only its length and the filter over it are
\* used.  Equal clock readings are told apart by their rank.
Stamp == [at : Nat, rank : Nat]

BreakerTypeOK ==
    /\ now \in Nat
    /\ state \in [Server -> CircuitState]
    /\ failureTimes \in [Server -> SUBSET Stamp]
    /\ \A s \in Server : IsFiniteSet(failureTimes[s])
    /\ failureCount \in [Server -> Nat]
    /\ successCount \in [Server -> Nat]
    /\ lastFailureTime \in [Server -> Nat]

BreakerInit ==
    /\ now \in BootTimes
    /\ state = [s \in Server |-> "closed"]
    /\ failureTimes = [s \in Server |-> {}]
    /\ failureCount = [s \in Server |-> 0]
    /\ successCount = [s \in Server |-> 0]
    /\ lastFailureTime = [s \in Server |-> 0]

-----------------------------------------------------------------------------
NewStamp(s) ==
    [at |-> now, rank |-> Cardinality({f \in failureTimes[s] : f.at = now})]

\* What _expire_old_failures keeps of a set of stamps.  (Fault: a stamp at the
\* edge of the window is kept.)
UnexpiredAtEdge(stamps, t) == {f \in stamps : f.at >= t - SlidingWindow}
Unexpired(stamps, t) == {f \in stamps : f.at > t - SlidingWindow}

\* (Fault: one failure too many is tolerated.)
ExceedsFailures(n) == n > FailureThreshold
ReachesFailures(n) == n >= FailureThreshold

ReachesSuccesses(n) == n >= SuccessThreshold

TimeoutElapsed(s) == now - lastFailureTime[s] >= ResetTimeout

Trip(s) == state' = [state EXCEPT ![s] = "open"]

\* Entering HALF_OPEN starts a new count of successes (_transition).  (Fault:
\* the count of an earlier HALF_OPEN period goes on.)
HalfOpenKeepingCount(s) ==
    /\ state' = [state EXCEPT ![s] = "half_open"]
    /\ UNCHANGED successCount
HalfOpen(s) ==
    /\ state' = [state EXCEPT ![s] = "half_open"]
    /\ successCount' = [successCount EXCEPT ![s] = 0]

ForgetFailures(s) ==
    /\ failureCount' = [failureCount EXCEPT ![s] = 0]
    /\ failureTimes' = [failureTimes EXCEPT ![s] = {}]

\* last_failure_time is set before the state is looked at, so a failure
\* recorded against an OPEN circuit prolongs it.  (Fault: it is set after the
\* early return of OPEN.)
NoteFailureUnlessOpen(s) ==
    lastFailureTime' = [lastFailureTime EXCEPT ![s] = IF state[s] = "open" THEN @ ELSE now]
NoteFailure(s) == lastFailureTime' = [lastFailureTime EXCEPT ![s] = now]

-----------------------------------------------------------------------------
(* can_execute(s) returning True. *)
Admit(s) ==
    \/ /\ state[s] \in {"closed", "half_open"}
       /\ UNCHANGED stats
    \/ /\ state[s] = "open"
       /\ TimeoutElapsed(s)
       /\ HalfOpen(s)
       /\ UNCHANGED <<failureTimes, failureCount, lastFailureTime>>

(* can_execute(s) returning False. *)
Reject(s) ==
    /\ state[s] = "open"
    /\ ~TimeoutElapsed(s)
    /\ UNCHANGED stats

RecordSuccess(s) ==
    \/ /\ state[s] = "closed"
       /\ ForgetFailures(s)
       /\ UNCHANGED <<state, successCount, lastFailureTime>>
    \/ /\ state[s] = "half_open"
       /\ ~ReachesSuccesses(successCount[s] + 1)
       /\ successCount' = [successCount EXCEPT ![s] = @ + 1]
       /\ UNCHANGED <<state, failureTimes, failureCount, lastFailureTime>>
    \/ /\ state[s] = "half_open"
       /\ ReachesSuccesses(successCount[s] + 1)
       /\ state' = [state EXCEPT ![s] = "closed"]
       /\ successCount' = [successCount EXCEPT ![s] = 0]
       /\ ForgetFailures(s)
       /\ UNCHANGED lastFailureTime
    \/ /\ state[s] = "open"
       /\ UNCHANGED stats

RecordFailure(s) ==
    /\ NoteFailure(s)
    /\ \/ /\ state[s] = "half_open"
          /\ Trip(s)
          /\ UNCHANGED <<failureTimes, failureCount, successCount>>
       \/ /\ state[s] = "open"
          /\ UNCHANGED <<state, failureTimes, failureCount, successCount>>
       \/ /\ state[s] = "closed"
          /\ LET kept == Unexpired(failureTimes[s] \cup {NewStamp(s)}, now)
                 count == Cardinality(kept)
             IN  /\ failureTimes' = [failureTimes EXCEPT ![s] = kept]
                 /\ failureCount' = [failureCount EXCEPT ![s] = count]
                 /\ IF ReachesFailures(count) THEN Trip(s) ELSE UNCHANGED state
          /\ UNCHANGED successCount

(* inject_external_failure_rate(s, rate) with rate at or above its         *)
(* threshold; below it, or when the circuit is not CLOSED, nothing changes. *)
Preempt(s) ==
    /\ state[s] = "closed"
    /\ Trip(s)
    /\ UNCHANGED <<failureTimes, failureCount, successCount, lastFailureTime>>

Reset(s) ==
    /\ state' = [state EXCEPT ![s] = "closed"]
    /\ ForgetFailures(s)
    /\ successCount' = [successCount EXCEPT ![s] = 0]
    /\ lastFailureTime' = [lastFailureTime EXCEPT ![s] = 0]

BreakerTick ==
    /\ now < MaxTime
    /\ now' = now + 1
    /\ UNCHANGED stats

\* Every method of the breaker, at one reading of the clock.
BreakerCall(s) ==
    /\ \/ Admit(s)
       \/ Reject(s)
       \/ RecordSuccess(s)
       \/ RecordFailure(s)
       \/ Preempt(s)
       \/ Reset(s)
    /\ UNCHANGED now

BreakerNext == BreakerTick \/ \E s \in Server : BreakerCall(s)

BreakerSpec == BreakerInit /\ [][BreakerNext]_breakerVars

-----------------------------------------------------------------------------
\* A CLOSED circuit always has room for one more failure: the stored count is
\* the number of stamps the last failure left in the window, and it is below
\* failure_threshold whatever sequence of trips, probes, pre-emptive trips and
\* resets led here.
ClosedBelowThreshold ==
    \A s \in Server : state[s] = "closed" =>
        /\ failureCount[s] = Cardinality(failureTimes[s])
        /\ failureCount[s] < FailureThreshold
=============================================================================
