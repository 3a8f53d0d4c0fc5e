--------------------------- MODULE ProviderFailover ---------------------------
(***************************************************************************)
(* Requests that walk a chain of LLM providers over one shared circuit     *)
(* breaker.  A request is one of                                           *)
(*   "engine"  execute_with_fallback of                                    *)
(*             core/providers/resilience/failover_engine.py: semaphore per *)
(*             provider, timeout per call;                                 *)
(*   "stream"  _run_with_fallback of core/api/routes/chat.py, and its twin *)
(*             in websocket.py: no semaphore, no timeout, events yielded   *)
(*             to the client as they come.                                 *)
(* The health monitor (health_monitor.py) records its pings with the same  *)
(* breaker.                                                                *)
(*                                                                         *)
(* All of them are coroutines of one event loop.  A step ends where the    *)
(* code awaits or yields; when it goes on without, turn names the request  *)
(* that still holds the loop and nothing else moves.                       *)
(***************************************************************************)
EXTENDS CircuitBreaker, Sequences

CONSTANTS
    Request,        \* concurrent requests
    Kind,           \* Kind[r] \in {"engine", "stream"}
    Chain,          \* Chain[r]: the keys of the resolved fallback chain, in order
    Cancellable,    \* the requests that are given a cancel_event
    MaxConcurrent,  \* permits of a provider's semaphore
    MonitorKeys,    \* the keys of the health monitor's connector registry
    NoOne,          \* not a request
    NoKey           \* not a key

ASSUME RequestAssumption ==
    /\ NoOne \notin Request
    /\ NoKey \notin Server
    /\ MonitorKeys \subseteq Server
    /\ Cancellable \subseteq Request
    /\ MaxConcurrent \in Nat \ {0}
    /\ Kind \in [Request -> {"engine", "stream"}]
    /\ Chain \in [Request -> Seq(Server)]

VARIABLES
    phase,      \* where a request stands
    idx,        \* the entry of its chain it is at
    heard,      \* stream: the current provider has yielded an event (had_events)
    verdict,    \* verdict[r][i]: what became of entry i
    outcome,    \* how a request ended
    cancel,     \* the request's cancel_event is set
    turn,       \* the request that holds the event loop, or NoOne
    permits,    \* free permits of each provider's semaphore
    waiting,    \* requests queued at each semaphore, first come first
    pinging     \* the key the health monitor is probing, or NoKey

walk == <<phase, idx, heard, verdict, outcome>>
semaphore == <<permits, waiting>>
vars == <<breakerVars, walk, cancel, turn, semaphore, pinging>>

Phase == {"idle", "scan", "wait", "call", "stream", "done"}
Verdict == {"none", "skipped", "failed", "empty", "answered"}
Outcome == {"none", "answered", "exhausted", "raised", "aborted"}

TypeOK ==
    /\ BreakerTypeOK
    /\ phase \in [Request -> Phase]
    /\ idx \in [Request -> Nat \ {0}]
    /\ heard \in [Request -> BOOLEAN]
    /\ DOMAIN verdict = Request
    /\ \A r \in Request : verdict[r] \in [1..Len(Chain[r]) -> Verdict]
    /\ outcome \in [Request -> Outcome]
    /\ cancel \in [Request -> BOOLEAN]
    /\ turn \in Request \cup {NoOne}
    /\ permits \in [Server -> 0..MaxConcurrent]
    /\ waiting \in [Server -> Seq(Request)]
    /\ pinging \in MonitorKeys \cup {NoKey}

Init ==
    /\ BreakerInit
    /\ phase = [r \in Request |-> "idle"]
    /\ idx = [r \in Request |-> 1]
    /\ heard = [r \in Request |-> FALSE]
    /\ verdict = [r \in Request |-> [i \in 1..Len(Chain[r]) |-> "none"]]
    /\ outcome = [r \in Request |-> "none"]
    /\ cancel = [r \in Request |-> FALSE]
    /\ turn = NoOne
    /\ permits = [k \in Server |-> MaxConcurrent]
    /\ waiting = [k \in Server |-> <<>>]
    /\ pinging = NoKey

-----------------------------------------------------------------------------
Key(r) == Chain[r][idx[r]]

\* The loop is free, or already r's.
Runs(r) == turn \in {NoOne, r}

Yield == turn' = NoOne

Finish(r, how) ==
    /\ phase' = [phase EXCEPT ![r] = "done"]
    /\ outcome' = [outcome EXCEPT ![r] = how]

\* On to the next entry of the chain.
NextEntry(r, what) ==
    /\ phase' = [phase EXCEPT ![r] = "scan"]
    /\ idx' = [idx EXCEPT ![r] = @ + 1]
    /\ verdict' = [verdict EXCEPT ![r][idx[r]] = what]
    /\ UNCHANGED outcome

Charge(k) == RecordFailure(k)

\* An error that is not retryable says nothing of the provider.  (Fault: it is
\* recorded like the others.)
ChargeFatal(k) == RecordFailure(k)
PassOn(k) == UNCHANGED stats

\* Leaving async with, normally or by an exception.  (Fault: an error that
\* propagates keeps the permit.)
KeepPermit(k) == UNCHANGED permits
Release(k) == permits' = [permits EXCEPT ![k] = @ + 1]

\* A sequence without its i-th element.
Drop(seq, i) == [j \in 1..Len(seq) - 1 |-> IF j < i THEN seq[j] ELSE seq[j + 1]]

\* A waiter that is cancelled leaves its queue.  (Fault: it stays there.)
WithdrawInName(r) == UNCHANGED semaphore
Withdraw(r) ==
    /\ \E i \in DOMAIN waiting[Key(r)] :
          /\ waiting[Key(r)][i] = r
          /\ waiting' = [waiting EXCEPT ![Key(r)] = Drop(@, i)]
    /\ UNCHANGED permits

-----------------------------------------------------------------------------
(* A request begins: the top of the loop over the chain. *)
Begin(r) ==
    /\ phase[r] = "idle"
    /\ turn = NoOne
    /\ phase' = [phase EXCEPT ![r] = "scan"]
    /\ turn' = r
    /\ UNCHANGED <<breakerVars, idx, heard, verdict, outcome, cancel, semaphore, pinging>>

(* The caller sets cancel_event. *)
SetCancel(r) ==
    /\ turn = NoOne
    /\ r \in Cancellable
    /\ phase[r] # "done"
    /\ ~cancel[r]
    /\ cancel' = [cancel EXCEPT ![r] = TRUE]
    /\ UNCHANGED <<breakerVars, walk, turn, semaphore, pinging>>

\* At the top of the loop, with an entry left and no cancellation.
Considers(r) ==
    /\ phase[r] = "scan"
    /\ Runs(r)
    /\ idx[r] <= Len(Chain[r])
    /\ ~cancel[r]

(* cancel_event is set: the engine raises AllProvidersExhaustedError, the   *)
(* stream breaks out of its loop and reports all_providers_exhausted; the  *)
(* caller hears the same as when every entry was tried.                    *)
StopCancelled(r) ==
    /\ phase[r] = "scan"
    /\ Runs(r)
    /\ idx[r] <= Len(Chain[r])
    /\ cancel[r]
    /\ Finish(r, "exhausted")
    /\ Yield
    /\ UNCHANGED <<breakerVars, idx, heard, verdict, cancel, semaphore, pinging>>

Exhaust(r) ==
    /\ phase[r] = "scan"
    /\ Runs(r)
    /\ idx[r] > Len(Chain[r])
    /\ Finish(r, "exhausted")
    /\ Yield
    /\ UNCHANGED <<breakerVars, idx, heard, verdict, cancel, semaphore, pinging>>

(* can_execute returns False: continue. *)
Skip(r) ==
    /\ Considers(r)
    /\ Reject(Key(r))
    /\ NextEntry(r, "skipped")
    /\ turn' = r
    /\ UNCHANGED <<now, heard, cancel, semaphore, pinging>>

(* can_execute returns True and the semaphore has a permit: the call starts. *)
Call(r) ==
    /\ Considers(r)
    /\ Kind[r] = "engine"
    /\ permits[Key(r)] > 0
    /\ waiting[Key(r)] = <<>>
    /\ Admit(Key(r))
    /\ permits' = [permits EXCEPT ![Key(r)] = @ - 1]
    /\ phase' = [phase EXCEPT ![r] = "call"]
    /\ Yield
    /\ UNCHANGED <<now, idx, heard, verdict, outcome, cancel, waiting, pinging>>

(* can_execute returns True but the semaphore is taken: queue for it. *)
Queue(r) ==
    /\ Considers(r)
    /\ Kind[r] = "engine"
    /\ permits[Key(r)] = 0 \/ waiting[Key(r)] # <<>>
    /\ Admit(Key(r))
    /\ waiting' = [waiting EXCEPT ![Key(r)] = Append(@, r)]
    /\ phase' = [phase EXCEPT ![r] = "wait"]
    /\ Yield
    /\ UNCHANGED <<now, idx, heard, verdict, outcome, cancel, permits, pinging>>

(* The first in the queue gets the permit; the breaker is not asked again. *)
Granted(r) ==
    /\ phase[r] = "wait"
    /\ turn = NoOne
    /\ permits[Key(r)] > 0
    /\ Head(waiting[Key(r)]) = r
    /\ permits' = [permits EXCEPT ![Key(r)] = @ - 1]
    /\ waiting' = [waiting EXCEPT ![Key(r)] = Tail(@)]
    /\ phase' = [phase EXCEPT ![r] = "call"]
    /\ UNCHANGED <<breakerVars, idx, heard, verdict, outcome, cancel, turn, pinging>>

CallSucceeds(r) ==
    /\ phase[r] = "call"
    /\ turn = NoOne
    /\ Release(Key(r))
    /\ RecordSuccess(Key(r))
    /\ verdict' = [verdict EXCEPT ![r][idx[r]] = "answered"]
    /\ Finish(r, "answered")
    /\ UNCHANGED <<now, idx, heard, cancel, turn, waiting, pinging>>

(* wait_for times out, or call_fn raises a retryable error: the failure is *)
(* recorded and the loop goes on without an await.                         *)
CallFails(r) ==
    /\ phase[r] = "call"
    /\ turn = NoOne
    /\ Release(Key(r))
    /\ Charge(Key(r))
    /\ NextEntry(r, "failed")
    /\ turn' = r
    /\ UNCHANGED <<now, heard, cancel, waiting, pinging>>

(* call_fn raises an error that is not retryable: it propagates and nothing *)
(* is recorded.                                                            *)
CallRaises(r) ==
    /\ phase[r] = "call"
    /\ turn = NoOne
    /\ Release(Key(r))
    /\ PassOn(Key(r))
    /\ Finish(r, "raised")
    /\ UNCHANGED <<now, idx, heard, verdict, cancel, turn, waiting, pinging>>

-----------------------------------------------------------------------------
(* can_execute returns True: the provider is asked for a stream. *)
OpenStream(r) ==
    /\ Considers(r)
    /\ Kind[r] = "stream"
    /\ Admit(Key(r))
    /\ phase' = [phase EXCEPT ![r] = "stream"]
    /\ heard' = [heard EXCEPT ![r] = FALSE]
    /\ Yield
    /\ UNCHANGED <<now, idx, verdict, outcome, cancel, semaphore, pinging>>

StreamYields(r) ==
    /\ phase[r] = "stream"
    /\ turn = NoOne
    /\ ~heard[r]
    /\ heard' = [heard EXCEPT ![r] = TRUE]
    /\ UNCHANGED <<breakerVars, phase, idx, verdict, outcome, cancel, turn, semaphore, pinging>>

StreamEnds(r) ==
    /\ phase[r] = "stream"
    /\ turn = NoOne
    /\ heard[r]
    /\ RecordSuccess(Key(r))
    /\ verdict' = [verdict EXCEPT ![r][idx[r]] = "answered"]
    /\ Finish(r, "answered")
    /\ UNCHANGED <<now, idx, heard, cancel, turn, semaphore, pinging>>

(* A stream without events: the next provider is tried, nothing is recorded. *)
StreamEmpty(r) ==
    /\ phase[r] = "stream"
    /\ turn = NoOne
    /\ ~heard[r]
    /\ NextEntry(r, "empty")
    /\ turn' = r
    /\ UNCHANGED <<breakerVars, heard, cancel, semaphore, pinging>>

(* Any exception: recorded, and a failover event is yielded when an entry  *)
(* is left, which gives the loop away.                                     *)
StreamFails(r) ==
    /\ phase[r] = "stream"
    /\ turn = NoOne
    /\ Charge(Key(r))
    /\ NextEntry(r, "failed")
    /\ turn' = IF idx[r] < Len(Chain[r]) THEN NoOne ELSE r
    /\ UNCHANGED <<now, heard, cancel, semaphore, pinging>>

(* The task is cancelled, or the client's generator is closed, at an await: *)
(* CancelledError passes every handler; async with still gives the permit  *)
(* back, and a queued waiter leaves its queue.                             *)
Abort(r) ==
    /\ turn = NoOne
    /\ Finish(r, "aborted")
    /\ \/ /\ phase[r] = "call"
          /\ Release(Key(r))
          /\ UNCHANGED waiting
       \/ /\ phase[r] = "wait"
          /\ Withdraw(r)
       \/ /\ phase[r] \in {"stream", "scan"}
          /\ UNCHANGED semaphore
    /\ UNCHANGED <<breakerVars, idx, heard, verdict, cancel, turn, pinging>>

-----------------------------------------------------------------------------
(* The monitor finds a key whose circuit is not CLOSED and awaits          *)
(* test_connection.                                                        *)
Ping(k) ==
    /\ turn = NoOne
    /\ pinging = NoKey
    /\ state[k] # "closed"
    /\ pinging' = k
    /\ UNCHANGED <<breakerVars, walk, cancel, turn, semaphore>>

(* The probe succeeds: recorded whatever state the circuit is in by now. *)
PingSucceeds ==
    /\ turn = NoOne
    /\ pinging # NoKey
    /\ RecordSuccess(pinging)
    /\ pinging' = NoKey
    /\ UNCHANGED <<now, walk, cancel, turn, semaphore>>

PingFails ==
    /\ turn = NoOne
    /\ pinging # NoKey
    /\ pinging' = NoKey
    /\ UNCHANGED <<breakerVars, walk, cancel, turn, semaphore>>

Tick ==
    /\ turn = NoOne
    /\ BreakerTick
    /\ UNCHANGED <<walk, cancel, turn, semaphore, pinging>>

\* Every request has ended: the system may stop.
AllDone ==
    /\ \A r \in Request : phase[r] = "done"
    /\ UNCHANGED vars

\* The steps a request takes by itself once its awaits are over.
Proceed(r) ==
    \/ StopCancelled(r) \/ Exhaust(r) \/ Skip(r)
    \/ Call(r) \/ Queue(r) \/ Granted(r) \/ OpenStream(r)

\* The answers of a call, the timeout included.
Answer(r) == CallSucceeds(r) \/ CallFails(r) \/ CallRaises(r)

Step(r) ==
    \/ Begin(r) \/ SetCancel(r) \/ Abort(r)
    \/ Proceed(r) \/ Answer(r)
    \/ StreamYields(r) \/ StreamEnds(r) \/ StreamEmpty(r) \/ StreamFails(r)

Next ==
    \/ \E r \in Request : Step(r)
    \/ \E k \in MonitorKeys : Ping(k)
    \/ PingSucceeds \/ PingFails
    \/ Tick
    \/ AllDone

Spec == Init /\ [][Next]_vars

(* The event loop runs every ready coroutine, and wait_for ends every call *)
(* of the engine at its timeout.  Nothing bounds a provider's stream.      *)
Fairness ==
    \A r \in Request :
        /\ WF_vars(Proceed(r))
        /\ WF_vars(Answer(r))

FairSpec == Spec /\ Fairness
-----------------------------------------------------------------------------
Holders(k) == {r \in Request : phase[r] = "call" /\ Key(r) = k}

\* No path out of a call, the timeout, the fatal error and the cancellation of
\* the task included, loses or duplicates a permit, and a queue holds exactly
\* the requests that wait for its provider.
PermitsConserved ==
    \A k \in Server :
        /\ permits[k] + Cardinality(Holders(k)) = MaxConcurrent
        /\ {waiting[k][i] : i \in DOMAIN waiting[k]}
              = {r \in Request : phase[r] = "wait" /\ Key(r) = k}

FailedSomewhere(k) ==
    \E q \in Request : \E j \in 1..Len(Chain[q]) :
        Chain[q][j] = k /\ verdict[q][j] = "failed"

\* A request that nobody cancelled and that reports exhaustion could not have
\* been answered by any entry: of each one it got an empty stream, or somebody,
\* itself or another request, really failed there.  An error that is not
\* retryable, a cancelled call, a request that queued in vain and the health
\* monitor's probes never make the others give a provider up.
ExhaustionIsEarned ==
    \A r \in Request : outcome[r] = "exhausted" /\ ~cancel[r] =>
        \A i \in 1..Len(Chain[r]) :
            verdict[r][i] = "empty" \/ FailedSomewhere(Chain[r][i])

\* Every engine request that begins ends: the semaphores and the breaker
\* together leave nobody waiting for ever.
EngineRequestsEnd ==
    \A r \in Request :
        (Kind[r] = "engine" /\ phase[r] # "idle") ~> (phase[r] = "done")

\* What the breaker promises (circuit_breaker.py:78): "After the timeout, a
\* single probe call is allowed (HALF_OPEN)".
SingleProbe ==
    \A k \in Server : state[k] = "half_open" =>
        Cardinality({r \in Request : phase[r] \in {"call", "stream"} /\ Key(r) = k}) <= 1

\* What the engine's docstrings promise (failover_engine.py:48 and 69): the
\* error is raised "When all providers fail or have open circuits".
ExhaustedMeansAll ==
    \A r \in Request : outcome[r] = "exhausted" =>
        \A i \in 1..Len(Chain[r]) : verdict[r][i] \in {"skipped", "failed", "empty"}

\* What the module's docstring promises (failover_engine.py:3): providers
\* "whose circuit is open" are skipped.  A call that queued for its permit goes
\* out without a second look.
OpenIsSkipped ==
    [][\A r \in Request : phase[r] # "call" /\ phase'[r] = "call" =>
            state'[Key(r)] # "open"]_vars
=============================================================================
