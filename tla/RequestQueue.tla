----------------------------- MODULE RequestQueue -----------------------------
(***************************************************************************)
(* The gate in front of every LLM call: RequestQueue of                    *)
(* core/extensions/request_queue.py, used as in provider.py (_call_llm,    *)
(* _stream_llm) and with_llm_slot: acquire, call, release in a finally.    *)
(*                                                                         *)
(* A step ends where the code suspends.  _lock is never held across an     *)
(* await, so taking it does not suspend and each of its critical sections  *)
(* belongs to the step it is in.  The semaphore is asyncio's: it hands a   *)
(* released permit to the first waiter, which resumes later, and a waiter  *)
(* that is cancelled or timed out with the permit in hand gives it back.   *)
(* The counters that are only reported (_total_processed, _total_rejected, *)
(* _wait_times) are left out.                                              *)
(***************************************************************************)
EXTENDS Integers, FiniteSets, Sequences

CONSTANTS
    Request,        \* tasks that make LLM calls, again and again
    MaxConcurrent,  \* max_concurrent
    MaxQueueSize,   \* max_queue_size
    MaxLeaks        \* bound: waiting tasks cancelled in a behaviour

ASSUME LimitsAssumption ==
    /\ IsFiniteSet(Request)
    /\ MaxConcurrent \in Nat \ {0}
    /\ MaxQueueSize \in Nat \ {0}
    /\ MaxLeaks \in Nat

VARIABLES
    pc,       \* where a task stands
    answer,   \* the last outcome of its acquire
    queued,   \* _queued
    active,   \* _active
    permits,  \* the semaphore's free permits
    waiters,  \* tasks blocked in the semaphore, first come first
    leaked    \* history: tasks cancelled between the two critical sections

counters == <<queued, active>>
vars == <<pc, answer, counters, permits, waiters, leaked>>

Place == {"out", "blocked", "handed", "running"}
Answers == {"none", "granted", "full", "timeout", "cancelled"}

TypeOK ==
    /\ pc \in [Request -> Place]
    /\ answer \in [Request -> Answers]
    /\ queued \in 0..MaxQueueSize
    /\ active \in 0..MaxConcurrent
    /\ permits \in 0..MaxConcurrent
    /\ waiters \in Seq(Request)
    /\ leaked \in 0..MaxLeaks

Init ==
    /\ pc = [r \in Request |-> "out"]
    /\ answer = [r \in Request |-> "none"]
    /\ queued = 0
    /\ active = 0
    /\ permits = MaxConcurrent
    /\ waiters = <<>>
    /\ leaked = 0

-----------------------------------------------------------------------------
Answer(r, a) == answer' = [answer EXCEPT ![r] = a]

\* A sequence without its i-th element.
Drop(seq, i) == [j \in 1..Len(seq) - 1 |-> IF j < i THEN seq[j] ELSE seq[j + 1]]

\* The task is taken out of the semaphore's queue, wherever it stands.
Unqueue(r) ==
    \E i \in DOMAIN waiters : waiters[i] = r /\ waiters' = Drop(waiters, i)

\* The test under _lock.
HasRoom == queued < MaxQueueSize

Uncount == queued' = queued - 1

\* r moves to place p and gives a permit back: to the first waiter, or to the
\* pool.
GiveBack(r, p) ==
    IF waiters = <<>>
       THEN /\ pc' = [pc EXCEPT ![r] = p]
            /\ permits' = permits + 1
            /\ UNCHANGED waiters
       ELSE /\ pc' = [pc EXCEPT ![r] = p, ![Head(waiters)] = "handed"]
            /\ waiters' = Tail(waiters)
            /\ UNCHANGED permits

\* r stops waiting, with or without a permit in hand.
Withdraw(r) ==
    \/ /\ pc[r] = "blocked"
       /\ pc' = [pc EXCEPT ![r] = "out"]
       /\ Unqueue(r)
       /\ UNCHANGED permits
    \/ /\ pc[r] = "handed"
       /\ GiveBack(r, "out")

-----------------------------------------------------------------------------
(* acquire finds the queue full. *)
RejectFull(r) ==
    /\ pc[r] = "out"
    /\ ~HasRoom
    /\ Answer(r, "full")
    /\ UNCHANGED <<pc, counters, permits, waiters, leaked>>

(* acquire counts the request as queued and asks the semaphore. *)
Enter(r) ==
    /\ pc[r] = "out"
    /\ HasRoom
    /\ queued' = queued + 1
    /\ Answer(r, "none")
    /\ IF permits > 0 /\ waiters = <<>>
          THEN /\ permits' = permits - 1
               /\ pc' = [pc EXCEPT ![r] = "handed"]
               /\ UNCHANGED waiters
          ELSE /\ waiters' = Append(waiters, r)
               /\ pc' = [pc EXCEPT ![r] = "blocked"]
               /\ UNCHANGED permits
    /\ UNCHANGED <<active, leaked>>

(* The task resumes with the permit: from queued to active. *)
Resume(r) ==
    /\ pc[r] = "handed"
    /\ pc' = [pc EXCEPT ![r] = "running"]
    /\ Uncount
    /\ active' = active + 1
    /\ Answer(r, "granted")
    /\ UNCHANGED <<permits, waiters, leaked>>

(* wait_for gives up: the except clause takes the request off the count.   *)
(* (Faults: no time limit; the request that timed out stays counted.)      *)
NeverTimeOut(r) == pc[r] = "never" /\ UNCHANGED vars
TimeOutCounted(r) ==
    /\ Withdraw(r)
    /\ Answer(r, "timeout")
    /\ UNCHANGED <<counters, leaked>>
TimeOut(r) ==
    /\ Withdraw(r)
    /\ Uncount
    /\ Answer(r, "timeout")
    /\ UNCHANGED <<active, leaked>>

(* The task is cancelled while it waits.  Only TimeoutError is caught, so   *)
(* the request stays counted as queued.                                    *)
CancelWaiting(r) ==
    /\ leaked < MaxLeaks
    /\ Withdraw(r)
    /\ Answer(r, "cancelled")
    /\ leaked' = leaked + 1
    /\ UNCHANGED counters

(* The call returns, raises or is cancelled: release in the finally.       *)
(* (Fault: only a call that returns is released.)                          *)
FinishUnreleased(r) ==
    /\ pc[r] = "running"
    /\ pc' = [pc EXCEPT ![r] = "out"]
    /\ UNCHANGED <<answer, counters, permits, waiters, leaked>>
Finish(r) ==
    /\ pc[r] = "running"
    /\ active' = active - 1
    /\ GiveBack(r, "out")
    /\ UNCHANGED <<answer, queued, leaked>>

Step(r) ==
    \/ RejectFull(r) \/ Enter(r) \/ Resume(r) \/ TimeOut(r)
    \/ CancelWaiting(r) \/ Finish(r)

Next == \E r \in Request : Step(r)

Spec == Init /\ [][Next]_vars

(* The loop resumes a ready task and its timers fire; nothing bounds the   *)
(* LLM call itself.                                                        *)
Fairness ==
    \A r \in Request :
        /\ WF_vars(Resume(r))
        /\ WF_vars(TimeOut(r))

FairSpec == Spec /\ Fairness
-----------------------------------------------------------------------------
At(f, s) == {r \in Request : f[r] = s}
InState(s) == At(pc, s)

\* No sequence of grants, time-outs and cancellations loses or duplicates a
\* slot: the free permits, those on their way to a waiter and the running calls
\* add up to max_concurrent, and _active counts the running calls.
SlotsConserved ==
    /\ permits + Cardinality(InState("handed")) + Cardinality(InState("running"))
          = MaxConcurrent
    /\ active = Cardinality(InState("running"))

\* _queued is the number of tasks between the two critical sections, plus one
\* for every task that was cancelled there: it never undercounts, so the queue
\* never holds more than max_queue_size, and what it overcounts never returns.
QueuedAccounted ==
    queued = Cardinality(InState("blocked")) + Cardinality(InState("handed")) + leaked

\* A task that entered the queue leaves acquire, with a slot or without, even
\* if no call ever finishes.
WaitsEnd == \A r \in Request : (pc[r] \in {"blocked", "handed"}) ~> (pc[r] \in {"running", "out"})

\* What acquire returns False for (request_queue.py:78): "False if rejected
\* (queue full or timeout)", so a request turned away at once finds
\* max_queue_size requests waiting.
FullMeansWaiting ==
    [][\A r \in Request :
          (answer[r] # "full" /\ answer'[r] = "full") =>
             Cardinality(InState("blocked")) + Cardinality(InState("handed"))
                >= MaxQueueSize]_vars
=============================================================================
