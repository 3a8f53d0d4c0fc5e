--------------------------- MODULE StdioTransport ---------------------------
(***************************************************************************)
(* The transport of an MCP server that runs as a child process             *)
(* (core/mcp/stdio_transport.py): requests of several threads with ids,    *)
(* the thread that reads the answers, timeouts and retries, the automatic  *)
(* restart of a process that died, and restart() and stop().               *)
(*                                                                         *)
(* registry.call_tool runs in executor threads and takes no lock, so every *)
(* method runs concurrently with every other on the same fields.  A step   *)
(* ends where a thread blocks (sleep, wait, Popen, write, read, queue.get) *)
(* and between a test of _restart_count and its increment.  A thread calls *)
(* one method.                                                             *)
(***************************************************************************)
EXTENDS Integers, FiniteSets, Functions

CONSTANTS Thread, None,
          MaxCrashes,   \* bound: how often a server process dies by itself
          MaxRetries,   \* max_retries
          MaxRestarts   \* max_restarts

Request == [id : Nat, from : Thread, kind : {"initialize", "call"},
            try : 0 .. MaxRetries]
Answers == [request : Request, ok : BOOLEAN]

ASSUME StdioAssumption == /\ None \notin Thread /\ None \notin Answers
                          /\ Thread # {} /\ IsFiniteSet(Thread)
                          /\ MaxCrashes \in Nat
                          /\ MaxRetries \in Nat /\ MaxRestarts \in Nat

VARIABLES
    process,   \* _process: the number of a process, 0 for None
    alive,     \* the processes that run
    spawned,   \* how many processes have been started
    running,   \* _running
    messageId, \* _message_id
    pending,   \* _pending_responses: the queue of a request, by its id
    inbox,     \* requests in the stdin of the process
    outbox,    \* answers in its stdout
    restarts,  \* _restart_count
    pc,        \* where a thread is
    op,        \* the method it runs
    attempt,   \* the loop variable of send_request
    asked,     \* the id of the request it waits for, 0 for none
    queue,     \* the answer in the queue of that request
    pipe,      \* the process whose stdin it writes to, 0 for none
    crashes,   \* how often a process has died by itself
    executed,  \* history: the attempts of a call the server executed
    result     \* history: whose execution gave a call its result
procVars == <<process, alive, spawned, running>>
msgVars == <<messageId, pending, inbox, outbox>>
vars == <<procVars, msgVars, restarts, pc, op, attempt, asked, queue, pipe,
          crashes, executed, result>>

Steps == {"idle", "check", "count", "stop", "stopping", "start", "spawning",
          "booting", "reading", "handshake", "greeting", "shaking",
          "notifying", "ask", "writing", "waiting", "done", "failed"}
Waiting == {"shaking", "waiting"}
Registered == Waiting \cup {"greeting", "writing"}
TypeOK ==
    /\ process \in 0 .. spawned
    /\ alive \subseteq 1 .. spawned
    /\ spawned \in Nat /\ running \in BOOLEAN
    /\ messageId \in Nat
    /\ DOMAIN pending \subseteq 1 .. messageId
    /\ \A i \in DOMAIN pending : pending[i] \in Request
    /\ inbox \subseteq Request /\ outbox \subseteq Answers
    /\ restarts \in Nat
    /\ pc \in [Thread -> Steps]
    /\ op \in [Thread -> {"none", "call", "restart", "stop"}]
    /\ attempt \in [Thread -> 0 .. MaxRetries]
    /\ asked \in [Thread -> 0 .. messageId]
    /\ queue \in [Thread -> Answers \cup {None}]
    /\ pipe \in [Thread -> 0 .. spawned]
    /\ crashes \in 0 .. MaxCrashes
    /\ executed \in [Thread -> SUBSET (0 .. MaxRetries)]
    /\ result \in [Thread -> Thread \cup {None}]

\* A transport that registry.start has started and initialized.
Init ==
    /\ process = 1 /\ alive = {1} /\ spawned = 1
    /\ running = TRUE
    /\ messageId = 0 /\ pending = << >> /\ inbox = {} /\ outbox = {}
    /\ restarts = 0
    /\ pc = [t \in Thread |-> "idle"]
    /\ op = [t \in Thread |-> "none"]
    /\ attempt = [t \in Thread |-> 0]
    /\ asked = [t \in Thread |-> 0]
    /\ queue = [t \in Thread |-> None]
    /\ pipe = [t \in Thread |-> 0]
    /\ crashes = 0
    /\ executed = [t \in Thread |-> {}]
    /\ result = [t \in Thread |-> None]

Goes(t, step) == pc' = [pc EXCEPT ![t] = step]
Moves(t, step) ==
    /\ Goes(t, step)
    /\ UNCHANGED <<procVars, msgVars, restarts, op, attempt, asked,
                   queue, pipe, crashes, executed, result>>
Dead == process # 0 /\ process \notin alive

(***************************************************************************)
(* The methods a thread calls.                                             *)
(***************************************************************************)
\* send_request of call_tool, list_tools and ping.
SendRequest(t) ==
    /\ pc[t] = "idle"
    /\ op' = [op EXCEPT ![t] = "call"]
    /\ Goes(t, "check")
    /\ UNCHANGED <<procVars, msgVars, restarts, attempt, asked,
                   queue, pipe, crashes, executed, result>>

\* restart(): forget the restarts so far, stop, start, initialize.
Restart(t) == /\ pc[t] = "idle"
              /\ op' = [op EXCEPT ![t] = "restart"]
              /\ restarts' = 0
              /\ Goes(t, "stop")
              /\ UNCHANGED <<procVars, msgVars, attempt, asked, queue, pipe,
                             crashes, executed, result>>

\* stop(), as registry.stop and registry.shutdown call it.
Stop(t) == /\ pc[t] = "idle"
           /\ op' = [op EXCEPT ![t] = "stop"]
           /\ Goes(t, "stop")
           /\ UNCHANGED <<procVars, msgVars, restarts, attempt, asked,
                          queue, pipe, crashes, executed, result>>

(***************************************************************************)
(* _check_and_restart, stop and start.                                     *)
(***************************************************************************)
CheckAlive(t) ==
    /\ pc[t] = "check" /\ process \in alive
    /\ Moves(t, "ask")

\* (Fault: the restarts are counted but not limited.)
MayRestartAlways == restarts \in Nat

MayRestart == restarts < MaxRestarts

CheckDead(t) ==
    /\ pc[t] = "check" /\ Dead /\ MayRestart
    /\ Moves(t, "count")

\* "Transport not started" or "max restarts exceeded".
CheckFails(t) ==
    /\ pc[t] = "check"
    /\ process = 0 \/ (Dead /\ ~MayRestart)
    /\ Moves(t, "failed")

Count(t) == /\ pc[t] = "count"
            /\ restarts' = restarts + 1
            /\ Goes(t, "stop")
            /\ UNCHANGED <<procVars, msgVars, op, attempt, asked,
                           queue, pipe, crashes, executed, result>>

AfterStop(t) == Goes(t, IF op[t] = "stop" THEN "done" ELSE "start")

StopNothing(t) ==
    /\ pc[t] = "stop" /\ process = 0
    /\ running' = FALSE
    /\ AfterStop(t)
    /\ UNCHANGED <<process, alive, spawned, msgVars, restarts, op,
                   attempt, asked, queue, pipe, crashes, executed, result>>

\* terminate, then wait for five seconds.
StopProcess(t) ==
    /\ pc[t] = "stop" /\ process # 0
    /\ running' = FALSE
    /\ alive' = alive \ {process}
    /\ Goes(t, "stopping")
    /\ UNCHANGED <<process, spawned, msgVars, restarts, op, attempt,
                   asked, queue, pipe, crashes, executed, result>>

\* The pipes of the process go with the object.
Forget == process' = 0 /\ inbox' = {} /\ outbox' = {}

\* The kill, if need be, and the finally clause: whatever process the field names
\* by now.  Where another thread has made it None, stop() may raise instead.
Stopped(t) ==
    /\ pc[t] = "stopping"
    /\ alive' \in {alive, alive \ {process}}
    /\ Forget
    /\ AfterStop(t) \/ (process = 0 /\ Goes(t, "failed"))
    /\ UNCHANGED <<spawned, running, messageId, pending, restarts, op,
                   attempt, asked, queue, pipe, crashes, executed, result>>

\* After restart_delay: start() tests that there is no process yet ...
StartTwice(t) ==
    /\ pc[t] = "start" /\ process # 0
    /\ Moves(t, "failed")

Start(t) ==
    /\ pc[t] = "start" /\ process = 0
    /\ Moves(t, "spawning")

\* ... and Popen returns: the field is set over what another thread put there.
Spawn(t) ==
    /\ pc[t] = "spawning"
    /\ spawned' = spawned + 1
    /\ process' = spawned + 1
    /\ alive' = alive \cup {spawned + 1}
    /\ running' = TRUE
    /\ inbox' = {} /\ outbox' = {}
    /\ Goes(t, "booting")
    /\ UNCHANGED <<messageId, pending, restarts, op, attempt, asked, queue, pipe,
                   crashes, executed, result>>

\* Popen raises FileNotFoundError: only the status changes.
CommandNotFound(t) ==
    /\ pc[t] = "spawning"
    /\ Moves(t, "failed")

\* `except Exception' of start: it stops the process the field names.
CleanUp(t) ==
    /\ running' = FALSE
    /\ alive' = alive \ {process}
    /\ Forget
    /\ Goes(t, "failed")
    /\ UNCHANGED <<spawned, messageId, pending, restarts, op, attempt,
                   asked, queue, pipe, crashes, executed, result>>

\* Popen raises anything else.
SpawnFails(t) == pc[t] = "spawning" /\ CleanUp(t)

\* After startup_delay: the field is None again (AttributeError).
BootLost(t) == pc[t] = "booting" /\ process = 0 /\ CleanUp(t)

\* The process died: start() reads what it wrote to stderr, up to the end, for
\* which every process that has the pipe must close it ...
BootDead(t) ==
    /\ pc[t] = "booting" /\ Dead
    /\ Moves(t, "reading")

\* ... and raises "Server process exited during startup".
StderrEnds(t) ==
    /\ pc[t] = "reading"
    /\ Moves(t, "failed")

Booted(t) ==
    /\ pc[t] = "booting" /\ process \in alive
    /\ Moves(t, "handshake")

(***************************************************************************)
(* Requests: _send_request_no_retry in send_request and in initialize.     *)
(***************************************************************************)
Asking == {"handshake", "ask"}
Kind(t) == IF pc[t] \in {"handshake", "greeting"} THEN "initialize" ELSE "call"
Message(t, id) == [id |-> id, from |-> t, kind |-> Kind(t), try |-> attempt[t]]

\* (Fault: the increment of _next_id is lost.)
SameId == IF messageId = 0 THEN 1 ELSE messageId

NextId == messageId + 1

\* Register a queue under a new id; the process that is there gets the request.
Register(t) ==
    /\ pc[t] \in Asking /\ process # 0
    /\ messageId' = NextId
    /\ pending' = [i \in DOMAIN pending \cup {NextId} |->
                     IF i = NextId THEN Message(t, NextId) ELSE pending[i]]
    /\ asked' = [asked EXCEPT ![t] = NextId]
    /\ queue' = [queue EXCEPT ![t] = None]
    /\ pipe' = [pipe EXCEPT ![t] = process]
    /\ Goes(t, IF pc[t] = "ask" THEN "writing" ELSE "greeting")
    /\ UNCHANGED <<procVars, inbox, outbox, restarts, op, attempt,
                   crashes, executed, result>>

\* Write and flush return: while the pipe is full of what the process has not
\* read, they do not.  (Another thread may have put a process in its place.)
Write(t) ==
    /\ pc[t] \in {"greeting", "writing"} /\ pipe[t] \in alive
    /\ inbox' = IF pipe[t] = process THEN inbox \cup {Message(t, asked[t])}
                                     ELSE inbox
    /\ pipe' = [pipe EXCEPT ![t] = 0]
    /\ Goes(t, IF pc[t] = "writing" THEN "waiting" ELSE "shaking")
    /\ UNCHANGED <<procVars, messageId, pending, outbox, restarts, op,
                   attempt, asked, queue, crashes, executed, result>>

\* "Transport not started" cannot be retried.
SendFails(t) ==
    /\ pc[t] \in Asking /\ process = 0
    /\ Moves(t, "failed")

MoreAttempts(t) == attempt[t] < MaxRetries

\* The next iteration of the loop, or its end.
Again(t) ==
    \/ /\ MoreAttempts(t)
       /\ attempt' = [attempt EXCEPT ![t] = @ + 1]
       /\ Goes(t, "check")
    \/ /\ ~MoreAttempts(t)
       /\ Goes(t, "failed")
       /\ UNCHANGED attempt

\* The finally clause of _send_request_no_retry.
Unregister(t) ==
    /\ pending' = Restrict(pending, DOMAIN pending \ {asked[t]})
    /\ asked' = [asked EXCEPT ![t] = 0]
    /\ queue' = [queue EXCEPT ![t] = None]

\* The pipe of a dead process is broken: retried, unless it was the handshake.
BrokenPipe(t) ==
    /\ pc[t] \in {"greeting", "writing"} /\ pipe[t] \notin alive
    /\ Unregister(t)
    /\ pipe' = [pipe EXCEPT ![t] = 0]
    /\ \/ pc[t] = "writing" /\ Again(t)
       \/ pc[t] = "greeting" /\ Goes(t, "failed") /\ UNCHANGED attempt
    /\ UNCHANGED <<procVars, messageId, inbox, outbox, restarts, op,
                   crashes, executed, result>>

Answered(t) == pc[t] \in Waiting /\ queue[t] # None

\* A result: the restart counter starts again.
CallReturns(t) ==
    /\ pc[t] = "waiting" /\ Answered(t) /\ queue[t].ok
    /\ Unregister(t)
    /\ restarts' = 0
    /\ result' = [result EXCEPT ![t] = queue[t].request.from]
    /\ Goes(t, "done")
    /\ UNCHANGED <<procVars, messageId, inbox, outbox, op, attempt,
                   pipe, crashes, executed>>

\* initialize goes on to its notification, which is written like a request.
Initialized(t) ==
    /\ pc[t] = "shaking" /\ Answered(t) /\ queue[t].ok
    /\ Unregister(t)
    /\ pipe' = [pipe EXCEPT ![t] = process]
    /\ Goes(t, IF process = 0 THEN "failed" ELSE "notifying")
    /\ UNCHANGED <<procVars, messageId, inbox, outbox, restarts, op,
                   attempt, crashes, executed, result>>

Notify(t) ==
    /\ pc[t] = "notifying" /\ pipe[t] \in alive
    /\ pipe' = [pipe EXCEPT ![t] = 0]
    /\ Goes(t, IF op[t] = "call" THEN "ask" ELSE "done")
    /\ UNCHANGED <<procVars, msgVars, restarts, op, attempt, asked,
                   queue, crashes, executed, result>>

NotifyFails(t) ==
    /\ pc[t] = "notifying" /\ pipe[t] \notin alive
    /\ pipe' = [pipe EXCEPT ![t] = 0]
    /\ Goes(t, "failed")
    /\ UNCHANGED <<procVars, msgVars, restarts, op, attempt, asked,
                   queue, crashes, executed, result>>

\* An error response: its code and its wording decide about a retry.
ErrorResponse(t) ==
    /\ Answered(t) /\ ~queue[t].ok
    /\ Unregister(t)
    /\ \/ Goes(t, "failed") /\ UNCHANGED attempt
       \/ pc[t] = "waiting" /\ Again(t)
    /\ UNCHANGED <<procVars, messageId, inbox, outbox, restarts, op,
                   pipe, crashes, executed, result>>

\* (Fault: no timeout while the process runs.)
TimesOutWhenDead(t) == queue[t] = None /\ process \notin alive

\* queue.get(timeout) raises Empty.
TimesOut(t) == queue[t] = None

Timeout(t) ==
    /\ pc[t] \in Waiting /\ TimesOut(t)
    /\ Unregister(t)
    /\ \/ pc[t] = "waiting" /\ Again(t)
       \/ pc[t] = "shaking" /\ Goes(t, "failed") /\ UNCHANGED attempt
    /\ UNCHANGED <<procVars, messageId, inbox, outbox, restarts, op,
                   pipe, crashes, executed, result>>

(***************************************************************************)
(* The reader threads and the server.                                      *)
(***************************************************************************)
\* _handle_message: the queue registered under the id, if there is one.  A reader
\* may also end, of the end of the output or of any exception (_process is None, a
\* message is no object, an answer to the server cannot be written): it is then
\* one that delivers nothing any more, and nothing obliges a reader to deliver.
Deliver(m) ==
    /\ running /\ process # 0
    /\ outbox' = outbox \ {m}
    /\ IF m.request.id \in DOMAIN pending
       THEN LET r == pending[m.request.id]
            IN queue' = [queue EXCEPT ![r.from] =
                           IF asked[r.from] = r.id THEN m ELSE @]
       ELSE UNCHANGED queue
    /\ UNCHANGED <<procVars, messageId, pending, inbox, restarts, pc,
                   op, attempt, asked, pipe, crashes, executed, result>>

\* The server takes requests in any order, and may answer with an error.
Serve(r) ==
    /\ process \in alive
    /\ inbox' = inbox \ {r}
    /\ \E ok \in BOOLEAN : outbox' = outbox \cup {[request |-> r, ok |-> ok]}
    /\ executed' = IF r.kind = "call"
                   THEN [executed EXCEPT ![r.from] = @ \cup {r.try}]
                   ELSE executed
    /\ UNCHANGED <<procVars, messageId, pending, restarts, pc, op,
                   attempt, asked, queue, pipe, crashes, result>>

Crash ==
    /\ crashes < MaxCrashes /\ process \in alive
    /\ alive' = alive \ {process}
    /\ crashes' = crashes + 1
    /\ UNCHANGED <<process, spawned, running, msgVars, restarts, pc,
                   op, attempt, asked, queue, pipe, executed, result>>

Checks(t) == CheckAlive(t) \/ CheckDead(t) \/ CheckFails(t) \/ Count(t)
Stops(t) == StopNothing(t) \/ StopProcess(t) \/ Stopped(t)
Starts(t) == \/ StartTwice(t) \/ Start(t) \/ Spawn(t) \/ CommandNotFound(t)
             \/ SpawnFails(t) \/ BootLost(t) \/ BootDead(t) \/ Booted(t)
Requests(t) == \/ Register(t) \/ SendFails(t) \/ BrokenPipe(t) \/ CallReturns(t)
               \/ Initialized(t) \/ NotifyFails(t) \/ ErrorResponse(t) \/ Timeout(t)
Proceeds(t) == Checks(t) \/ Stops(t) \/ Starts(t) \/ Requests(t)
Unblocks(t) == StderrEnds(t) \/ Write(t) \/ Notify(t)

Next == \/ \E t \in Thread : SendRequest(t) \/ Restart(t) \/ Stop(t)
                             \/ Proceeds(t) \/ Unblocks(t)
        \/ \E m \in outbox : Deliver(m)
        \/ \E r \in inbox : Serve(r)
        \/ Crash

Safety == Init /\ [][Next]_vars

\* The waits that are bounded end: sleep, wait(timeout=5) then kill, Popen,
\* join(timeout=1), queue.get(timeout).  Nothing bounds a write to a process that
\* does not read, or the reading of stderr, and the server promises nothing.
Spec == Safety /\ \A t \in Thread : WF_vars(Proceeds(t))

(***************************************************************************)
(* Properties.                                                             *)
(***************************************************************************)
\* The registered queues are those of the threads that wait for them, and of
\* no others: no timeout, retry or restart by another thread removes a queue
\* somebody waits for, or leaves one behind (_send_request_no_retry, 506-546).
PendingIsAwaited ==
    /\ \A i \in DOMAIN pending :
          LET r == pending[i]
          IN r.id = i /\ asked[r.from] = i /\ pc[r.from] \in Registered
    /\ \A t \in Thread : pc[t] \in Registered =>
          asked[t] \in DOMAIN pending /\ pending[asked[t]].from = t

\* Threads that find the process dead together overshoot max_restarts, each
\* by one restart at most: the counter is tested and incremented without a
\* lock (_check_and_restart, 289-293).
RestartsBounded ==
    restarts <= MaxRestarts + Cardinality(Thread) - 1

Busy(t) == pc[t] \notin {"idle", "done", "failed"}

\* Every method returns or raises, whatever the server, its process and the
\* other threads do, unless the thread hangs for ever where the code sets no
\* limit: in the write to a process that lives and does not read (446-447), or
\* in the reading of stderr (226).  A process that dies or is stopped by another
\* thread lets the writers go (send_request, 548-611; stop, 244-264).
Writes(t) == pc[t] \in {"greeting", "writing", "notifying"} /\ pipe[t] \in alive
MethodsEnd ==
    \A t \in Thread : \/ <>[](pc[t] = "reading" \/ Writes(t))
                      \/ Busy(t) ~> ~Busy(t)

\* The promise to a caller of send_request: the refinement reads a thread
\* that runs send_request as a call of RetriedCall.
phaseOf == [t \in Thread |->
              IF op[t] # "call" THEN "new"
              ELSE IF pc[t] = "done" THEN "answered"
              ELSE IF pc[t] = "failed" THEN "failed" ELSE "asked"]

Abstract == INSTANCE RetriedCall WITH
    Call <- Thread, NoCall <- None, Attempt <- 0 .. MaxRetries,
    phase <- phaseOf, executed <- executed, result <- result

\* A call that returns a result returns the one of its own execution, however
\* late or out of order answers come, and the server executes each of its
\* attempts once at most (send_request, 548-611; _handle_message, 390-394).
Calls == Abstract!Spec

\* start() refuses to start a second process ("Transport already started",
\* 185-186): where nobody calls restart() or stop(), one process runs.
OneProcess ==
    (\A t \in Thread : op[t] \in {"none", "call"}) => Cardinality(alive) <= 1
==============================================================================
