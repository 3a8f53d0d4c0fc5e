# Dryade: a verification project

TLA+ models of the parts of Dryade (the Python server in `src/dryade-core/core`) whose
correctness depends on interleavings, failures and long sequences of calls, with the TLC
runs that check them and the TLAPS proofs of what holds for every size. Paths below
are relative to `src/dryade-core/core` unless they begin with `src/`.

The server is one process: uvicorn runs one event loop (`workers` in `config.py` is not
used by the entry point), so coroutines interleave only at awaits; threads exist only where
the code starts them (workflow kickoffs, MCP reader threads). The databases and the LLM
providers are outside.

## The system, and what of it is modelled

| component | state | operations | what makes it correct | module |
|---|---|---|---|---|
| circuit breaker, `orchestrator/circuit_breaker.py` | per key: state, failure stamps, two counts, last failure | `can_execute`, `record_success`, `record_failure`, `inject_external_failure_rate`, `reset` | opens exactly at the threshold inside the window, stays open long enough, closes on consecutive successes | `CircuitBreaker`, `BreakerHistory` |
| provider failover, `providers/resilience/*`, `_run_with_fallback` in `api/routes/chat.py` and `websocket.py` | semaphores, position in the chain; the shared breaker | one walk per request; the monitor's pings | permits conserved, exhaustion reported only where it is earned, requests end | `ProviderFailover` |
| LLM request queue, `extensions/request_queue.py` | semaphore, `_queued`, `_active` | `acquire`, `release` | slots conserved, the queue bounded and its count true, waits end | `RequestQueue` |
| workflow approvals, `workflows/approval.py`, `api/routes/workflows.py`, `workflows/executor.py` | execution and request rows, audit log; flows in threads | execute, decide, resume, scan, restart | decided once, audited, obeyed; no task twice | `Approval` |
| plan execution, `orchestrator/planning.py`, `models.py` | the plan, step states, context, counts | plan, waves of parallel steps, replan, restart, cancel | topological order, right inputs, success only when earned | `PlanExecution` |
| saved plans, `api/routes/plans.py` | the plan's row, a row per execution; per execution a background task with its own copy of the graph | create, update, refine, delete, execute, reset; hand over, run nodes, settle, recover | nodes run on completed inputs, a recorded success is whole, what is executing has its task | `SavedPlan` |
| WebSocket session, `api/routes/websocket.py`, the client's `src/dryade-workbench/src/hooks/useChatWebSocket.ts` | sequence numbers, buffer, unacknowledged messages; the registries of connections and of sessions | connect, restore, send, ack, retry, replay, replace, expire | no message of a session is lost or given up early; one handler per session | `WsSession`, implements `AtLeastOnce` |
| MCP stdio transport, `mcp/stdio_transport.py` | process, pending responses, message and restart counts | request, reader thread, health check, restart, stop | a response reaches its own request; restarts bounded; calls end | `StdioTransport`, implements `RetriedCall` |
| ReAct loop, retries, failure handling and checkpoints, `orchestrator/react_loop.py`, `retry_executor.py`, `failure_handler.py`, `checkpoint.py` | action count, failure depth, batch results, the latest checkpoint | think, dispatch, retry, handle a failure, roll back | a rollback goes back and never forward; a run ends on a cancel and on its time limit | `ReactLoop` |
| conversations, `orchestrator/cancellation.py`, `escalation.py`, `clarification.py`, `stream_registry.py`, `router.py`, `handlers/complex_handler.py` | per conversation one cancel event, escalation, clarification, stream entry; the factory's progress hook | ask, approve, reject, refine, orchestrate, cancel, leave | a cancel reaches the running orchestration, an answer the last question; streams end | `Conversation` |
| plugin reload, `_hot_reload_plugins` in `api/main.py`, `ee/plugins_ee.py`, `ee/allowlist_watchdog.ee.py`, `ee/internal_api.ee.py` | the allowlist in the file and in memory, loaded plugins and their routes, in-flight counts, drain marks | push, notify, watch, expire, drain, unmount, mount, serve | what is revoked is unmounted from its own paths, running requests are left alone, refusals end | `PluginReload` |
| the rest | | | | not modelled, see the end |

How they interact: the failover and the retry executor call the breaker's methods and
nothing else of it; the health monitor records its pings there too; every LLM call that
plans, thinks or answers passes the request queue; plan execution calls the LLM between
waves; an approval starts a flow in a thread and comes back through an HTTP handler. A message
arrives over the WebSocket or by SSE, is routed by the escalation and clarification that wait in its conversation, and becomes an
orchestration: a ReAct loop or a plan (one made for the goal; saved plans are run by their own route, node by node, and share nothing with it), under the conversation's cancel event, whose tools are calls of a transport and whose
events are the messages of the session. Reloading plugins goes on beside all of it.

What is hard to test, at the line where it bites, is listed in `PROJECT.json` under
`hazards`, with the properties that cover it.

## The modules

**`CircuitBreaker`**: one action per method (`Admit` and `Reject` are the two answers of
`can_execute`). Each holds one `threading.Lock` and no await, so it is atomic and reads the clock
once. The clock is an integer; equal readings are told apart by a rank, because
the list of the code keeps both. **`BreakerHistory`** adds three history variables that remember
what was recorded independently of the breaker's own fields, so that the properties compare
the two: `WindowExact`, for instance, says that the pruned list is the whole log cut at the window.

**`ProviderFailover`** extends `CircuitBreaker` with requests of two kinds that share its one instance. The
variable `turn` names the request that runs on without an await, which is how the code's atomicity
between awaits is kept. Each of its steps is a method of the breaker or leaves it alone by the way it is written; that is no property of the runs, but the lemma (`StepRefines`) that lets the theorems about the
breaker speak of the shared instance. What the breaker says and what a request meets come apart in time: the permit is waited for after the circuit was asked (disagreement 16), and a walk that is cancelled between
two entries reports exhaustion (disagreement 15), so `ExhaustionIsEarned` is about requests nobody cancelled: it relates what one request reports to what all of them met, since a circuit that one opens is skipped by the others.
A permit is released by `async with` on every way out.
`execute_with_fallback` is called only by tests at this commit; the chat and WebSocket routes use
the streaming walk. In production the monitor is keyed by provider id and the walk by
`provider:model`, so its pings never meet a walked circuit; `MonitorKeys` lets them meet, since the
class allows it, and the properties hold in both cases.

**`RequestQueue`** follows `acquire` from await to await and models asyncio's semaphore as it is
documented to work: a release hands the permit to the first waiter, and a waiter that loses interest with the
permit in hand gives it back. On Python 3.10, which `pyproject.toml` allows, `asyncio.TimeoutError` is
not `TimeoutError`, and time-outs leak like the cancellations of the model; the model is of 3.11 and later.

**`Approval`** keeps the rows in the database apart from everything a restart loses. A flow is
the set of nodes its thread has still to run; the node it starts at does no work, whatever
its type, because `generate_flow_class` gives that method to every node of type `start` and a resumption
makes the node behind the approval one. The handler of a decision is two steps, for its two commits.
Reachability is defined as the least closed set, without recursion, so that it can be reasoned about; that graphs have no cycle (`AcyclicAssumption`) is what
`schema.py:178-183` validates. `Triggers` follows the listeners the generator sets up: a node that a router of the flow leads to listens to the
router's label only, and a router or approval that became the entry triggers all its successors. Branches may run side by side, in whatever order the flow engine (crewai) likes. Three things about the graph are simplified, and
the module says so: a router listens to its first predecessor only and a node behind two routers to the label of one, which the model may follow all the same (it allows more than the code does); the labels of a flow's edges are
taken to be distinct; and of two branches side by side one at most may ask for an approval (`PauseAssumption`), since which of two the code asks for is read off a state the model leaves out. How often a node runs on which two branches
meet is the engine's, so `RunsOnce` is proved of the graphs where they do not meet in a task (`BranchesApart`).
A kickoff that ends well, or pauses, may still end in a failed execution, with a request or without one: nothing in the state says for what it paused, a commit fails, or the new request cannot be read back (`ExecuteReturns`).

**`PlanExecution`**: `pc` is the place in `orchestrate`, `status` the steps of the current plan,
`known` the round that wrote each result in the context. The LLM may answer any plan of `Plan`,
with circular and unknown dependencies, which no line rejects. What it cannot answer here is two steps with the same id: that is not rejected either (`provider.py:2051`), `get_step` (`models.py:414`) then finds the first of
the two, while a test such as the one for pending steps (`planning.py:314`) looks at both; the model names a step by its id. `rounds` counts the restarts from the
goal.

**`SavedPlan`**: `dbStatus` and `graph` are the plan's row, `row` and `stored` the status and the node results of each execution's. `update_plan`, `delete_plan` and
`reset_stuck_plan` are plain functions, which FastAPI runs in threads with a database session each, so a `Read` and a `Commit` are two steps and anything may be committed in between;
`execute_plan` and the refinement in `generate_plan` are coroutines without an await between the two, so they exclude each other but not the threads. `execute_plan` commits (`CommitExecute`), reads the plan once more for its answer and
only then hands the execution to a background task (`HandOver`): an error in between, for which the code has a handler that answers 500, leaves no task. Where a task stands is its `stage`. It reads the graph once (`Load`), may be thrown out of its loop by an error outside an agent's
own `try` (`Conclude`), settles its row by a read and a commit that are two steps (`ReadRow`, `StoreRow`), then the plan (`StorePlan`), and recovers with two commits more (`Mark`, `MarkPlan`). A commit of the ORM writes only the columns whose value differs from what was read: `writes`
holds those of the task's last transaction, `Keep` stands for a column that is not among them. `stored` says of whom the entries of a row's node results speak: nodes, or the `System` entry with which a reset fills a row that has none.
The clean-up of old drafts does to a draft what `delete_plan` does. Histories: `setter` is the execution for which the plan was set to executing, `forgotten` the executions whose task a restart, a failing recovery or a failing hand-over took,
`overtaken` those whose row a reset committed to between the task's last read and its commit.

**`WsSession`** keeps a session apart from the connection that serves it, because the code does: a client that
comes back within the expiry gets its session restored, with its buffer and unacknowledged messages. The handler and the retry task
of a connection are two processes; `retry_unacked` works on a copy of the entries and waits for each send, and what the
copy no longer agrees with is where its hazards are. Messages in flight are a sequence per connection; a drop loses them. `place` is the order
of the entries in the dictionary, which a write-back changes. At its end a handler awaits the background tasks it cancelled; the exception of a retry task or a heartbeat that died comes up there, and the disconnect is skipped (`End`). **`AtLeastOnce`** is what a session promises: what was sent is received, or sent again, or given up
after the retries; a message may be received more than once, and the client does not look. `Delivery` is the refinement.

**`StdioTransport`**: several threads call `_send_request`; a step of a thread goes from one place where it may
block or lose the processor with shared state half changed to the next. Process and reader thread are numbered, so a reader may outlive its process, and a response
may come from a process that is no longer the current one. **`RetriedCall`** is what a caller sees: its call is executed at most once per attempt
and the answer it gets is the answer to its own call (`Calls`). A call that fails may have been executed. Two waits have no limit: the write of a request to a server that does not read (`Write`, `Notify`), and the reading of stderr after a failed start
(`StderrEnds`). A stop whose process another thread has set to None meanwhile may fail (`Stopped`), and a reader whose thread has ended is one that delivers nothing: nothing obliges a reader to deliver.

**`ReactLoop`** is one run of `orchestrate`: the top of the loop, a thought, the batch of parallel tasks with their
retries, and the failures of the batch handed one by one to the failure handler, with its ladder, the checkpoint it leaves on DECOMPOSE and the rollback.
`streak` is a history variable: failed results since a success, in the order the loop looks at them, which is what the documentation calls the failure depth and the code does not keep (disagreement 17). What a handler does with the LLM is its outcome.
`Prior` gives the failure depth and observations a retried goal starts with.

**`Conversation`** numbers the messages of one conversation in the order they arrive. The stream of a message, the
orchestration it launches and the execution of an approved action are three tasks; when the client leaves only the first is cancelled. All of them
share five registries, keyed by the conversation, which name here who put what in. `disturbed` remembers that two requests overlapped or a client left: in
such a conversation the registries do go wrong, as the two configurations below and the list of other things met show, and four of the properties say what holds otherwise, of requests that come one after the other. Streams end in any case.

**`PluginReload`**: a reload is a coroutine of a push, a notification or the watchdog; the lock covers only the reading of the
list and its comparison with the last one (`Begin`), so that the drains, unmounts and mounts of several reloads interleave with each other and with
requests. `loaded` is the manager's registry, `routes` what the application serves under the paths of a plugin's own routers, and `wrapped` what it serves under `/api/ep/{token}` for encrypted plugins: the bridge mounts these once, when the server starts, and unmounting looks for
the routers' own paths only. `current` is the last list that verified; a list may stop verifying because it expires (`expired`), which a task of its own looks at, sharing the watchdog's debounce (`FireCallback`). The routers of two plugins are taken to have no path in common, the directory
a plugin is found in to bear its name, and what the marketplace's route reads of the list by itself (`api/routes/marketplace.py:153`) is left out. `left` and `target` are where a reload stands in its loop over what was revoked. Mounting loads any subset of what it may: a plugin may fail to load.

Three proof modules are about two modules at once: `BreakerProofs` (`BreakerHistory`, `ProviderFailover`), `PlanExecutionProofs` (`PlanExecution`, `SavedPlan`) and
`ApprovalProofs` (`Approval`, `Conversation`). What both would call `Init`, `Spec` or `TypeOK` has the component's name in front in one of them (`BreakerSpec`, `SavedSpec`, `ConversationSpec`);
the orchestration of a message starts with `LaunchRun`, because `Launch` is a workflow's.

Definitions marked *(Fault: ...)* are seeded faults beside the definition they replace. They are used
by no specification: replacing the definition by its fault must break the property named for it in
`PROJECT.json`, which shows that the property depends on that part of the code.

## The runs

| run | bounds | what it shows |
|---|---|---|
| `breaker` | 1 server, thresholds 3 and 2, timeout 2, window 3, clock to 7 from 0 or 3 | every property of the breaker; the servers are independent, and 7 ticks are enough to trip, probe, trip again and close |
| `failover` | 2 engine requests and 1 stream, 2 providers, 1 permit each, clock 0..1 | permits, what a reported exhaustion rests on, termination; with one permit the requests queue behind each other, with a timeout of 1 the circuit opens and is probed |
| `request_queue` | 4 tasks, 2 slots, 3 places, 2 cancelled waiters | the queue fills, permits are handed over while others arrive, time out and are cancelled, waiters leave at every position |
| `approval` | 2 executions, 12 nodes of which one is a router and two are approvals, with two tasks side by side behind a rejection, 1 restart | decisions audited and obeyed; no task twice; a resumption whose flow ends, ends |
| `plan_execution` | 3 step ids, 14 shapes times 3 choices of critical steps, `MAX_REPLANS` 0 or 3, 2 rounds | order, inputs, success, termination |
| `ws_session` | 2 connections, 3 messages over both, 2 in flight, buffer of 1, 1 retry | a buffer smaller than what is unacknowledged, an acknowledgement during a resend, a second connection while the first still closes; refinement |
| `stdio_transport` | 2 threads with one call each, 1 crash, 1 retry, 1 automatic restart | both threads find the process dead, restart it, and race with a late response; refinement; every method ends that does not hang in a write or in reading stderr |
| `react_loop` | 4 actions, batches of 2, 1 retry, four of the chosen failure actions | two failing batches reach the rung of DECOMPOSE and leave a checkpoint, later ones roll back to it; termination |
| `plugin_reload` | 2 plugins, one of them encrypted, 2 requests, 1 push beside the watchdog and the expiry check, 3 changes of the file or expiries | three reloads at once: revoke, allow again, revoke again |
| `conversation` | 3 messages, 2 of them over the WebSocket, 1 refinement | proposal, failed approval, second approval; overlaps, cancels, clients that leave |
| `saved_plan` | 2 executions, 1 handler beside them, 2 graphs of 2 nodes (one behind the other, and one that waits for itself beside a free one), the status set to draft, 1 restart, error or failing transaction | a second execution while the first still runs, a reset between every two of its commits and reads, a failure right behind a node and a node no order reaches; longer chains and more handlers are the theorem's |
| `plan_revised` | as above | disagreement 6 below |

`approval`, `plan_execution`, `ws_session`, `stdio_transport`, `react_loop`, `plugin_reload`, `conversation` and `saved_plan` turn the deadlock check off: a workflow may
rest for ever with nobody deciding, a goal, a call, a run or an execution that is done takes no further step, and so does a client that has used up the bounds.
The runs check what could go wrong across steps; type invariants are in every module (add `TypeOK` to a configuration to check one), and those of the proof modules are theorems.

The code and its documentation disagree in these places. The one in the list of runs is checked with it; the others have
configurations of their own, with the one property TLC finds violated (the property's comment quotes the sentence):

1. A pre-emptive trip does not set `last_failure_time`, so the circuit it opens may admit a call at once (`MCBreakerPreempt.cfg`).
2. HALF_OPEN admits every call, not "a single probe call" (`MCFailoverProbe.cfg`).
3. A waiter that is cancelled stays in `_queued`; the queue ends up full with nobody waiting (`MCRequestQueueLeak.cfg`).
4. An approval directly behind an approval is never asked, because the resumption turns it into the start node (`MCApprovalAdjacent.cfg`).
5. For the same reason the task directly behind an approval is not done (`MCApprovalSkips.cfg`).
6. A revised plan is never executed: its status is `pending`, the test asks for `executing`, and the goal
   is answered as a success (`plan_revised`). (`MAX_REPLANS` is hardly ever reached for this reason. The recursion passes
   neither the plan nor the count; only circular plans take it, without bound.)

7. The handler of a replaced connection ends by removing the entry of its client id, which is the new connection's (`MCWsReplaced.cfg`, against
   `api/routes/websocket.py:239-240`).
8. The retry task "runs until cancelled" (`websocket.py:356`), but an acknowledgement that removes an entry while another is being resent
   makes `del` raise, and the task is gone; its KeyError comes up again in the handler's `finally`, before `disconnect` (`MCWsRetryDies.cfg`).
9. Two threads that restart the transport at once may leave two server processes, although `start` refuses a second one (`stdio_transport.py:185`; `MCStdioTwoServers.cfg`).
10. A rollback sets `actions_taken` back (`react_loop.py:685`), so the leash does not bound the actions that were taken (`autonomous/leash.py:6` and `:40`); time does (`MCReactLeash.cfg`).
11. "When PM writes a new signed allowlist to that path, the watchdog fires and plugins reload automatically" (`allowlist_watchdog.ee.py:21`): the second of two changes within two
    seconds is debounced away and nothing looks at the file again (`MCPluginFile.cfg`).
12. The status of a conversation says that nothing streams as soon as the client of the WebSocket leaves, while its orchestration runs on (`chat.py:236`, "whether a conversation is
    currently streaming"; `MCConversationStatus.cfg`).
13. Of two orchestrations of a conversation the one that ends first takes the event of both away, and the other cannot be cancelled (`cancellation.py:3`; `MCConversationCancel.cfg`).
14. "Completed plans cannot have their status changed (terminal state)" (`api/routes/plans.py:948`): a cancel that read the plan before its task ended overwrites the completed status, and so does
    an older task of the plan that was cancelled or reset and went on (`MCSavedPlanTerminal.cfg`).
15. The engine's error is raised "When all providers fail or have open circuits" (`failover_engine.py:69`, and so `:48`), but a walk that finds its cancel event set between two entries leaves the loop and raises it too
    (`:80-82`; `chat.py:704-705` and `747-753` for the stream), with entries untried (`MCFailoverCancel.cfg`).
16. The engine walks the chain "skipping those whose circuit is open" (`failover_engine.py:3`), but the circuit is looked at before the wait for the permit (`:88`, `:97`): the call goes out although the circuit opened meanwhile (`MCFailoverOpen.cfg`).
17. `failure_depth` is there to "Track consecutive failures" (`react_loop.py:59`; `failure_handler.py:598` reports it as such), but a batch counts each of its failures and looks for a success only at its end (`react_loop.py:632`), so that one between them
    does not interrupt the count (`MCReactConsecutive.cfg`).
18. "After drain completes, routes are unmounted (404)" (`ee/plugins_ee.py:878`): the routes the bridge mounted for an encrypted plugin stay (`MCPluginWrapped.cfg`; they are mounted at `api/main.py:395-405`, unmounting looks at
    `plugins_ee.py:1173-1188`).
19. The reload on expiry is to "reject the expired allowlist, causing plugins to drain" (`allowlist_watchdog.ee.py:199-200`), but the reload ends where the list does not verify (`api/main.py:543-547`), and every plugin stays (`MCPluginExpired.cfg`).
20. A completed execution has its "Per-node execution results" (`database/models.py:498`): if a reset commits while the task's last transaction is open, and that one does not change the results it read, the row ends up completed with the entry of
    the reset alone (`MCSavedPlanRecord.cfg`).

Other things met while modelling and not stated as properties: a decided request whose
server restarted before the flow ended leaves its execution paused for good, and nothing looks
for it; `enforce_timeout` is never scheduled and imports a name that `database/session.py`
does not export; the start-up scan closes its session before its task runs, and it never applies
the timeout action; a node that follows a router and another node is run on the router's path only
(`executor.py:192-262`, against `src/docs-site/docs/using-dryade/workflows.md:49`, "Multiple branches can converge back to a
single node"); a resumption that begins at a router or an approval runs every branch behind it; a flow that stops at a second approval after a resumption creates no request; a task cancelled
inside `gather` counts as a success in `planning.py` (its answer is a `BaseException`); the running steps are not
given the cancel event.

Of the WebSocket: replay and greeting are outside the handler's `try`, so a connection that fails there loses its session; the number a client resumes from
belongs to its client id, whatever session it gets; with authentication in the first message a resumption is never honoured; a message that arrives while a
stream runs is dropped without a word. Of the transport: the clean-up of a failing start kills the process another thread started; `registry.start` replaces a transport that is
restarting itself. Of the ReAct loop: the loop makes its own `execution_id` (`react_loop.py:56`) and the handler asks for checkpoints under the state's (`failure_handler.py:153`), so
there is none to go back to before the first DECOMPOSE, which saves under the state's; ABORT does not end the run, because its result asks for no escalation; what a
successful ALTERNATIVE or DECOMPOSE produced is not among the observations; the `continue` after a rollback goes on with the next failure of the batch, not with the outer loop; exhausted
retries lose their classification; an escalation in a batch drops the other results; an escalation by the leash has no action and cannot be approved. Of conversations: the event stays
registered when a client leaves between getting it and the launch; a client that leaves during an approval leaves the progress hook replaced and the escalation pending, and a second yes
executes it again; the clear after an execution drops whatever escalation is pending by then. Of plugins: a reload that allows a plugin again while an earlier one still drains it finds it loaded,
and the earlier one then unmounts it; the first of two overlapping drains takes the mark of the other; a request whose route was matched before the unmount starts after it; after a
forced drain the requests that linger are subtracted from the counter of the plugin's next life.

Of saved plans: neither a cancel nor a reset stops the task, so a plan may be executed twice at once although `execute_plan` rejects a plan that is executing ("complete or cancel it", line 1901); the transitions
listed in `PlanResponse` are not enforced, a request may set any status but on a completed plan; a refinement by `generate_plan` does not look at the status, and an
edit of an approved plan leaves it approved; what is executed is read after the validation and may be another graph; a plan of circular nodes only is completed without running one; a reset that crosses the end may leave a
plan completed whose execution is recorded as failed; an agent that never answers leaves the plan executing, since nothing limits the wait; an error
between `execute_plan`'s commit and its hand-over (`plans.py:1947-1973`) answers 500 and leaves plan and row executing with no task, until somebody resets them. Of approvals also: when the new request cannot be read back
(`approval.py:98`), the execution is recorded as failed with a request that can still be decided.

## Fairness

- Coroutines of the loop that are ready run, and timers fire: weak fairness of the steps a request takes by
  itself and of the answer of a call under `wait_for`. Nothing bounds a provider's stream or an LLM call
  that has its slot, so no fairness is assumed of them, and `EngineRequestsEnd` speaks of the engine's
  requests only, `WaitsEnd` of the waiting only.
- A resumption (`ResumptionEnds`): the background task runs once the loop is free, and goes on when its thread has ended. The nodes of a flow are agents and tools, and nothing bounds them, so none of their steps is fair: the
  property excepts the resumptions whose flow never comes to anything. Nobody is assumed to decide.
- `MethodsEnd`: every thread runs, and the waits that are bounded (sleeps, `wait(timeout)` then kill, `queue.get(timeout)`, joins) end. A write to a server that does not read and the reading of stderr in a failing start are not bounded
  and no fairness is assumed of them; the property excepts a thread that hangs there for ever. Nothing is assumed of the server, which may never answer, nor of the reader.
- `StopsEnd`: thoughts and tools answer or time out, so the loop goes on. The user may cancel or not, the clock may pass the limit or not.
- `RefusalsEnd`: a coroutine that sleeps is woken. Requests may stay in a plugin for ever.
- `StreamsEnd`: the tasks of the loop run; a thought ends in an outcome when it could do so again and again (strong fairness), because the leash allows only so many. The user may do nothing.
- `GoalEnds`: LLM calls return or raise (the client has a timeout) and each step ends (the leash bounds its
  ReAct loop). It also needs plans to become acyclic after `MaxRounds`; with circular plans for ever the
  goal restarts for ever.
- `SavedPlan` has no fairness: an agent may never answer. `ExecutingIsRunning` is the safety side of the same question, and holds whatever the tasks are waiting for.

## What is proved

With TLAPS, for every value of the constants that satisfies the named assumptions (which TLC evaluates in the
runs). They say that sets are finite, thresholds positive and limits naturals; only those of `Approval` speak of the data: `AcyclicAssumption` is validated by the code,
`PauseAssumption` leaves out the graphs in which two branches side by side may both ask for an approval. Every safety invariant, every action property and every refinement that a passing run checks is a theorem (two of them for the graphs named below).

- **`BreakerProofs`**: the type invariant, the four properties of `breaker`, and two more: a closed circuit is below its threshold (`ClosedBelowThreshold`), and closing takes
  consecutive successes or a reset (`ClosesOnConsecutiveSuccesses`). The inductive invariant adds `TimesOrdered`
  (no stamp lies in the future, none is later than `last_failure_time`) to the invariants; without it the window could not be
  cut at the last failure. The action properties follow from it step by step.
  `ClosedCircuit` proves the same bound of the breaker alone. Of the failover: the type invariant, `PermitsConserved` and `ExhaustionIsEarned`, for any requests,
  chains and permits. The inductive invariant (`FailoverInv`) adds that a request that waits or calls is at an entry of its chain, that a semaphore's queue holds exactly those that wait for it and nobody twice, and
  that a semaphore has finitely many holders though the requests may be infinitely many; without the second a grant could take a request out of the queue that is still in it. For `ExhaustionIsEarned` it says where a circuit that is not closed comes from (`Evidence`): somebody failed at that provider, and whoever skipped it
  skipped it for that. By the lemma `StepRefines` the shared circuits inherit the breaker's theorem (`SharedCircuitClosed`).
- **`RequestQueueProofs`**: the type invariant, conservation of slots and the meaning of `_queued`. They are inductive together: the ranges of the counters follow from what they
  count, by lemmas about the cardinality of the set a task leaves or enters and about a queue without one of its elements.
- **`PlanExecutionProofs`**: the type invariant, `DependenciesFirst`, `InputsComplete`, `SuccessIsEarned` and
  `NoStartAfterCancel`, for every set of plans. The strengthening (`InLoop`, `RunningInGather`, `AtTheEnd`) says what holds
  between two waves: a step is pending until its wave was begun, nothing runs, every completed step has its result
  of this round in the context, no critical step has failed. One lemma per action.
  Of saved plans: the type invariant, `RunsOnCompletedInputs`, `CompletedIsComplete` and `ExecutingIsRunning`, for every set of graphs, any number of executions, handlers and faults, with every read and commit a step of its own. `SavedInv` says
  of a task where its node is, what its last transaction writes (`WritesJudged`: what is not written was so when it was read), why each skipped node was skipped (it hangs on a circle or stands behind a failure), and that a verdict of success is about a whole plan; of the database, that a row without its task is
  gone with the plan, and that nothing is executing behind a task that is past its first commit. That a loop with nothing left to run has worked off the plan
  rests on the nodes the order leaves out being the greatest set in which each has a predecessor (`Dropped`): nodes that would still wait for each other would be such a set. What handlers write in between does not disturb it: they reset or delete rows, but never complete one.

- **`ApprovalProofs`**: the type invariant, `AuditTrail` and `DecidedOnce`, for every workflow graph, every set of
  executions and any number of restarts. The strengthening (`Consistent`) ties the rows to the coroutines: an execution
  has no request while it executes, a request whose handler holds the loop has no audit entry yet, and a resumption
  has a decision to follow. Without it a second request could be made for an execution whose first is decided.
  Then what depends on the graph. `ReviewIsBinding` proves `ApprovalHonoured` of the workflows without an approval directly behind another (`ReviewsApart`): on every node the flow is at,
  the decisions without which it cannot be reached were made that way (`Answered`), and a request is made where no decision is needed, because an execution has one at most.
  Without the hypothesis it is false (disagreement 4, `MCApprovalAdjacent.cfg`). `TasksRunOnce` proves `RunsOnce` of the
  workflows whose branches have no task in common where they run side by side (`BranchesApart`): behind a node that is no decision, and behind one that becomes the start of a resumption, since a resumption that begins at a router or an approval runs every branch behind it. Decisions may lead
  anywhere, to a router or to a second approval too. Without the hypothesis it is false (TLC finds it on an approval, a router, two tasks and the one behind both). With it, nothing that ran can be reached from where the flow is or from where a decision is awaited, and no two nodes it is at share a task ahead (`Forward`); there is no way
  back along the edges (`AcyclicAssumption`). The run checks that its graph satisfies both hypotheses (`GraphAssumption`).
  Of conversations: the type invariant, `CancelIsExact`, `QuestionIsTheLast`, `HookIsRestored` and `FixedOnce`, for any number of messages. Only the undisturbed conversation is regular, and `InTurn` says how: all requests but the last
  are at their end and own nothing, and whose the event, the hook, the escalation and the clarification are follows from the place of the last. The properties themselves are too weak to be inductive, because they say nothing of
  what an earlier request might still hold.

- **`WsSessionProofs`**: the type invariant, `NothingLost`, `GiveUpEarned`, `OneHandlerPerSession`, and that every step of a session is a step of `AtLeastOnce` (`Delivery`), for any number of
  connections and messages, any buffer and any limit of retries. The refinement needs the invariants: that a send is new, for instance, follows from where the numbers of a session stand.
- **`StdioProofs`**: the type invariant, `PendingIsAwaited` (the registered queues are those of the threads that wait for them), the bound on restarts, and the refinement of `RetriedCall`. The
  strengthening says of every response, wherever it is under way, that the call with its number was executed; message numbers are never reused, which is why a late response finds nobody.
- **`ReactProofs`**: the type invariant and `CheckpointsAreBehind` (`RollbacksGoBack`): a checkpoint is never ahead of the run, through any sequence of rollbacks. It is inductive with the fact that
  a thought is only had below the leash.
- **`PluginReloadProofs`**: the type invariant, `RevokedIsUnmounted`, `CountExact` and `UnmountsQuietly`. `RevokedIsUnmounted` is about registrations and a plugin's own paths, and about the last list that verified; of the routes behind the bridge and of an expired
  list the like is false (disagreements 18 and 19). The strengthening says that the list the loader
  reads is the current one unless the last file did not verify, so that a late mount looks at the current list, that what has routes is registered, and that a reload that is not draining has nothing left to drain.

Only model-checked: liveness under fairness and anything about `ENABLED`, which are outside the prover's reach (`EngineRequestsEnd`, `WaitsEnd`, `ResumptionEnds`, `GoalEnds`, `MethodsEnd`, `StopsEnd`, `RefusalsEnd`, `StreamsEnd`);
the two statements about the graph without their hypotheses are not merely unproved but false. That several definitions are what a recursive algorithm of the code computes (the breadth-first search behind
`Reachable`, the topological sort behind `Dropped`) is read off the code: induction over data is outside the prover's reach too, so they are stated by what characterises them.

## Not modelled

- The second clarification registry (`clarification/protocol.py`) and the autonomous executor that would use it: nothing in the source instantiates the adapter that calls it. Its leash is in `ReactLoop`.
- Scheduled loops: `ProactiveScheduler.start()` has no caller, no job fires, and the routes change rows and jobs one after the other.
- Of saved plans: feedback on an execution and plans made from templates (one write each), and the matching of agent names.
- Triggers and scenarios: one task without shared state. (A workflow started by a trigger pauses at an approval without a request, so nobody can resume it.) Skills: a registry behind one lock. MCP registry and HTTP transport: one lock, and a client without state.
- The fallback chain's own cancel events (`CANCEL_EVENTS`): set and popped by one request; what a cancel does to a walk is in `ProviderFailover`.
- Prompts, parsing of LLM answers, workflow translation and conditions, agent factory, knowledge, audio: functions of their input, or I/O of other services. What they may answer appears as choice.
- Frontend (but for the hook the session talks to), CLI, authentication, plugin packages and signatures, database schema, migrations, metrics, logging, deployment: no protocol of their own.

This is most of the source by lines, but not by state: what is left has either no state shared between tasks or no more than one step on it.
