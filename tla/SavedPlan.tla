-------------------------------- MODULE SavedPlan --------------------------------
(***************************************************************************)
(* A saved plan and its executions: the handlers and the background task   *)
(* of core/api/routes/plans.py.                                            *)
(*                                                                         *)
(* The plan and one row per execution are in the database.  update,        *)
(* delete and reset are plain functions, which the framework runs in       *)
(* threads: each reads the plan, decides, and commits what it changed, and *)
(* anything may be committed in between.  execute and generate are         *)
(* coroutines without an await between read and commit, so they exclude    *)
(* each other.  Every execution is a background task in a thread of its    *)
(* own, which reads the plan once and never looks at its status again.     *)
(*                                                                         *)
(* A commit writes the columns whose value differs from what was read, so  *)
(* what was committed in between stays in the others; an update or an      *)
(* insert for a row that is gone fails and changes nothing.  (Of a         *)
(* transaction that writes one column, and that whatever it is by then,    *)
(* read and commit are one step.)                                          *)
(* What agents do and answer is left out, and so are validation (it only   *)
(* refuses), owners, and the 30 minutes of the bulk reset: time is not     *)
(* modelled, and it does to one plan what reset does.                      *)
(***************************************************************************)
EXTENDS Integers, FiniteSets

CONSTANTS
    Exec,             \* executions
    Request,          \* handlers that may be under way at once
    Node,             \* ids of nodes
    Graph,            \* the nodes and edges a plan may be given
    Settable,         \* the statuses that requests give a plan
    RequireApproval,  \* DRYADE_REQUIRE_PLAN_APPROVAL
    Nobody,           \* not an execution
    System,           \* not a node: the node_id of the entries of errors
    Keep,             \* a field that a request leaves out, a column not written
    MaxFaults         \* bound: restarts and database errors in a behaviour

Status == {"draft", "approved", "executing", "completed", "failed", "cancelled"}

\* What an entry of node_results may speak of.
Entry == Node \cup {System}

ASSUME SavedPlanAssumption ==
    /\ Nobody \notin Exec /\ System \notin Node
    /\ Keep \notin Graph /\ Keep \notin Status
    /\ \A S \in SUBSET Entry : S # Keep
    /\ Graph \subseteq [nodes : SUBSET Node, edges : SUBSET (Node \X Node)]
    /\ Settable \subseteq Status
    /\ RequireApproval \in BOOLEAN
    /\ MaxFaults \in Nat

VARIABLES
    dbStatus,   \* database: ExecutionPlan.status, or deleted
    graph,      \* database: nodes and edges of the plan
    setter,     \* history: the execution for which it was set to executing
    row,        \* database: PlanExecutionResult.status, per execution
    stored,     \* database: what the entries of its node_results speak of
    call,       \* the handlers under way
    stage,      \* where the background task of an execution is
    loaded,     \* the graph the task works on
    at,         \* the node whose agent it awaits
    results,    \* its node_results
    writes,     \* the columns its transaction on the row is going to write
    forgotten,  \* history: executions whose tasks ended without settling the
                \* rows, or never began
    overtaken,  \* history: executions whose entries a reset replaced amid the
                \* last transaction on the row
    faults      \* history: faults so far

planColumns == <<dbStatus, graph, setter>>
rows == <<row, stored>>
task == <<stage, loaded, at, results, writes>>
history == <<forgotten, overtaken>>
savedVars == <<planColumns, rows, call, task, history, faults>>

Outcome == {"completed", "failed", "degraded"}
Idle == [op |-> "none", seen |-> "draft", status |-> Keep, graph |-> Keep,
         rows |-> {}, bare |-> {}]
Nothing == [status |-> Keep, entries |-> Keep]

SavedTypeOK ==
    /\ dbStatus \in Status \cup {"deleted"}
    /\ graph \in Graph
    /\ setter \in Exec \cup {Nobody}
    /\ row \in [Exec -> {"none", "executing", "completed", "failed"}]
    /\ stored \in [Exec -> SUBSET Entry]
    /\ call \in [Request -> [op : {"none", "update", "delete", "reset", "execute"},
                             seen : Status, status : Status \cup {Keep},
                             graph : Graph \cup {Keep},
                             rows : SUBSET Exec, bare : SUBSET Exec]]
    /\ stage \in [Exec -> {"unused", "answer", "queued", "next", "agent", "entry",
                        "result", "row", "plan", "mark", "markPlan", "done"}]
    /\ loaded \in [Exec -> Graph]
    /\ at \in [Exec -> Entry]
    /\ results \in [Exec -> [Entry -> Outcome \cup {"none", "skipped"}]]
    /\ writes \in [Exec -> [status : {"completed", "failed", Keep},
                            entries : (SUBSET Entry) \cup {Keep}]]
    /\ forgotten \in SUBSET Exec /\ overtaken \in SUBSET Exec
    /\ faults \in 0..MaxFaults

\* create_plan takes any status, as update_plan does.
SavedInit ==
    /\ dbStatus \in Settable
    /\ graph \in Graph
    /\ setter = Nobody
    /\ row = [e \in Exec |-> "none"]
    /\ stored = [e \in Exec |-> {}]
    /\ call = [r \in Request |-> Idle]
    /\ stage = [e \in Exec |-> "unused"]
    /\ loaded = [e \in Exec |-> graph]
    /\ at = [e \in Exec |-> System]
    /\ results = [e \in Exec |-> [n \in Entry |-> "none"]]
    /\ writes = [e \in Exec |-> Nothing]
    /\ forgotten = {} /\ overtaken = {}
    /\ faults = 0

-----------------------------------------------------------------------------
Exists == dbStatus # "deleted"
Active(e) == stage[e] \notin {"unused", "done"}
LoopFree == /\ \A r \in Request : call[r].op # "execute"
            /\ \A e \in Exec : stage[e] # "answer"

WritePlan(s, e) == dbStatus' = s /\ setter' = e
Fault == faults < MaxFaults /\ faults' = faults + 1
Ends(r) == call' = [call EXCEPT ![r] = Idle]
Goes(e, where) == stage' = [stage EXCEPT ![e] = where]
Plans(e, columns) == writes' = [writes EXCEPT ![e] = columns]

\* The nodes that a cycle keeps out of the topological order.
Dropped(g) ==
    UNION {S \in SUBSET g.nodes : \A n \in S : \E m \in S : <<m, n>> \in g.edges}

\* The nodes that may come next in it: the order among these is that of the
\* lists, which is left open.
Available(e) ==
    {n \in loaded[e].nodes :
        /\ results[e][n] = "none"
        /\ \A m \in loaded[e].nodes : <<m, n>> \in loaded[e].edges => results[e][m] # "none"}

\* failed_node_ids.  (Fault: a node that was refused is not added.)
FailedWithoutRefused(e) == {n \in Node : results[e][n] \in {"failed", "skipped"}}
FailedNodes(e) == {n \in Node : results[e][n] \in {"failed", "degraded", "skipped"}}

Blocked(e, n) == \E m \in FailedNodes(e) : <<m, n>> \in loaded[e].edges

\* final_status in the end.  (Fault: a refusal does not count.)
JudgedByFailures(e) ==
    IF \E n \in Entry : results[e][n] = "failed" THEN "failed" ELSE "completed"
Judged(e) ==
    IF \E n \in Entry : results[e][n] \in {"failed", "degraded"} THEN "failed"
    ELSE "completed"

Entries(e) == {n \in Entry : results[e][n] # "none"}

\* The statuses from which a plan is executed.
Executable(s) == s \in {"approved", "failed"} \/ (s = "draft" /\ ~RequireApproval)

\* What a mark does to the plan.  (Fault: nothing.)
PlanLeft == UNCHANGED <<dbStatus, setter>>
PlanFailed ==
    IF dbStatus = "executing" THEN WritePlan("failed", Nobody)
    ELSE UNCHANGED <<dbStatus, setter>>

-----------------------------------------------------------------------------
(* A handler reads the plan and does not refuse.                           *)
ReadUpdate(r) ==
    \E s \in Settable \cup {Keep}, g \in Graph \cup {Keep} :
        /\ Exists
        /\ s # Keep \/ g # Keep
        /\ dbStatus \in {"executing", "completed"} => s # Keep /\ g = Keep
        /\ dbStatus # "completed"
        /\ call' = [call EXCEPT ![r] =
               [Idle EXCEPT !.op = "update", !.seen = dbStatus, !.status = s, !.graph = g]]

ReadDelete(r) ==
    /\ Exists
    /\ dbStatus # "executing"
    /\ call' = [call EXCEPT ![r] =
           [Idle EXCEPT !.op = "delete",
                        !.rows = {e \in Exec : row[e] # "none"}]]

ReadReset(r) ==
    /\ dbStatus = "executing"
    /\ LET running == {e \in Exec : row[e] = "executing"} IN
       call' = [call EXCEPT ![r] =
           [Idle EXCEPT !.op = "reset", !.rows = running,
                        !.bare = {e \in running : stored[e] = {}}]]

ReadExecute(r) ==
    /\ LoopFree
    /\ Executable(dbStatus)
    /\ call' = [call EXCEPT ![r] = [Idle EXCEPT !.op = "execute"]]

Read(r) ==
    /\ call[r].op = "none"
    /\ ReadUpdate(r) \/ ReadDelete(r) \/ ReadReset(r) \/ ReadExecute(r)
    /\ UNCHANGED <<planColumns, rows, task, history, faults>>

(* update_plan commits. *)
CommitUpdate(r) ==
    /\ call[r].op = "update"
    /\ Exists
    /\ IF call[r].status \in {Keep, call[r].seen} THEN UNCHANGED <<dbStatus, setter>>
       ELSE WritePlan(call[r].status, Nobody)
    /\ graph' = IF call[r].graph = Keep THEN graph ELSE call[r].graph
    /\ Ends(r)
    /\ UNCHANGED <<rows, task, history, faults>>

(* delete_plan commits: the plan goes with the rows that were read.  A row *)
(* that came since keeps it, by its foreign key.                           *)
CommitDelete(r) ==
    /\ call[r].op = "delete"
    /\ Exists
    /\ {e \in Exec : row[e] # "none"} \subseteq call[r].rows
    /\ WritePlan("deleted", Nobody)
    /\ row' = [e \in Exec |-> "none"]
    /\ stored' = [e \in Exec |-> {}]
    /\ Ends(r)
    /\ UNCHANGED <<graph, task, history, faults>>

(* reset_stuck_plan commits: the plan and the rows that were executing     *)
(* have failed, and what had no results has an entry for the reset.        *)
CommitReset(r) ==
    /\ call[r].op = "reset"
    /\ Exists
    /\ WritePlan("failed", Nobody)
    /\ row' = [e \in Exec |-> IF e \in call[r].rows THEN "failed" ELSE row[e]]
    /\ stored' = [e \in Exec |-> IF e \in call[r].bare THEN {System} ELSE stored[e]]
    /\ overtaken' = overtaken \cup {e \in call[r].bare : stage[e] = "row"}
    /\ Ends(r)
    /\ UNCHANGED <<graph, task, forgotten, faults>>

(* execute_plan commits, *)
CommitExecute(r) ==
    /\ call[r].op = "execute"
    /\ Exists
    /\ \E e \in Exec :
          /\ stage[e] = "unused"
          /\ WritePlan("executing", e)
          /\ row' = [row EXCEPT ![e] = "executing"]
          /\ Goes(e, "answer")
    /\ Ends(r)
    /\ UNCHANGED <<graph, stored, loaded, at, results, writes, history, faults>>

(* and reads the plan once more for its answer, with which the execution   *)
(* is handed to a background task; an error there answers 500 instead.     *)
HandOver(e) ==
    /\ stage[e] = "answer"
    /\ \/ Goes(e, "queued") /\ UNCHANGED <<forgotten, faults>>
       \/ Fault /\ Goes(e, "done") /\ forgotten' = forgotten \cup {e}
    /\ UNCHANGED <<planColumns, rows, call, loaded, at, results, writes, overtaken>>

(* A commit that cannot be: the plan is gone, a row has come, the database *)
(* fails, or (for the model) every execution is used up.                   *)
CommitFails(r) ==
    /\ call[r].op # "none"
    /\ Ends(r)
    /\ UNCHANGED <<planColumns, rows, task, history, faults>>

(* generate_plan refines the plan, whatever its status. *)
Refine ==
    /\ LoopFree
    /\ Exists
    /\ graph' \in Graph
    /\ UNCHANGED <<dbStatus, setter, rows, call, task, history, faults>>

-----------------------------------------------------------------------------
(* The task loads the plan; the nodes of cycles are recorded as skipped.   *)
Load(e) ==
    /\ stage[e] = "queued"
    /\ \/ /\ Exists
          /\ loaded' = [loaded EXCEPT ![e] = graph]
          /\ results' = [results EXCEPT ![e] =
                 [n \in Entry |-> IF n \in Dropped(graph) THEN "skipped" ELSE "none"]]
          /\ stored' = [stored EXCEPT ![e] = IF row[e] = "none" THEN @
                                              ELSE @ \cup Dropped(graph)]
          /\ Goes(e, "next")
          /\ UNCHANGED faults
       \/ /\ ~Exists
          /\ Goes(e, "mark")
          /\ UNCHANGED <<loaded, results, stored, faults>>
       \/ /\ Fault
          /\ results' = [results EXCEPT ![e][System] = "failed"]
          /\ Goes(e, "result")
          /\ UNCHANGED <<loaded, stored>>
    /\ UNCHANGED <<planColumns, row, call, at, writes, history>>

(* A node has its result, and the row is read to add the entry to it, if   *)
(* it is there; an error of the database is only logged.                   *)
Report(e, n, how) ==
    /\ results' = [results EXCEPT ![e][n] = how]
    /\ \/ /\ row[e] # "none"
          /\ Goes(e, "entry")
          /\ Plans(e, [status |-> Keep, entries |-> stored[e] \cup {n}])
          /\ UNCHANGED faults
       \/ row[e] = "none" /\ Goes(e, "next") /\ UNCHANGED <<writes, faults>>
       \/ Fault /\ Goes(e, "next") /\ UNCHANGED writes

(* The loop comes to a node: it is skipped, or its agent is called. *)
ComeTo(e, n) ==
    /\ stage[e] = "next"
    /\ n \in Available(e)
    /\ IF Blocked(e, n)
       THEN Report(e, n, "skipped") /\ UNCHANGED at
       ELSE /\ Goes(e, "agent")
            /\ at' = [at EXCEPT ![e] = n]
            /\ UNCHANGED <<results, writes, faults>>
    /\ UNCHANGED <<planColumns, rows, call, loaded, history>>

(* The agent answers, answers with a refusal, fails, or does not exist.    *)
AgentEnds(e, how) ==
    /\ stage[e] = "agent"
    /\ Report(e, at[e], how)
    /\ at' = [at EXCEPT ![e] = System]
    /\ UNCHANGED <<planColumns, rows, call, loaded, history>>

(* The loop ends after the last node, or with an exception before or after *)
(* an agent's own try: a node without a task, an answer without metadata.  *)
Conclude(e) ==
    /\ Goes(e, "result")
    /\ \/ stage[e] = "next" /\ Available(e) = {} /\ UNCHANGED <<at, results>>
       \/ /\ stage[e] = "agent" \/ (stage[e] = "next" /\ Available(e) # {})
          /\ at' = [at EXCEPT ![e] = System]
          /\ results' = [results EXCEPT ![e][System] = "failed"]
    /\ UNCHANGED <<planColumns, rows, call, loaded, writes, history, faults>>

(* The end: the row is read, if it is there.  A status or a list of entries *)
(* that is what was read will not be written.                              *)
ReadRow(e) ==
    /\ stage[e] = "result"
    /\ \/ /\ row[e] # "none"
          /\ Goes(e, "row")
          /\ Plans(e, [status |-> IF row[e] = Judged(e) THEN Keep ELSE Judged(e),
                       entries |-> IF stored[e] = Entries(e) THEN Keep ELSE Entries(e)])
          /\ UNCHANGED faults
       \/ row[e] = "none" /\ Goes(e, "plan") /\ UNCHANGED <<writes, faults>>
       \/ Fault /\ Goes(e, "mark") /\ UNCHANGED writes
    /\ UNCHANGED <<planColumns, rows, call, loaded, at, results, history>>

(* A transaction on the row commits, or fails; the row may have gone. *)
StoreRow(e) ==
    /\ stage[e] \in {"entry", "row"}
    /\ \/ /\ row[e] # "none"
          /\ row' = [row EXCEPT ![e] = IF writes[e].status = Keep THEN @
                                        ELSE writes[e].status]
          /\ stored' = [stored EXCEPT ![e] = IF writes[e].entries = Keep THEN @
                                              ELSE writes[e].entries]
          /\ Goes(e, IF stage[e] = "entry" THEN "next" ELSE "plan")
          /\ UNCHANGED faults
       \/ /\ (row[e] = "none" /\ UNCHANGED faults) \/ Fault
          /\ Goes(e, IF stage[e] = "entry" THEN "next" ELSE "mark")
          /\ UNCHANGED rows
    /\ Plans(e, Nothing)
    /\ UNCHANGED <<planColumns, call, loaded, at, results, history>>

(* The second: the plan, whatever its status is by now. *)
StorePlan(e) ==
    /\ stage[e] = "plan"
    /\ \/ /\ IF Exists THEN WritePlan(Judged(e), Nobody) ELSE UNCHANGED <<dbStatus, setter>>
          /\ Goes(e, "done")
          /\ UNCHANGED faults
       \/ Fault /\ Goes(e, "mark") /\ UNCHANGED <<dbStatus, setter>>
    /\ UNCHANGED <<graph, rows, call, loaded, at, results, writes, history>>

(* _mark_execution_failed: the row, *)
Mark(e) ==
    /\ stage[e] = "mark"
    /\ \/ /\ row[e] # "none"
          /\ row' = [row EXCEPT ![e] = "failed"]
          /\ stored' = [stored EXCEPT ![e] = {System}]
          /\ Goes(e, "markPlan")
          /\ UNCHANGED <<forgotten, faults>>
       \/ row[e] = "none" /\ Goes(e, "done") /\ UNCHANGED <<rows, forgotten, faults>>
       \/ /\ Fault
          /\ Goes(e, "done")
          /\ forgotten' = forgotten \cup {e}
          /\ UNCHANGED rows
    /\ UNCHANGED <<planColumns, call, loaded, at, results, writes, overtaken>>

(* and then the plan, if it is executing. *)
MarkPlan(e) ==
    /\ stage[e] = "markPlan"
    /\ Goes(e, "done")
    /\ \/ PlanFailed /\ UNCHANGED <<forgotten, faults>>
       \/ Fault /\ forgotten' = forgotten \cup {e} /\ UNCHANGED <<dbStatus, setter>>
    /\ UNCHANGED <<graph, rows, call, loaded, at, results, writes, overtaken>>

(* The server restarts: handlers and tasks are gone, nobody looks for them. *)
Restart ==
    /\ Fault
    /\ forgotten' = forgotten \cup {e \in Exec : Active(e)}
    /\ stage' = [e \in Exec |-> IF Active(e) THEN "done" ELSE stage[e]]
    /\ call' = [r \in Request |-> Idle]
    /\ UNCHANGED <<planColumns, rows, loaded, at, results, writes, overtaken>>

Handler(r) ==
    \/ Read(r)
    \/ CommitUpdate(r) \/ CommitDelete(r) \/ CommitReset(r) \/ CommitExecute(r)
    \/ CommitFails(r)

Task(e) ==
    \/ HandOver(e)
    \/ Load(e)
    \/ \E n \in Node : ComeTo(e, n)
    \/ \E how \in Outcome : AgentEnds(e, how)
    \/ Conclude(e)
    \/ ReadRow(e) \/ StoreRow(e) \/ StorePlan(e) \/ Mark(e) \/ MarkPlan(e)

SavedNext ==
    \/ \E r \in Request : Handler(r)
    \/ Refine
    \/ \E e \in Exec : Task(e)
    \/ Restart

SavedSpec == SavedInit /\ [][SavedNext]_savedVars

-----------------------------------------------------------------------------
\* A node is given to its agent only when all it depends on was completed in
\* the same execution, however the failures before it came about and whatever
\* was done to the plan meanwhile: a node behind a failed, refused or skipped
\* one, at any distance, does not run (_execute_plan_background, GAP-P11).
RunsOnCompletedInputs ==
    \A e \in Exec : \A n \in loaded[e].nodes :
        (at[e] = n \/ results[e][n] \in Outcome) =>
            \A m \in loaded[e].nodes :
                <<m, n>> \in loaded[e].edges => results[e][m] = "completed"

\* An execution that is recorded as completed has completed every node that no
\* cycle kept out, and its record speaks of every node and of nothing else,
\* through resets, failing transactions, errors in the loop and recoveries.
\* There is one exception: a reset that read the row before its first entry and
\* commits amid the last transaction, which does not write a list of entries
\* that is what it read (_execute_plan_background, reset_stuck_plan).
CompletedIsComplete ==
    \A e \in Exec : row[e] = "completed" =>
        /\ stored[e] = loaded[e].nodes \/ e \in overtaken
        /\ \A n \in loaded[e].nodes \ Dropped(loaded[e]) : results[e][n] = "completed"

\* What execute_plan set to executing, the row and the plan, is executing only
\* while its handler or the task of that very execution lives.  Three things
\* leave it so: a restart, a database that fails in the recovery too, and an
\* error between execute_plan's commit and its answer, after which there is no
\* task.  Cancelling, resetting, editing and other executions do not
\* (execute_plan, _mark_execution_failed).
ExecutingIsRunning ==
    \A e \in Exec :
        row[e] = "executing" \/ (dbStatus = "executing" /\ setter = e) =>
            Active(e) \/ e \in forgotten

\* What the comment "Per-node execution results" on node_results says of an
\* execution that was completed, without the exception (PlanExecutionResult).  It
\* is false: see the README.
CompletedHasItsRecord ==
    \A e \in Exec : row[e] = "completed" => stored[e] = loaded[e].nodes

\* What the comment "Completed plans cannot have their status changed (terminal
\* state)" of update_plan says.  It is false: see the README.
CompletedIsTerminal ==
    [][dbStatus = "completed" => dbStatus' \in {"completed", "deleted"}]_savedVars
==================================================================================
