------------------------------- MODULE Approval -------------------------------
(***************************************************************************)
(* Workflow executions that stop for a human decision:                     *)
(*   execute_workflow, take_approval_action   core/api/routes/workflows.py *)
(*   ApprovalService                          core/workflows/approval.py   *)
(*   the flow generated from the graph        core/workflows/executor.py   *)
(*   the scan at start-up                     core/api/main.py             *)
(*                                                                         *)
(* The execution row, the request row and the audit log are in the         *)
(* database; everything else is in the one server process and is lost when *)
(* it restarts.  Coroutines of the process share its event loop: a step    *)
(* ends at an await, and turn names the request whose handler is between   *)
(* two commits, where only a failure or a restart can intervene.  Flows    *)
(* run in worker threads, beside everything.                               *)
(*                                                                         *)
(* A task stands for a tool node as well.  Every node that follows another *)
(* listens to it, so branches may run side by side, in the flow engine's   *)
(* order.  Where the generated flow drops a trigger (a router listens to   *)
(* its first predecessor only, a node behind two routers to the label of   *)
(* one) the model may follow it; the labels of a flow's edges are taken to *)
(* be distinct.  The state the nodes write and its snapshot are left out,  *)
(* and so is enforce_timeout, which nothing schedules.                     *)
(***************************************************************************)
EXTENDS Integers, Sequences

CONSTANTS
    Execution,      \* executions of one published workflow
    Node, Edge,     \* its graph, acyclic
    Start,          \* its start node
    Task,           \* the nodes whose method has an effect outside
    Router,         \* the nodes that choose one of their successors
    Yes, No,        \* of an approval node: the targets of its two edges
    NoNode,         \* not a node
    NoOne,          \* not an execution
    MaxRestarts     \* bound: restarts of the server in a behaviour

ASSUME WorkflowAssumption ==
    /\ NoOne \notin Execution
    /\ NoNode \notin Node
    /\ Start \in Node
    /\ Task \subseteq Node /\ Router \subseteq Node \ (Task \cup {Start})
    /\ Edge \subseteq Node \X Node
    /\ DOMAIN Yes = DOMAIN No
    /\ DOMAIN Yes \subseteq Node \ (Task \cup Router \cup {Start})
    /\ \A a \in DOMAIN Yes :
          Yes[a] # No[a] /\ {<<a, Yes[a]>>, <<a, No[a]>>} = {d \in Edge : d[1] = a}
    /\ MaxRestarts \in Nat

\* A set of nodes that each have a successor in it would hold a cycle.
ASSUME AcyclicAssumption ==
    \A S \in (SUBSET Node) \ {{}} : \E n \in S : \A m \in S : <<n, m>> \notin Edge

ApprovalNode == DOMAIN Yes
Out(n) == {m \in Node : <<n, m>> \in Edge}

\* Per node, the nodes that the edges in E lead to from it: the least set with
\* this node that none of them leaves (_get_reachable_nodes).
Closed(S, E) == \A d \in E : d[1] \in S => d[2] \in S
Reachable(E) ==
    [n \in Node |->
        {m \in Node : \A S \in SUBSET Node : n \in S /\ Closed(S, E) => m \in S}]
Reach == Reachable(Edge)

\* Of two branches side by side one at most asks for approval: the code asks for
\* one of those that its state says are waiting.
ASSUME PauseAssumption ==
    \A n \in Node \ (Router \cup ApprovalNode) : \A m, k \in Out(n) :
        m # k => \E b \in {m, k} : Reach[b] \cap ApprovalNode = {}

VARIABLES
    status,     \* database: WorkflowExecutionResult.status
    request,    \* database: WorkflowApprovalRequest.status
    askedAt,    \* database: node_id of the request
    overdue,    \* database: timeout_at has passed
    audit,      \* database: the audit log entries of the request
    turn,       \* the execution whose approval handler holds the loop
    action,     \* what that handler, and the resumption, was asked to do
    waiter,     \* the coroutine that is concerned with the execution
    entry,      \* the node the running flow starts at
    front,      \* the nodes its thread has still to run, or stopped at
    result,     \* how kickoff ended
    scanning,   \* the start-up scan is still to run
    runs,       \* history: how often each task ran
    restarts    \* history: restarts so far

row == <<status, request, askedAt, overdue, audit>>
flow == <<entry, front, result>>
vars == <<row, turn, action, waiter, flow, scanning, runs, restarts>>

ActionType == {"approve", "reject", "modify"}
Decided == {"approve", "approved", "reject", "timed_out"}

\* WorkflowPausedForApproval comes out of kickoff as itself (paused) or as the
\* cause of the engine's own exception (wrapped).
Paused == {"paused", "wrapped"}
KickoffResult == Paused \cup {"none", "returned", "raised"}

TypeOK ==
    /\ status \in [Execution -> {"none", "running", "paused", "success", "failed"}]
    /\ request \in [Execution -> Decided \cup {"none", "pending"}]
    /\ askedAt \in [Execution -> ApprovalNode \cup {NoNode}]
    /\ overdue \in [Execution -> BOOLEAN]
    /\ audit \in [Execution -> Seq(ActionType \cup {"timed_out"})]
    /\ turn \in Execution \cup {NoOne}
    /\ action \in [Execution -> ActionType \cup {"none"}]
    /\ waiter \in [Execution -> {"nobody", "launch", "execute", "scheduled", "resume"}]
    /\ entry \in [Execution -> Node \cup {NoNode}]
    /\ front \in [Execution -> SUBSET Node]
    /\ result \in [Execution -> KickoffResult]
    /\ scanning \in BOOLEAN
    /\ runs \in [Execution -> [Task -> Nat]]
    /\ restarts \in 0..MaxRestarts

Init ==
    /\ status = [e \in Execution |-> "none"]
    /\ request = [e \in Execution |-> "none"]
    /\ askedAt = [e \in Execution |-> NoNode]
    /\ overdue = [e \in Execution |-> FALSE]
    /\ audit = [e \in Execution |-> <<>>]
    /\ turn = NoOne
    /\ action = [e \in Execution |-> "none"]
    /\ waiter = [e \in Execution |-> "nobody"]
    /\ entry = [e \in Execution |-> NoNode]
    /\ front = [e \in Execution |-> {}]
    /\ result = [e \in Execution |-> "none"]
    /\ scanning = TRUE
    /\ runs = [e \in Execution |-> [t \in Task |-> 0]]
    /\ restarts = 0

-----------------------------------------------------------------------------
LoopFree == turn = NoOne

SetStatus(e, s) == status' = [status EXCEPT ![e] = s]
Await(e, w) == waiter' = [waiter EXCEPT ![e] = w]

\* The flow that starts at n: n is given the type "start", whatever it is.
Kickoff(e, n) ==
    /\ entry' = [entry EXCEPT ![e] = n]
    /\ front' = [front EXCEPT ![e] = {n}]
    /\ result' = [result EXCEPT ![e] = "none"]

\* how: "none" while kickoff goes on, with the nodes it is at or stopped at.
Kicked(e, how, at) ==
    /\ result' = [result EXCEPT ![e] = how]
    /\ front' = [front EXCEPT ![e] = at]

\* The routers of the flow that runs: the entry is not one, whatever its type.
Routers(e) == (Router \cap Reach[entry[e]]) \ {entry[e]}

\* What node n triggers: a router one of its successors, any other node those
\* that no router of the flow leads to, because these listen to its label only.
Triggers(e, n) ==
    IF n \in Routers(e) THEN {{m} : m \in Out(n)}
    ELSE {Out(n) \ UNION {Out(r) : r \in Routers(e)}}

\* create_approval_request: the request and the pause, in one commit.  The new
\* row is read back after it; when that fails, so does the execution.
CreateRequest(e, n) ==
    /\ SetStatus(e, "paused") \/ SetStatus(e, "failed")
    /\ request' = [request EXCEPT ![e] = "pending"]
    /\ askedAt' = [askedAt EXCEPT ![e] = n]

\* What is left to run after node n.
After(e, n, next) == (front[e] \ {n}) \cup next

\* The WHERE clause of the update.
StillPending(e) == request[e] = "pending"

\* The status an action gives the request.
StatusFor(a) == IF a = "modify" THEN "approved" ELSE a

\* The edge a resumption follows; modify counts as approve.  (Fault: only the
\* literal approve does.)
LiteralEdge(a, n) == IF a = "approve" THEN Yes[n] ELSE No[n]
Downstream(a, n) == IF a \in {"approve", "modify"} THEN Yes[n] ELSE No[n]

\* The audit entry could not be written: the handler raises, nothing resumes.
\* (Fault: the error is swallowed.)
ResumeUnaudited(e) == Await(e, "scheduled")
OnAuditError(e) == UNCHANGED waiter

\* A resumed flow stopped at another approval node: logged, and nothing more.
\* (Faults: the resumption is tried again, or waits for that decision.)
ResumeAgain(e) == Await(e, "scheduled")
ResumeWaits(e) == UNCHANGED waiter
OnNestedPause(e) == Await(e, "nobody")

-----------------------------------------------------------------------------
(* execute_workflow: the row of a new execution.                           *)
Execute(e) ==
    /\ LoopFree
    /\ status[e] = "none"
    /\ SetStatus(e, "running")
    /\ Await(e, "launch")
    /\ UNCHANGED <<request, askedAt, overdue, audit, turn, action, flow, scanning,
                   runs, restarts>>

(* Its flow is generated and handed to a thread, or cannot be generated.    *)
Launch(e) ==
    /\ LoopFree
    /\ waiter[e] = "launch"
    /\ \/ /\ Kickoff(e, Start)
          /\ Await(e, "execute")
          /\ UNCHANGED status
       \/ /\ SetStatus(e, "failed")
          /\ Await(e, "nobody")
          /\ UNCHANGED flow
    /\ UNCHANGED <<request, askedAt, overdue, audit, turn, action, scanning, runs,
                   restarts>>

(* The client of the event stream goes away: the generator is cancelled    *)
(* where it waits, its thread is not.                                      *)
Disconnect(e) ==
    /\ LoopFree
    /\ waiter[e] \in {"launch", "execute"}
    /\ Await(e, "nobody")
    /\ UNCHANGED <<row, turn, action, flow, scanning, runs, restarts>>

(* The thread runs a node: one given the type "start" only starts its       *)
(* successors, an approval node raises, any other does its work.  (What a  *)
(* node writes for the next ones is not modelled.)                         *)
RunNode(e, n) ==
    /\ result[e] = "none"
    /\ n \in front[e]
    /\ IF n # entry[e] /\ n \in ApprovalNode
          THEN /\ \E how \in Paused : Kicked(e, how, {n})
               /\ UNCHANGED runs
          ELSE \E next \in Triggers(e, n) :
               LET left == After(e, n, next) IN
               /\ Kicked(e, IF left = {} THEN "returned" ELSE "none", left)
               /\ runs' = IF n # entry[e] /\ n \in Task
                             THEN [runs EXCEPT ![e][n] = @ + 1]
                             ELSE runs
    /\ UNCHANGED <<row, turn, action, waiter, entry, scanning, restarts>>

(* kickoff fails: an exception of the flow engine.                         *)
Break(e) ==
    /\ result[e] = "none"
    /\ front[e] # {}
    /\ Kicked(e, "raised", {})
    /\ UNCHANGED <<row, turn, action, waiter, entry, scanning, runs, restarts>>

(* execute_workflow after kickoff.  The execution fails when kickoff did,   *)
(* when it paused and nothing in the state says for what, and when a commit *)
(* fails; the commit of the failure may fail too, which is suppressed.      *)
ExecuteReturns(e) ==
    /\ LoopFree
    /\ waiter[e] = "execute"
    /\ result[e] # "none"
    /\ \/ /\ result[e] = "returned"
          /\ SetStatus(e, "success")
          /\ UNCHANGED <<request, askedAt>>
       \/ /\ result[e] \in Paused
          /\ \E n \in front[e] : CreateRequest(e, n)
       \/ /\ SetStatus(e, "failed")
          /\ UNCHANGED <<request, askedAt>>
       \/ UNCHANGED <<status, request, askedAt>>
    /\ Await(e, "nobody")
    /\ UNCHANGED <<overdue, audit, turn, action, flow, scanning, runs, restarts>>

-----------------------------------------------------------------------------
(* take_approval_action up to the commit of the update; a request that is   *)
(* not pending is answered 409 and nothing changes.                        *)
Resolve(e, a) ==
    /\ LoopFree
    /\ StillPending(e)
    /\ request' = [request EXCEPT ![e] = StatusFor(a)]
    /\ action' = [action EXCEPT ![e] = a]
    /\ turn' = e
    /\ UNCHANGED <<status, askedAt, overdue, audit, waiter, flow, scanning, runs,
                   restarts>>

(* The same handler: record_audit commits and the resumption is added to    *)
(* the background tasks; the request may fail to be read back in between,  *)
(* or the audit entry cannot be written.                                   *)
Record(e) ==
    /\ turn = e
    /\ turn' = NoOne
    /\ \/ /\ audit' = [audit EXCEPT ![e] = Append(@, action[e])]
          /\ Await(e, "scheduled") \/ UNCHANGED waiter
       \/ /\ OnAuditError(e)
          /\ UNCHANGED audit
    /\ UNCHANGED <<status, request, askedAt, overdue, action, flow, scanning, runs,
                   restarts>>

(* resume_from_approval up to the await: the flow starts downstream of the  *)
(* request's node.  The workflow may be gone: logged, and nothing more; its *)
(* flow may not generate: the execution fails.                             *)
Resume(e) ==
    /\ LoopFree
    /\ waiter[e] = "scheduled"
    /\ \/ /\ Kickoff(e, Downstream(action[e], askedAt[e]))
          /\ Await(e, "resume")
          /\ UNCHANGED status
       \/ /\ Await(e, "nobody")
          /\ UNCHANGED <<status, flow>>
       \/ /\ SetStatus(e, "failed")
          /\ Await(e, "nobody")
          /\ UNCHANGED flow
    /\ UNCHANGED <<request, askedAt, overdue, audit, turn, action, scanning, runs,
                   restarts>>

(* resume_from_approval after kickoff.  WorkflowPausedForApproval is left   *)
(* to a handler when it arrives as itself, and a failure when it arrives as *)
(* the cause of the engine's exception.  A failing commit makes a failure   *)
(* of a success, and leaves the row as it is when it is the failure's own. *)
ResumeReturns(e) ==
    /\ LoopFree
    /\ waiter[e] = "resume"
    /\ result[e] # "none"
    /\ \/ /\ result[e] = "returned"
          /\ SetStatus(e, "success")
          /\ Await(e, "nobody")
       \/ /\ result[e] # "paused"
          /\ SetStatus(e, "failed") \/ UNCHANGED status
          /\ Await(e, "nobody")
       \/ /\ result[e] = "paused"
          /\ OnNestedPause(e)
          /\ UNCHANGED status
    /\ UNCHANGED <<request, askedAt, overdue, audit, turn, action, flow, scanning, runs,
                   restarts>>

-----------------------------------------------------------------------------
(* timeout_at passes. *)
Expire(e) ==
    /\ request[e] = "pending"
    /\ ~overdue[e]
    /\ overdue' = [overdue EXCEPT ![e] = TRUE]
    /\ UNCHANGED <<status, request, askedAt, audit, turn, action, waiter, flow, scanning,
                   runs, restarts>>

(* scan_pending_on_startup: what is pending and overdue becomes timed_out,  *)
(* in one commit with its audit entry.  It schedules nothing and leaves the *)
(* executions as they are.                                                 *)
Scan ==
    /\ LoopFree
    /\ scanning
    /\ scanning' = FALSE
    /\ LET late == {e \in Execution : request[e] = "pending" /\ overdue[e]} IN
       /\ request' = [e \in Execution |-> IF e \in late THEN "timed_out" ELSE request[e]]
       /\ audit' = [e \in Execution |->
                       IF e \in late THEN Append(audit[e], "timed_out") ELSE audit[e]]
    /\ UNCHANGED <<status, askedAt, overdue, turn, action, waiter, flow, runs, restarts>>

(* The server stops, wherever it is, and starts again. *)
Restart ==
    /\ restarts < MaxRestarts
    /\ restarts' = restarts + 1
    /\ turn' = NoOne
    /\ action' = [e \in Execution |-> "none"]
    /\ waiter' = [e \in Execution |-> "nobody"]
    /\ entry' = [e \in Execution |-> NoNode]
    /\ front' = [e \in Execution |-> {}]
    /\ result' = [e \in Execution |-> "none"]
    /\ scanning' = TRUE
    /\ UNCHANGED <<row, runs>>

Next ==
    \/ \E e \in Execution :
          \/ Execute(e) \/ Launch(e) \/ Disconnect(e) \/ ExecuteReturns(e)
          \/ Break(e) \/ Record(e) \/ Resume(e) \/ ResumeReturns(e) \/ Expire(e)
          \/ \E n \in Node : RunNode(e, n)
          \/ \E a \in ActionType : Resolve(e, a)
    \/ Scan
    \/ Restart

Spec == Init /\ [][Next]_vars

(* The event loop goes on with what is ready.  Nobody has to act on a       *)
(* request, nothing has to fail, and nothing bounds what a node does in its *)
(* thread (an agent, an LLM call): a flow may run for ever.                 *)
Fairness ==
    \A e \in Execution :
        /\ WF_vars(Record(e))
        /\ WF_vars(Resume(e))
        /\ WF_vars(ResumeReturns(e))

FairSpec == Spec /\ Fairness
-----------------------------------------------------------------------------
\* Per edge, the nodes that can be reached from the start without it.
ReachableWithout == [d \in Edge |-> Reachable(Edge \ {d})[Start]]

\* What a graph may or may not have.  An approval directly behind another is
\* never asked.
ReviewsApart == \A a \in ApprovalNode : {Yes[a], No[a]} \cap ApprovalNode = {}

\* Branches that run side by side have no task in common.  They start behind a
\* node that is neither a router nor an approval, and also behind one that is,
\* where a resumption starts: as a start node it neither chooses nor asks.
ResumePoint == {Yes[a] : a \in ApprovalNode} \cup {No[a] : a \in ApprovalNode}
BranchesApart ==
    \A n \in (Node \ (Router \cup ApprovalNode)) \cup ResumePoint :
        \A m, k \in Out(n) : m # k => Reach[m] \cap Reach[k] \cap Task = {}

\* The status of the request that was made at node n.
VerdictAt(e, n) == IF askedAt[e] = n THEN request[e] ELSE "none"

\* A request is decided once: by the first action that finds it pending or by
\* the scan, whatever arrives, fails or restarts afterwards.
DecidedOnce ==
    [][\A e \in Execution : request[e] \in Decided => request'[e] = request[e]]_vars

\* The audit log and the request tell one story: at most one entry, for the
\* decision the request carries, and a flow that is resumed has its entry.
AuditTrail ==
    \A e \in Execution :
        /\ Len(audit[e]) <= 1
        /\ audit[e] # <<>> => request[e] = StatusFor(audit[e][1])
        /\ waiter[e] \in {"scheduled", "resume"} => audit[e] # <<>>

\* Human review is binding: a task that can only be reached through one edge of
\* an approval node runs only after that node asked and was answered that way
\* (docs-site/docs/using-dryade/workflows.md:108-111).
ApprovalHonoured ==
    \A e \in Execution, n \in ApprovalNode, t \in Task :
        runs[e][t] > 0 =>
            /\ t \notin ReachableWithout[<<n, Yes[n]>>] =>
                  VerdictAt(e, n) \in {"approve", "approved"}
            /\ t \notin ReachableWithout[<<n, No[n]>>] => VerdictAt(e, n) = "reject"

\* After the decision the workflow goes on (workflows.md:111 "On approval, the
\* workflow continues; on rejection, it stops or takes an alternative path"): an
\* execution that succeeded has done the task its decision leads to.
ApprovedWorkIsDone ==
    \A e \in Execution, n \in ApprovalNode :
        status[e] = "success" /\ askedAt[e] = n =>
            LET next == IF request[e] = "reject" THEN No[n] ELSE Yes[n] IN
            next \in Task => runs[e][next] > 0

\* No task of an execution runs twice, however often the flow is cut into
\* pieces, resumed or lost to a restart.
RunsOnce == \A e \in Execution, t \in Task : runs[e][t] <= 1

\* What has been decided is carried out, or fails: every resumption ends, unless
\* the resumed flow itself never does.  What the flow comes to, a second approval
\* included, starts nothing over.
ResumptionEnds ==
    \A e \in Execution :
        \/ <>[](waiter[e] = "resume" /\ result[e] = "none")
        \/ (waiter[e] \in {"scheduled", "resume"}) ~> (waiter[e] = "nobody")
=============================================================================
