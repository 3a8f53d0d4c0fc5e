---------------------------- MODULE ApprovalProofs -----------------------------
(***************************************************************************)
(* Proofs about the approvals, for every workflow graph, every set of      *)
(* executions and any number of restarts: a request is decided once, its   *)
(* audit entry is there before anything is resumed, the decision is obeyed *)
(* and no task runs twice.  Then those about a conversation with its       *)
(* escalations, for any number of messages.                                *)
(***************************************************************************)
EXTENDS Approval, Conversation, TLAPS

\* What is known of the audit log of a request.
Audited(x) ==
    /\ audit[x] = <<>> \/ \E a \in ActionType \cup {"timed_out"} : audit[x] = <<a>>
    /\ audit[x] # <<>> => request[x] = StatusFor(audit[x][1])
    /\ waiter[x] \in {"scheduled", "resume"} => audit[x] # <<>>

\* How the rows, the handler and the coroutine of one execution fit together.
\* A request is made once, by the coroutine that executes; from then on
\* only its decision moves it, and the handler that holds the loop owns it.
Consistent(x) ==
    /\ Audited(x)
    /\ status[x] = "none" => request[x] = "none" /\ waiter[x] = "nobody"
    /\ waiter[x] \in {"launch", "execute"} => status[x] # "none" /\ request[x] = "none"
    /\ request[x] \in {"none", "pending"} =>
          audit[x] = <<>> /\ turn # x /\ waiter[x] \notin {"scheduled", "resume"}
    /\ turn = x =>
          audit[x] = <<>> /\ action[x] \in ActionType /\ request[x] = StatusFor(action[x])
    /\ waiter[x] \in {"scheduled", "resume"} => action[x] \in ActionType
    /\ request[x] # "none" => askedAt[x] \in ApprovalNode
    /\ result[x] \in Paused => front[x] \subseteq ApprovalNode

IInv == TypeOK /\ \A x \in Execution : Consistent(x)

USE DEF Paused, KickoffResult

-----------------------------------------------------------------------------
\* A function that is changed at one place keeps its type.
LEMMA Changed ==
    ASSUME NEW S, NEW T, NEW f \in [S -> T], NEW x \in S, NEW v \in T
    PROVE  [f EXCEPT ![x] = v] \in [S -> T]
  OBVIOUS

\* The graph.

LEMMA OutNode == ASSUME NEW n PROVE Out(n) \subseteq Node
  BY DEF Out

LEMMA DownstreamNode ==
    ASSUME NEW a, NEW n \in ApprovalNode
    PROVE  Downstream(a, n) \in Node
<1>1. {<<n, Yes[n]>>, <<n, No[n]>>} \subseteq Node \X Node
  BY WorkflowAssumption DEF ApprovalNode
<1> QED
  BY <1>1 DEF Downstream

LEMMA TriggeredNodes ==
    ASSUME NEW e, NEW n \in Node, NEW next \in Triggers(e, n)
    PROVE  next \subseteq Node
  BY OutNode DEF Triggers

LEMMA ApprovalNodes == ApprovalNode \subseteq Node
  BY WorkflowAssumption DEF ApprovalNode

\* The statuses of the requests that were acted upon.
LEMMA StatusDecided ==
    ASSUME NEW a \in ActionType \cup {"timed_out"}
    PROVE  StatusFor(a) \in Decided \ {"none", "pending"}
  BY DEF StatusFor, ActionType, Decided

\* An execution that a step leaves alone stays consistent.
LEMMA Elsewhere ==
    ASSUME NEW x \in Execution, Consistent(x),
           status'[x] = status[x], request'[x] = request[x], askedAt'[x] = askedAt[x],
           audit'[x] = audit[x], action'[x] = action[x], waiter'[x] = waiter[x],
           front'[x] = front[x], result'[x] = result[x],
           turn' = x => turn = x
    PROVE  Consistent(x)'
<1>1. Audited(x)'
  BY DEF Consistent, Audited
<1> QED
  BY <1>1 DEF Consistent

\* So does one whose rows and handler a step leaves alone while its coroutine
\* or its flow moves on, as long as it waits for nothing new.
LEMMA RowsKept ==
    ASSUME NEW x \in Execution, Consistent(x),
           request'[x] = request[x], askedAt'[x] = askedAt[x], audit'[x] = audit[x],
           action'[x] = action[x], turn' = turn,
           status[x] # "none", status'[x] # "none",
           \/ waiter'[x] \in {"nobody", waiter[x]}
           \/ waiter[x] = "launch" /\ waiter'[x] = "execute"
           \/ waiter[x] = "scheduled" /\ waiter'[x] = "resume",
           result'[x] \in Paused => front'[x] \subseteq ApprovalNode
    PROVE  Consistent(x)'
<1>1. Audited(x)'
  BY DEF Consistent, Audited
<1> QED
  BY <1>1 DEF Consistent

LEMMA Initially == Init => IInv
<1> SUFFICES ASSUME Init PROVE IInv
  OBVIOUS
<1> USE DEF Init
<1>1. TypeOK
  <2>1. /\ audit \in [Execution -> Seq(ActionType \cup {"timed_out"})]
        /\ runs \in [Execution -> [Task -> Nat]]
    OBVIOUS
  <2>2. restarts \in 0..MaxRestarts
    BY WorkflowAssumption
  <2> QED
    BY <2>1, <2>2 DEF TypeOK
<1>2. ASSUME NEW x \in Execution PROVE Consistent(x)
  BY WorkflowAssumption DEF Consistent, Audited
<1> QED
  BY <1>1, <1>2 DEF IInv

-----------------------------------------------------------------------------
LEMMA ExecuteSafe ==
    ASSUME IInv, NEW e \in Execution, Execute(e) PROVE IInv'
<1> USE DEF Execute, SetStatus, Await
<1>1. TypeOK'
  BY DEF IInv, TypeOK, flow
<1>2. ASSUME NEW x \in Execution, x # e PROVE Consistent(x)'
  BY <1>2, Elsewhere DEF IInv, TypeOK, flow
<1>3. Consistent(e)'
  <2>1. /\ status'[e] = "running" /\ waiter'[e] = "launch" /\ request[e] = "none"
        /\ UNCHANGED <<request, askedAt, audit, turn, action, front, result>>
    BY DEF IInv, TypeOK, Consistent, flow
  <2>2. Consistent(e) /\ audit[e] = <<>> /\ turn # e
    BY <2>1 DEF IInv, Consistent
  <2>3. Audited(e)'
    BY <2>1, <2>2 DEF Audited
  <2>4. /\ status'[e] # "none" /\ request'[e] = "none" /\ audit'[e] = <<>>
        /\ turn' # e /\ waiter'[e] \notin {"scheduled", "resume"}
        /\ result'[e] \in Paused => front'[e] \subseteq ApprovalNode
    BY <2>1, <2>2 DEF Consistent
  <2> HIDE DEF Execute, SetStatus, Await
  <2> QED
    BY <2>3, <2>4 DEF Consistent
<1> QED
  BY <1>1, <1>2, <1>3 DEF IInv

LEMMA LaunchSafe ==
    ASSUME IInv, NEW e \in Execution, Launch(e) PROVE IInv'
<1> USE DEF Launch, SetStatus, Await, Kickoff, flow
<1>1. TypeOK'
  <2>1. Start \in Node
    BY WorkflowAssumption
  <2>2. entry' \in [Execution -> Node \cup {NoNode}]
    BY <2>1 DEF IInv, TypeOK
  <2>3. front' \in [Execution -> SUBSET Node]
    <3>1. front' = [front EXCEPT ![e] = {Start}] \/ front' = front
      OBVIOUS
    <3>2. {Start} \in SUBSET Node
      BY <2>1
    <3> HIDE DEF Launch, SetStatus, Await, Kickoff
    <3> QED
      BY <3>1, <3>2 DEF IInv, TypeOK
  <2> QED
    BY <2>2, <2>3 DEF IInv, TypeOK
<1>2. ASSUME NEW x \in Execution, x # e PROVE Consistent(x)'
  BY <1>2, Elsewhere DEF IInv, TypeOK
<1>3. Consistent(e)'
  <2>1. waiter[e] = "launch" /\ status[e] # "none" /\ Consistent(e)
    BY DEF IInv, Consistent
  <2>2. status'[e] # "none" /\ waiter'[e] \in {"execute", "nobody"}
    BY <2>1 DEF IInv, TypeOK
  <2>3. result'[e] \in Paused => front'[e] \subseteq ApprovalNode
    BY <2>1 DEF IInv, TypeOK, Consistent
  <2> QED
    BY <2>1, <2>2, <2>3, RowsKept
<1> QED
  BY <1>1, <1>2, <1>3 DEF IInv

LEMMA DisconnectSafe ==
    ASSUME IInv, NEW e \in Execution, Disconnect(e) PROVE IInv'
<1> USE DEF Disconnect, Await, flow, row
<1>1. TypeOK'
  BY DEF IInv, TypeOK
<1>2. ASSUME NEW x \in Execution, x # e PROVE Consistent(x)'
  BY <1>2, Elsewhere DEF IInv, TypeOK
<1>3. Consistent(e)'
  <2>1. status[e] # "none" /\ Consistent(e) /\ waiter'[e] = "nobody"
    BY DEF IInv, TypeOK, Consistent
  <2> QED
    BY <2>1, RowsKept DEF Consistent
<1> QED
  BY <1>1, <1>2, <1>3 DEF IInv

LEMMA RunNodeSafe ==
    ASSUME IInv, NEW e \in Execution, NEW n \in Node, RunNode(e, n) PROVE IInv'
<1> USE DEF RunNode, Kicked, row
<1>1. TypeOK'
  <2>1. /\ result' \in [Execution -> KickoffResult]
        /\ front' \in [Execution -> SUBSET Node]
    <3>1. front[e] \subseteq Node
      BY DEF IInv, TypeOK
    <3>2. ASSUME NEW next \in Triggers(e, n) PROVE After(e, n, next) \subseteq Node
      BY <3>1, <3>2, TriggeredNodes DEF After
    <3>3. \E how \in KickoffResult, at \in SUBSET Node :
             result' = [result EXCEPT ![e] = how] /\ front' = [front EXCEPT ![e] = at]
      BY <3>2
    <3> QED
      BY <3>3 DEF IInv, TypeOK
  <2>2. runs' \in [Execution -> [Task -> Nat]]
    <3>1. runs' = runs \/ (n \in Task /\ runs' = [runs EXCEPT ![e][n] = @ + 1])
      OBVIOUS
    <3> HIDE DEF RunNode, Kicked
    <3>2. ASSUME n \in Task PROVE [runs[e] EXCEPT ![n] = @ + 1] \in [Task -> Nat]
      <4>1. runs[e] \in [Task -> Nat] /\ runs[e][n] + 1 \in Nat
        BY <3>2 DEF IInv, TypeOK
      <4> QED
        BY <3>2, <4>1, Changed
    <3>3. runs \in [Execution -> [Task -> Nat]]
      BY DEF IInv, TypeOK
    <3>4. CASE n \in Task /\ runs' = [runs EXCEPT ![e][n] = @ + 1]
      <4>1. runs' = [runs EXCEPT ![e] = [runs[e] EXCEPT ![n] = @ + 1]]
        BY <3>4
      <4>2. [runs[e] EXCEPT ![n] = @ + 1] \in [Task -> Nat]
        BY <3>2, <3>4
      <4> QED
        BY <3>3, <4>1, <4>2, Changed
    <3> QED
      BY <3>1, <3>3, <3>4
  <2> QED
    BY <2>1, <2>2 DEF IInv, TypeOK
<1>2. ASSUME NEW x \in Execution, x # e PROVE Consistent(x)'
  <2>1. result'[x] = result[x] /\ front'[x] = front[x]
    BY <1>2 DEF IInv, TypeOK
  <2> QED
    BY <2>1, Elsewhere DEF IInv
<1>3. Consistent(e)'
  <2>1. result'[e] \in Paused => front'[e] \subseteq ApprovalNode
    BY DEF IInv, TypeOK
  <2>2. Consistent(e) /\ UNCHANGED <<status, request, askedAt, audit, turn, action, waiter>>
    BY DEF IInv
  <2>3. Audited(e)'
    BY <2>2 DEF Consistent, Audited
  <2> QED
    BY <2>1, <2>2, <2>3 DEF Consistent
<1> QED
  BY <1>1, <1>2, <1>3 DEF IInv

LEMMA BreakSafe ==
    ASSUME IInv, NEW e \in Execution, Break(e) PROVE IInv'
<1> USE DEF Break, Kicked, row
<1>1. TypeOK'
  BY DEF IInv, TypeOK
<1>2. ASSUME NEW x \in Execution, x # e PROVE Consistent(x)'
  BY <1>2, Elsewhere DEF IInv, TypeOK
<1>3. Consistent(e)'
  <2>1. result'[e] = "raised" /\ Consistent(e)
    BY DEF IInv, TypeOK
  <2>2. Audited(e)'
    BY <2>1 DEF Consistent, Audited
  <2> QED
    BY <2>1, <2>2 DEF Consistent
<1> QED
  BY <1>1, <1>2, <1>3 DEF IInv

LEMMA ExecuteReturnsSafe ==
    ASSUME IInv, NEW e \in Execution, ExecuteReturns(e) PROVE IInv'
<1>1. /\ waiter[e] = "execute" /\ LoopFree
      /\ waiter' = [waiter EXCEPT ![e] = "nobody"]
      /\ \/ \E s \in {"success", "failed", "paused"} : status' = [status EXCEPT ![e] = s]
         \/ UNCHANGED status
      /\ \/ UNCHANGED <<request, askedAt>>
         \/ /\ result[e] \in Paused
            /\ request' = [request EXCEPT ![e] = "pending"]
            /\ \E n \in front[e] : askedAt' = [askedAt EXCEPT ![e] = n]
      /\ UNCHANGED <<overdue, audit, turn, action, entry, front, result, scanning, runs,
                     restarts>>
  BY DEF ExecuteReturns, CreateRequest, SetStatus, Await, flow
<1>2. /\ Consistent(e) /\ status[e] # "none" /\ request[e] = "none" /\ audit[e] = <<>>
      /\ turn # e
  BY <1>1 DEF IInv, Consistent
<1>3. TypeOK'
  <2>1. /\ waiter' \in [Execution -> {"nobody", "launch", "execute", "scheduled", "resume"}]
        /\ request' \in [Execution -> Decided \cup {"none", "pending"}]
    BY <1>1 DEF IInv, TypeOK
  <2>3. status' \in [Execution -> {"none", "running", "paused", "success", "failed"}]
    BY <1>1 DEF IInv, TypeOK
  <2>2. askedAt' \in [Execution -> ApprovalNode \cup {NoNode}]
    <3>1. result[e] \in Paused => front[e] \subseteq ApprovalNode
      BY <1>2 DEF Consistent
    <3> QED
      BY <1>1, <3>1 DEF IInv, TypeOK
  <2> QED
    BY <1>1, <2>1, <2>2, <2>3 DEF IInv, TypeOK
<1>4. ASSUME NEW x \in Execution, x # e PROVE Consistent(x)'
  BY <1>1, <1>4, Elsewhere DEF IInv, TypeOK
<1>5. Consistent(e)'
  <2>1. /\ status'[e] # "none" /\ waiter'[e] = "nobody" /\ audit'[e] = <<>>
        /\ turn' # e /\ result' = result /\ front' = front
    BY <1>1, <1>2 DEF IInv, TypeOK
  <2>2. \/ request'[e] = "none"
        \/ request'[e] = "pending" /\ askedAt'[e] \in ApprovalNode
    BY <1>1, <1>2 DEF IInv, TypeOK, Consistent
  <2>3. Audited(e)'
    BY <2>1 DEF Audited
  <2> QED
    BY <1>2, <2>1, <2>2, <2>3 DEF Consistent
<1> QED
  BY <1>3, <1>4, <1>5 DEF IInv

LEMMA ResolveSafe ==
    ASSUME IInv, NEW e \in Execution, NEW a \in ActionType, Resolve(e, a) PROVE IInv'
<1>1. /\ request[e] = "pending" /\ LoopFree
      /\ request' = [request EXCEPT ![e] = StatusFor(a)]
      /\ action' = [action EXCEPT ![e] = a]
      /\ turn' = e
      /\ UNCHANGED <<status, askedAt, overdue, audit, waiter, entry, front, result,
                     scanning, runs, restarts>>
  BY DEF Resolve, StillPending, flow
<1>2. /\ Consistent(e) /\ audit[e] = <<>> /\ askedAt[e] \in ApprovalNode
      /\ waiter[e] \notin {"scheduled", "resume", "launch", "execute"}
      /\ status[e] # "none"
  BY <1>1 DEF IInv, Consistent
<1>3. StatusFor(a) \in Decided \ {"none", "pending"}
  BY StatusDecided
<1>4. TypeOK'
  <2>1. /\ request' \in [Execution -> Decided \cup {"none", "pending"}]
        /\ action' \in [Execution -> ActionType \cup {"none"}]
    BY <1>1, <1>3 DEF IInv, TypeOK
  <2> QED
    BY <1>1, <2>1 DEF IInv, TypeOK
<1>5. ASSUME NEW x \in Execution, x # e PROVE Consistent(x)'
  BY <1>1, <1>5, Elsewhere DEF IInv, TypeOK
<1>6. Consistent(e)'
  <2>1. /\ request'[e] = StatusFor(a) /\ action'[e] = a /\ audit'[e] = <<>>
        /\ askedAt'[e] \in ApprovalNode
        /\ UNCHANGED <<status, waiter, front, result>>
    BY <1>1, <1>2 DEF IInv, TypeOK
  <2>2. Audited(e)'
    BY <1>2, <2>1 DEF Audited
  <2> QED
    BY <1>2, <1>3, <2>1, <2>2 DEF Consistent
<1> QED
  BY <1>4, <1>5, <1>6 DEF IInv

LEMMA RecordSafe ==
    ASSUME IInv, NEW e \in Execution, Record(e) PROVE IInv'
<1>1. /\ turn = e /\ turn' = NoOne
      /\ \/ /\ audit' = [audit EXCEPT ![e] = Append(@, action[e])]
            /\ waiter' = [waiter EXCEPT ![e] = "scheduled"] \/ UNCHANGED waiter
         \/ UNCHANGED <<audit, waiter>>
      /\ UNCHANGED <<status, request, askedAt, overdue, action, entry, front, result,
                     scanning, runs, restarts>>
  BY DEF Record, OnAuditError, Await, flow
<1>2. /\ Consistent(e) /\ audit[e] = <<>> /\ action[e] \in ActionType
      /\ request[e] = StatusFor(action[e])
      /\ request[e] \notin {"none", "pending"} /\ NoOne \notin Execution
  BY <1>1, StatusDecided, WorkflowAssumption DEF IInv, Consistent
<1>3. Append(audit[e], action[e]) = <<action[e]>>
  BY <1>2
<1>4. TypeOK'
  <2>1. audit' \in [Execution -> Seq(ActionType \cup {"timed_out"})]
    <3>1. <<action[e]>> \in Seq(ActionType \cup {"timed_out"})
      BY <1>2
    <3>2. audit' = audit \/ audit' = [audit EXCEPT ![e] = <<action[e]>>]
      BY <1>1, <1>3
    <3>3. audit \in [Execution -> Seq(ActionType \cup {"timed_out"})]
      BY DEF IInv, TypeOK
    <3> QED
      BY <3>1, <3>2, <3>3, Changed
  <2>2. waiter' \in [Execution -> {"nobody", "launch", "execute", "scheduled", "resume"}]
    BY <1>1 DEF IInv, TypeOK
  <2> QED
    BY <1>1, <2>1, <2>2 DEF IInv, TypeOK
<1>5. ASSUME NEW x \in Execution, x # e PROVE Consistent(x)'
  BY <1>1, <1>2, <1>5, Elsewhere DEF IInv, TypeOK
<1>6. Consistent(e)'
  <2>1. CASE UNCHANGED <<audit, waiter>>
    <3>1. Audited(e)'
      BY <1>1, <1>2, <2>1 DEF Consistent, Audited
    <3> QED
      BY <1>1, <1>2, <2>1, <3>1 DEF Consistent
  <2>2. CASE audit' = [audit EXCEPT ![e] = Append(@, action[e])]
             /\ (waiter' = [waiter EXCEPT ![e] = "scheduled"] \/ UNCHANGED waiter)
    <3>1. audit'[e] = <<action[e]>> /\ waiter'[e] \in {"scheduled", waiter[e]}
      BY <1>3, <2>2 DEF IInv, TypeOK
    <3>2. Audited(e)'
      BY <1>1, <1>2, <3>1 DEF Audited
    <3>3. status[e] # "none" /\ waiter[e] \notin {"launch", "execute"}
      BY <1>2 DEF Consistent
    <3> QED
      BY <1>1, <1>2, <3>1, <3>2, <3>3 DEF Consistent
  <2> QED
    BY <1>1, <2>1, <2>2
<1> QED
  BY <1>4, <1>5, <1>6 DEF IInv

LEMMA ResumeSafe ==
    ASSUME IInv, NEW e \in Execution, Resume(e) PROVE IInv'
<1>1. /\ waiter[e] = "scheduled"
      /\ \/ /\ Kickoff(e, Downstream(action[e], askedAt[e]))
            /\ waiter' = [waiter EXCEPT ![e] = "resume"]
            /\ UNCHANGED status
         \/ /\ waiter' = [waiter EXCEPT ![e] = "nobody"]
            /\ UNCHANGED <<status, entry, front, result>>
         \/ /\ status' = [status EXCEPT ![e] = "failed"]
            /\ waiter' = [waiter EXCEPT ![e] = "nobody"]
            /\ UNCHANGED <<entry, front, result>>
      /\ UNCHANGED <<request, askedAt, overdue, audit, turn, action, scanning, runs,
                     restarts>>
  BY DEF Resume, SetStatus, Await, flow
<1>2. Consistent(e) /\ status[e] # "none" /\ askedAt[e] \in ApprovalNode
  BY <1>1 DEF IInv, Consistent
<1>3. Downstream(action[e], askedAt[e]) \in Node
  BY <1>2, DownstreamNode
<1>4. TypeOK'
  <2>1. /\ entry' \in [Execution -> Node \cup {NoNode}]
        /\ result' \in [Execution -> KickoffResult]
    BY <1>1, <1>3 DEF IInv, TypeOK, Kickoff
  <2>2. front' \in [Execution -> SUBSET Node]
    <3>1. {Downstream(action[e], askedAt[e])} \in SUBSET Node
      BY <1>3
    <3> QED
      BY <1>1, <3>1 DEF IInv, TypeOK, Kickoff
  <2>3. /\ waiter' \in [Execution -> {"nobody", "launch", "execute", "scheduled", "resume"}]
        /\ status' \in [Execution -> {"none", "running", "paused", "success", "failed"}]
    BY <1>1 DEF IInv, TypeOK
  <2> QED
    BY <1>1, <2>1, <2>2, <2>3 DEF IInv, TypeOK
<1>5. ASSUME NEW x \in Execution, x # e PROVE Consistent(x)'
  BY <1>1, <1>5, Elsewhere DEF IInv, TypeOK, Kickoff
<1>6. Consistent(e)'
  <2>1. status'[e] # "none" /\ waiter'[e] \in {"resume", "nobody"}
    BY <1>1, <1>2 DEF IInv, TypeOK
  <2>2. result'[e] \in Paused => front'[e] \subseteq ApprovalNode
    BY <1>1, <1>2 DEF IInv, TypeOK, Kickoff, Consistent
  <2> QED
    BY <1>1, <1>2, <2>1, <2>2, RowsKept
<1> QED
  BY <1>4, <1>5, <1>6 DEF IInv

LEMMA ResumeReturnsSafe ==
    ASSUME IInv, NEW e \in Execution, ResumeReturns(e) PROVE IInv'
<1>1. /\ waiter[e] = "resume"
      /\ \/ \E s \in {"success", "failed"} : status' = [status EXCEPT ![e] = s]
         \/ UNCHANGED status
      /\ waiter' = [waiter EXCEPT ![e] = "nobody"]
      /\ UNCHANGED <<request, askedAt, overdue, audit, turn, action, entry, front, result,
                     scanning, runs, restarts>>
  BY DEF ResumeReturns, OnNestedPause, SetStatus, Await, flow
<1>2. TypeOK'
  <2>1. status' \in [Execution -> {"none", "running", "paused", "success", "failed"}]
    BY <1>1 DEF IInv, TypeOK
  <2>2. waiter' \in [Execution -> {"nobody", "launch", "execute", "scheduled", "resume"}]
    BY <1>1 DEF IInv, TypeOK
  <2> QED
    BY <1>1, <2>1, <2>2 DEF IInv, TypeOK
<1>3. ASSUME NEW x \in Execution, x # e PROVE Consistent(x)'
  BY <1>1, <1>3, Elsewhere DEF IInv, TypeOK
<1>4. Consistent(e)'
  <2>1. Consistent(e) /\ status[e] # "none"
    BY <1>1 DEF IInv, Consistent
  <2>2. status'[e] # "none" /\ waiter'[e] = "nobody"
    BY <1>1, <2>1 DEF IInv, TypeOK
  <2> QED
    BY <1>1, <2>1, <2>2, RowsKept DEF Consistent
<1> QED
  BY <1>2, <1>3, <1>4 DEF IInv

LEMMA ExpireSafe ==
    ASSUME IInv, NEW e \in Execution, Expire(e) PROVE IInv'
<1> USE DEF Expire, flow
<1>1. TypeOK'
  BY DEF IInv, TypeOK
<1>2. ASSUME NEW x \in Execution PROVE Consistent(x)'
  BY <1>2, Elsewhere DEF IInv
<1> QED
  BY <1>1, <1>2 DEF IInv

LEMMA ScanSafe == ASSUME IInv, Scan PROVE IInv'
<1> DEFINE late == {e \in Execution : request[e] = "pending" /\ overdue[e]}
<1>1. /\ scanning' = FALSE
      /\ request' = [e \in Execution |-> IF e \in late THEN "timed_out" ELSE request[e]]
      /\ audit' = [e \in Execution |->
                      IF e \in late THEN Append(audit[e], "timed_out") ELSE audit[e]]
      /\ UNCHANGED <<status, askedAt, overdue, turn, action, waiter, entry, front, result,
                     runs, restarts>>
  BY DEF Scan, flow
<1>2. ASSUME NEW e \in late
      PROVE  /\ Consistent(e) /\ audit[e] = <<>> /\ turn # e
             /\ Append(audit[e], "timed_out") = <<"timed_out">>
             /\ request[e] = "pending"
  <2>1. Consistent(e) /\ audit[e] = <<>> /\ turn # e /\ request[e] = "pending"
    BY DEF IInv, Consistent
  <2>2. Append(<<>>, "timed_out") = <<"timed_out">>
    OBVIOUS
  <2> QED
    BY <2>1, <2>2
<1>3. TypeOK'
  <2>1. request' \in [Execution -> Decided \cup {"none", "pending"}]
    BY <1>1 DEF IInv, TypeOK, Decided
  <2>2. audit' \in [Execution -> Seq(ActionType \cup {"timed_out"})]
    <3>1. <<"timed_out">> \in Seq(ActionType \cup {"timed_out"})
      OBVIOUS
    <3> QED
      BY <1>1, <1>2, <3>1 DEF IInv, TypeOK
  <2> QED
    BY <1>1, <2>1, <2>2 DEF IInv, TypeOK
<1>4. ASSUME NEW x \in Execution, x \notin late PROVE Consistent(x)'
  BY <1>1, <1>4, Elsewhere DEF IInv
<1>5. ASSUME NEW x \in late PROVE Consistent(x)'
  <2>1. /\ request'[x] = "timed_out" /\ audit'[x] = <<"timed_out">>
        /\ Consistent(x) /\ turn' # x
        /\ UNCHANGED <<status, askedAt, turn, action, waiter, front, result>>
    BY <1>1, <1>2
  <2>2. StatusFor("timed_out") = "timed_out"
    BY DEF StatusFor
  <2>3. Audited(x)'
    BY <2>1, <2>2 DEF Audited
  <2>4. request[x] = "pending"
    BY <1>2
  <2> QED
    BY <2>1, <2>3, <2>4 DEF Consistent
<1> QED
  BY <1>3, <1>4, <1>5 DEF IInv

LEMMA RestartSafe == ASSUME IInv, Restart PROVE IInv'
<1>1. /\ turn' = NoOne
      /\ action' = [e \in Execution |-> "none"]
      /\ waiter' = [e \in Execution |-> "nobody"]
      /\ entry' = [e \in Execution |-> NoNode]
      /\ front' = [e \in Execution |-> {}]
      /\ result' = [e \in Execution |-> "none"]
      /\ scanning' = TRUE
      /\ restarts' = restarts + 1 /\ restarts < MaxRestarts
      /\ UNCHANGED <<status, request, askedAt, overdue, audit, runs>>
  BY DEF Restart, row
<1>2. TypeOK'
  <2>1. restarts' \in 0..MaxRestarts
    BY <1>1, WorkflowAssumption DEF IInv, TypeOK
  <2> QED
    BY <1>1, <2>1 DEF IInv, TypeOK
<1>3. ASSUME NEW x \in Execution PROVE Consistent(x)'
  <2>1. /\ Consistent(x) /\ waiter'[x] = "nobody" /\ turn' # x /\ result'[x] = "none"
        /\ UNCHANGED <<status, request, askedAt, audit>>
    BY <1>1, WorkflowAssumption DEF IInv
  <2>2. Audited(x)'
    BY <2>1 DEF Consistent, Audited
  <2> QED
    BY <2>1, <2>2 DEF Consistent
<1> QED
  BY <1>2, <1>3 DEF IInv

LEMMA StutterSafe == ASSUME IInv, UNCHANGED vars PROVE IInv'
<1> USE DEF vars, row, flow
<1>1. TypeOK'
  BY DEF IInv, TypeOK
<1>2. ASSUME NEW x \in Execution PROVE Consistent(x)'
  BY <1>2, Elsewhere DEF IInv
<1> QED
  BY <1>1, <1>2 DEF IInv

-----------------------------------------------------------------------------
\* The invariant of every behaviour.
THEOREM Inductive == Spec => []IInv
<1>1. IInv /\ [Next]_vars => IInv'
  BY ExecuteSafe, LaunchSafe, DisconnectSafe, RunNodeSafe, BreakSafe, ExecuteReturnsSafe,
     ResolveSafe, RecordSafe, ResumeSafe, ResumeReturnsSafe, ExpireSafe, ScanSafe,
     RestartSafe, StutterSafe DEF Next
<1> QED
  BY <1>1, Initially, PTL DEF Spec

\* The rows and the process keep to their types: in particular every request is
\* asked at an approval node, and every flow starts at a node of the graph.
THEOREM TypeCorrect == Spec => []TypeOK
<1>1. IInv => TypeOK
  BY DEF IInv
<1> QED
  BY <1>1, Inductive, PTL

\* The audit log and the request tell one story, and nothing is resumed that is
\* not in the log, whatever fails or restarts between the commits.
THEOREM AuditedDecisions == Spec => []AuditTrail
<1>1. IInv => AuditTrail
  <2> SUFFICES ASSUME IInv, NEW e \in Execution
               PROVE  /\ Len(audit[e]) <= 1
                      /\ audit[e] # <<>> => request[e] = StatusFor(audit[e][1])
                      /\ waiter[e] \in {"scheduled", "resume"} => audit[e] # <<>>
    BY DEF AuditTrail
  <2>1. Audited(e)
    BY DEF IInv, Consistent
  <2>2. Len(audit[e]) <= 1
    <3>1. CASE audit[e] = <<>>
      BY <3>1
    <3>2. ASSUME NEW a, audit[e] = <<a>> PROVE Len(audit[e]) <= 1
      BY <3>2
    <3> QED
      BY <2>1, <3>1, <3>2 DEF Audited
  <2> QED
    BY <2>1, <2>2 DEF Audited
<1> QED
  BY <1>1, Inductive, PTL

\* A request is decided once, by two users or by a user and the scan.
THEOREM SingleDecision == Spec => DecidedOnce
<1> DEFINE A == \A e \in Execution : request[e] \in Decided => request'[e] = request[e]
<1>1. IInv /\ [Next]_vars => [A]_vars
  <2> SUFFICES ASSUME IInv, Next, NEW x \in Execution, request[x] \in Decided
               PROVE  request'[x] = request[x]
    OBVIOUS
  <2>0. request[x] \notin {"none", "pending"} /\ request \in [Execution -> Decided \cup {"none", "pending"}]
    BY DEF Decided, IInv, TypeOK
  <2>1. CASE \E e \in Execution : ExecuteReturns(e)
    <3> PICK e \in Execution : ExecuteReturns(e)
      BY <2>1
    <3>1. request[e] = "none"
      BY DEF ExecuteReturns, IInv, Consistent
    <3> QED
      BY <2>0, <3>1 DEF ExecuteReturns, CreateRequest
  <2>2. CASE \E e \in Execution, a \in ActionType : Resolve(e, a)
    BY <2>0, <2>2 DEF Resolve, StillPending
  <2>3. CASE Scan
    BY <2>0, <2>3 DEF Scan
  <2>4. CASE ~((\E e \in Execution : ExecuteReturns(e)) \/ Scan
               \/ \E e \in Execution, a \in ActionType : Resolve(e, a))
    BY <2>4 DEF Next, Execute, Launch, Disconnect, RunNode, Break, Record, Resume,
                ResumeReturns, Expire, Restart, row
  <2> QED
    BY <2>1, <2>2, <2>3, <2>4
<1> QED
  BY <1>1, Inductive, PTL DEF Spec, DecidedOnce

-----------------------------------------------------------------------------
(***************************************************************************)
(* What depends on the graph.  An approval directly behind another is      *)
(* never asked: that decisions are obeyed is proved for the graphs without *)
(* one (ReviewsApart), and false of others.  That no task comes twice is   *)
(* proved for those whose branches, where they run side by side, have no   *)
(* task in common (BranchesApart); a join of two branches is the flow      *)
(* engine's own.                                                           *)
(***************************************************************************)
\* Every decision without which m cannot be reached was made, the way of m.
Answered(e, m) ==
    \A n \in ApprovalNode :
        /\ m \notin ReachableWithout[<<n, Yes[n]>>] => VerdictAt(e, n) \in {"approve", "approved"}
        /\ m \notin ReachableWithout[<<n, No[n]>>] => VerdictAt(e, n) = "reject"

\* m is reached without any decision.
FreelyReached(m) ==
    \A n \in ApprovalNode :
        m \in ReachableWithout[<<n, Yes[n]>>] \cap ReachableWithout[<<n, No[n]>>]

Honoured(e) ==
    /\ \A t \in Task : runs[e][t] > 0 => Answered(e, t)
    /\ \A m \in front[e] : Answered(e, m)
    /\ request[e] # "none" => FreelyReached(askedAt[e])
    /\ entry[e] \notin ApprovalNode
    /\ waiter[e] = "scheduled" => request[e] = StatusFor(action[e])

\* Nothing that ran comes again from m on.
NoneAhead(e, m) == \A t \in Task : runs[e][t] > 0 => t \notin Reach[m]

\* The flow is ahead of all that has run, its branches have no task in common,
\* and the node that a decision is awaited at is ahead too, until it is resumed.
Forward(e) ==
    /\ \A t \in Task : runs[e][t] <= 1
    /\ \A m, k \in front[e] : m # k => Reach[m] \cap Reach[k] \cap Task = {}
    /\ entry[e] \in ApprovalNode \cup Router => entry[e] \in ResumePoint
    /\ \A m \in front[e] : entry[e] \in Node /\ m \in Reach[entry[e]] /\ NoneAhead(e, m)
    /\ request[e] = "pending" \/ turn = e \/ waiter[e] = "scheduled" =>
          NoneAhead(e, askedAt[e])
    /\ status[e] = "none" \/ waiter[e] = "launch" =>
          front[e] = {} /\ \A t \in Task : runs[e][t] = 0
    /\ request[e] # "none" /\ waiter[e] # "resume" => front[e] = {} \/ result[e] # "none"

\* Reachability.
LEMMA ReachLeast ==
    ASSUME NEW E, NEW n \in Node, NEW S \in SUBSET Node, n \in S, Closed(S, E)
    PROVE  Reachable(E)[n] \subseteq S
  BY DEF Reachable

LEMMA ReachClosed ==
    ASSUME NEW E \in SUBSET (Node \X Node), NEW n \in Node
    PROVE  /\ n \in Reachable(E)[n] /\ Reachable(E)[n] \subseteq Node
           /\ Closed(Reachable(E)[n], E)
<1>1. n \in Reachable(E)[n] /\ Reachable(E)[n] \subseteq Node
  BY DEF Reachable
<1>2. ASSUME NEW d \in E, d[1] \in Reachable(E)[n] PROVE d[2] \in Reachable(E)[n]
  <2>1. d[2] \in Node
    OBVIOUS
  <2>2. ASSUME NEW S \in SUBSET Node, n \in S, Closed(S, E) PROVE d[2] \in S
    BY <1>2, <2>2 DEF Reachable, Closed
  <2> QED
    BY <2>1, <2>2 DEF Reachable
<1> QED
  BY <1>1, <1>2 DEF Closed

LEMMA EdgeType == Edge \subseteq Node \X Node
  BY WorkflowAssumption

LEMMA ReachStep ==
    ASSUME NEW n \in Node, NEW m \in Reach[n], NEW k, <<m, k>> \in Edge
    PROVE  k \in Reach[n]
  BY ReachClosed, EdgeType DEF Reach, Closed

LEMMA ReachFromThere ==
    ASSUME NEW n \in Node, NEW m \in Reach[n]
    PROVE  m \in Node /\ Reach[m] \subseteq Reach[n]
  BY ReachClosed, ReachLeast, EdgeType DEF Reach

\* No node is reached from behind itself.
LEMMA NoWayBack ==
    ASSUME NEW n, NEW m, <<n, m>> \in Edge
    PROVE  n \notin Reach[m]
<1> SUFFICES ASSUME n \in Reach[m] PROVE FALSE
  OBVIOUS
<1> DEFINE Circle == {k \in Reach[m] : n \in Reach[k]}
<1>1. n \in Node /\ m \in Node
  BY EdgeType
<1>2. m \in Reach[m] /\ Reach[m] \subseteq Node
  BY <1>1, ReachClosed, EdgeType DEF Reach
<1>3. Circle \in (SUBSET Node) \ {{}}
  BY <1>2
<1>4. ASSUME NEW k \in Circle PROVE \E j \in Circle : <<k, j>> \in Edge
  <2>1. CASE k = n
    BY <1>2, <2>1
  <2>2. CASE k # n
    <3> DEFINE S == {k} \cup {i \in Node : \E j \in Node : <<k, j>> \in Edge /\ i \in Reach[j]}
    <3>0. k \in Node
      BY <1>2
    <3>1. S \subseteq Node /\ k \in S
      BY <3>0
    <3>2. ASSUME NEW d \in Edge, d[1] \in S PROVE d[2] \in S
      <4>1. d = <<d[1], d[2]>> /\ d[2] \in Node
        BY EdgeType
      <4>2. CASE d[1] = k
        <5>1. d[2] \in Reach[d[2]]
          BY <4>1, ReachClosed, EdgeType DEF Reach
        <5> QED
          BY <4>1, <4>2, <5>1
      <4>3. CASE d[1] # k
        <5>1. PICK j \in Node : <<k, j>> \in Edge /\ d[1] \in Reach[j]
          BY <3>2, <4>3
        <5>2. d[2] \in Reach[j]
          BY <4>1, <5>1, ReachStep
        <5> QED
          BY <4>1, <5>1, <5>2
      <4> QED
        BY <4>2, <4>3
    <3>3. Closed(S, Edge)
      BY <3>2 DEF Closed
    <3>4. Reach[k] \subseteq S
      BY <3>0, <3>1, <3>3, ReachLeast DEF Reach
    <3>5. PICK j \in Node : <<k, j>> \in Edge /\ n \in Reach[j]
      BY <2>2, <3>4
    <3>6. j \in Reach[m]
      BY <1>1, <3>5, ReachStep
    <3> QED
      BY <3>5, <3>6
  <2> QED
    BY <2>1, <2>2
<1>5. PICK k \in Circle : \A j \in Circle : <<k, j>> \notin Edge
  BY <1>3, AcyclicAssumption
<1> QED
  BY <1>4, <1>5

\* The two edges of an approval node.
LEMMA DecisionEdges ==
    ASSUME NEW n \in ApprovalNode
    PROVE  /\ n \in Node /\ Yes[n] # No[n]
           /\ <<n, Yes[n]>> \in Edge /\ <<n, No[n]>> \in Edge
<1>1. {<<n, Yes[n]>>, <<n, No[n]>>} = {d \in Edge : d[1] = n} /\ Yes[n] # No[n]
  BY WorkflowAssumption DEF ApprovalNode
<1> QED
  BY <1>1, ApprovalNodes

LEMMA StepWithout ==
    ASSUME NEW d \in Edge
    PROVE  /\ Start \in ReachableWithout[d]
           /\ \A n, m \in Node : n \in ReachableWithout[d] /\ <<n, m>> \in Edge \ {d}
                => m \in ReachableWithout[d]
<1> DEFINE E == Edge \ {d}
<1>1. E \in SUBSET (Node \X Node) /\ Start \in Node
  BY EdgeType, WorkflowAssumption
<1>2. ReachableWithout[d] = Reachable(E)[Start]
  BY DEF ReachableWithout
<1> HIDE DEF E
<1>3. Start \in ReachableWithout[d] /\ Closed(ReachableWithout[d], E)
  BY <1>1, <1>2, ReachClosed
<1>4. ASSUME NEW n \in ReachableWithout[d], NEW m, <<n, m>> \in E PROVE m \in ReachableWithout[d]
  BY <1>3, <1>4 DEF Closed
<1> QED
  BY <1>3, <1>4 DEF E

\* A node that decides nothing is followed by nodes that nothing more was
\* decided about,
LEMMA AnsweredNext ==
    ASSUME NEW e, NEW n, n \notin ApprovalNode, Answered(e, n), NEW m, <<n, m>> \in Edge
    PROVE  Answered(e, m)
<1>1. ASSUME NEW a \in ApprovalNode, NEW b, <<a, b>> \in Edge, n \in ReachableWithout[<<a, b>>]
      PROVE  m \in ReachableWithout[<<a, b>>]
  <2>1. <<n, m>> # <<a, b>>
    OBVIOUS
  <2> QED
    BY <1>1, <2>1, EdgeType, StepWithout
<1> QED
  BY <1>1, DecisionEdges DEF Answered

\* and a decision by the node it leads to.
LEMMA AnsweredByDecision ==
    ASSUME NEW e, NEW a \in ActionType, askedAt[e] \in ApprovalNode,
           FreelyReached(askedAt[e]), request[e] = StatusFor(a)
    PROVE  Answered(e, Downstream(a, askedAt[e]))
<1> DEFINE n == askedAt[e]  m == Downstream(a, askedAt[e])
<1>1. <<n, m>> \in Edge
  BY DecisionEdges DEF Downstream
<1>2. ASSUME NEW c \in ApprovalNode, NEW b, b \in {Yes[c], No[c]},
             m \notin ReachableWithout[<<c, b>>]
      PROVE  c = n /\ b = m
  <2>1. <<c, b>> \in Edge /\ n \in ReachableWithout[<<c, b>>]
    BY <1>2, DecisionEdges DEF FreelyReached
  <2>2. <<n, m>> = <<c, b>>
    BY <1>1, <1>2, <2>1, EdgeType, StepWithout
  <2> QED
    BY <2>2
<1>3. /\ m = Yes[n] => request[e] \in {"approve", "approved"}
      /\ m = No[n] => request[e] = "reject"
  <2>1. Yes[n] # No[n]
    BY DecisionEdges
  <2> QED
    BY <2>1 DEF Downstream, StatusFor, ActionType
<1> HIDE DEF n, m
<1>4. ASSUME NEW c \in ApprovalNode
      PROVE  /\ m \notin ReachableWithout[<<c, Yes[c]>>]
                   => VerdictAt(e, c) \in {"approve", "approved"}
             /\ m \notin ReachableWithout[<<c, No[c]>>] => VerdictAt(e, c) = "reject"
  BY <1>2, <1>3 DEF VerdictAt, n
<1> QED
  BY <1>4 DEF Answered, m

\* What a node triggers has no task in common: a router chooses one branch, and
\* the branches behind any other node are apart, which is also so of an approval
\* or a router that the flow starts at.
LEMMA TriggersApart ==
    ASSUME BranchesApart, NEW e, NEW n \in Node,
           n \in ApprovalNode => n \in ResumePoint,
           n \in Router => n \in Routers(e) \/ n \in ResumePoint,
           NEW next \in Triggers(e, n)
    PROVE  /\ next \subseteq Out(n)
           /\ \A m, k \in next : m # k => Reach[m] \cap Reach[k] \cap Task = {}
<1>1. CASE n \in Routers(e)
  BY <1>1 DEF Triggers
<1>2. CASE n \notin Routers(e)
  <2>1. next \subseteq Out(n)
    BY <1>2 DEF Triggers
  <2>2. n \in (Node \ (Router \cup ApprovalNode)) \cup ResumePoint
    BY <1>2
  <2> QED
    BY <2>1, <2>2 DEF BranchesApart
<1> QED
  BY <1>1, <1>2

-----------------------------------------------------------------------------
\* Decisions are obeyed.  A request that is pending has decided nothing yet, so
\* a step that only takes from an execution, or decides, keeps what is answered.
LEMMA HonouredKept ==
    ASSUME NEW x \in Execution, Honoured(x), runs'[x] = runs[x], front'[x] \subseteq front[x],
           askedAt'[x] = askedAt[x], entry'[x] \in {entry[x], NoNode},
           request'[x] = request[x] \/ request[x] = "pending",
           waiter'[x] = "scheduled" => request'[x] = StatusFor(action'[x])
    PROVE  Honoured(x)'
<1>1. ASSUME NEW m, Answered(x, m) PROVE Answered(x, m)'
  BY <1>1 DEF Answered, VerdictAt
<1>2. FreelyReached(askedAt[x]) => FreelyReached(askedAt[x])'
  BY DEF FreelyReached
<1>3. NoNode \notin ApprovalNode
  BY ApprovalNodes, WorkflowAssumption
<1>4. request'[x] # "none" => request[x] # "none"
  OBVIOUS
<1> QED
  BY <1>1, <1>2, <1>3, <1>4 DEF Honoured

LEMMA HonouredElsewhere ==
    ASSUME NEW x \in Execution, Honoured(x),
           runs'[x] = runs[x], front'[x] = front[x], askedAt'[x] = askedAt[x],
           entry'[x] = entry[x], request'[x] = request[x], waiter'[x] = waiter[x],
           action'[x] = action[x]
    PROVE  Honoured(x)'
  BY HonouredKept DEF Honoured

\* A flow that is started at a node that is answered for.
LEMMA HonouredKickoff ==
    ASSUME TypeOK, NEW e \in Execution, Honoured(e), NEW n \in Node \ ApprovalNode, Kickoff(e, n),
           Answered(e, n), UNCHANGED <<runs, askedAt, request>>, waiter'[e] # "scheduled"
    PROVE  Honoured(e)'
<1>1. front'[e] = {n} /\ entry'[e] = n
  BY DEF Kickoff, TypeOK
<1>2. \A m : Answered(e, m) => Answered(e, m)'
  BY DEF Answered, VerdictAt
<1>3. FreelyReached(askedAt[e]) => FreelyReached(askedAt[e])'
  BY DEF FreelyReached
<1> QED
  BY <1>1, <1>2, <1>3 DEF Honoured

LEMMA RunNodeHonoured ==
    ASSUME IInv, NEW e \in Execution, NEW n \in Node, RunNode(e, n), Honoured(e)
    PROVE  Honoured(e)'
<1>1. /\ UNCHANGED <<status, request, askedAt, turn, action, waiter, entry>>
      /\ n \in front[e] /\ Answered(e, n)
  BY DEF RunNode, row, Honoured
<1>2. \A m : Answered(e, m) => Answered(e, m)'
  BY <1>1 DEF Answered, VerdictAt
<1>3. FreelyReached(askedAt[e]) => FreelyReached(askedAt[e])'
  BY <1>1 DEF FreelyReached
<1>4. \A m \in front'[e] : Answered(e, m)
  <2>1. CASE n # entry[e] /\ n \in ApprovalNode
    BY <1>1, <2>1 DEF RunNode, Kicked, IInv, TypeOK
  <2>2. CASE ~(n # entry[e] /\ n \in ApprovalNode)
    <3>1. PICK next \in Triggers(e, n) : front' = [front EXCEPT ![e] = After(e, n, next)]
      BY <2>2 DEF RunNode, Kicked
    <3>2. next \subseteq Out(n)
      BY DEF Triggers
    <3>3. n \notin ApprovalNode
      BY <2>2 DEF Honoured
    <3>4. \A m \in next : Answered(e, m)
      BY <1>1, <3>2, <3>3, AnsweredNext DEF Out
    <3>5. front'[e] \subseteq front[e] \cup next
      BY <3>1 DEF After, IInv, TypeOK
    <3> QED
      BY <3>4, <3>5 DEF Honoured
  <2> QED
    BY <2>1, <2>2
<1>5. \A t \in Task : runs'[e][t] > 0 => Answered(e, t)
  <2>1. ASSUME NEW t \in Task, t # n PROVE runs'[e][t] = runs[e][t]
    BY <2>1 DEF RunNode, IInv, TypeOK
  <2> QED
    BY <1>1, <2>1 DEF Honoured
<1> QED
  BY <1>1, <1>2, <1>3, <1>4, <1>5 DEF Honoured

LEMMA ExecuteReturnsHonoured ==
    ASSUME IInv, NEW e \in Execution, ExecuteReturns(e), Honoured(e)
    PROVE  Honoured(e)'
<1>1. waiter[e] = "execute" /\ request[e] = "none" /\ waiter'[e] = "nobody"
  BY DEF ExecuteReturns, Await, IInv, TypeOK, Consistent
<1>2. UNCHANGED <<runs, front, entry, action>>
  BY DEF ExecuteReturns, flow
<1>3. CASE UNCHANGED <<request, askedAt>>
  BY <1>1, <1>2, <1>3, HonouredKept
<1>4. CASE \E n \in front[e] : CreateRequest(e, n)
  <2>1. PICK n \in front[e] : CreateRequest(e, n)
    BY <1>4
  <2>2. request'[e] = "pending" /\ askedAt'[e] = n
    BY <2>1 DEF CreateRequest, IInv, TypeOK
  <2>3. ASSUME NEW m, Answered(e, m) PROVE FreelyReached(m)
    BY <1>1, <2>3 DEF Answered, VerdictAt, FreelyReached
  <2>4. ASSUME NEW m, FreelyReached(m) PROVE FreelyReached(m)' /\ Answered(e, m)'
    BY <2>4 DEF Answered, FreelyReached
  <2>5. /\ \A t \in Task : runs[e][t] > 0 => Answered(e, t)'
        /\ \A m \in front[e] : Answered(e, m)'
    BY <2>3, <2>4 DEF Honoured
  <2>6. FreelyReached(n)'
    BY <2>1, <2>3, <2>4 DEF Honoured
  <2> QED
    BY <1>1, <1>2, <2>2, <2>5, <2>6 DEF Honoured, FreelyReached
<1> QED
  BY <1>3, <1>4 DEF ExecuteReturns

LEMMA ResumeHonoured ==
    ASSUME ReviewsApart, IInv, NEW e \in Execution, Resume(e), Honoured(e)
    PROVE  Honoured(e)'
<1> DEFINE n == Downstream(action[e], askedAt[e])
<1>1. /\ waiter[e] = "scheduled" /\ action[e] \in ActionType /\ request[e] # "none"
      /\ askedAt[e] \in ApprovalNode /\ waiter'[e] \in {"resume", "nobody"}
  <2>1. Consistent(e) /\ waiter[e] = "scheduled" /\ TypeOK
    BY DEF Resume, IInv
  <2>2. action[e] \in ActionType /\ request[e] # "none" /\ askedAt[e] \in ApprovalNode
    BY <2>1 DEF Consistent
  <2>3. waiter'[e] \in {"resume", "nobody"}
    BY <2>1 DEF Resume, Await, TypeOK
  <2> QED
    BY <2>1, <2>2, <2>3
<1>2. UNCHANGED <<request, askedAt, action, runs>>
  BY DEF Resume
<1>3. CASE Kickoff(e, n)
  <2>1. FreelyReached(askedAt[e]) /\ request[e] = StatusFor(action[e])
    BY <1>1 DEF Honoured
  <2>2. Answered(e, n)
    BY <1>1, <2>1, AnsweredByDecision
  <2>3. n \in Node \ ApprovalNode
    BY <1>1, DownstreamNode DEF ReviewsApart, Downstream
  <2> QED
    BY <1>1, <1>2, <1>3, <2>2, <2>3, HonouredKickoff DEF IInv
<1>4. CASE UNCHANGED flow
  BY <1>1, <1>2, <1>4, HonouredKept DEF flow
<1> QED
  BY <1>3, <1>4 DEF Resume

LEMMA StepHonoured ==
    ASSUME ReviewsApart, IInv, [Next]_vars, NEW x \in Execution, Honoured(x)
    PROVE  Honoured(x)'
<1>0. TypeOK /\ Consistent(x)
  BY DEF IInv
<1> USE DEF TypeOK
<1>1. CASE UNCHANGED vars
  BY <1>1, HonouredElsewhere DEF vars, row, flow
<1>2. ASSUME NEW e \in Execution, Execute(e) PROVE Honoured(x)'
  <2>1. waiter'[x] # "scheduled" \/ waiter'[x] = waiter[x]
    BY <1>0, <1>2 DEF Execute, Await
  <2> QED
    BY <1>2, <2>1, HonouredKept DEF Execute, flow, Honoured
<1>3. ASSUME NEW e \in Execution, Launch(e) PROVE Honoured(x)'
  <2>1. CASE x # e
    BY <1>0, <1>3, <2>1, HonouredElsewhere DEF Launch, Kickoff, Await, flow
  <2>2. CASE x = e /\ Kickoff(e, Start)
    <3>1. Start \in Node \ ApprovalNode
      BY WorkflowAssumption DEF ApprovalNode
    <3>2. Answered(e, Start)
      BY StepWithout, DecisionEdges DEF Answered
    <3>3. waiter'[e] # "scheduled"
      BY <1>0, <1>3 DEF Launch, Await
    <3> QED
      BY <1>0, <1>3, <2>2, <3>1, <3>2, <3>3, HonouredKickoff DEF Launch
  <2>3. CASE x = e /\ UNCHANGED flow
    <3>1. waiter'[e] # "scheduled"
      BY <1>0, <1>3 DEF Launch, Await
    <3> QED
      BY <1>3, <2>3, <3>1, HonouredKept DEF Launch, flow
  <2> QED
    BY <1>3, <2>1, <2>2, <2>3 DEF Launch
<1>4. ASSUME NEW e \in Execution, Disconnect(e) PROVE Honoured(x)'
  <2>1. waiter'[x] # "scheduled" \/ waiter'[x] = waiter[x]
    BY <1>0, <1>4 DEF Disconnect, Await
  <2> QED
    BY <1>4, <2>1, HonouredKept DEF Disconnect, row, flow, Honoured
<1>5. ASSUME NEW e \in Execution, NEW n \in Node, RunNode(e, n) PROVE Honoured(x)'
  <2>1. CASE x = e
    BY <1>5, <2>1, RunNodeHonoured
  <2>2. CASE x # e
    <3>1. front'[x] = front[x] /\ runs'[x] = runs[x]
      BY <1>0, <1>5, <2>2 DEF RunNode, Kicked
    <3> QED
      BY <1>5, <3>1, HonouredElsewhere DEF RunNode, row
  <2> QED
    BY <2>1, <2>2
<1>6. ASSUME NEW e \in Execution, Break(e) PROVE Honoured(x)'
  <2>1. front'[x] \subseteq front[x]
    BY <1>0, <1>6 DEF Break, Kicked
  <2> QED
    BY <1>6, <2>1, HonouredKept DEF Break, row, Honoured
<1>7. ASSUME NEW e \in Execution, ExecuteReturns(e) PROVE Honoured(x)'
  <2>1. CASE x = e
    BY <1>7, <2>1, ExecuteReturnsHonoured
  <2>2. CASE x # e
    <3>1. request'[x] = request[x] /\ askedAt'[x] = askedAt[x] /\ waiter'[x] = waiter[x]
      BY <1>0, <1>7, <2>2 DEF ExecuteReturns, CreateRequest, Await
    <3> QED
      BY <1>7, <3>1, HonouredElsewhere DEF ExecuteReturns, flow
  <2> QED
    BY <2>1, <2>2
<1>8. ASSUME NEW e \in Execution, NEW a \in ActionType, Resolve(e, a) PROVE Honoured(x)'
  <2>1. CASE x # e
    BY <1>0, <1>8, <2>1, HonouredElsewhere DEF Resolve, flow
  <2>2. CASE x = e
    <3>1. request[x] = "pending" /\ waiter'[x] # "scheduled"
      BY <1>0, <1>8, <2>2 DEF Resolve, StillPending, Consistent
    <3> QED
      BY <1>8, <3>1, HonouredKept DEF Resolve, flow
  <2> QED
    BY <2>1, <2>2
<1>9. ASSUME NEW e \in Execution, Record(e) PROVE Honoured(x)'
  <2>1. CASE x # e
    <3>1. waiter'[x] = waiter[x]
      BY <1>0, <1>9, <2>1 DEF Record, Await, OnAuditError
    <3> QED
      BY <1>9, <3>1, HonouredElsewhere DEF Record, flow
  <2>2. CASE x = e
    <3>1. request[x] = StatusFor(action[x])
      BY <1>0, <1>9, <2>2 DEF Record, Consistent
    <3> QED
      BY <1>9, <3>1, HonouredKept DEF Record, flow
  <2> QED
    BY <2>1, <2>2
<1>10. ASSUME NEW e \in Execution, Resume(e) PROVE Honoured(x)'
  <2>1. CASE x = e
    BY <1>10, <2>1, ResumeHonoured
  <2>2. CASE x # e
    <3>1. front'[x] = front[x] /\ entry'[x] = entry[x] /\ waiter'[x] = waiter[x]
      BY <1>0, <1>10, <2>2 DEF Resume, Kickoff, Await, flow
    <3> QED
      BY <1>10, <3>1, HonouredElsewhere DEF Resume
  <2> QED
    BY <2>1, <2>2
<1>11. ASSUME NEW e \in Execution, ResumeReturns(e) PROVE Honoured(x)'
  <2>1. waiter'[x] # "scheduled" \/ waiter'[x] = waiter[x]
    BY <1>0, <1>11 DEF ResumeReturns, OnNestedPause, Await
  <2> QED
    BY <1>11, <2>1, HonouredKept DEF ResumeReturns, flow, Honoured
<1>12. ASSUME NEW e \in Execution, Expire(e) PROVE Honoured(x)'
  BY <1>12, HonouredElsewhere DEF Expire, flow
<1>13. CASE Scan
  <2>1. /\ request'[x] = request[x] \/ request[x] = "pending"
        /\ waiter'[x] = waiter[x] /\ action'[x] = action[x]
    BY <1>13 DEF Scan
  <2>2. waiter[x] = "scheduled" => request[x] # "pending"
    BY <1>0 DEF Consistent
  <2> QED
    BY <1>13, <2>1, <2>2, HonouredKept DEF Scan, flow, Honoured
<1>14. CASE Restart
  BY <1>14, HonouredKept DEF Restart, row
<1> QED
  BY <1>1, <1>2, <1>3, <1>4, <1>5, <1>6, <1>7, <1>8, <1>9, <1>10, <1>11, <1>12, <1>13, <1>14
     DEF Next

\* Human review is binding, in every workflow without an approval directly
\* behind another: a task that one edge of an approval node guards runs only
\* after that approval was asked for and answered that way, whatever fails,
\* restarts or arrives twice (approval.py, workflows.py, executor.py).
THEOREM ReviewIsBinding ==
    ASSUME ReviewsApart PROVE Spec => []ApprovalHonoured
<1> DEFINE H == \A x \in Execution : Honoured(x)
<1>1. Init => H
  BY WorkflowAssumption, ApprovalNodes DEF Init, Honoured
<1>2. IInv /\ H /\ [Next]_vars => H'
  BY StepHonoured
<1>3. H => ApprovalHonoured
  BY DEF Honoured, Answered, ApprovalHonoured
<1> QED
  BY <1>1, <1>2, <1>3, Inductive, PTL DEF Spec

-----------------------------------------------------------------------------
\* No task comes twice.
LEMMA ForwardKept ==
    ASSUME NEW x \in Execution, Forward(x), runs'[x] = runs[x],
           front'[x] \subseteq front[x], askedAt'[x] = askedAt[x],
           entry'[x] = entry[x] \/ (entry'[x] = NoNode /\ front'[x] = {}),
           request'[x] = "pending" \/ turn' = x \/ waiter'[x] = "scheduled"
              => request[x] = "pending" \/ turn = x \/ waiter[x] = "scheduled",
           status'[x] = "none" \/ waiter'[x] = "launch"
              => status[x] = "none" \/ waiter[x] = "launch",
           request'[x] # "none" /\ waiter'[x] # "resume"
              => front'[x] = {} \/ result'[x] # "none"
    PROVE  Forward(x)'
<1>1. \A m : NoneAhead(x, m)' <=> NoneAhead(x, m)
  BY DEF NoneAhead
<1>2. NoNode \notin ApprovalNode \cup Router
  BY ApprovalNodes, WorkflowAssumption
<1>3. /\ \A m \in front'[x] : entry'[x] \in Node /\ m \in Reach[entry'[x]] /\ NoneAhead(x, m)
      /\ entry'[x] \in ApprovalNode \cup Router => entry'[x] \in ResumePoint
  BY <1>2 DEF Forward
<1>4. \A t \in Task : runs'[x][t] <= 1
  BY DEF Forward
<1>5. request'[x] = "pending" \/ turn' = x \/ waiter'[x] = "scheduled"
         => NoneAhead(x, askedAt'[x])
  BY DEF Forward
<1>6. status'[x] = "none" \/ waiter'[x] = "launch" =>
         front'[x] = {} /\ \A t \in Task : runs'[x][t] = 0
  BY DEF Forward
<1>7. \A m, k \in front'[x] : m # k => Reach[m] \cap Reach[k] \cap Task = {}
  BY DEF Forward
<1> QED
  BY <1>1, <1>3, <1>4, <1>5, <1>6, <1>7 DEF Forward, NoneAhead

LEMMA ForwardElsewhere ==
    ASSUME NEW x \in Execution, Forward(x), runs'[x] = runs[x],
           front'[x] = front[x], askedAt'[x] = askedAt[x], entry'[x] = entry[x],
           request'[x] = request[x], turn' = x => turn = x, waiter'[x] = waiter[x],
           status'[x] = "none" => status[x] = "none", result'[x] = result[x]
    PROVE  Forward(x)'
<1>1. request[x] # "none" /\ waiter[x] # "resume" => front[x] = {} \/ result[x] # "none"
  BY DEF Forward
<1> QED
  BY <1>1, ForwardKept

\* A flow that is started where nothing that ran comes again.
LEMMA ForwardKickoff ==
    ASSUME TypeOK, NEW e \in Execution, Forward(e),
           NEW n \in Node, n \in ApprovalNode \cup Router => n \in ResumePoint,
           Kickoff(e, n), NoneAhead(e, n),
           runs' = runs, waiter'[e] \in {"execute", "resume"},
           status'[e] # "none", request'[e] # "pending", turn' # e,
           request'[e] # "none" => waiter'[e] = "resume"
    PROVE  Forward(e)'
<1>1. front'[e] = {n} /\ entry'[e] = n
  BY DEF Kickoff, TypeOK
<1>2. n \in Reach[n]
  BY ReachClosed, EdgeType DEF Reach
<1>3. NoneAhead(e, n)'
  BY DEF NoneAhead
<1> QED
  BY <1>1, <1>2, <1>3 DEF Forward

LEMMA RunNodeForward ==
    ASSUME BranchesApart, IInv, NEW e \in Execution, NEW n \in Node, RunNode(e, n), Forward(e)
    PROVE  Forward(e)'
<1>1. /\ UNCHANGED <<status, request, askedAt, turn, action, waiter, entry>>
      /\ n \in front[e] /\ result[e] = "none" /\ NoneAhead(e, n)
      /\ entry[e] \in Node /\ n \in Reach[entry[e]]
      /\ entry[e] \in ApprovalNode \cup Router => entry[e] \in ResumePoint
  BY DEF RunNode, row, Forward
<1>2. /\ status[e] # "none" /\ waiter[e] # "launch"
      /\ request[e] = "none" \/ waiter[e] = "resume"
  BY <1>1 DEF Forward
<1>3. request[e] # "pending" /\ turn # e /\ waiter[e] # "scheduled"
  <2>1. Consistent(e)
    BY DEF IInv
  <2>2. turn # e
    BY <1>2, <2>1 DEF Consistent, Audited, StatusFor, ActionType
  <2> QED
    BY <1>2, <2>1, <2>2 DEF Consistent
<1>4. CASE n # entry[e] /\ n \in ApprovalNode
  <2>1. runs' = runs /\ front'[e] = {n} /\ result'[e] # "none"
    BY <1>4 DEF RunNode, Kicked, IInv, TypeOK
  <2> QED
    BY <1>1, <1>2, <1>3, <2>1, ForwardKept
<1>5. CASE ~(n # entry[e] /\ n \in ApprovalNode)
  <2>1. PICK next \in Triggers(e, n) :
           /\ front' = [front EXCEPT ![e] = After(e, n, next)]
           /\ runs' = IF n # entry[e] /\ n \in Task THEN [runs EXCEPT ![e][n] = @ + 1] ELSE runs
    BY <1>5 DEF RunNode, Kicked
  <2>2. /\ n \in ApprovalNode => n \in ResumePoint
        /\ n \in Router => n \in Routers(e) \/ n \in ResumePoint
    BY <1>1, <1>5 DEF Routers
  <2>3. /\ next \subseteq Out(n)
        /\ \A m, k \in next : m # k => Reach[m] \cap Reach[k] \cap Task = {}
    BY <2>2, TriggersApart
  <2>4. front'[e] = (front[e] \ {n}) \cup next
    BY <2>1 DEF After, IInv, TypeOK
  <2>5. runs[e] \in [Task -> Nat] /\ runs \in [Execution -> [Task -> Nat]]
    BY DEF IInv, TypeOK
  <2>6. \A t \in Task : runs'[e][t] = runs[e][t] \/ (t = n /\ runs'[e][t] = runs[e][t] + 1)
    BY <2>1, <2>5
  <2>7. n \in Task => runs[e][n] = 0
    <3>1. n \in Reach[n]
      BY ReachClosed, EdgeType DEF Reach
    <3> QED
      BY <1>1, <2>5, <3>1 DEF NoneAhead
  <2>8. \A t \in Task : runs'[e][t] <= 1
    BY <2>6, <2>7 DEF Forward
  <2>9. ASSUME NEW m \in next
        PROVE  m \in Reach[entry[e]] /\ NoneAhead(e, m)' /\ Reach[m] \subseteq Reach[n]
    <3>1. <<n, m>> \in Edge /\ m \in Node
      BY <2>3, <2>9 DEF Out
    <3>2. m \in Reach[n] /\ n \notin Reach[m]
      <4>1. n \in Reach[n]
        BY ReachClosed, EdgeType DEF Reach
      <4> QED
        BY <3>1, <4>1, ReachStep, NoWayBack
    <3>3. Reach[m] \subseteq Reach[n] /\ m \in Reach[entry[e]]
      BY <1>1, <3>1, <3>2, ReachFromThere, ReachStep
    <3>4. ASSUME NEW t \in Task, runs'[e][t] > 0 PROVE t \notin Reach[m]
      BY <1>1, <2>6, <3>2, <3>3, <3>4 DEF NoneAhead
    <3> QED
      BY <3>3, <3>4 DEF NoneAhead
  <2>10. ASSUME NEW m \in front[e] \ {n} PROVE NoneAhead(e, m)'
    <3>1. Reach[n] \cap Reach[m] \cap Task = {} /\ NoneAhead(e, m)
      BY <1>1 DEF Forward
    <3>2. n \in Task => n \notin Reach[m]
      <4>1. n \in Reach[n]
        BY ReachClosed, EdgeType DEF Reach
      <4> QED
        BY <3>1, <4>1
    <3> QED
      BY <2>6, <3>1, <3>2 DEF NoneAhead
  <2>11. \A m, k \in front'[e] : m # k => Reach[m] \cap Reach[k] \cap Task = {}
    <3> SUFFICES ASSUME NEW m \in front'[e], NEW k \in front'[e], m # k
                 PROVE  Reach[m] \cap Reach[k] \cap Task = {}
      OBVIOUS
    <3>1. CASE m \in next /\ k \in next
      BY <2>3, <3>1
    <3>2. CASE m \in front[e] \ {n} /\ k \in front[e] \ {n}
      BY <3>2 DEF Forward
    <3>3. CASE m \in next /\ k \in front[e] \ {n}
      <4>1. Reach[n] \cap Reach[k] \cap Task = {}
        BY <1>1, <3>3 DEF Forward
      <4> QED
        BY <2>9, <3>3, <4>1
    <3>4. CASE k \in next /\ m \in front[e] \ {n}
      <4>1. Reach[n] \cap Reach[m] \cap Task = {}
        BY <1>1, <3>4 DEF Forward
      <4> QED
        BY <2>9, <3>4, <4>1
    <3> QED
      BY <2>4, <3>1, <3>2, <3>3, <3>4
  <2>12. \A m \in front'[e] : entry'[e] \in Node /\ m \in Reach[entry'[e]] /\ NoneAhead(e, m)'
    BY <1>1, <2>4, <2>9, <2>10 DEF Forward
  <2> QED
    BY <1>1, <1>2, <1>3, <2>8, <2>11, <2>12 DEF Forward
<1> QED
  BY <1>4, <1>5

LEMMA LaunchForward ==
    ASSUME IInv, NEW e \in Execution, Launch(e), Forward(e)
    PROVE  Forward(e)'
<1>1. /\ waiter[e] = "launch" /\ request[e] = "none" /\ turn # e /\ status[e] # "none"
      /\ waiter'[e] \in {"execute", "nobody"} /\ status'[e] # "none"
      /\ \A t \in Task : runs[e][t] = 0
  <2>1. Consistent(e) /\ TypeOK /\ waiter[e] = "launch"
    BY DEF IInv, Launch
  <2>2. request[e] = "none" /\ status[e] # "none" /\ turn # e
    BY <2>1 DEF Consistent, StatusFor, ActionType
  <2>3. waiter'[e] \in {"execute", "nobody"} /\ status'[e] # "none"
    BY <2>1, <2>2 DEF Launch, Await, SetStatus, TypeOK
  <2> QED
    BY <2>1, <2>2, <2>3 DEF Forward
<1>2. UNCHANGED <<request, askedAt, turn, runs>>
  BY DEF Launch
<1>3. CASE Kickoff(e, Start) /\ Await(e, "execute")
  <2>1. Start \in Node /\ Start \notin ApprovalNode \cup Router
    BY WorkflowAssumption DEF ApprovalNode
  <2>2. NoneAhead(e, Start)
    BY <1>1 DEF NoneAhead
  <2>3. waiter'[e] = "execute"
    BY <1>3 DEF Await, IInv, TypeOK
  <2> QED
    BY <1>1, <1>2, <1>3, <2>1, <2>2, <2>3, ForwardKickoff DEF IInv
<1>4. CASE UNCHANGED flow
  BY <1>1, <1>2, <1>4, ForwardKept DEF flow
<1> QED
  BY <1>3, <1>4 DEF Launch

LEMMA ResumeForward ==
    ASSUME IInv, NEW e \in Execution, Resume(e), Forward(e)
    PROVE  Forward(e)'
<1> DEFINE a == askedAt[e]  n == Downstream(action[e], a)
<1>1. /\ waiter[e] = "scheduled" /\ request[e] \notin {"none", "pending"} /\ turn # e
      /\ status[e] # "none" /\ a \in ApprovalNode
      /\ waiter'[e] \in {"resume", "nobody"} /\ status'[e] # "none"
  <2>1. Consistent(e) /\ TypeOK /\ waiter[e] = "scheduled"
    BY DEF IInv, Resume
  <2>2. request[e] \notin {"none", "pending"} /\ status[e] # "none" /\ a \in ApprovalNode
    BY <2>1 DEF Consistent
  <2>3. turn # e
    BY <2>1 DEF Consistent, Audited
  <2>4. waiter'[e] \in {"resume", "nobody"} /\ status'[e] # "none"
    BY <2>1, <2>2 DEF Resume, Await, SetStatus, TypeOK
  <2> QED
    BY <2>1, <2>2, <2>3, <2>4
<1>2. UNCHANGED <<request, askedAt, turn, runs>>
  BY DEF Resume
<1>3. CASE Kickoff(e, n) /\ Await(e, "resume")
  <2>1. n \in Node /\ n \in ResumePoint
    BY <1>1, DownstreamNode DEF ResumePoint, Downstream
  <2>2. <<a, n>> \in Edge /\ a \in Node
    BY <1>1, DecisionEdges DEF Downstream
  <2>3. n \in Reach[a]
    BY <2>2, ReachClosed, ReachStep, EdgeType DEF Reach
  <2>4. NoneAhead(e, a)
    BY <1>1 DEF Forward
  <2>5. NoneAhead(e, n)
    BY <2>2, <2>3, <2>4, ReachFromThere DEF NoneAhead
  <2>6. waiter'[e] = "resume"
    BY <1>3 DEF Await, IInv, TypeOK
  <2> QED
    BY <1>1, <1>2, <1>3, <2>1, <2>5, <2>6, ForwardKickoff DEF IInv
<1>4. CASE UNCHANGED flow /\ Await(e, "nobody")
  <2>1. front[e] = {} \/ result[e] # "none"
    BY <1>1 DEF Forward
  <2>2. waiter'[e] = "nobody"
    BY <1>4 DEF Await, IInv, TypeOK
  <2> QED
    BY <1>1, <1>2, <1>4, <2>1, <2>2, ForwardKept DEF flow
<1> QED
  BY <1>3, <1>4 DEF Resume

LEMMA ExecuteReturnsForward ==
    ASSUME IInv, NEW e \in Execution, ExecuteReturns(e), Forward(e)
    PROVE  Forward(e)'
<1>1. /\ waiter[e] = "execute" /\ request[e] = "none" /\ turn # e /\ status[e] # "none"
      /\ waiter'[e] = "nobody" /\ status'[e] # "none" /\ result[e] # "none"
  <2>1. Consistent(e) /\ TypeOK /\ waiter[e] = "execute" /\ result[e] # "none"
    BY DEF IInv, ExecuteReturns
  <2>2. request[e] = "none" /\ status[e] # "none" /\ turn # e
    BY <2>1 DEF Consistent, StatusFor, ActionType
  <2>3. waiter'[e] = "nobody" /\ status'[e] # "none"
    BY <2>1, <2>2 DEF ExecuteReturns, CreateRequest, Await, SetStatus, TypeOK
  <2> QED
    BY <2>1, <2>2, <2>3
<1>2. UNCHANGED <<runs, front, entry, result, turn>>
  BY DEF ExecuteReturns, flow
<1>3. CASE UNCHANGED <<request, askedAt>>
  BY <1>1, <1>2, <1>3, ForwardKept
<1>4. CASE \E n \in front[e] : CreateRequest(e, n)
  <2>1. PICK n \in front[e] : CreateRequest(e, n)
    BY <1>4
  <2>2. askedAt'[e] = n
    BY <2>1 DEF CreateRequest, IInv, TypeOK
  <2>3. NoneAhead(e, n)
    BY <2>1 DEF Forward
  <2>4. \A m : NoneAhead(e, m)' <=> NoneAhead(e, m)
    BY <1>2 DEF NoneAhead
  <2>5. NoneAhead(e, askedAt[e])'
    BY <1>2, <2>2, <2>3 DEF NoneAhead
  <2> QED
    BY <1>1, <1>2, <2>4, <2>5 DEF Forward
<1> QED
  BY <1>3, <1>4 DEF ExecuteReturns

LEMMA StepForward ==
    ASSUME BranchesApart, IInv, [Next]_vars, NEW x \in Execution, Forward(x)
    PROVE  Forward(x)'
<1>0. TypeOK /\ Consistent(x)
  BY DEF IInv
<1>00. request[x] # "none" /\ waiter[x] # "resume" => front[x] = {} \/ result[x] # "none"
  BY DEF Forward
<1> USE DEF TypeOK
<1>1. CASE UNCHANGED vars
  BY <1>1, ForwardElsewhere DEF vars, row, flow
<1>2. ASSUME NEW e \in Execution, Execute(e) PROVE Forward(x)'
  <2>1. CASE x # e
    BY <1>0, <1>2, <2>1, ForwardElsewhere DEF Execute, SetStatus, Await, flow
  <2>2. CASE x = e
    <3>1. status[x] = "none" /\ waiter'[x] = "launch" /\ request[x] = "none"
      BY <1>0, <1>2, <2>2 DEF Execute, Await, Consistent
    <3> QED
      BY <1>2, <3>1, ForwardKept DEF Execute, flow
  <2> QED
    BY <2>1, <2>2
<1>3. ASSUME NEW e \in Execution, Launch(e) PROVE Forward(x)'
  <2>1. CASE x = e
    BY <1>3, <2>1, LaunchForward
  <2>2. CASE x # e
    BY <1>0, <1>3, <2>2, ForwardElsewhere DEF Launch, Kickoff, SetStatus, Await, flow
  <2> QED
    BY <2>1, <2>2
<1>4. ASSUME NEW e \in Execution, Disconnect(e) PROVE Forward(x)'
  <2>1. CASE x # e
    BY <1>0, <1>4, <2>1, ForwardElsewhere DEF Disconnect, Await, row, flow
  <2>2. CASE x = e
    <3>1. waiter[x] \in {"launch", "execute"} /\ waiter'[x] = "nobody" /\ request[x] = "none"
      BY <1>0, <1>4, <2>2 DEF Disconnect, Await, Consistent
    <3> QED
      BY <1>4, <3>1, ForwardKept DEF Disconnect, row, flow
  <2> QED
    BY <2>1, <2>2
<1>5. ASSUME NEW e \in Execution, NEW n \in Node, RunNode(e, n) PROVE Forward(x)'
  <2>1. CASE x = e
    BY <1>5, <2>1, RunNodeForward
  <2>2. CASE x # e
    <3>1. front'[x] = front[x] /\ runs'[x] = runs[x] /\ result'[x] = result[x]
      BY <1>0, <1>5, <2>2 DEF RunNode, Kicked
    <3> QED
      BY <1>5, <3>1, ForwardElsewhere DEF RunNode, row
  <2> QED
    BY <2>1, <2>2
<1>6. ASSUME NEW e \in Execution, Break(e) PROVE Forward(x)'
  <2>1. CASE x # e
    BY <1>0, <1>6, <2>1, ForwardElsewhere DEF Break, Kicked, row
  <2>2. CASE x = e
    <3>1. front'[x] = {}
      BY <1>0, <1>6, <2>2 DEF Break, Kicked
    <3> QED
      BY <1>6, <3>1, ForwardKept DEF Break, row
  <2> QED
    BY <2>1, <2>2
<1>7. ASSUME NEW e \in Execution, ExecuteReturns(e) PROVE Forward(x)'
  <2>1. CASE x = e
    BY <1>7, <2>1, ExecuteReturnsForward
  <2>2. CASE x # e
    <3>1. /\ request'[x] = request[x] /\ askedAt'[x] = askedAt[x] /\ waiter'[x] = waiter[x]
          /\ status'[x] = status[x]
      BY <1>0, <1>7, <2>2 DEF ExecuteReturns, CreateRequest, SetStatus, Await
    <3> QED
      BY <1>7, <3>1, ForwardElsewhere DEF ExecuteReturns, flow
  <2> QED
    BY <2>1, <2>2
<1>8. ASSUME NEW e \in Execution, NEW a \in ActionType, Resolve(e, a) PROVE Forward(x)'
  <2>1. CASE x # e
    BY <1>0, <1>8, <2>1, ForwardElsewhere DEF Resolve, flow
  <2>2. CASE x = e
    <3>1. request[x] = "pending" /\ waiter' = waiter /\ waiter[x] \notin {"scheduled", "resume"}
      BY <1>0, <1>8, <2>2 DEF Resolve, StillPending, Consistent
    <3> QED
      BY <1>00, <1>8, <3>1, ForwardKept DEF Resolve, flow
  <2> QED
    BY <2>1, <2>2
<1>9. ASSUME NEW e \in Execution, Record(e) PROVE Forward(x)'
  <2>1. CASE x # e
    <3>1. waiter'[x] = waiter[x] /\ turn' # x
      BY <1>0, <1>9, <2>1, WorkflowAssumption DEF Record, Await, OnAuditError
    <3> QED
      BY <1>9, <3>1, ForwardElsewhere DEF Record, flow
  <2>2. CASE x = e
    <3>1. /\ turn = x /\ turn' # x /\ request[x] # "none" /\ waiter[x] \notin {"scheduled", "resume"}
      BY <1>0, <1>9, <2>2, WorkflowAssumption
         DEF Record, Consistent, Audited, StatusFor, ActionType
    <3>2. waiter'[x] \in {"scheduled", waiter[x]}
      BY <1>0, <1>9, <2>2 DEF Record, Await, OnAuditError
    <3> QED
      BY <1>00, <1>9, <3>1, <3>2, ForwardKept DEF Record, flow
  <2> QED
    BY <2>1, <2>2
<1>10. ASSUME NEW e \in Execution, Resume(e) PROVE Forward(x)'
  <2>1. CASE x = e
    BY <1>10, <2>1, ResumeForward
  <2>2. CASE x # e
    <3>1. /\ front'[x] = front[x] /\ entry'[x] = entry[x] /\ waiter'[x] = waiter[x]
          /\ status'[x] = status[x] /\ result'[x] = result[x]
      BY <1>0, <1>10, <2>2 DEF Resume, Kickoff, Await, SetStatus, flow
    <3> QED
      BY <1>10, <3>1, ForwardElsewhere DEF Resume
  <2> QED
    BY <2>1, <2>2
<1>11. ASSUME NEW e \in Execution, ResumeReturns(e) PROVE Forward(x)'
  <2>1. CASE x # e
    <3>1. waiter'[x] = waiter[x] /\ status'[x] = status[x]
      BY <1>0, <1>11, <2>1 DEF ResumeReturns, OnNestedPause, SetStatus, Await
    <3> QED
      BY <1>11, <3>1, ForwardElsewhere DEF ResumeReturns, flow
  <2>2. CASE x = e
    <3>1. waiter'[x] = "nobody" /\ result[x] # "none"
      BY <1>0, <1>11, <2>2 DEF ResumeReturns, OnNestedPause, Await
    <3>2. status'[x] = "none" => status[x] = "none"
      BY <1>0, <1>11, <2>2 DEF ResumeReturns, SetStatus
    <3> QED
      BY <1>11, <3>1, <3>2, ForwardKept DEF ResumeReturns, flow
  <2> QED
    BY <2>1, <2>2
<1>12. ASSUME NEW e \in Execution, Expire(e) PROVE Forward(x)'
  BY <1>12, ForwardElsewhere DEF Expire, flow
<1>13. CASE Scan
  <2>1. request'[x] = request[x] \/ (request[x] = "pending" /\ request'[x] = "timed_out")
    BY <1>13 DEF Scan
  <2> QED
    BY <1>00, <1>13, <2>1, ForwardKept DEF Scan, flow
<1>14. CASE Restart
  <2>1. front'[x] = {} /\ entry'[x] = NoNode /\ turn' # x /\ waiter'[x] = "nobody"
    BY <1>14, WorkflowAssumption DEF Restart
  <2> QED
    BY <1>14, <2>1, ForwardKept DEF Restart, row
<1> QED
  BY <1>1, <1>2, <1>3, <1>4, <1>5, <1>6, <1>7, <1>8, <1>9, <1>10, <1>11, <1>12, <1>13, <1>14
     DEF Next

\* No task of an execution runs twice, however often its flow is cut into
\* pieces, resumed or lost to a restart, in every workflow whose branches have no
\* task in common where they run side by side; its decisions may lead anywhere,
\* to a router or to a second approval too (approval.py, executor.py).
THEOREM TasksRunOnce ==
    ASSUME BranchesApart PROVE Spec => []RunsOnce
<1> DEFINE F == \A x \in Execution : Forward(x)
<1>1. Init => F
  <2> SUFFICES ASSUME Init, NEW x \in Execution PROVE Forward(x)
    OBVIOUS
  <2>1. NoNode \notin ApprovalNode \cup Router
    BY WorkflowAssumption, ApprovalNodes
  <2> QED
    BY <2>1, WorkflowAssumption DEF Init, Forward
<1>2. IInv /\ F /\ [Next]_vars => F'
  BY StepForward
<1>3. F => RunsOnce
  BY DEF Forward, RunsOnce
<1> QED
  BY <1>1, <1>2, <1>3, Inductive, PTL DEF Spec

-----------------------------------------------------------------------------
(***************************************************************************)
(* A conversation.  The inductive invariant is about the undisturbed one:  *)
(* there every request but the last is at its end and owns nothing, and    *)
(* what the last one owns, the shared event, the hook and what is pending  *)
(* follow from its place.                                                  *)
(***************************************************************************)
\* A request that has no orchestration and executes no action.
OwnsNothing(r) ==
    /\ holds[r] = None /\ run[r] = "none"
    /\ fix[r] = None /\ fixing[r] = "none" /\ saved[r] = None

Aside(r) == place[r] \in {"away", "done"}

\* The event is the orchestration's own from its dispatch to its return.
EventIsOwn(r) ==
    /\ place[r] = "suggesting" \/ run[r] \in Live => holds[r] = r /\ registered = r
    /\ place[r] = "streaming" => run[r] \in Live \cup Outcome
    /\ place[r] # "streaming" => run[r] = "none"
    /\ place[r] # "suggesting" /\ run[r] \notin Live => holds[r] = None /\ registered = None

\* The action that is executed is the pending one, and it has the hook.
FixIsPending(r) ==
    IF place[r] = "executing"
    THEN /\ pending # None /\ fix[r] = pending /\ fixing[r] # "none"
         /\ saved[r] = None /\ emitter = r
    ELSE /\ fix[r] = None /\ fixing[r] = "none"
         /\ saved[r] = None /\ emitter = None

\* What the user may be about to answer.
AnswersTo(r) ==
    /\ pending # None => question = None
    /\ place[r] \in {"dispatching", "suggesting", "streaming"} => pending = None
    /\ place[r] \in {"dispatching", "suggesting"} => question = None
    /\ place[r] = "streaming" => question = (IF run[r] = "clarify" THEN r ELSE None)
    /\ place[r] = "asked" /\ pending # None =>
          place[pending.by] = "done" /\ pending.by \notin fixed
    /\ place[r] = "done" =>
          question \in {None, r} /\ (pending # None => pending.by = r)

InTurn ==
    /\ set \subseteq asked
    /\ last \notin fixed
    /\ \A r \in fixed : place[r] = "done"
    /\ \A r \in Request \ {last} : Aside(r) /\ OwnsNothing(r)
    /\ IF last = None
       THEN /\ registered = None /\ emitter = None /\ pending = None /\ question = None
            /\ \A r \in Request : place[r] = "away"
       ELSE /\ place[last] \in Busy \cup {"done"}
            /\ EventIsOwn(last) /\ FixIsPending(last) /\ AnswersTo(last)

ConversationInv == ConversationTypeOK /\ (~disturbed => InTurn)

-----------------------------------------------------------------------------
LEMMA NoneIsNoRequest == None \notin Request
  BY ConversationAssumption DEF Request

\* Typing.
LEMMA StreamType ==
    ASSUME ConversationTypeOK, NEW r \in Request
    PROVE  /\ \A to \in Busy \cup {"away", "done", "left"} :
                 Goes(r, to) => place' \in [Request -> Busy \cup {"away", "done", "left"}]
           /\ Finish(r) => /\ place' \in [Request -> Busy \cup {"away", "done", "left"}]
                           /\ stream' \in Request \cup {None}
  BY DEF Goes, Finish, Unstream, ConversationTypeOK

LEMMA EndsType ==
    ASSUME ConversationTypeOK, NEW r \in Request, NEW o \in Outcome, Ends(r, o)
    PROVE  /\ run' \in [Request -> Live \cup Outcome \cup {"none"}]
           /\ holds' \in [Request -> Request \cup {None}]
           /\ question' \in Request \cup {None} /\ registered' = None
  BY DEF Ends, Returns, ConversationTypeOK

LEMMA RouteType ==
    ASSUME ConversationTypeOK, NEW r \in Request, Route(r)
    PROVE  ConversationTypeOK'
<1> USE StreamType DEF ConversationTypeOK, Busy
<1>0. UNCHANGED <<registered, set, holds, run, last, asked, disturbed>>
  BY DEF Route, orchestration, history
<1>1. CASE Approve(r)
  <2>1. pending \in Escalation /\ pending.by \in Request
    BY <1>1 DEF Approve, Escalation
  <2>2. fix' \in [Request -> Escalation \cup {None}]
    BY <1>1, <2>1 DEF Approve
  <2>3. saved' \in [Request -> Request \cup {None}]
    BY <1>1 DEF Approve
  <2> QED
    BY <1>0, <1>1, <2>1, <2>2, <2>3 DEF Approve
<1>2. CASE Reject(r)
  BY <1>0, <1>2 DEF Reject, approval
<1>3. CASE Refine(r)
  <2>1. pending \in Escalation
    BY <1>3 DEF Refine
  <2>2. pending.turns + 1 \in 0 .. MaxRefinements
    BY <1>3, <2>1, ConversationAssumption DEF Refine, Refinable, Escalation
  <2>3. pending' \in Escalation
    BY <1>3, <2>2 DEF Refine, Escalation, Kind
  <2> QED
    BY <1>0, <1>3, <2>3 DEF Refine, approval
<1>4. CASE Pass(r)
  BY <1>0, <1>4 DEF Pass, approval
<1> QED
  BY <1>1, <1>2, <1>3, <1>4 DEF Route

LEMMA StreamsType ==
    ASSUME ConversationTypeOK, NEW r \in Request, Streams(r)
    PROVE  ConversationTypeOK'
<1> USE StreamType DEF ConversationTypeOK, Busy
<1>1. CASE Direct(r)
  BY <1>1 DEF Direct, orchestration, approval, history
<1>2. CASE Dispatch(r)
  <2>1. EventFor(r) \in Request
    BY DEF EventFor
  <2> QED
    BY <1>2, <2>1 DEF Dispatch, approval, history
<1>3. CASE LaunchRun(r)
  BY <1>3 DEF LaunchRun, registries, approval, history, Live
<1>4. CASE Collect(r)
  <2>1. pending' \in Escalation \cup {None}
    BY <1>4, ConversationAssumption DEF Collect, Escalation
  <2>2. run' \in [Request -> Live \cup Outcome \cup {"none"}]
    BY <1>4 DEF Collect
  <2> QED
    BY <1>4, <2>1, <2>2 DEF Collect, approval, history
<1>5. CASE AfterFix(r)
  <2>1. emitter' \in Request \cup {None} /\ pending' = None
    BY <1>5 DEF AfterFix, Unbridged, Cleared
  <2>2. /\ place' \in [Request -> Busy \cup {"away", "done", "left"}]
        /\ stream' \in Request \cup {None}
    BY <1>5 DEF AfterFix
  <2> QED
    BY <1>5, <2>1, <2>2 DEF AfterFix, orchestration, history
<1> QED
  BY <1>1, <1>2, <1>3, <1>4, <1>5, RouteType DEF Streams

LEMMA ConversationStepType ==
    ASSUME ConversationTypeOK, ConversationNext
    PROVE  ConversationTypeOK'
<1> USE DEF ConversationTypeOK
<1>1. ASSUME NEW r \in Request, Ask(r) PROVE ConversationTypeOK'
  BY <1>1, StreamType DEF Ask, orchestration, approval, Busy
<1>2. ASSUME NEW r \in Request, Orchestrates(r) PROVE ConversationTypeOK'
  <2>1. CASE Stops(r)
    BY <2>1, EndsType DEF Stops, Outcome, approval, history
  <2>2. CASE Thinks(r) \/ Iterates(r)
    BY <2>2 DEF Thinks, Iterates, Live, registries, approval, history
  <2>3. CASE \E o \in Outcome : Concludes(r, o)
    BY <2>3, EndsType DEF Concludes, approval, history
  <2> QED
    BY <1>2, <2>1, <2>2, <2>3 DEF Orchestrates
<1>3. ASSUME NEW r \in Request, Executes(r) PROVE ConversationTypeOK'
  BY <1>3 DEF Executes, FixEnds, registries, orchestration, history
<1>4. ASSUME NEW r \in Request, Leave(r) PROVE ConversationTypeOK'
  <2>1. /\ place' \in [Request -> Busy \cup {"away", "done", "left"}]
        /\ stream' \in Request \cup {None}
    BY <1>4 DEF Leave, Goes, Unstream
  <2>2. /\ holds' \in [Request -> Request \cup {None}]
        /\ run' \in [Request -> Live \cup Outcome \cup {"none"}]
    BY <1>4 DEF Leave
  <2>3. /\ fix' \in [Request -> Escalation \cup {None}]
        /\ fixing' \in [Request -> {"none", "running", "worked", "failed"}]
        /\ saved' \in [Request -> Request \cup {None}]
    BY <1>4 DEF Leave
  <2> QED
    BY <1>4, <2>1, <2>2, <2>3 DEF Leave
<1>5. CASE Cancel
  BY <1>5 DEF Cancel, orchestration, approval
<1> QED
  BY <1>1, <1>2, <1>3, <1>4, <1>5, StreamsType DEF ConversationNext

-----------------------------------------------------------------------------
\* Whoever does something in an undisturbed conversation is the last.
LEMMA ActiveIsLast ==
    ASSUME InTurn, NEW r \in Request,
           ~Aside(r) \/ run[r] # "none" \/ fixing[r] # "none"
    PROVE  r = last
  BY DEF InTurn, OwnsNothing

\* It is enough to look at the last request.
LEMMA TurnKept ==
    ASSUME ConversationTypeOK, InTurn, NEW r \in Request, r = last, last' = last,
           \A s \in Request \ {r} :
               /\ place'[s] = place[s] /\ holds'[s] = holds[s] /\ run'[s] = run[s]
               /\ fix'[s] = fix[s] /\ fixing'[s] = fixing[s] /\ saved'[s] = saved[s],
           set' \subseteq asked', fixed' \subseteq Request,
           \A s \in fixed' \ fixed : place[s] = "done" /\ s # r,
           place'[r] \in Busy \cup {"done"},
           EventIsOwn(r)', FixIsPending(r)', AnswersTo(r)'
    PROVE  InTurn'
<1>1. last' # None
  BY NoneIsNoRequest
<1>2. \A s \in Request \ {r} : Aside(s)' /\ OwnsNothing(s)'
  BY DEF InTurn, Aside, OwnsNothing
<1>3. \A s \in fixed' : place'[s] = "done" /\ s # r
  BY DEF InTurn
<1> QED
  BY <1>1, <1>2, <1>3 DEF InTurn

\* What the last request may find when it acts.
LEMMA LastOwns ==
    ASSUME InTurn, NEW r \in Request, r = last
    PROVE  /\ EventIsOwn(r) /\ FixIsPending(r) /\ AnswersTo(r)
           /\ set \subseteq asked /\ r \notin fixed
           /\ \A s \in fixed : place[s] = "done"
  BY NoneIsNoRequest DEF InTurn

LEMMA AskTurn ==
    ASSUME ConversationInv, NEW r \in Request, Ask(r), ~disturbed'
    PROVE  InTurn'
<1>1. ConversationTypeOK /\ InTurn /\ \A s \in Request : ~InProgress(s)
  BY DEF Ask, ConversationInv
<1>2. /\ last' = r /\ place'[r] = "asked" /\ r # None /\ place[r] = "away"
      /\ \A s \in Request \ {r} : place'[s] = place[s]
  BY <1>1, NoneIsNoRequest DEF Ask, Goes, ConversationTypeOK
<1>3. \A s \in Request : place[s] \notin Busy /\ run[s] \notin Live /\ fixing[s] # "running"
  BY <1>1 DEF InProgress
<1>4. last # None => last \in Request /\ place[last] = "done"
  BY <1>1, <1>3 DEF InTurn, ConversationTypeOK
<1>5. last # None => EventIsOwn(last) /\ FixIsPending(last) /\ AnswersTo(last)
  BY <1>1 DEF InTurn
<1>6. last # None => OwnsNothing(last)
  <2> SUFFICES ASSUME last # None PROVE OwnsNothing(last)
    OBVIOUS
  <2>1. EventIsOwn(last) /\ FixIsPending(last) /\ place[last] = "done"
    BY <1>4, <1>5
  <2>2. run[last] = "none" /\ holds[last] = None
    BY <2>1 DEF EventIsOwn, Live
  <2>3. fix[last] = None /\ fixing[last] = "none" /\ saved[last] = None
    BY <2>1 DEF FixIsPending
  <2> QED
    BY <2>2, <2>3 DEF OwnsNothing
<1>7. \A s \in Request : Aside(s) /\ OwnsNothing(s)
  BY <1>1, <1>4, <1>6, NoneIsNoRequest DEF InTurn, Aside
<1>8. registered = None /\ emitter = None
  BY <1>1, <1>3, <1>4, <1>5 DEF InTurn, EventIsOwn, FixIsPending
<1>9. /\ pending # None => question = None
      /\ pending # None => place[pending.by] = "done" /\ pending.by \notin fixed
  BY <1>1, <1>4, <1>5 DEF InTurn, AnswersTo
<1>10. EventIsOwn(r)' /\ FixIsPending(r)'
  BY <1>2, <1>7, <1>8
     DEF Ask, orchestration, approval, EventIsOwn, FixIsPending, OwnsNothing, Live
<1>11. AnswersTo(r)'
  <2>1. pending' = pending /\ question' = question /\ fixed' = fixed
    BY DEF Ask, approval
  <2>2. pending # None => place'[pending.by] = "done"
    <3>1. pending # None => pending.by \in Request
      BY <1>1 DEF ConversationTypeOK, Escalation
    <3> QED
      BY <1>2, <1>9, <3>1
  <2> QED
    BY <1>2, <1>9, <2>1, <2>2 DEF AnswersTo
<1>12. \A s \in Request \ {r} : Aside(s)' /\ OwnsNothing(s)'
  BY <1>2, <1>7 DEF Ask, orchestration, approval, Aside, OwnsNothing
<1>13. set' \subseteq asked' /\ r \notin fixed' /\ \A s \in fixed' : place'[s] = "done"
  BY <1>1, <1>2 DEF Ask, approval, InTurn, ConversationTypeOK
<1> QED
  BY <1>2, <1>10, <1>11, <1>12, <1>13 DEF InTurn, Busy

LEMMA RouteTurn ==
    ASSUME ConversationTypeOK, InTurn, NEW r \in Request, Route(r)
    PROVE  InTurn'
<1>1. r = last /\ place[r] = "asked"
  BY ActiveIsLast DEF Route, Aside
<1>2. /\ EventIsOwn(r) /\ FixIsPending(r) /\ AnswersTo(r) /\ set \subseteq asked
      /\ run[r] = "none" /\ holds[r] = None /\ registered = None
  BY <1>1, LastOwns DEF EventIsOwn, Live
<1>3. UNCHANGED <<registered, set, holds, run, last, asked>>
  BY DEF Route, orchestration, history
<1> DEFINE Same(s) == /\ place'[s] = place[s] /\ fix'[s] = fix[s]
                      /\ fixing'[s] = fixing[s] /\ saved'[s] = saved[s]
<1>4. CASE Approve(r)
  <2>1. /\ place'[r] = "executing" /\ fix'[r] = pending /\ fixing'[r] = "running"
        /\ saved'[r] = emitter /\ emitter' = r /\ pending' = pending /\ pending # None
        /\ question' = question
        /\ \A s \in Request \ {r} : Same(s)
    BY <1>4 DEF Approve, Goes, ConversationTypeOK
  <2>2. pending.by \in Request /\ place[pending.by] = "done" /\ question = None
    BY <1>1, <1>2, <2>1 DEF AnswersTo, ConversationTypeOK, Escalation
  <2>3. EventIsOwn(r)' /\ FixIsPending(r)' /\ AnswersTo(r)'
    BY <1>1, <1>2, <1>3, <2>1, <2>2 DEF EventIsOwn, FixIsPending, AnswersTo, Live
  <2>4. fixed' = fixed \cup {pending.by}
    BY <1>4 DEF Approve
  <2>5. fixed' \subseteq Request /\ \A s \in fixed' \ fixed : place[s] = "done" /\ s # r
    BY <1>1, <2>2, <2>4 DEF ConversationTypeOK
  <2> QED
    BY <1>1, <1>2, <1>3, <2>1, <2>3, <2>5, TurnKept DEF Busy
<1>5. ASSUME UNCHANGED <<emitter, approval>>, NEW to \in {"done", "dispatching"},
             place'[r] = to, \A s \in Request \ {r} : place'[s] = place[s],
             AnswersTo(r)'
      PROVE  InTurn'
  <2>1. EventIsOwn(r)' /\ FixIsPending(r)'
    BY <1>1, <1>2, <1>3, <1>5 DEF approval, EventIsOwn, FixIsPending, Live
  <2> QED
    BY <1>1, <1>2, <1>3, <1>5, <2>1, TurnKept DEF approval, Busy, ConversationTypeOK
<1>6. CASE Reject(r)
  <2>1. /\ place'[r] = "done" /\ \A s \in Request \ {r} : place'[s] = place[s]
        /\ pending # None /\ pending' = None /\ question' = question
    BY <1>6 DEF Reject, Finish, Goes, ConversationTypeOK
  <2> QED
    BY <1>2, <1>5, <1>6, <2>1 DEF Reject, AnswersTo
<1>7. CASE Refine(r)
  <2>1. /\ place'[r] = "done" /\ \A s \in Request \ {r} : place'[s] = place[s]
        /\ pending # None /\ pending'.by = r /\ question' = question
    BY <1>7 DEF Refine, Finish, Goes, ConversationTypeOK
  <2> QED
    BY <1>2, <1>5, <1>7, <2>1 DEF Refine, AnswersTo
<1>8. CASE Pass(r)
  <2>1. /\ place'[r] = "dispatching" /\ \A s \in Request \ {r} : place'[s] = place[s]
        /\ pending' = None /\ question' = None
    BY <1>8 DEF Pass, Goes, ConversationTypeOK
  <2> QED
    BY <1>2, <1>5, <1>8, <2>1 DEF Pass, AnswersTo
<1> QED
  BY <1>4, <1>6, <1>7, <1>8 DEF Route

\* A step of the stream after its dispatch, with nothing to execute.
LEMMA StreamTurn ==
    ASSUME ConversationTypeOK, InTurn, NEW r \in Request, r = last,
           place[r] # "executing", place'[r] \in Busy \cup {"done"}, place'[r] # "executing",
           \A s \in Request \ {r} :
               place'[s] = place[s] /\ holds'[s] = holds[s] /\ run'[s] = run[s],
           set' \subseteq asked', UNCHANGED <<emitter, approval, last>>,
           EventIsOwn(r)', AnswersTo(r)'
    PROVE  InTurn'
<1>1. FixIsPending(r)'
  BY LastOwns DEF approval, FixIsPending
<1> QED
  BY <1>1, TurnKept DEF approval, ConversationTypeOK

LEMMA StreamsTurn ==
    ASSUME ConversationTypeOK, InTurn, NEW r \in Request, Streams(r)
    PROVE  InTurn'
<1>1. r = last
  BY ActiveIsLast
     DEF Streams, Route, Direct, Dispatch, LaunchRun, Collect, Collectable, AfterFix, Aside
<1>2. EventIsOwn(r) /\ FixIsPending(r) /\ AnswersTo(r) /\ set \subseteq asked
  BY <1>1, LastOwns
<1>3. CASE Direct(r)
  <2>1. /\ place[r] = "dispatching" /\ place'[r] = "done"
        /\ \A s \in Request \ {r} : place'[s] = place[s]
    BY <1>3 DEF Direct, Finish, Goes, ConversationTypeOK
  <2>2. EventIsOwn(r)' /\ AnswersTo(r)'
    BY <1>2, <1>3, <2>1 DEF Direct, orchestration, EventIsOwn, AnswersTo, Live
  <2> QED
    BY <1>1, <1>2, <1>3, <2>1, <2>2, StreamTurn DEF Direct, orchestration, history
<1>4. CASE Dispatch(r)
  <2>1. /\ place[r] = "dispatching" /\ place'[r] = "suggesting"
        /\ \A s \in Request \ {r} : place'[s] = place[s]
    BY <1>4 DEF Dispatch, Goes, ConversationTypeOK
  <2>2. registered = None /\ run[r] = "none"
    BY <1>2, <2>1 DEF EventIsOwn, Live
  <2>3. /\ registered' = r /\ holds'[r] = r /\ run' = run
        /\ \A s \in Request \ {r} : holds'[s] = holds[s]
    BY <1>4, <2>2 DEF Dispatch, EventFor, ConversationTypeOK
  <2>4. EventIsOwn(r)' /\ AnswersTo(r)'
    BY <1>2, <1>4, <2>1, <2>2, <2>3 DEF Dispatch, EventIsOwn, AnswersTo, Live
  <2> QED
    BY <1>1, <1>2, <1>4, <2>1, <2>3, <2>4, StreamTurn DEF Dispatch, history, Busy
<1>5. CASE LaunchRun(r)
  <2>1. /\ place[r] = "suggesting" /\ place'[r] = "streaming" /\ run'[r] = "top"
        /\ \A s \in Request \ {r} : place'[s] = place[s] /\ run'[s] = run[s]
    BY <1>5 DEF LaunchRun, Goes, ConversationTypeOK
  <2>2. EventIsOwn(r)' /\ AnswersTo(r)'
    BY <1>2, <1>5, <2>1 DEF LaunchRun, registries, approval, EventIsOwn, AnswersTo, Live
  <2> QED
    BY <1>1, <1>2, <1>5, <2>1, <2>2, StreamTurn DEF LaunchRun, registries, history, Busy
<1>6. CASE Collect(r)
  <2>1. /\ place[r] = "streaming" /\ place'[r] = "done" /\ run'[r] = "none" /\ run[r] \in Outcome
        /\ \A s \in Request \ {r} : place'[s] = place[s] /\ run'[s] = run[s]
    BY <1>6 DEF Collect, Collectable, Finish, Goes, ConversationTypeOK
  <2>2. run[r] \notin Live /\ (run[r] \in Kind => run[r] # "clarify")
    BY <2>1 DEF Outcome, Live, Kind
  <2>3. EventIsOwn(r)'
    BY <1>2, <1>6, <2>1, <2>2 DEF Collect, EventIsOwn, Live
  <2>4. pending' = IF run[r] \in Kind THEN [by |-> r, kind |-> run[r], turns |-> 0] ELSE None
    BY <1>2, <1>6, <2>1 DEF Collect, AnswersTo
  <2>5. /\ pending' # None => question' = None
        /\ question' \in {None, r} /\ (pending' # None => pending'.by = r)
    BY <1>2, <1>6, <2>1, <2>2, <2>4 DEF Collect, AnswersTo
  <2>6. AnswersTo(r)'
    BY <2>1, <2>5 DEF AnswersTo
  <2> QED
    BY <1>1, <1>2, <1>6, <2>1, <2>3, <2>6, StreamTurn DEF Collect, history
<1>7. CASE AfterFix(r)
  <2>1. /\ place[r] = "executing" /\ place'[r] \in {"done", "dispatching"}
        /\ fix'[r] = None /\ fixing'[r] = "none" /\ saved'[r] = None
        /\ \A s \in Request \ {r} : /\ place'[s] = place[s] /\ fix'[s] = fix[s]
                                    /\ fixing'[s] = fixing[s] /\ saved'[s] = saved[s]
    BY <1>7 DEF AfterFix, Finish, Goes, ConversationTypeOK
  <2>2. pending' = None /\ emitter' = None /\ question' = None
    BY <1>2, <1>7, <2>1 DEF AfterFix, Cleared, Unbridged, FixIsPending, AnswersTo
  <2>3. EventIsOwn(r)' /\ FixIsPending(r)' /\ AnswersTo(r)'
    BY <1>2, <1>7, <2>1, <2>2
       DEF AfterFix, orchestration, EventIsOwn, FixIsPending, AnswersTo, Live
  <2>4. fixed' = fixed /\ fixed \subseteq Request
    BY <1>7 DEF AfterFix, ConversationTypeOK
  <2> QED
    BY <1>1, <1>2, <1>7, <2>1, <2>3, <2>4, TurnKept
       DEF AfterFix, orchestration, history, Busy
<1> QED
  BY <1>3, <1>4, <1>5, <1>6, <1>7, RouteTurn DEF Streams

LEMMA EndsTurn ==
    ASSUME ConversationTypeOK, InTurn, NEW r \in Request, NEW o \in Outcome, Ends(r, o),
           run[r] \in Live,
           UNCHANGED <<set, pending, stream, emitter, place, approval, history>>
    PROVE  InTurn'
<1>1. r = last /\ run[r] # "none"
  BY ActiveIsLast DEF Live
<1>2. EventIsOwn(r) /\ AnswersTo(r) /\ set \subseteq asked /\ place[r] = "streaming"
  BY <1>1, LastOwns DEF EventIsOwn
<1>3. /\ run'[r] = o /\ holds'[r] = None /\ registered' = None
      /\ question' = IF o = "clarify" THEN r ELSE question
      /\ \A s \in Request \ {r} : run'[s] = run[s] /\ holds'[s] = holds[s]
  BY <1>2 DEF Ends, Returns, ConversationTypeOK
<1>4. o \notin Live
  BY DEF Outcome, Live, Kind
<1>5. EventIsOwn(r)'
  BY <1>2, <1>3, <1>4 DEF EventIsOwn
<1>6. question = None /\ pending = None
  BY <1>2 DEF AnswersTo, Live
<1>7. AnswersTo(r)'
  BY <1>2, <1>3, <1>6 DEF AnswersTo
<1> QED
  BY <1>1, <1>2, <1>3, <1>5, <1>7, StreamTurn DEF history, Busy

LEMMA OrchestratesTurn ==
    ASSUME ConversationTypeOK, InTurn, NEW r \in Request, Orchestrates(r)
    PROVE  InTurn'
<1>1. CASE Stops(r)
  BY <1>1, EndsTurn DEF Stops, Outcome, Live
<1>2. CASE \E o \in Outcome : Concludes(r, o)
  BY <1>2, EndsTurn DEF Concludes, Live
<1>3. CASE Thinks(r) \/ Iterates(r)
  <2>1. r = last /\ run[r] \in Live /\ run'[r] \in Live
    BY <1>3, ActiveIsLast DEF Thinks, Iterates, Live, ConversationTypeOK
  <2>2. EventIsOwn(r) /\ AnswersTo(r) /\ set \subseteq asked /\ place[r] = "streaming"
    BY <2>1, LastOwns DEF EventIsOwn, Live
  <2>3. /\ UNCHANGED <<registries, place, holds, approval, history>>
        /\ \A s \in Request \ {r} : run'[s] = run[s]
    BY <1>3 DEF Thinks, Iterates, ConversationTypeOK
  <2>4. EventIsOwn(r)' /\ AnswersTo(r)'
    BY <2>1, <2>2, <2>3 DEF registries, approval, EventIsOwn, AnswersTo, Live
  <2> QED
    BY <2>1, <2>2, <2>3, <2>4, StreamTurn DEF registries, history, Busy
<1> QED
  BY <1>1, <1>2, <1>3 DEF Orchestrates

LEMMA ExecutesTurn ==
    ASSUME ConversationTypeOK, InTurn, NEW r \in Request, Executes(r)
    PROVE  InTurn'
<1>1. PICK how \in {"worked", "failed"} : FixEnds(r, how)
  BY DEF Executes
<1>2. r = last
  BY <1>1, ActiveIsLast DEF FixEnds
<1>3. EventIsOwn(r) /\ FixIsPending(r) /\ AnswersTo(r) /\ set \subseteq asked
  BY <1>2, LastOwns
<1>4. place[r] = "executing"
  BY <1>1, <1>3 DEF FixEnds, FixIsPending
<1>5. /\ UNCHANGED <<registries, place, orchestration, fix, saved, fixed, history>>
      /\ fixing'[r] = how /\ \A s \in Request \ {r} : fixing'[s] = fixing[s]
  BY <1>1, <1>4 DEF FixEnds, ConversationTypeOK
<1>6. EventIsOwn(r)' /\ FixIsPending(r)' /\ AnswersTo(r)'
  BY <1>3, <1>4, <1>5
     DEF registries, orchestration, EventIsOwn, FixIsPending, AnswersTo
<1> QED
  BY <1>2, <1>3, <1>4, <1>5, <1>6, TurnKept
     DEF registries, orchestration, history, Busy, ConversationTypeOK

\* A cancel is granted while the last request has the event.
LEMMA CancelTurn == ASSUME ConversationTypeOK, InTurn, Cancel PROVE InTurn'
<1> DEFINE r == last
<1>1. r \in Request /\ r # None
  BY DEF InTurn, Cancel, ConversationTypeOK
<1>2. EventIsOwn(r) /\ FixIsPending(r) /\ AnswersTo(r) /\ set \subseteq asked
  BY <1>1, LastOwns
<1>3. registered = r /\ holds[r] = r
  BY <1>2 DEF Cancel, EventIsOwn
<1>4. set' \subseteq asked'
  BY <1>1, <1>2, <1>3 DEF Cancel
<1>5. /\ EventIsOwn(r)' /\ FixIsPending(r)' /\ AnswersTo(r)'
      /\ place' = place /\ holds' = holds /\ run' = run /\ fix' = fix /\ fixing' = fixing
      /\ saved' = saved /\ fixed' = fixed /\ last' = last /\ place[r] \in Busy \cup {"done"}
  BY <1>1, <1>2 DEF Cancel, orchestration, approval, EventIsOwn, FixIsPending, AnswersTo, InTurn
<1> QED
  BY <1>1, <1>4, <1>5, TurnKept DEF ConversationTypeOK

LEMMA ConversationInitInv == ConversationInit => ConversationInv
<1> SUFFICES ASSUME ConversationInit PROVE ConversationInv
  OBVIOUS
<1>1. ConversationTypeOK
  BY DEF ConversationInit, ConversationTypeOK
<1>2. InTurn
  BY DEF ConversationInit, InTurn, Aside, OwnsNothing
<1> QED
  BY <1>1, <1>2 DEF ConversationInv

LEMMA ConversationStep ==
    ConversationInv /\ [ConversationNext]_conversationVars => ConversationInv'
<1> SUFFICES ASSUME ConversationInv, [ConversationNext]_conversationVars
             PROVE  ConversationInv'
  OBVIOUS
<1> USE DEF ConversationInv
<1>1. CASE UNCHANGED conversationVars
  BY <1>1
     DEF conversationVars, registries, orchestration, approval, history, ConversationTypeOK,
         InTurn, Aside, OwnsNothing, EventIsOwn, FixIsPending, AnswersTo
<1>2. CASE ConversationNext
  <2>1. ConversationTypeOK'
    BY <1>2, ConversationStepType
  <2>2. ASSUME ~disturbed' PROVE InTurn'
    <3>1. ASSUME NEW r \in Request, Ask(r) PROVE InTurn'
      BY <2>2, <3>1, AskTurn
    <3>2. ASSUME NEW r \in Request, Streams(r) \/ Orchestrates(r) \/ Executes(r)
          PROVE  disturbed' = disturbed
      BY <3>2 DEF Streams, Route, Direct, Dispatch, LaunchRun, Collect, AfterFix,
                  Orchestrates, Stops, Thinks, Iterates, Concludes, Executes, FixEnds, history
    <3>3. ASSUME NEW r \in Request, Streams(r) \/ Orchestrates(r) \/ Executes(r)
          PROVE  InTurn'
      BY <2>2, <3>2, <3>3, StreamsTurn, OrchestratesTurn, ExecutesTurn
    <3>4. ASSUME NEW r \in Request, Leave(r) PROVE FALSE
      BY <2>2, <3>4 DEF Leave
    <3>5. CASE Cancel
      BY <2>2, <3>5, CancelTurn DEF Cancel
    <3> QED
      BY <1>2, <3>1, <3>3, <3>4, <3>5 DEF ConversationNext
  <2> QED
    BY <2>1, <2>2
<1> QED
  BY <1>1, <1>2

THEOREM ConversationInductive == ConversationSpec => []ConversationInv
  BY ConversationInitInv, ConversationStep, PTL DEF ConversationSpec

-----------------------------------------------------------------------------
\* The registries and the requests keep their types, however the requests
\* overlap and whoever leaves (router.py, complex_handler.py).
THEOREM ConversationTypeCorrect == ConversationSpec => []ConversationTypeOK
<1>1. ConversationInv => ConversationTypeOK
  BY DEF ConversationInv
<1> QED
  BY <1>1, ConversationInductive, PTL

\* A cancel reaches the orchestration that runs and no other, in an
\* undisturbed conversation of any length (cancellation.py).
THEOREM CancelReachesTheRun == ConversationSpec => []CancelIsExact
<1>1. ConversationInv => CancelIsExact
  <2> SUFFICES ASSUME ConversationInv, ~disturbed, NEW r \in Request
               PROVE  /\ run[r] \in Live => registered = holds[r]
                      /\ holds[r] \in set => r \in asked
    BY DEF CancelIsExact
  <2>1. CASE r = last
    BY <2>1, LastOwns, NoneIsNoRequest
       DEF ConversationInv, ConversationTypeOK, EventIsOwn
  <2>2. CASE r # last
    BY <2>2, NoneIsNoRequest DEF ConversationInv, ConversationTypeOK, InTurn, OwnsNothing, Live
  <2> QED
    BY <2>1, <2>2
<1> QED
  BY <1>1, ConversationInductive, PTL

\* What waits for the user's answer is what the last request asked, in an
\* undisturbed conversation of any length (router.py).
THEOREM AnswersAreToTheLast == ConversationSpec => []QuestionIsTheLast
<1>1. ConversationInv => QuestionIsTheLast
  <2> SUFFICES ASSUME ConversationInv, ~disturbed, \A r \in Request : ~InProgress(r)
               PROVE  question \in {None, last} /\ (pending # None => pending.by = last)
    BY DEF QuestionIsTheLast
  <2>1. CASE last = None
    BY <2>1 DEF ConversationInv, InTurn
  <2>2. CASE last # None
    <3>1. last \in Request /\ place[last] = "done" /\ AnswersTo(last)
      BY <2>2 DEF ConversationInv, ConversationTypeOK, InTurn, InProgress
    <3> QED
      BY <3>1 DEF AnswersTo
  <2> QED
    BY <2>1, <2>2
<1> QED
  BY <1>1, ConversationInductive, PTL

\* The factory has its own hook back whenever no action is executed, in an
\* undisturbed conversation of any length (router.py).
THEOREM HookGoesBack == ConversationSpec => []HookIsRestored
<1>1. ConversationInv => HookIsRestored
  <2> SUFFICES ASSUME ConversationInv, ~disturbed,
                      \A r \in Request : place[r] # "executing"
               PROVE  emitter = None
    BY DEF HookIsRestored
  <2>1. last \in Request \cup {None} /\ InTurn
    BY DEF ConversationInv, ConversationTypeOK
  <2> QED
    BY <2>1 DEF InTurn, FixIsPending
<1> QED
  BY <1>1, ConversationInductive, PTL

\* The action of an escalation is executed at most once, in an undisturbed
\* conversation of any length (router.py).
THEOREM ActionsRunOnce == ConversationSpec => FixedOnce
<1> DEFINE Once == \A r \in Request : (fix[r] = None /\ fix'[r] # None)
                                          => disturbed \/ fix'[r].by \notin fixed
<1>1. ConversationInv /\ [ConversationNext]_conversationVars => [Once]_conversationVars
  <2> SUFFICES ASSUME ConversationInv, ConversationNext, ~disturbed, NEW r \in Request,
                      fix[r] = None, fix'[r] # None
               PROVE  fix'[r].by \notin fixed
    OBVIOUS
  <2>1. ConversationTypeOK /\ InTurn
    BY DEF ConversationInv
  <2>2. PICK q \in Request : Approve(q) /\ Route(q)
    BY <2>1
       DEF ConversationNext, Ask, Streams, Route, Reject, Refine, Pass, Direct, Dispatch,
           LaunchRun, Collect, AfterFix, Orchestrates, Stops, Thinks, Iterates, Concludes,
           Executes, FixEnds, Leave, Cancel, approval, ConversationTypeOK
  <2>3. q = r /\ fix'[r] = pending /\ pending # None
    BY <2>1, <2>2 DEF Approve, ConversationTypeOK
  <2>4. q = last /\ place[q] = "asked"
    BY <2>1, <2>2, ActiveIsLast DEF Route, Aside
  <2> QED
    BY <2>1, <2>3, <2>4, LastOwns DEF AnswersTo
<1> QED
  BY <1>1, ConversationInductive, PTL DEF ConversationSpec, FixedOnce
=============================================================================
