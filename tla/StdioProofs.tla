----------------------------- MODULE StdioProofs -----------------------------
(***************************************************************************)
(* Proofs about the stdio transport, for every finite set of threads and   *)
(* every max_retries and max_restarts.                                     *)
(***************************************************************************)
EXTENDS StdioTransport, FiniteSetTheorems, TLAPS

Over == {"done", "failed"}

\* Which method a thread runs where.
OpInv ==
    \A t \in Thread :
        /\ pc[t] = "idle" <=> op[t] = "none"
        /\ pc[t] \in {"check", "count", "ask", "writing", "waiting"} => op[t] = "call"
        /\ pc[t] = "done" /\ op[t] = "call" => result[t] = t /\ executed[t] # {}

\* What is under way carries ids that were handed out, one per request, and a
\* registered queue belongs to the request its thread is waiting for.
SameRequest(r, q) == r.id = q.id => r = q

IdInv ==
    /\ \A r \in inbox : r.id <= messageId
    /\ \A m \in outbox : m.request.id <= messageId
    /\ \A r \in inbox, i \in DOMAIN pending : SameRequest(r, pending[i])
    /\ \A m \in outbox, i \in DOMAIN pending : SameRequest(m.request, pending[i])

KindInv ==
    \A t \in Thread :
        /\ pc[t] \in Registered =>
              pending[asked[t]].kind = IF pc[t] \in {"writing", "waiting"}
                                       THEN "call" ELSE "initialize"
        /\ pc[t] \in {"greeting", "writing"} =>
              pending[asked[t]] = Message(t, asked[t])

\* An answer to a call means that the call was executed.
Genuine(r) == r.kind = "call" => executed[r.from] # {}

AnswerInv ==
    /\ \A m \in outbox : Genuine(m.request)
    /\ \A t \in Thread : queue[t] # None =>
          /\ pc[t] \in Registered
          /\ queue[t].request = pending[asked[t]]
          /\ Genuine(queue[t].request)

\* An attempt that was not sent yet was not executed, and one that is still
\* in the stdin of the process was not either.
Sent(t) == IF pc[t] \in {"waiting", "done", "failed"} THEN attempt[t] ELSE attempt[t] - 1

AttemptInv ==
    /\ \A t \in Thread : \A k \in executed[t] : k <= Sent(t)
    /\ \A r \in inbox : r.kind = "call" =>
          /\ r.try <= Sent(r.from)
          /\ r.try \notin executed[r.from]
          /\ op[r.from] = "call"
    /\ \A r, q \in inbox :
          r.kind = "call" /\ q.kind = "call" /\ r.from = q.from /\ r.try = q.try
            => r = q

IInv == /\ TypeOK
        /\ PendingIsAwaited
        /\ OpInv
        /\ IdInv
        /\ KindInv
        /\ AnswerInv
        /\ AttemptInv

-----------------------------------------------------------------------------
(***************************************************************************)
(* Type correctness.                                                       *)
(***************************************************************************)
LEMMA AgainType ==
    ASSUME TypeOK, NEW t \in Thread, Again(t)
    PROVE  /\ attempt' \in [Thread -> 0 .. MaxRetries]
           /\ pc' \in [Thread -> Steps]
  BY StdioAssumption DEF TypeOK, Again, MoreAttempts, Goes, Steps

LEMMA UnregisterType ==
    ASSUME TypeOK, NEW t \in Thread, Unregister(t), messageId' = messageId
    PROVE  /\ DOMAIN pending' \subseteq 1 .. messageId'
           /\ \A i \in DOMAIN pending' : pending'[i] \in Request
           /\ asked' \in [Thread -> 0 .. messageId']
           /\ queue' \in [Thread -> Answers \cup {None}]
  BY DEF TypeOK, Unregister, Restrict

LEMMA CheckTypes ==
    ASSUME TypeOK, NEW t \in Thread,
           SendRequest(t) \/ Restart(t) \/ Stop(t) \/ Checks(t)
    PROVE  TypeOK'
<1> USE DEF TypeOK, Goes, Moves, Steps, procVars, msgVars
<1>1. CASE SendRequest(t)
  BY <1>1 DEF SendRequest
<1>2. CASE Restart(t)
  BY <1>2 DEF Restart
<1>3. CASE Stop(t)
  BY <1>3 DEF Stop
<1>4. CASE CheckAlive(t)
  BY <1>4 DEF CheckAlive
<1>5. CASE CheckDead(t)
  BY <1>5 DEF CheckDead
<1>6. CASE CheckFails(t)
  BY <1>6 DEF CheckFails
<1>7. CASE Count(t)
  BY <1>7 DEF Count
<1> QED
  BY <1>1, <1>2, <1>3, <1>4, <1>5, <1>6, <1>7 DEF Checks

LEMMA StopTypes ==
    ASSUME TypeOK, NEW t \in Thread, Stops(t) \/ Starts(t)
    PROVE  TypeOK'
<1> USE DEF TypeOK, Goes, Moves, Steps, procVars, msgVars
<1>1. CASE StopNothing(t)
  BY <1>1 DEF StopNothing, AfterStop
<1>2. CASE StopProcess(t)
  BY <1>2 DEF StopProcess
<1>3. CASE Stopped(t)
  BY <1>3 DEF Stopped, AfterStop, Forget
<1>4. CASE StartTwice(t)
  BY <1>4 DEF StartTwice
<1>5. CASE Start(t)
  BY <1>5 DEF Start
<1>6. CASE Spawn(t)
  <2>1. spawned' = spawned + 1 /\ process' = spawned + 1
    BY <1>6 DEF Spawn
  <2>2. alive' \subseteq 1 .. spawned'
    BY <1>6, <2>1 DEF Spawn
  <2> QED
    BY <1>6, <2>1, <2>2 DEF Spawn
<1>7. CASE CommandNotFound(t)
  BY <1>7 DEF CommandNotFound
<1>8. CASE CleanUp(t)
  <2>1. process' = 0 /\ inbox' = {} /\ outbox' = {} /\ alive' = alive \ {process}
    BY <1>8 DEF CleanUp, Forget
  <2>2. process' \in 0 .. spawned' /\ alive' \subseteq 1 .. spawned'
    BY <1>8, <2>1 DEF CleanUp
  <2>3. pc' \in [Thread -> Steps]
    BY <1>8 DEF CleanUp
  <2> QED
    BY <1>8, <2>1, <2>2, <2>3 DEF CleanUp
<1>9. CASE BootDead(t)
  BY <1>9 DEF BootDead
<1>10. CASE Booted(t)
  BY <1>10 DEF Booted
<1> QED
  BY <1>1, <1>2, <1>3, <1>4, <1>5, <1>6, <1>7, <1>8, <1>9, <1>10
     DEF Stops, Starts, SpawnFails, BootLost

LEMMA RequestTypes ==
    ASSUME TypeOK, NEW t \in Thread, Requests(t) \/ Unblocks(t)
    PROVE  TypeOK'
<1> USE DEF TypeOK, procVars
<1>1. CASE Register(t)
  <2> DEFINE r == Message(t, NextId)
  <2>1. r \in Request
    BY DEF Request, NextId, Message, Kind
  <2>2. /\ messageId' = messageId + 1
        /\ pending' = [i \in DOMAIN pending \cup {messageId + 1} |->
                         IF i = messageId + 1 THEN r ELSE pending[i]]
        /\ asked' = [asked EXCEPT ![t] = messageId + 1]
    BY <1>1 DEF Register, NextId
  <2> HIDE DEF r
  <2>3. /\ DOMAIN pending' \subseteq 1 .. messageId'
        /\ \A i \in DOMAIN pending' : pending'[i] \in Request
    BY <2>1, <2>2
  <2>4. asked' \in [Thread -> 0 .. messageId']
    BY <2>2
  <2>5. pc' \in [Thread -> Steps]
    BY <1>1 DEF Register, Goes, Steps
  <2>6. queue' \in [Thread -> Answers \cup {None}] /\ pipe' \in [Thread -> 0 .. spawned']
    BY <1>1 DEF Register
  <2>7. UNCHANGED <<process, alive, spawned, running, inbox, outbox, restarts, op,
                    attempt, crashes, executed, result>>
    BY <1>1 DEF Register
  <2>8. messageId' \in Nat
    BY <2>2
  <2> QED
    BY <2>3, <2>4, <2>5, <2>6, <2>7, <2>8
<1>2. CASE SendFails(t) \/ StderrEnds(t)
  BY <1>2 DEF SendFails, StderrEnds, Moves, Goes, Steps, msgVars
<1>3. CASE BrokenPipe(t)
  <2>1. Unregister(t) /\ messageId' = messageId
    BY <1>3 DEF BrokenPipe
  <2>2. attempt' \in [Thread -> 0 .. MaxRetries] /\ pc' \in [Thread -> Steps]
    BY <1>3, AgainType DEF BrokenPipe, Goes, Steps
  <2>3. pipe' \in [Thread -> 0 .. spawned']
    BY <1>3 DEF BrokenPipe
  <2>4. UNCHANGED <<process, alive, spawned, running, messageId, inbox, outbox,
                    restarts, op, crashes, executed, result>>
    BY <1>3 DEF BrokenPipe
  <2> QED
    BY <2>1, <2>2, <2>3, <2>4, UnregisterType
<1>8. CASE Write(t)
  <2>1. pc[t] \in {"greeting", "writing"} /\ asked[t] \in 0 .. messageId
        /\ inbox' \subseteq inbox \cup {Message(t, asked[t])}
    BY <1>8 DEF Write
  <2>2. Message(t, asked[t]) \in Request
    BY <2>1 DEF Message, Kind, Request
  <2>3. pc' \in [Thread -> Steps]
    BY <1>8 DEF Write, Goes, Steps
  <2>4. pipe' \in [Thread -> 0 .. spawned']
    BY <1>8 DEF Write
  <2>5. UNCHANGED <<process, alive, spawned, running, messageId, pending, outbox,
                    restarts, op, attempt, asked, queue, crashes, executed, result>>
    BY <1>8 DEF Write
  <2> QED
    BY <2>1, <2>2, <2>3, <2>4, <2>5
<1>9. CASE Notify(t) \/ NotifyFails(t)
  <2>1. pipe' \in [Thread -> 0 .. spawned'] /\ pc' \in [Thread -> Steps]
    BY <1>9 DEF Notify, NotifyFails, Goes, Steps
  <2>2. UNCHANGED <<process, alive, spawned, running, messageId, pending, inbox,
                    outbox, restarts, op, attempt, asked, queue, crashes, executed,
                    result>>
    BY <1>9 DEF Notify, NotifyFails, msgVars
  <2> QED
    BY <2>1, <2>2
<1>4. CASE CallReturns(t)
  <2>1. queue[t] \in Answers
    BY <1>4 DEF CallReturns, Answered
  <2>2. queue[t].request.from \in Thread
    BY <2>1 DEF Answers, Request
  <2>3. Unregister(t) /\ messageId' = messageId
    BY <1>4 DEF CallReturns
  <2> QED
    BY <1>4, <2>2, <2>3, UnregisterType DEF CallReturns, Goes, Steps
<1>5. CASE Initialized(t)
  <2>1. Unregister(t) /\ messageId' = messageId
    BY <1>5 DEF Initialized
  <2> QED
    BY <1>5, <2>1, UnregisterType DEF Initialized, Goes, Steps
<1>6. CASE ErrorResponse(t)
  <2>1. Unregister(t) /\ messageId' = messageId
    BY <1>6 DEF ErrorResponse
  <2>2. attempt' \in [Thread -> 0 .. MaxRetries] /\ pc' \in [Thread -> Steps]
    BY <1>6, AgainType DEF ErrorResponse, Goes, Steps
  <2> QED
    BY <1>6, <2>1, <2>2, UnregisterType DEF ErrorResponse
<1>7. CASE Timeout(t)
  <2>1. Unregister(t) /\ messageId' = messageId
    BY <1>7 DEF Timeout
  <2>2. attempt' \in [Thread -> 0 .. MaxRetries] /\ pc' \in [Thread -> Steps]
    BY <1>7, AgainType DEF Timeout, Goes, Steps
  <2> QED
    BY <1>7, <2>1, <2>2, UnregisterType DEF Timeout
<1> QED
  BY <1>1, <1>2, <1>3, <1>4, <1>5, <1>6, <1>7, <1>8, <1>9 DEF Requests, Unblocks

LEMMA ServerTypes ==
    ASSUME TypeOK,
           \/ \E m \in outbox : Deliver(m)
           \/ \E r \in inbox : Serve(r)
           \/ Crash \/ UNCHANGED vars
    PROVE  TypeOK'
<1> USE DEF TypeOK, procVars
<1>1. ASSUME NEW m \in outbox, Deliver(m)
      PROVE  TypeOK'
  <2>1. queue' \in [Thread -> Answers \cup {None}]
    BY <1>1 DEF Deliver
  <2> QED
    BY <1>1, <2>1 DEF Deliver
<1>2. ASSUME NEW r \in inbox, Serve(r)
      PROVE  TypeOK'
  <2>1. r \in Request
    OBVIOUS
  <2>2. outbox' \subseteq Answers
    BY <1>2, <2>1 DEF Serve, Answers
  <2>3. executed' \in [Thread -> SUBSET (0 .. MaxRetries)]
    BY <1>2, <2>1 DEF Serve, Request
  <2> QED
    BY <1>2, <2>2, <2>3 DEF Serve
<1>3. CASE Crash
  BY <1>3, StdioAssumption DEF Crash, msgVars
<1>4. CASE UNCHANGED vars
  BY <1>4 DEF vars, msgVars
<1> QED
  BY <1>1, <1>2, <1>3, <1>4

LEMMA TypeStep == TypeOK /\ [Next]_vars => TypeOK'
<1> SUFFICES ASSUME TypeOK, [Next]_vars PROVE TypeOK'
  OBVIOUS
<1> QED
  BY CheckTypes, StopTypes, RequestTypes, ServerTypes DEF Next, Proceeds

LEMMA TypeInit == Init => TypeOK
<1> SUFFICES ASSUME Init PROVE TypeOK
  OBVIOUS
<1>1. \A i \in DOMAIN pending : FALSE
  BY DEF Init
<1> QED
  BY <1>1, StdioAssumption DEF Init, TypeOK, Steps

-----------------------------------------------------------------------------
(***************************************************************************)
(* Steps that send nothing and end no wait: a thread moves to `s'.         *)
(***************************************************************************)
Quiet(t, s) ==
    /\ pc[t] \in Steps \ (Registered \cup Over \cup {"idle"})
    /\ s \in Steps \ (Registered \cup {"idle"})
    /\ s \in {"check", "count", "ask"} => op[t] = "call"
    /\ s = "done" => op[t] # "call"
    /\ pc' = [pc EXCEPT ![t] = s]
    /\ inbox' \subseteq inbox /\ outbox' \subseteq outbox
    /\ UNCHANGED <<messageId, pending, op, attempt, asked, queue, executed, result>>

Glides(t) == \/ Checks(t) \/ Stops(t) \/ Starts(t) \/ SendFails(t)
             \/ StderrEnds(t) \/ Notify(t) \/ NotifyFails(t)

LEMMA QuietSteps ==
    ASSUME TypeOK, OpInv, NEW t \in Thread,
           Glides(t)
    PROVE  \E s \in Steps : Quiet(t, s)
<1> USE DEF Quiet, Goes, Moves, Steps, Waiting, Registered, Over, msgVars
<1>1. CASE CheckAlive(t)
  <2>1. Quiet(t, "ask")
    BY <1>1 DEF CheckAlive, OpInv
  <2> QED
    BY <2>1
<1>2. CASE CheckDead(t)
  <2>1. Quiet(t, "count")
    BY <1>2 DEF CheckDead, OpInv
  <2> QED
    BY <2>1
<1>3. CASE Count(t)
  <2>1. Quiet(t, "stop")
    BY <1>3 DEF Count
  <2> QED
    BY <2>1
<1>4. CASE StopProcess(t)
  <2>1. Quiet(t, "stopping")
    BY <1>4 DEF StopProcess
  <2> QED
    BY <2>1
<1>5. CASE StopNothing(t) \/ (Stopped(t) /\ AfterStop(t))
  <2>1. CASE op[t] = "stop"
    <3>1. Quiet(t, "done")
      BY <1>5, <2>1 DEF StopNothing, Stopped, AfterStop, Forget
    <3> QED
      BY <3>1
  <2>2. CASE op[t] # "stop"
    <3>1. Quiet(t, "start")
      BY <1>5, <2>2 DEF StopNothing, Stopped, AfterStop, Forget
    <3> QED
      BY <3>1
  <2> QED
    BY <2>1, <2>2
<1>14. CASE Stopped(t) /\ Goes(t, "failed")
  <2>1. Quiet(t, "failed")
    BY <1>14 DEF Stopped, Forget
  <2> QED
    BY <2>1
<1>6. CASE Start(t)
  <2>1. Quiet(t, "spawning")
    BY <1>6 DEF Start
  <2> QED
    BY <2>1
<1>7. CASE Spawn(t)
  <2>1. Quiet(t, "booting")
    BY <1>7 DEF Spawn
  <2> QED
    BY <2>1
<1>8. CASE Booted(t)
  <2>1. Quiet(t, "handshake")
    BY <1>8 DEF Booted
  <2> QED
    BY <2>1
<1>9. CASE CheckFails(t) \/ StartTwice(t) \/ CommandNotFound(t) \/ StderrEnds(t)
           \/ SendFails(t)
  <2>1. Quiet(t, "failed")
    BY <1>9 DEF CheckFails, StartTwice, CommandNotFound, StderrEnds, SendFails, Asking
  <2> QED
    BY <2>1
<1>10. CASE SpawnFails(t) \/ BootLost(t)
  <2>1. Quiet(t, "failed")
    BY <1>10 DEF SpawnFails, BootLost, CleanUp, Forget
  <2> QED
    BY <2>1
<1>11. CASE BootDead(t)
  <2>1. Quiet(t, "reading")
    BY <1>11 DEF BootDead
  <2> QED
    BY <2>1
<1>12. CASE NotifyFails(t)
  <2>1. Quiet(t, "failed")
    BY <1>12 DEF NotifyFails
  <2> QED
    BY <2>1
<1>13. CASE Notify(t)
  <2>1. CASE op[t] = "call"
    <3>1. Quiet(t, "ask")
      BY <1>13, <2>1 DEF Notify
    <3> QED
      BY <3>1
  <2>2. CASE op[t] # "call"
    <3>1. Quiet(t, "done")
      BY <1>13, <2>2 DEF Notify
    <3> QED
      BY <3>1
  <2> QED
    BY <2>1, <2>2
<1> QED
  BY <1>1, <1>2, <1>3, <1>4, <1>5, <1>6, <1>7, <1>8, <1>9, <1>10, <1>11, <1>12, <1>13
     , <1>14 DEF Stopped, Glides, Checks, Stops, Starts

LEMMA QuietKeeps ==
    ASSUME IInv, TypeOK', NEW t \in Thread, NEW s \in Steps, Quiet(t, s)
    PROVE  IInv'
<1> USE DEF IInv, Quiet
<1>1. /\ \A u \in Thread : pc'[u] = IF u = t THEN s ELSE pc[u]
      /\ pc[t] \notin Registered /\ s \notin Registered
  BY DEF TypeOK
<1>2. PendingIsAwaited'
  <2>1. \A u \in Thread : pc[u] \in Registered <=> pc'[u] \in Registered
    BY <1>1
  <2>2. \A i \in DOMAIN pending : pending[i].from \in Thread
    BY DEF TypeOK, Request
  <2> QED
    BY <2>1, <2>2 DEF PendingIsAwaited
<1>3. OpInv'
  BY <1>1 DEF OpInv, Steps, Waiting, Registered, Over
<1>4. IdInv'
  BY DEF IdInv
<1>5. KindInv'
  BY <1>1 DEF KindInv, Waiting, Registered, Message, Kind
<1>6. AnswerInv'
  <2>1. \A r \in {m.request : m \in outbox} : Genuine(r) <=> Genuine(r)'
    BY DEF Genuine
  <2>2. \A u \in Thread : queue[u] # None => pc'[u] \in Registered
    BY <1>1 DEF AnswerInv
  <2> QED
    BY <2>1, <2>2 DEF AnswerInv, Genuine
<1>7. AttemptInv'
  <2>1. \A u \in Thread : Sent(u) <= Sent(u)' /\ Sent(u) \in Int /\ Sent(u)' \in Int
    BY <1>1 DEF Sent, TypeOK, Waiting, Registered, Over
  <2>2. \A r \in inbox : r.from \in Thread /\ r.try \in Int
    BY DEF TypeOK, Request
  <2>3. \A u \in Thread : \A k \in executed[u] : k \in Int
    BY DEF TypeOK
  <2> QED
    BY <2>1, <2>2, <2>3 DEF AttemptInv
<1> QED
  BY <1>2, <1>3, <1>4, <1>5, <1>6, <1>7

-----------------------------------------------------------------------------
(***************************************************************************)
(* A wait ends: the thread moves to `s', its request is unregistered.      *)
(***************************************************************************)
Ends(t, s) ==
    /\ pc[t] \in Registered
    /\ s \in {"check", "notifying", "done", "failed"}
    /\ s = "notifying" => pc[t] = "shaking"
    /\ IF s = "check" THEN /\ pc[t] \in {"writing", "waiting"}
                           /\ attempt' = [attempt EXCEPT ![t] = @ + 1]
                      ELSE attempt' = attempt
    /\ s = "done" /\ op[t] = "call" => result'[t] = t /\ executed[t] # {}
    /\ \A u \in Thread : u # t => result'[u] = result[u]
    /\ pc' = [pc EXCEPT ![t] = s]
    /\ Unregister(t)
    /\ UNCHANGED <<messageId, inbox, outbox, op, executed>>

LEMMA AnswerIsGenuine ==
    ASSUME IInv, NEW t \in Thread, Answered(t)
    PROVE  /\ queue[t].request.from = t
           /\ pc[t] = "waiting" => executed[t] # {}
<1>1. pc[t] \in Registered /\ queue[t].request = pending[asked[t]] /\ Genuine(queue[t].request)
  BY DEF Answered, IInv, AnswerInv
<1>2. queue[t].request.from = t
  BY <1>1 DEF IInv, PendingIsAwaited
<1>3. pc[t] = "waiting" => queue[t].request.kind = "call"
  BY <1>1 DEF IInv, KindInv
<1> QED
  BY <1>1, <1>2, <1>3 DEF Genuine

LEMMA AgainEnds ==
    ASSUME TypeOK, NEW t \in Thread, pc[t] \in {"writing", "waiting"}, Again(t), Unregister(t),
           UNCHANGED <<messageId, inbox, outbox, op, executed, result>>
    PROVE  \E s \in Steps : Ends(t, s)
<1>1. CASE MoreAttempts(t)
  <2>1. Ends(t, "check")
    BY <1>1 DEF Again, Ends, Waiting, Registered, Goes
  <2> QED
    BY <2>1 DEF Steps
<1>2. CASE ~MoreAttempts(t)
  <2>1. Ends(t, "failed")
    BY <1>2 DEF Again, Ends, Waiting, Registered, Goes
  <2> QED
    BY <2>1 DEF Steps
<1> QED
  BY <1>1, <1>2

LEMMA WaitsEnd ==
    ASSUME IInv, NEW t \in Thread,
           \/ CallReturns(t) \/ Initialized(t) \/ ErrorResponse(t) \/ Timeout(t)
           \/ BrokenPipe(t)
    PROVE  \E s \in Steps : Ends(t, s)
<1>0. TypeOK
  BY DEF IInv
<1>1. CASE CallReturns(t)
  <2>1. queue[t].request.from = t /\ executed[t] # {}
    BY <1>1, AnswerIsGenuine DEF CallReturns
  <2>2. Ends(t, "done")
    BY <1>0, <1>1, <2>1 DEF CallReturns, Ends, Waiting, Registered, Goes, TypeOK
  <2> QED
    BY <2>2 DEF Steps
<1>2. CASE Initialized(t)
  <2> DEFINE s == IF process = 0 THEN "failed" ELSE "notifying"
  <2>1. Ends(t, s)
    BY <1>2 DEF Initialized, Ends, Waiting, Registered, Goes
  <2>2. s \in Steps
    BY DEF Steps
  <2> QED
    BY <2>1, <2>2
<1>3. ASSUME Goes(t, "failed"), attempt' = attempt, pc[t] \in Registered, Unregister(t),
             UNCHANGED <<messageId, inbox, outbox, op, executed, result>>
      PROVE  \E s \in Steps : Ends(t, s)
  <2>1. Ends(t, "failed")
    BY <1>3 DEF Ends, Goes
  <2> QED
    BY <2>1 DEF Steps
<1>4. CASE ErrorResponse(t)
  <2>1. pc[t] \in Registered /\ Unregister(t)
        /\ UNCHANGED <<messageId, inbox, outbox, op, executed, result>>
    BY <1>4 DEF ErrorResponse, Answered, Waiting, Registered
  <2>2. CASE Goes(t, "failed") /\ UNCHANGED attempt
    BY <1>3, <2>1, <2>2
  <2>3. CASE pc[t] = "waiting" /\ Again(t)
    BY <1>0, <2>1, <2>3, AgainEnds
  <2> QED
    BY <1>4, <2>2, <2>3 DEF ErrorResponse
<1>5. CASE Timeout(t)
  <2>1. pc[t] \in Registered /\ Unregister(t)
        /\ UNCHANGED <<messageId, inbox, outbox, op, executed, result>>
    BY <1>5 DEF Timeout, Waiting, Registered
  <2>2. CASE pc[t] = "shaking" /\ Goes(t, "failed") /\ UNCHANGED attempt
    BY <1>3, <2>1, <2>2
  <2>3. CASE pc[t] = "waiting" /\ Again(t)
    BY <1>0, <2>1, <2>3, AgainEnds
  <2> QED
    BY <1>5, <2>2, <2>3 DEF Timeout
<1>6. CASE BrokenPipe(t)
  <2>1. pc[t] \in Registered /\ Unregister(t)
        /\ UNCHANGED <<messageId, inbox, outbox, op, executed, result>>
    BY <1>6 DEF BrokenPipe, Registered
  <2>2. CASE pc[t] = "greeting" /\ Goes(t, "failed") /\ UNCHANGED attempt
    BY <1>3, <2>1, <2>2
  <2>3. CASE pc[t] = "writing" /\ Again(t)
    BY <1>0, <2>1, <2>3, AgainEnds
  <2> QED
    BY <1>6, <2>2, <2>3 DEF BrokenPipe
<1> QED
  BY <1>1, <1>2, <1>4, <1>5, <1>6

LEMMA EndKeeps ==
    ASSUME IInv, TypeOK', NEW t \in Thread, NEW s \in Steps, Ends(t, s)
    PROVE  IInv'
<1> USE DEF IInv, Ends
<1>1. /\ \A u \in Thread : pc'[u] = IF u = t THEN s ELSE pc[u]
      /\ pc[t] \in Registered /\ s \notin Registered
  BY DEF TypeOK, Waiting, Registered
<1>2. /\ DOMAIN pending' = DOMAIN pending \ {asked[t]}
      /\ \A i \in DOMAIN pending' : pending'[i] = pending[i]
      /\ \A u \in Thread : u # t => asked'[u] = asked[u] /\ queue'[u] = queue[u]
      /\ queue'[t] = None
  BY DEF Unregister, Restrict, TypeOK
<1>3. \A i \in DOMAIN pending : pending[i].from \in Thread
  BY DEF TypeOK, Request
<1>4. /\ \A i \in DOMAIN pending' : pending[i].from # t
      /\ \A u \in Thread : u # t /\ pc[u] \in Registered => asked[u] \in DOMAIN pending'
  BY <1>2, <1>3 DEF PendingIsAwaited
<1>5. PendingIsAwaited'
  BY <1>1, <1>2, <1>3, <1>4 DEF PendingIsAwaited
<1>6. OpInv'
  BY <1>1 DEF OpInv, Waiting, Registered
<1>7. IdInv'
  BY <1>2 DEF IdInv
<1>8. KindInv'
  <2>1. \A u \in Thread : u # t => Message(u, asked[u])' = Message(u, asked[u])
    <3>1. \A u \in Thread : u # t => attempt'[u] = attempt[u]
      BY DEF TypeOK
    <3> QED
      BY <1>1, <1>2, <3>1 DEF Message, Kind
  <2> QED
    BY <1>1, <1>2, <1>4, <2>1 DEF KindInv, Registered, Waiting
<1>9. AnswerInv'
  <2>1. \A u \in Thread : queue'[u] # None => u # t /\ pc'[u] \in Registered
    BY <1>1, <1>2 DEF AnswerInv
  <2>2. \A u \in Thread : queue'[u] # None =>
          queue'[u].request = pending'[asked'[u]] /\ Genuine(queue'[u].request)
    BY <1>2, <1>4, <2>1 DEF AnswerInv
  <2>3. \A u \in Thread : queue'[u] # None => Genuine(queue[u].request)'
    BY <2>2 DEF Genuine
  <2>4. \A m \in outbox' : Genuine(m.request)'
    BY DEF AnswerInv, Genuine
  <2> QED
    BY <2>1, <2>2, <2>3, <2>4 DEF AnswerInv
<1>10. AttemptInv'
  <2>0. /\ pc[t] \in {"waiting", "shaking", "writing", "greeting"}
        /\ attempt[t] \in Int
        /\ \A u \in Thread : u # t => attempt'[u] = attempt[u]
        /\ attempt'[t] = IF s = "check" THEN attempt[t] + 1 ELSE attempt[t]
    BY DEF Waiting, Registered, TypeOK
  <2>1. \A u \in Thread : Sent(u) <= Sent(u)' /\ Sent(u) \in Int /\ Sent(u)' \in Int
    <3>1. \A u \in Thread : attempt[u] \in Int /\ attempt'[u] \in Int
      BY DEF TypeOK
    <3>2. \A u \in Thread : u # t => Sent(u)' = Sent(u)
      BY <1>1, <2>0 DEF Sent
    <3>3. Sent(t) <= Sent(t)'
      BY <1>1, <2>0, <3>1 DEF Sent
    <3> QED
      BY <3>1, <3>2, <3>3 DEF Sent
  <2>2. \A r \in inbox : r.from \in Thread /\ r.try \in Int
    BY DEF TypeOK, Request
  <2>3. \A u \in Thread : \A k \in executed[u] : k \in Int
    BY DEF TypeOK
  <2> QED
    BY <2>1, <2>2, <2>3 DEF AttemptInv
<1> QED
  BY <1>5, <1>6, <1>7, <1>8, <1>9, <1>10

-----------------------------------------------------------------------------
(***************************************************************************)
(* The other steps of a thread.                                            *)
(***************************************************************************)
LEMMA BeginKeeps ==
    ASSUME IInv, TypeOK', NEW t \in Thread, SendRequest(t) \/ Restart(t) \/ Stop(t)
    PROVE  IInv'
<1> USE DEF IInv, msgVars
<1>1. PICK m \in {"call", "restart", "stop"}, s \in {"check", "stop"} :
        /\ pc[t] = "idle"
        /\ op' = [op EXCEPT ![t] = m] /\ pc' = [pc EXCEPT ![t] = s]
        /\ s = "check" => m = "call"
        /\ UNCHANGED <<messageId, pending, inbox, outbox, attempt, asked, queue,
                       executed, result>>
  BY DEF SendRequest, Restart, Stop, Goes
<1>2. /\ \A u \in Thread : pc'[u] = IF u = t THEN s ELSE pc[u]
      /\ \A u \in Thread : op'[u] = IF u = t THEN m ELSE op[u]
      /\ op[t] = "none"
  BY <1>1 DEF TypeOK, OpInv
<1>3. \A u \in Thread : pc[u] \in Registered <=> pc'[u] \in Registered
  BY <1>1, <1>2 DEF Waiting, Registered
<1>4. PendingIsAwaited'
  <2>1. \A i \in DOMAIN pending : pending[i].from \in Thread
    BY DEF TypeOK, Request
  <2> QED
    BY <1>1, <1>3, <2>1 DEF PendingIsAwaited
<1>5. OpInv'
  BY <1>1, <1>2 DEF OpInv
<1>6. IdInv'
  BY <1>1 DEF IdInv
<1>7. KindInv'
  BY <1>1, <1>2 DEF KindInv, Waiting, Registered, Message, Kind
<1>8. AnswerInv'
  BY <1>1, <1>3 DEF AnswerInv, Genuine
<1>9. AttemptInv'
  <2>1. \A u \in Thread : Sent(u)' = Sent(u)
    BY <1>1, <1>2 DEF Sent
  <2>2. \A r \in inbox : r.kind = "call" => op'[r.from] = "call"
    BY <1>2 DEF AttemptInv, TypeOK, Request
  <2>3. \A r \in inbox : r.from \in Thread
    BY DEF TypeOK, Request
  <2> QED
    BY <1>1, <2>1, <2>2, <2>3 DEF AttemptInv
<1> QED
  BY <1>4, <1>5, <1>6, <1>7, <1>8, <1>9

LEMMA RegisterKeeps ==
    ASSUME IInv, TypeOK', NEW t \in Thread, Register(t)
    PROVE  IInv'
<1> USE DEF IInv
<1> DEFINE n == messageId + 1
           r == Message(t, n)
           s == IF pc[t] = "ask" THEN "writing" ELSE "greeting"
<1>1. /\ pc[t] \in Asking
      /\ messageId' = n
      /\ pending' = [i \in DOMAIN pending \cup {n} |-> IF i = n THEN r ELSE pending[i]]
      /\ asked' = [asked EXCEPT ![t] = n]
      /\ queue' = [queue EXCEPT ![t] = None]
      /\ pc' = [pc EXCEPT ![t] = s]
      /\ UNCHANGED <<inbox, outbox, op, attempt, executed, result>>
  BY DEF Register, NextId, Goes
<1>2. /\ r.id = n /\ r.from = t /\ r.try = attempt[t]
      /\ r.kind = IF pc[t] = "handshake" THEN "initialize" ELSE "call"
      /\ r = [id |-> n, from |-> t, kind |-> r.kind, try |-> attempt[t]]
  BY <1>1 DEF Message, Kind, Asking
<1> HIDE DEF r
<1>3. /\ n \notin DOMAIN pending /\ n \in Int /\ messageId \in Int
      /\ \A i \in DOMAIN pending : i <= messageId
  BY DEF TypeOK
<1>4. /\ \A u \in Thread : pc'[u] = IF u = t THEN s ELSE pc[u]
      /\ \A u \in Thread : asked'[u] = IF u = t THEN n ELSE asked[u]
      /\ \A u \in Thread : queue'[u] = IF u = t THEN None ELSE queue[u]
      /\ \A i \in DOMAIN pending : pending'[i] = pending[i]
      /\ pending'[n] = r /\ DOMAIN pending' = DOMAIN pending \cup {n}
  BY <1>1, <1>3 DEF TypeOK
<1>5. pc[t] \notin Registered /\ pc'[t] \in Registered
  BY <1>1, <1>4 DEF Asking, Waiting, Registered
<1>6. \A i \in DOMAIN pending : pending[i].from \in Thread /\ pending[i].from # t
  BY <1>5 DEF TypeOK, Request, PendingIsAwaited
<1>7. \A u \in Thread : pc[u] \in Registered => u # t /\ asked[u] \in DOMAIN pending
  BY <1>5 DEF PendingIsAwaited
<1>8. PendingIsAwaited'
  BY <1>2, <1>4, <1>5, <1>6, <1>7 DEF PendingIsAwaited
<1>9. OpInv'
  BY <1>1, <1>4 DEF OpInv, Asking
<1>10. IdInv'
  <2>1. \A q \in inbox : q.id \in Int /\ q.id <= messageId
    BY DEF IdInv, TypeOK, Request
  <2>2. \A m \in outbox : m.request.id \in Int /\ m.request.id <= messageId
    BY DEF IdInv, TypeOK, Request, Answers
  <2>3. \A i \in DOMAIN pending : pending[i].id # n
    BY <1>3 DEF PendingIsAwaited
  <2>4. \A q \in inbox', i \in DOMAIN pending' : SameRequest(q, pending'[i])
    BY <1>1, <1>2, <1>3, <1>4, <2>1, <2>3 DEF IdInv, SameRequest
  <2>5. \A m \in outbox', i \in DOMAIN pending' : SameRequest(m.request, pending'[i])
    BY <1>1, <1>2, <1>3, <1>4, <2>2 DEF IdInv, SameRequest
  <2>6. \A q \in inbox' : q.id <= messageId'
    BY <1>1, <1>3, <2>1
  <2>7. \A m \in outbox' : m.request.id <= messageId'
    BY <1>1, <1>3, <2>2
  <2> QED
    BY <2>4, <2>5, <2>6, <2>7 DEF IdInv, SameRequest
<1>11. KindInv'
  <2>1. \A u \in Thread : u # t => Message(u, asked[u])' = Message(u, asked[u])
    BY <1>1, <1>4 DEF Message, Kind
  <2>2. Message(t, asked[t])' = r
    BY <1>1, <1>2, <1>4 DEF Message, Kind, Asking
  <2> QED
    BY <1>1, <1>2, <1>4, <1>7, <2>1, <2>2 DEF KindInv, Asking, Waiting, Registered
<1>12. AnswerInv'
  <2>1. \A u \in Thread : queue'[u] # None =>
          /\ u # t /\ pc'[u] \in Registered
          /\ queue'[u].request = pending'[asked'[u]] /\ Genuine(queue'[u].request)
    BY <1>4, <1>7 DEF AnswerInv
  <2>2. \A u \in Thread : queue'[u] # None => Genuine(queue[u].request)'
    BY <1>1, <2>1 DEF Genuine
  <2>3. \A m \in outbox' : Genuine(m.request)'
    BY <1>1 DEF AnswerInv, Genuine
  <2> QED
    BY <2>1, <2>2, <2>3 DEF AnswerInv
<1>13. AttemptInv'
  <2>1. \A u \in Thread : Sent(u)' = Sent(u)
    BY <1>1, <1>4 DEF Sent, Asking
  <2>2. \A q \in inbox : q.from \in Thread
    BY DEF TypeOK, Request
  <2> QED
    BY <1>1, <2>1, <2>2 DEF AttemptInv
<1> QED
  BY <1>8, <1>9, <1>10, <1>11, <1>12, <1>13

LEMMA WriteKeeps ==
    ASSUME IInv, TypeOK', NEW t \in Thread, Write(t)
    PROVE  IInv'
<1> USE DEF IInv
<1> DEFINE r == Message(t, asked[t])
           s == IF pc[t] = "writing" THEN "waiting" ELSE "shaking"
<1>1. /\ pc[t] \in {"greeting", "writing"}
      /\ inbox' \subseteq inbox \cup {r}
      /\ pc' = [pc EXCEPT ![t] = s]
      /\ UNCHANGED <<messageId, pending, outbox, op, attempt, asked, queue,
                     executed, result>>
  BY DEF Write, Goes
<1>2. /\ r.id = asked[t] /\ r.from = t /\ r.try = attempt[t]
      /\ r.kind = IF pc[t] = "greeting" THEN "initialize" ELSE "call"
      /\ r = pending[asked[t]] /\ asked[t] \in DOMAIN pending
  BY <1>1 DEF Message, Kind, KindInv, PendingIsAwaited, Registered
<1> HIDE DEF r
<1>3. \A u \in Thread : pc'[u] = IF u = t THEN s ELSE pc[u]
  BY <1>1 DEF TypeOK
<1>4. \A u \in Thread : pc[u] \in Registered <=> pc'[u] \in Registered
  BY <1>1, <1>3 DEF Waiting, Registered
<1>5. PendingIsAwaited'
  <2>1. \A i \in DOMAIN pending : pending[i].from \in Thread
    BY DEF TypeOK, Request
  <2> QED
    BY <1>1, <1>4, <2>1 DEF PendingIsAwaited
<1>6. OpInv'
  BY <1>1, <1>3 DEF OpInv
<1>7. IdInv'
  <2>1. \A i \in DOMAIN pending : pending[i].id = i
    BY DEF PendingIsAwaited
  <2>2. \A i \in DOMAIN pending : SameRequest(r, pending[i])
    BY <1>2, <2>1 DEF SameRequest
  <2>3. r.id <= messageId
    BY <1>2 DEF TypeOK
  <2> QED
    BY <1>1, <2>2, <2>3 DEF IdInv, SameRequest
<1>8. KindInv'
  <2>1. \A u \in Thread : u # t => Message(u, asked[u])' = Message(u, asked[u])
    BY <1>1, <1>3 DEF Message, Kind
  <2> QED
    BY <1>1, <1>3, <2>1 DEF KindInv, Waiting, Registered
<1>9. AnswerInv'
  BY <1>1, <1>4 DEF AnswerInv, Genuine
<1>10. AttemptInv'
  <2>1. /\ \A u \in Thread : u # t => Sent(u)' = Sent(u)
        /\ r.kind = "call" => Sent(t)' = attempt[t]
        /\ Sent(t) = attempt[t] - 1 /\ Sent(t) <= Sent(t)'
        /\ attempt[t] \in Int
    BY <1>1, <1>2, <1>3 DEF Sent, TypeOK
  <2>2. \A u \in Thread : Sent(u) \in Int /\ Sent(u)' \in Int
    BY DEF TypeOK, Sent
  <2>3. \A q \in inbox : q.from \in Thread /\ q.try \in Int
    BY DEF TypeOK, Request
  <2>4. \A u \in Thread : \A k \in executed[u] : k \in Int
    BY DEF TypeOK
  <2>5. \A u \in Thread : \A k \in executed'[u] : k <= Sent(u)'
    BY <1>1, <2>1, <2>2, <2>4 DEF AttemptInv
  <2>6. r.kind = "call" => /\ r.try <= Sent(t)' /\ op[t] = "call"
                           /\ r.try \notin executed[t]
    BY <1>1, <1>2, <2>1 DEF AttemptInv, OpInv
  <2>7. \A q \in inbox : q.kind = "call" => q.try <= Sent(q.from)'
    BY <2>1, <2>2, <2>3 DEF AttemptInv
  <2>8. \A q \in inbox : q.kind = "call" /\ q.from = t => q.try # r.try
    BY <1>2, <2>1, <2>3 DEF AttemptInv
  <2> QED
    BY <1>1, <1>2, <2>5, <2>6, <2>7, <2>8 DEF AttemptInv
<1> QED
  BY <1>5, <1>6, <1>7, <1>8, <1>9, <1>10

-----------------------------------------------------------------------------
(***************************************************************************)
(* The reader and the server.                                              *)
(***************************************************************************)
LEMMA DeliverKeeps ==
    ASSUME IInv, TypeOK', NEW m \in outbox, Deliver(m)
    PROVE  IInv'
<1> USE DEF IInv
<1>1. /\ outbox' \subseteq outbox
      /\ UNCHANGED <<messageId, pending, inbox, pc, op, attempt, asked, executed, result>>
  BY DEF Deliver
<1>2. \A u \in Thread : queue'[u] # queue[u] =>
        /\ pc[u] \in Registered /\ queue'[u] = m
        /\ m.request = pending[asked[u]]
  <2>1. CASE m.request.id \in DOMAIN pending
    <3> DEFINE r == pending[m.request.id]
    <3>1. r.from \in Thread /\ r.id = m.request.id
      BY <2>1 DEF TypeOK, Request, PendingIsAwaited
    <3>2. m.request = r /\ asked[r.from] = m.request.id /\ pc[r.from] \in Registered
      BY <2>1, <3>1 DEF IdInv, SameRequest, PendingIsAwaited
    <3>3. queue' = [queue EXCEPT ![r.from] = m]
      BY <2>1, <3>1, <3>2 DEF Deliver
    <3> QED
      BY <3>1, <3>2, <3>3 DEF TypeOK
  <2>2. CASE m.request.id \notin DOMAIN pending
    BY <2>2 DEF Deliver
  <2> QED
    BY <2>1, <2>2
<1>3. \A u \in Thread : queue'[u] # None =>
        /\ pc[u] \in Registered
        /\ queue'[u].request = pending[asked[u]]
        /\ Genuine(queue'[u].request)
  BY <1>2 DEF AnswerInv
<1>4. AnswerInv'
  <2>1. \A u \in Thread : queue'[u] # None => Genuine(queue[u].request)'
    BY <1>1, <1>3 DEF Genuine
  <2>2. \A a \in outbox' : Genuine(a.request)'
    BY <1>1 DEF AnswerInv, Genuine
  <2> QED
    BY <1>1, <1>3, <2>1, <2>2 DEF AnswerInv
<1>5. PendingIsAwaited' /\ OpInv' /\ IdInv' /\ KindInv'
  BY <1>1 DEF PendingIsAwaited, OpInv, IdInv, KindInv, Message, Kind
<1>6. AttemptInv'
  BY <1>1 DEF AttemptInv, Sent
<1> QED
  BY <1>4, <1>5, <1>6

LEMMA ServeKeeps ==
    ASSUME IInv, TypeOK', NEW r \in inbox, Serve(r)
    PROVE  IInv'
<1> USE DEF IInv
<1>1. PICK ok \in BOOLEAN : outbox' = outbox \cup {[request |-> r, ok |-> ok]}
  BY DEF Serve
<1>2. PICK m : m = [request |-> r, ok |-> ok]
  OBVIOUS
<1>3. /\ outbox' = outbox \cup {m} /\ m.request = r
      /\ inbox' = inbox \ {r}
      /\ executed' = IF r.kind = "call"
                     THEN [executed EXCEPT ![r.from] = @ \cup {r.try}] ELSE executed
      /\ UNCHANGED <<messageId, pending, pc, op, attempt, asked, queue, result>>
  BY <1>1, <1>2 DEF Serve
<1>4. r.from \in Thread /\ r.try \in Int /\ r.id \in Int
  BY DEF TypeOK, Request
<1>5. /\ \A u \in Thread : executed[u] \subseteq executed'[u]
      /\ \A u \in Thread : u # r.from \/ r.kind # "call" => executed'[u] = executed[u]
      /\ r.kind = "call" => executed'[r.from] = executed[r.from] \cup {r.try}
  BY <1>3, <1>4 DEF TypeOK
<1>6. PendingIsAwaited' /\ KindInv'
  BY <1>3 DEF PendingIsAwaited, KindInv, Message, Kind
<1>7. OpInv'
  BY <1>3, <1>5 DEF OpInv
<1>8. IdInv'
  BY <1>3 DEF IdInv
<1>9. AnswerInv'
  <2>1. ASSUME NEW q, q.from \in Thread, Genuine(q)
        PROVE  Genuine(q)'
    BY <1>5, <2>1 DEF Genuine
  <2>2. Genuine(r)'
    BY <1>5 DEF Genuine
  <2>3. \A a \in outbox : a.request.from \in Thread
    BY DEF TypeOK, Answers, Request
  <2>4. \A a \in outbox' : Genuine(a.request)'
    <3> SUFFICES ASSUME NEW a \in outbox' PROVE Genuine(a.request)'
      OBVIOUS
    <3>1. CASE a \in outbox
      BY <3>1, <1>5, <2>3 DEF AnswerInv, Genuine
    <3>2. CASE a = m
      BY <3>2, <2>2, <1>3 DEF Genuine
    <3> QED
      BY <3>1, <3>2, <1>3
  <2>5. \A u \in Thread : queue[u] # None => queue[u].request.from \in Thread
    BY DEF TypeOK, Answers, Request
  <2>6. \A u \in Thread : queue'[u] # None => Genuine(queue[u].request)'
    BY <1>3, <1>5, <2>5 DEF AnswerInv, Genuine
  <2> QED
    BY <1>3, <2>4, <2>6 DEF AnswerInv
<1>10. AttemptInv'
  <2>1. \A u \in Thread : Sent(u)' = Sent(u)
    BY <1>3 DEF Sent
  <2>2. \A q \in inbox : q.from \in Thread
    BY DEF TypeOK, Request
  <2>3. \A u \in Thread : \A k \in executed'[u] : k <= Sent(u)'
    BY <1>5, <2>1 DEF AttemptInv
  <2>4. \A q \in inbox' : q.kind = "call" => q.try \notin executed'[q.from]
    BY <1>3, <1>5, <2>2 DEF AttemptInv
  <2> QED
    BY <1>3, <2>1, <2>2, <2>3, <2>4 DEF AttemptInv
<1> QED
  BY <1>6, <1>7, <1>8, <1>9, <1>10

LEMMA RestKeeps ==
    ASSUME IInv, TypeOK', Crash \/ UNCHANGED vars
    PROVE  IInv'
<1>1. UNCHANGED <<messageId, pending, inbox, outbox, pc, op, attempt, asked, queue,
                  executed, result>>
  BY DEF Crash, vars, msgVars
<1> QED
  BY <1>1 DEF IInv, PendingIsAwaited, OpInv, IdInv, KindInv, AnswerInv, AttemptInv,
              Sent, Genuine, Message, Kind

LEMMA Initially == Init => IInv
<1> SUFFICES ASSUME Init PROVE IInv
  OBVIOUS
<1>1. \A i \in DOMAIN pending : FALSE
  BY DEF Init
<1>2. PendingIsAwaited /\ OpInv /\ IdInv /\ KindInv
  BY <1>1 DEF Init, PendingIsAwaited, OpInv, IdInv, KindInv, Waiting, Registered
<1>3. AnswerInv /\ AttemptInv
  BY DEF Init, AnswerInv, AttemptInv
<1> QED
  BY <1>2, <1>3, TypeInit DEF IInv

LEMMA Inductive == IInv /\ [Next]_vars => IInv'
<1> SUFFICES ASSUME IInv, [Next]_vars PROVE IInv'
  OBVIOUS
<1>1. TypeOK' /\ TypeOK /\ OpInv
  BY TypeStep DEF IInv
<1>2. ASSUME NEW t \in Thread, SendRequest(t) \/ Restart(t) \/ Stop(t)
      PROVE  IInv'
  BY <1>1, <1>2, BeginKeeps
<1>3. ASSUME NEW t \in Thread, Glides(t)
      PROVE  IInv'
  <2>1. PICK s \in Steps : Quiet(t, s)
    BY <1>1, <1>3, QuietSteps
  <2> QED
    BY <1>1, <2>1, QuietKeeps
<1>4. ASSUME NEW t \in Thread,
             \/ CallReturns(t) \/ Initialized(t) \/ ErrorResponse(t) \/ Timeout(t)
             \/ BrokenPipe(t)
      PROVE  IInv'
  <2>1. PICK s \in Steps : Ends(t, s)
    BY <1>4, WaitsEnd
  <2> QED
    BY <1>1, <2>1, EndKeeps
<1>5. ASSUME NEW t \in Thread, Proceeds(t) \/ Unblocks(t)
      PROVE  IInv'
  <2>1. CASE Register(t) \/ Write(t)
    BY <1>1, <2>1, RegisterKeeps, WriteKeeps
  <2> QED
    BY <1>3, <1>4, <1>5, <2>1 DEF Proceeds, Requests, Unblocks, Glides
<1>6. ASSUME NEW m \in outbox, Deliver(m)
      PROVE  IInv'
  BY <1>1, <1>6, DeliverKeeps
<1>7. ASSUME NEW r \in inbox, Serve(r)
      PROVE  IInv'
  BY <1>1, <1>7, ServeKeeps
<1>8. CASE Crash \/ UNCHANGED vars
  BY <1>1, <1>8, RestKeeps
<1> QED
  BY <1>2, <1>5, <1>6, <1>7, <1>8 DEF Next

LEMMA Invariance == Spec => []IInv
<1> QED
  BY Initially, Inductive, PTL DEF Spec, Safety

\* Every variable of the transport keeps its type.
THEOREM StdioTypeCorrect == Spec => []TypeOK
<1>1. IInv => TypeOK
  BY DEF IInv
<1> QED
  BY <1>1, Invariance, PTL

\* No thread's timeout, retry or restart removes a queue another thread waits
\* for, and no queue stays registered when its thread has stopped waiting.
THEOREM QueuesAreAwaited == Spec => []PendingIsAwaited
<1>1. IInv => PendingIsAwaited
  BY DEF IInv
<1> QED
  BY <1>1, Invariance, PTL

-----------------------------------------------------------------------------
(***************************************************************************)
(* The restart counter.                                                    *)
(***************************************************************************)
Counting == {t \in Thread : pc[t] = "count"}

\* Threads between the test of the counter and its increment count already.
CountInv ==
    restarts + Cardinality(Counting) <= MaxRestarts + Cardinality(Thread) - 1

LEMMA ThreadsFinite ==
    ASSUME NEW S \in SUBSET Thread
    PROVE  /\ IsFiniteSet(S) /\ Cardinality(S) \in Nat
           /\ Cardinality(S) <= Cardinality(Thread)
           /\ Cardinality(Thread) \in Nat /\ Cardinality(Thread) > 0
<1>1. IsFiniteSet(Thread)
  BY StdioAssumption
<1>2. IsFiniteSet(S) /\ Cardinality(S) <= Cardinality(Thread)
  BY <1>1, FS_Subset
<1>3. Cardinality(Thread) # 0
  BY <1>1, StdioAssumption, FS_EmptySet
<1> QED
  BY <1>1, <1>2, <1>3, FS_CardinalityType

\* A step restarts nothing, passes the test, or counts.
Idles == restarts' \in Nat /\ restarts' <= restarts /\ Counting' \subseteq Counting
Passes == restarts < MaxRestarts /\ restarts' = restarts
Counts(t) == restarts' = restarts + 1 /\ Counting' = Counting \ {t}

LEMMA MovesIdle ==
    ASSUME TypeOK, NEW t \in Thread, NEW s, s # "count", pc' = [pc EXCEPT ![t] = s],
           restarts' = restarts \/ restarts' = 0
    PROVE  Idles
  BY DEF TypeOK, Idles, Counting

LEMMA CountStep ==
    ASSUME TypeOK, [Next]_vars
    PROVE  Idles \/ Passes \/ \E t \in Counting : Counts(t)
<1> USE DEF Goes
<1>1. ASSUME NEW t \in Thread, CheckDead(t)
      PROVE  Passes
  BY <1>1 DEF CheckDead, Moves, MayRestart, Passes
<1>2. ASSUME NEW t \in Thread, Count(t)
      PROVE  t \in Counting /\ Counts(t)
  BY <1>2 DEF Count, Counts, Counting, TypeOK
<1>3. ASSUME NEW t \in Thread, SendRequest(t) \/ Restart(t) \/ Stop(t)
      PROVE  Idles
  <2>1. PICK s \in {"check", "stop"} : pc' = [pc EXCEPT ![t] = s]
                                       /\ (restarts' = restarts \/ restarts' = 0)
    BY <1>3 DEF SendRequest, Restart, Stop
  <2> QED
    BY <2>1, MovesIdle
<1>4. ASSUME NEW t \in Thread, CheckAlive(t) \/ CheckFails(t) \/ Stops(t) \/ Starts(t)
      PROVE  Idles
  <2>1. PICK s \in Steps \ {"count"} : pc' = [pc EXCEPT ![t] = s] /\ restarts' = restarts
    BY <1>4 DEF CheckAlive, CheckFails, Stops, StopNothing, StopProcess, Stopped,
       AfterStop, Moves, Starts, StartTwice, Start, Spawn, CommandNotFound, SpawnFails, BootLost,
       CleanUp, BootDead, Booted, Steps
  <2> QED
    BY <2>1, MovesIdle
<1>5. ASSUME NEW t \in Thread, Requests(t) \/ Unblocks(t)
      PROVE  Idles
  <2>1. PICK s \in Steps \ {"count"} : pc' = [pc EXCEPT ![t] = s]
                                       /\ (restarts' = restarts \/ restarts' = 0)
    BY <1>5 DEF Requests, Unblocks, Register, SendFails, BrokenPipe, CallReturns,
       Initialized, NotifyFails, ErrorResponse, Timeout, StderrEnds, Write, Notify, Moves,
       Again, Steps
  <2> QED
    BY <2>1, MovesIdle
<1>6. ASSUME UNCHANGED <<pc, restarts>>
      PROVE  Idles
  BY <1>6 DEF Idles, Counting, TypeOK
<1>7. ASSUME NEW t \in Thread, Proceeds(t) \/ Unblocks(t)
      PROVE  Idles \/ Passes \/ \E u \in Counting : Counts(u)
  BY <1>1, <1>2, <1>4, <1>5, <1>7 DEF Proceeds, Checks
<1>8. CASE Crash \/ UNCHANGED vars
          \/ (\E m \in outbox : Deliver(m)) \/ (\E r \in inbox : Serve(r))
  BY <1>6, <1>8 DEF Crash, vars, Deliver, Serve
<1> QED
  BY <1>3, <1>7, <1>8 DEF Next

LEMMA CountKeeps == TypeOK /\ CountInv /\ [Next]_vars => CountInv'
<1> SUFFICES ASSUME TypeOK, CountInv, [Next]_vars PROVE CountInv'
  OBVIOUS
<1> DEFINE n == Cardinality(Thread)
<1>1. /\ Counting \in SUBSET Thread /\ Counting' \in SUBSET Thread
      /\ restarts \in Nat /\ MaxRestarts \in Nat
  BY StdioAssumption DEF Counting, TypeOK
<1>2. /\ n \in Nat /\ n > 0
      /\ IsFiniteSet(Counting) /\ Cardinality(Counting) \in Nat
      /\ Cardinality(Counting') \in Nat /\ Cardinality(Counting') <= n
  BY <1>1, ThreadsFinite
<1>3. CASE Idles
  <2>1. Cardinality(Counting') <= Cardinality(Counting)
    BY <1>2, <1>3, FS_Subset DEF Idles
  <2> QED
    BY <1>1, <1>2, <1>3, <2>1 DEF Idles, CountInv
<1>4. CASE Passes
  BY <1>1, <1>2, <1>4 DEF Passes, CountInv
<1>5. ASSUME NEW t \in Counting, Counts(t)
      PROVE  CountInv'
  <2>1. Cardinality(Counting \ {t}) = Cardinality(Counting) - 1
    BY <1>2, FS_RemoveElement
  <2> QED
    BY <1>1, <1>2, <1>5, <2>1 DEF Counts, CountInv
<1> QED
  BY <1>3, <1>4, <1>5, CountStep

\* Each thread can overshoot max_restarts by one restart at most.
THEOREM AutoRestartsBounded == Spec => []RestartsBounded
<1>1. Init => CountInv
  <2> SUFFICES ASSUME Init PROVE CountInv
    OBVIOUS
  <2>1. Counting = {} /\ restarts = 0
    BY DEF Init, Counting
  <2>2. Cardinality(Counting) = 0
    BY <2>1, FS_EmptySet
  <2>3. Cardinality(Thread) \in Nat /\ Cardinality(Thread) > 0
    BY ThreadsFinite
  <2> QED
    BY <2>1, <2>2, <2>3, StdioAssumption DEF CountInv
<1>2. TypeOK /\ CountInv => RestartsBounded
  <2>1. Counting \in SUBSET Thread
    BY DEF Counting
  <2>2. Cardinality(Counting) \in Nat /\ Cardinality(Thread) \in Nat
    BY <2>1, ThreadsFinite
  <2> QED
    BY <2>2, StdioAssumption DEF CountInv, RestartsBounded, TypeOK
<1> QED
  BY <1>1, <1>2, CountKeeps, StdioTypeCorrect, PTL DEF Spec, Safety

-----------------------------------------------------------------------------
(***************************************************************************)
(* The refinement.                                                         *)
(***************************************************************************)
LEMMA MoveIsAbstract ==
    ASSUME IInv, NEW t \in Thread, NEW s \in Steps, pc' = [pc EXCEPT ![t] = s],
           pc[t] \notin Over \cup {"idle"}, s # "idle", s = "done" => op[t] # "call",
           UNCHANGED <<op, executed, result>>
    PROVE  [Abstract!Next]_(Abstract!vars)
<1>1. /\ \A u \in Thread : pc'[u] = IF u = t THEN s ELSE pc[u]
      /\ pc[t] \in Steps \ {"done", "failed", "idle"}
  BY DEF IInv, TypeOK, Over
<1>2. CASE op[t] = "call" /\ s = "failed"
  <2>1. phaseOf[t] = "asked" /\ phaseOf' = [phaseOf EXCEPT ![t] = "failed"]
    BY <1>1, <1>2 DEF phaseOf
  <2>2. Abstract!Fail(t)
    BY <2>1 DEF Abstract!Fail
  <2> QED
    BY <2>2 DEF Abstract!Next
<1>3. CASE ~(op[t] = "call" /\ s = "failed")
  <2>1. phaseOf' = phaseOf
    BY <1>1, <1>3 DEF phaseOf
  <2> QED
    BY <2>1 DEF Abstract!vars
<1> QED
  BY <1>2, <1>3

LEMMA RequestIsAbstract ==
    ASSUME IInv, NEW t \in Thread, Requests(t) \/ Unblocks(t)
    PROVE  [Abstract!Next]_(Abstract!vars)
<1>1. TypeOK /\ OpInv
  BY DEF IInv
<1>2. CASE Register(t) \/ Write(t)
  <2>1. PICK s \in {"writing", "greeting", "waiting", "shaking"} :
          pc' = [pc EXCEPT ![t] = s]
    BY <1>2 DEF Register, Write, Goes
  <2> QED
    BY <1>2, <2>1, MoveIsAbstract DEF Register, Write, Asking, Over, Steps
<1>3. CASE SendFails(t) \/ StderrEnds(t) \/ Notify(t) \/ NotifyFails(t)
  <2>1. Glides(t)
    BY <1>3 DEF Glides
  <2>2. PICK s \in Steps : Quiet(t, s)
    BY <1>1, <2>1, QuietSteps
  <2> QED
    BY <2>2, MoveIsAbstract DEF Quiet
<1>4. CASE BrokenPipe(t) \/ ErrorResponse(t) \/ Timeout(t)
  <2>1. PICK s \in {"check", "failed"} : pc' = [pc EXCEPT ![t] = s]
    BY <1>4 DEF BrokenPipe, ErrorResponse, Timeout, Again, Goes
  <2>2. pc[t] \notin Over \cup {"idle"}
    BY <1>4 DEF BrokenPipe, ErrorResponse, Timeout, Answered, Waiting, Over
  <2> QED
    BY <1>4, <2>1, <2>2, MoveIsAbstract DEF BrokenPipe, ErrorResponse, Timeout, Steps
<1>5. CASE Initialized(t)
  <2>1. PICK s \in {"failed", "notifying"} : pc' = [pc EXCEPT ![t] = s]
    BY <1>5 DEF Initialized, Goes
  <2> QED
    BY <1>5, <2>1, MoveIsAbstract DEF Initialized, Over, Steps
<1>6. CASE CallReturns(t)
  <2>1. /\ pc[t] = "waiting" /\ pc' = [pc EXCEPT ![t] = "done"]
        /\ op[t] = "call" /\ executed[t] # {}
        /\ result' = [result EXCEPT ![t] = t]
        /\ UNCHANGED <<op, executed>>
    BY <1>1, <1>6, AnswerIsGenuine DEF CallReturns, Goes, OpInv
  <2>2. \A u \in Thread : pc'[u] = IF u = t THEN "done" ELSE pc[u]
    BY <1>1, <2>1 DEF TypeOK
  <2>3. phaseOf[t] = "asked" /\ phaseOf' = [phaseOf EXCEPT ![t] = "answered"]
    BY <2>1, <2>2 DEF phaseOf
  <2>4. Abstract!Answer(t)
    BY <2>1, <2>3 DEF Abstract!Answer
  <2> QED
    BY <2>4 DEF Abstract!Next
<1> QED
  BY <1>2, <1>3, <1>4, <1>5, <1>6 DEF Requests, Unblocks

LEMMA StepIsAbstract == IInv /\ [Next]_vars => [Abstract!Next]_(Abstract!vars)
<1> SUFFICES ASSUME IInv, [Next]_vars PROVE [Abstract!Next]_(Abstract!vars)
  OBVIOUS
<1>1. TypeOK /\ OpInv
  BY DEF IInv
<1>2. ASSUME NEW t \in Thread, SendRequest(t)
      PROVE  [Abstract!Next]_(Abstract!vars)
  <2>1. /\ op[t] = "none" /\ op' = [op EXCEPT ![t] = "call"]
        /\ pc' = [pc EXCEPT ![t] = "check"] /\ UNCHANGED <<executed, result>>
    BY <1>1, <1>2 DEF SendRequest, OpInv, Goes
  <2>2. \A u \in Thread : /\ pc'[u] = IF u = t THEN "check" ELSE pc[u]
                          /\ op'[u] = IF u = t THEN "call" ELSE op[u]
    BY <1>1, <2>1 DEF TypeOK
  <2>3. phaseOf[t] = "new" /\ phaseOf' = [phaseOf EXCEPT ![t] = "asked"]
    <3>1. phaseOf[t] = "new"
      BY <2>1 DEF phaseOf
    <3>2. \A u \in Thread : phaseOf'[u] = IF u = t THEN "asked" ELSE phaseOf[u]
      BY <2>2 DEF phaseOf
    <3>3. /\ phaseOf' = [u \in Thread |-> phaseOf'[u]]
          /\ phaseOf = [u \in Thread |-> phaseOf[u]]
      BY DEF phaseOf
    <3> QED
      BY <3>1, <3>2, <3>3
  <2>4. Abstract!Ask(t)
    BY <2>1, <2>3 DEF Abstract!Ask
  <2> QED
    BY <2>4 DEF Abstract!Next
<1>3. ASSUME NEW t \in Thread, Restart(t) \/ Stop(t)
      PROVE  [Abstract!Next]_(Abstract!vars)
  <2>1. PICK m \in {"restart", "stop"} :
          /\ op[t] = "none" /\ op' = [op EXCEPT ![t] = m]
          /\ pc' = [pc EXCEPT ![t] = "stop"] /\ UNCHANGED <<executed, result>>
    BY <1>1, <1>3 DEF Restart, Stop, OpInv, Goes
  <2>2. \A u \in Thread : /\ pc'[u] = IF u = t THEN "stop" ELSE pc[u]
                          /\ op'[u] = IF u = t THEN m ELSE op[u]
    BY <1>1, <2>1 DEF TypeOK
  <2>3. phaseOf' = phaseOf
    BY <2>1, <2>2 DEF phaseOf
  <2> QED
    BY <2>1, <2>3 DEF Abstract!vars
<1>4. ASSUME NEW t \in Thread, Glides(t)
      PROVE  [Abstract!Next]_(Abstract!vars)
  <2>1. PICK s \in Steps : Quiet(t, s)
    BY <1>1, <1>4, QuietSteps
  <2> QED
    BY <2>1, MoveIsAbstract DEF Quiet
<1>5. ASSUME NEW r \in inbox, Serve(r)
      PROVE  [Abstract!Next]_(Abstract!vars)
  <2>1. phaseOf' = phaseOf /\ result' = result
    BY <1>5 DEF Serve, phaseOf
  <2>2. CASE r.kind = "call"
    <3>1. /\ r.from \in Thread /\ r.try \in 0 .. MaxRetries
          /\ op[r.from] = "call" /\ r.try \notin executed[r.from]
      BY <1>1, <2>2 DEF TypeOK, Request, IInv, AttemptInv
    <3>2. phaseOf[r.from] # "new"
      BY <3>1 DEF phaseOf
    <3>3. Abstract!Execute(r.from, r.try)
      BY <1>5, <2>1, <2>2, <3>1, <3>2 DEF Serve, Abstract!Execute
    <3> QED
      BY <3>1, <3>3 DEF Abstract!Next
  <2>3. CASE r.kind # "call"
    <3>1. executed' = executed
      BY <1>5, <2>3 DEF Serve
    <3> QED
      BY <2>1, <3>1 DEF Abstract!vars
  <2> QED
    BY <2>2, <2>3
<1>6. CASE Crash \/ UNCHANGED vars \/ (\E m \in outbox : Deliver(m))
  <2>1. UNCHANGED <<pc, op, executed, result>>
    BY <1>6 DEF Crash, vars, Deliver
  <2>2. phaseOf' = phaseOf
    BY <2>1 DEF phaseOf
  <2> QED
    BY <2>1, <2>2 DEF Abstract!vars
<1> QED
  BY <1>2, <1>3, <1>4, <1>5, <1>6, RequestIsAbstract DEF Next, Proceeds, Glides

\* The transport with its ids, queues, reader threads and restarts implements
\* the calls of RetriedCall: a result is the call's own, and the server executes
\* each attempt once at most.
THEOREM CallsAreRetriedCalls == Spec => Calls
<1>1. Init => Abstract!Init
  <2> SUFFICES ASSUME Init PROVE Abstract!Init
    OBVIOUS
  <2>1. phaseOf = [t \in Thread |-> "new"]
    BY DEF Init, phaseOf
  <2> QED
    BY <2>1 DEF Init, Abstract!Init
<1> QED
  BY <1>1, StepIsAbstract, Invariance, Inductive, Initially, PTL
     DEF Spec, Safety, Calls, Abstract!Spec
==============================================================================
