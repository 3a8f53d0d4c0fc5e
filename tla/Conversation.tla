---------------------------- MODULE Conversation ----------------------------
(***************************************************************************)
(* The messages of one conversation and what they share: the cancel event  *)
(* (core/orchestrator/cancellation.py), the pending escalation             *)
(* (escalation.py) and clarification (clarification.py), the entry of the  *)
(* stream registry (stream_registry.py) and the factory's progress hook,   *)
(* as ExecutionRouter (router.py), ComplexHandler (handlers/               *)
(* complex_handler.py) and the two chat endpoints (api/routes/chat.py and  *)
(* websocket.py) use them.                                                 *)
(*                                                                         *)
(* Everything runs on one event loop, so a step goes from one await to the *)
(* next.  An orchestration is a task of its own: it outlives the stream of *)
(* events when the client leaves, and so does the execution of a fix.      *)
(* What an orchestration does between two looks at its cancel event is in  *)
(* ReactLoop and PlanExecution.                                            *)
(***************************************************************************)
EXTENDS Integers, FiniteSets

CONSTANTS Messages,       \* bound: how many the user sends
          WebSocket,      \* those that come over the WebSocket
          None,
          MaxRefinements  \* bound: of one factory proposal

ASSUME ConversationAssumption ==
    /\ Messages \in Nat /\ WebSocket \subseteq 1 .. Messages
    /\ None \notin 1 .. Messages
    /\ MaxRefinements \in Nat

\* The user's messages in the order they arrive, each with its stream.
Request == 1 .. Messages

Kind == {"factory", "fix"}
Escalation == [by : Request, kind : Kind, turns : 0 .. MaxRefinements]
\* An answer stands for every outcome that registers nothing: an error or
\* an escalation without an action are among them.
Outcome == {"answer", "clarify", "cancelled"} \cup Kind

VARIABLES
    registered, \* CancellationRegistry._events: an event, named by who made it
    set,        \* the events that are set
    pending,    \* EscalationRegistry._pending
    question,   \* ClarificationRegistry._pending, by who asked
    stream,     \* StreamRegistry._streams, by who registered
    emitter,    \* whose _bridged_emit is FactoryPipeline._emit_progress
    place,      \* where a request is
    holds,      \* the event passed to its orchestration
    run,        \* that orchestration: a task
    fix,        \* the escalation whose action a request executes
    fixing,     \* executor_task
    saved,      \* _original_emit
    last,       \* history: the request made last
    fixed,      \* history: escalations whose action was executed, by who asked
    asked,      \* history: orchestrations a cancel was granted for
    disturbed   \* history: requests overlapped, or a client left
registries == <<registered, set, pending, question, stream, emitter>>
orchestration == <<holds, run>>
approval == <<fix, fixing, saved, fixed>>
history == <<last, asked, disturbed>>
conversationVars == <<registries, place, orchestration, approval, history>>

Busy == {"asked", "dispatching", "suggesting", "streaming", "executing"}
Live == {"top", "thinking"}

ConversationTypeOK ==
    /\ registered \in Request \cup {None} /\ set \subseteq Request
    /\ pending \in Escalation \cup {None}
    /\ question \in Request \cup {None} /\ stream \in Request \cup {None}
    /\ emitter \in Request \cup {None}
    /\ place \in [Request -> Busy \cup {"away", "done", "left"}]
    /\ holds \in [Request -> Request \cup {None}]
    /\ run \in [Request -> Live \cup Outcome \cup {"none"}]
    /\ fix \in [Request -> Escalation \cup {None}]
    /\ fixing \in [Request -> {"none", "running", "worked", "failed"}]
    /\ saved \in [Request -> Request \cup {None}]
    /\ last \in Request \cup {None}
    /\ fixed \subseteq Request /\ asked \subseteq Request /\ disturbed \in BOOLEAN

ConversationInit ==
    /\ registered = None /\ set = {} /\ pending = None /\ question = None
    /\ stream = None /\ emitter = None
    /\ place = [r \in Request |-> "away"]
    /\ holds = [r \in Request |-> None]
    /\ run = [r \in Request |-> "none"]
    /\ fix = [r \in Request |-> None]
    /\ fixing = [r \in Request |-> "none"]
    /\ saved = [r \in Request |-> None]
    /\ last = None /\ fixed = {} /\ asked = {} /\ disturbed = FALSE

InProgress(r) == place[r] \in Busy \/ run[r] \in Live \/ fixing[r] = "running"

Goes(r, to) == place' = [place EXCEPT ![r] = to]

\* stream_registry.complete, in the finally of the WebSocket's consumer: the
\* entry goes whoever registered it.
Unstream(r) == stream' = IF r \in WebSocket THEN None ELSE stream

\* The stream of events comes to its end.
Finish(r) == Goes(r, "done") /\ Unstream(r)

(***************************************************************************)
(* A message arrives.                                                      *)
(***************************************************************************)
\* The message is stored; the WebSocket registers the stream.  While a stream
\* of its own runs the WebSocket drops every message but a cancel.
Ask(r) ==
    /\ place[r] = "away"
    /\ \A s \in 1 .. r - 1 : place[s] # "away"
    /\ r \in WebSocket => \A s \in WebSocket : place[s] \notin Busy
    /\ Goes(r, "asked")
    /\ stream' = IF r \in WebSocket THEN r ELSE stream
    /\ last' = r
    /\ disturbed' = (disturbed \/ \E s \in Request : InProgress(s))
    /\ UNCHANGED <<registered, set, pending, question, emitter, orchestration,
                   approval, asked>>

\* A yes: the action is executed in a task, with the factory's progress
\* hook bridged to this stream.  The escalation stays pending meanwhile.
Approve(r) ==
    /\ pending # None
    /\ fix' = [fix EXCEPT ![r] = pending]
    /\ fixing' = [fixing EXCEPT ![r] = "running"]
    /\ fixed' = fixed \cup {pending.by}
    /\ saved' = [saved EXCEPT ![r] = emitter]
    /\ emitter' = r
    /\ Goes(r, "executing")
    /\ UNCHANGED <<pending, question, stream>>

Reject(r) ==
    /\ pending # None
    /\ pending' = None
    /\ Finish(r)
    /\ UNCHANGED <<question, emitter, approval>>

Refinable(e) == e.kind = "factory" /\ e.turns < MaxRefinements

\* Anything else said to a factory proposal refines it.
Refine(r) ==
    /\ pending # None
    /\ Refinable(pending)
    /\ pending' = [by |-> r, kind |-> "factory", turns |-> pending.turns + 1]
    /\ Finish(r)
    /\ UNCHANGED <<question, emitter, approval>>

\* (Fault: an escalation that is passed over stays pending.)
PassAndKeep(r) ==
    /\ pending # None => ~Refinable(pending)
    /\ question' = None
    /\ Goes(r, "dispatching")
    /\ UNCHANGED <<pending, stream, emitter, approval>>

\* No answer to an escalation: one that is pending is dropped, and so is a
\* clarification, merged with the message or expired.
Pass(r) ==
    /\ pending # None => ~Refinable(pending)
    /\ pending' = None
    /\ question' = None
    /\ Goes(r, "dispatching")
    /\ UNCHANGED <<stream, emitter, approval>>

\* ExecutionRouter.route; the user's text reads as a yes, a no or neither.
Route(r) ==
    /\ place[r] = "asked"
    /\ Approve(r) \/ Reject(r) \/ Refine(r) \/ Pass(r)
    /\ UNCHANGED <<registered, set, orchestration, history>>

(***************************************************************************)
(* The tiers, and the orchestration of the complex one.                    *)
(***************************************************************************)
\* The instant and simple tiers, and the planner, answer by themselves.
Direct(r) ==
    /\ place[r] = "dispatching"
    /\ Finish(r)
    /\ UNCHANGED <<registered, set, pending, question, emitter,
                   orchestration, approval, history>>

\* get_or_create.
EventFor(r) == IF registered = None THEN r ELSE registered

\* ComplexHandler.handle up to the look at the agents' MCP resources.
Dispatch(r) ==
    /\ place[r] = "dispatching"
    /\ registered' = EventFor(r)
    /\ holds' = [holds EXCEPT ![r] = EventFor(r)]
    /\ Goes(r, "suggesting")
    /\ UNCHANGED <<set, pending, question, stream, emitter, run,
                   approval, history>>

LaunchRun(r) ==
    /\ place[r] = "suggesting"
    /\ run' = [run EXCEPT ![r] = "top"]
    /\ Goes(r, "streaming")
    /\ UNCHANGED <<registries, holds, approval, history>>

\* Nobody collects the result of an orchestration whose client left.
Returns(r, o) ==
    /\ run' = [run EXCEPT ![r] = IF place[r] = "left" THEN "none" ELSE o]
    /\ holds' = [holds EXCEPT ![r] = None]

\* (Fault: the event is left in the registry.)
EndsRegistered(r, o) ==
    /\ Returns(r, o)
    /\ question' = IF o = "clarify" THEN r ELSE question
    /\ UNCHANGED registered

\* The orchestration returns: a clarification registers itself, and the
\* finally clears the conversation's event, whoever made it.
Ends(r, o) ==
    /\ Returns(r, o)
    /\ question' = IF o = "clarify" THEN r ELSE question
    /\ registered' = None

\* The top of an iteration: a set event ends the orchestration ...
Stops(r) ==
    /\ run[r] = "top"
    /\ holds[r] \in set
    /\ Ends(r, "cancelled")
    /\ UNCHANGED <<set, pending, stream, emitter, place, approval, history>>

Thinks(r) ==
    /\ run[r] = "top"
    /\ holds[r] \notin set
    /\ run' = [run EXCEPT ![r] = "thinking"]
    /\ UNCHANGED <<registries, place, holds, approval, history>>

\* ... and an iteration ends with another, or with the outcome.
Iterates(r) ==
    /\ run[r] = "thinking"
    /\ run' = [run EXCEPT ![r] = "top"]
    /\ UNCHANGED <<registries, place, holds, approval, history>>

Concludes(r, o) ==
    /\ run[r] = "thinking"
    /\ o # "cancelled"
    /\ Ends(r, o)
    /\ UNCHANGED <<set, pending, stream, emitter, place, approval, history>>

\* (Fault: no sentinel comes from an orchestration that was cancelled.)
CollectsAnswers(r) == place[r] = "streaming" /\ run[r] \in Outcome \ {"cancelled"}

\* The sentinel is in the queue.
Collectable(r) == place[r] = "streaming" /\ run[r] \in Outcome

\* The stream has drained the queue: an escalation with an action is
\* registered over any other.
Collect(r) ==
    /\ Collectable(r)
    /\ pending' = IF run[r] \in Kind THEN [by |-> r, kind |-> run[r], turns |-> 0]
                                     ELSE pending
    /\ run' = [run EXCEPT ![r] = "none"]
    /\ Finish(r)
    /\ UNCHANGED <<registered, set, question, emitter, holds, approval, history>>

(***************************************************************************)
(* The execution of an approved action.                                    *)
(***************************************************************************)
FixEnds(r, how) ==
    /\ fixing[r] = "running"
    /\ fixing' = [fixing EXCEPT ![r] = IF place[r] = "left" THEN "none" ELSE how]
    /\ UNCHANGED <<registries, place, orchestration, fix, saved, fixed, history>>

\* (Fault: an escalation whose action failed stays pending.)
ClearedIfWorked(r) == IF fixing[r] = "worked" THEN None ELSE pending

\* registry.clear: whatever is pending by now.
Cleared(r) == None

\* (Fault: the hook is only taken back after a success.)
UnbridgedIfWorked(r) == IF fixing[r] = "worked" THEN saved[r] ELSE emitter

Unbridged(r) == saved[r]

\* The original goal is tried again, unless the factory made what was wanted.
AfterFix(r) ==
    /\ place[r] = "executing"
    /\ fixing[r] \in {"worked", "failed"}
    /\ emitter' = Unbridged(r)
    /\ pending' = Cleared(r)
    /\ fix' = [fix EXCEPT ![r] = None]
    /\ fixing' = [fixing EXCEPT ![r] = "none"]
    /\ saved' = [saved EXCEPT ![r] = None]
    /\ \/ /\ fixing[r] = "worked" /\ fix[r].kind = "fix"
          /\ Goes(r, "dispatching")
          /\ UNCHANGED stream
       \/ /\ fixing[r] = "failed" \/ fix[r].kind = "factory"
          /\ Finish(r)
    /\ UNCHANGED <<registered, set, question, orchestration, fixed, history>>

(***************************************************************************)
(* The user cancels, or leaves.                                            *)
(***************************************************************************)
\* request_cancel finds an event (it answers 404 otherwise).
Cancel ==
    /\ registered # None
    /\ set' = set \cup {registered}
    /\ asked' = asked \cup {r \in Request : holds[r] # None}
    /\ UNCHANGED <<registered, pending, question, stream, emitter, place,
                   orchestration, approval, last, disturbed>>

\* The client goes: the stream's task is cancelled where it waits.  The
\* tasks it made are not; an event it got for a task it had not made yet
\* stays in the registry, and the hook is not taken back.
Leave(r) ==
    /\ place[r] \in Busy
    /\ Goes(r, "left")
    /\ Unstream(r)
    /\ disturbed' = TRUE
    /\ holds' = [holds EXCEPT ![r] = IF run[r] \in Live THEN @ ELSE None]
    /\ run' = [run EXCEPT ![r] = IF @ \in Live THEN @ ELSE "none"]
    /\ fix' = [fix EXCEPT ![r] = None]
    /\ fixing' = [fixing EXCEPT ![r] = IF @ = "running" THEN @ ELSE "none"]
    /\ saved' = [saved EXCEPT ![r] = None]
    /\ UNCHANGED <<registered, set, pending, question, emitter, fixed, last, asked>>

Orchestrates(r) ==
    \/ Stops(r) \/ Thinks(r) \/ Iterates(r)
    \/ \E o \in Outcome : Concludes(r, o)

Executes(r) == \E how \in {"worked", "failed"} : FixEnds(r, how)

Streams(r) == \/ Route(r) \/ Direct(r) \/ Dispatch(r) \/ LaunchRun(r)
              \/ Collect(r) \/ AfterFix(r)

ConversationNext ==
    \/ \E r \in Request :
          \/ Ask(r)
          \/ Streams(r) \/ Orchestrates(r) \/ Executes(r) \/ Leave(r)
    \/ Cancel

\* The loop runs every task; the execution of an action answers or times
\* out, and so does a thought or a tool call, of which the leash allows only
\* so many.  Nothing is assumed of the user.
ConversationFairness == \A r \in Request :
    /\ WF_conversationVars(Streams(r))
    /\ WF_conversationVars(Orchestrates(r))
    /\ WF_conversationVars(Executes(r))
    /\ SF_conversationVars(\E o \in Outcome : Concludes(r, o))

ConversationSpec ==
    ConversationInit /\ [][ConversationNext]_conversationVars /\ ConversationFairness

(***************************************************************************)
(* Properties.  Where a property speaks of an undisturbed conversation,    *)
(* the overlap of two requests, or a client that leaves, does break it in  *)
(* the code.                                                               *)
(***************************************************************************)
\* In an undisturbed conversation a cancel reaches the orchestration that
\* runs, and none stops for a cancel that was meant for an earlier one
\* (cancellation.py, 36-74; run_orchestration, complex_handler.py, 378-382).
CancelIsExact ==
    ~disturbed => \A r \in Request :
        /\ run[r] \in Live => registered = holds[r]
        /\ holds[r] \in set => r \in asked

\* In an undisturbed conversation what waits for the user's answer is what
\* the last request asked: no reply can approve an older escalation or be
\* merged with an older question (router.py, 135-161 and 457-463).
QuestionIsTheLast ==
    (~disturbed /\ \A r \in Request : ~InProgress(r)) =>
        question \in {None, last} /\ (pending # None => pending.by = last)

\* In an undisturbed conversation the action of an escalation is executed at
\* most once, although it stays pending while it is executed and may fail
\* (router.py, 219-256 and 344).
FixedOnce ==
    [][\A r \in Request : (fix[r] = None /\ fix'[r] # None)
                           => disturbed \/ fix'[r].by \notin fixed]_conversationVars

\* In an undisturbed conversation the factory's progress hook is the
\* factory's own whenever no action is executed (router.py, 189-243).
HookIsRestored ==
    (~disturbed /\ \A r \in Request : place[r] # "executing") => emitter = None

\* Every stream ends, whatever its orchestration comes to, who cancels and
\* who else uses the registries: the sentinel always comes.
StreamsEnd == \A r \in Request : place[r] \in Busy ~> place[r] \notin Busy

\* "Check whether a conversation is currently streaming.  Used by the
\* frontend on mount to detect and rejoin active streams after navigation
\* away and back" (chat.py, 237-240), and "reconnecting clients can recover
\* partial state" (stream_registry.py, 4).
StatusIsTrue == \A r \in WebSocket : run[r] \in Live => stream # None

\* "so users can gracefully stop a running orchestration via REST endpoint"
\* (cancellation.py, 3-4).
CancelFindsRun == \A r \in Request : run[r] \in Live => registered # None
==============================================================================
