------------------------------ MODULE WsSession ------------------------------
(***************************************************************************)
(* The chat WebSocket of one client id (core/api/routes/websocket.py) and  *)
(* the browser's side of it (dryade-workbench useChatWebSocket.ts):        *)
(* numbered messages, acknowledgements, the retry task, the session store, *)
(* replay after a reconnection, and the collision of two connections.      *)
(*                                                                         *)
(* Each connection runs its own handler.  A session is named by the        *)
(* connection that created it; a handler that restores one goes on with    *)
(* its numbers.  An await is a step boundary: what happens between two     *)
(* awaits of a coroutine is one action.                                    *)
(***************************************************************************)
EXTENDS Integers, Sequences

CONSTANTS Conn, None,
          MaxSeq,       \* bound: numbers a session hands out
          MaxBoth,      \* bound: numbers two sessions hand out together
          MaxFlight,    \* bound: messages and acknowledgements under way
          BufferSize,   \* WS_BUFFER_SIZE
          MaxRetries    \* WS_MAX_RETRIES

Number == 0 .. (MaxSeq - 1)

ASSUME WsAssumption == /\ None \notin Conn \cup Number
                       /\ MaxSeq \in Nat /\ MaxBoth \in Nat
                       /\ MaxFlight \in Nat /\ BufferSize \in Nat
                       /\ MaxRetries \in Nat

Phases == {"new", "handshake", "fresh", "restored", "greeting", "replaying",
           "serving", "ending", "gone"}

VARIABLES
    active,     \* manager.active[client_id]
    saved,      \* the session of this client id in session_store
    phase,      \* where the handler of a connection is
    sess,       \* the handler's local `session'
    open,       \* the connection takes what the server sends
    after,      \* last_seq of the resume request, then the replay's position
    seq,        \* session.server_seq
    unacked,    \* the keys of session.unacked
    place,      \* the order of those keys in the dict
    tries,      \* the retry count kept with an entry of session.unacked
    retry,      \* the periodic_retry task: "none", "alive", "dead"
    todo,       \* what is left of the retry task's copy of unacked
    resending,  \* the message whose send_json the retry task awaits
    wire,       \* messages on their way to the client
    acks,       \* acknowledgements on their way to the server
    client,     \* the connection the client uses (wsRef)
    last,       \* the client's lastSequenceRef
    received,   \* history: the messages of a session the client received
    copies,     \* history: how often the retry task has sent a message
    abandoned   \* history: the messages the retry task has given up
taskVars == <<retry, todo, resending>>
msgVars == <<seq, unacked, place, tries, copies, abandoned>>
connVars == <<active, saved, phase, sess, open, after>>
clientVars == <<client, last, received>>
vars == <<connVars, msgVars, taskVars, clientVars, wire, acks>>

TypeOK ==
    /\ active \in Conn \cup {None}
    /\ saved \in Conn \cup {None}
    /\ phase \in [Conn -> Phases]
    /\ sess \in [Conn -> Conn]
    /\ open \in [Conn -> BOOLEAN]
    /\ after \in [Conn -> Nat]
    /\ seq \in [Conn -> 0 .. MaxSeq]
    /\ unacked \in [Conn -> SUBSET Number]
    /\ place \in [Conn -> [Number -> Number]]
    /\ tries \in [Conn -> [Number -> 0 .. MaxRetries]]
    /\ retry \in [Conn -> {"none", "alive", "dead"}]
    /\ todo \in [Conn -> SUBSET Number]
    /\ resending \in [Conn -> Number \cup {None}]
    /\ wire \in [Conn -> Seq(Number)]
    /\ acks \in [Conn -> Seq(Number)]
    /\ client \in Conn \cup {None}
    /\ last \in Nat
    /\ received \in [Conn -> SUBSET Number]
    /\ copies \in [Conn -> [Number -> Nat]]
    /\ abandoned \in [Conn -> SUBSET Number]

Init ==
    /\ active = None /\ saved = None /\ client = None /\ last = 0
    /\ phase = [c \in Conn |-> "new"]
    /\ sess = [c \in Conn |-> c]
    /\ open = [c \in Conn |-> FALSE]
    /\ after = [c \in Conn |-> 0]
    /\ seq = [s \in Conn |-> 0]
    /\ unacked = [s \in Conn |-> {}]
    /\ place = [s \in Conn |-> [n \in Number |-> n]]
    /\ tries = [s \in Conn |-> [n \in Number |-> 0]]
    /\ retry = [s \in Conn |-> "none"]
    /\ todo = [s \in Conn |-> {}]
    /\ resending = [s \in Conn |-> None]
    /\ wire = [c \in Conn |-> <<>>]
    /\ acks = [c \in Conn |-> <<>>]
    /\ received = [s \in Conn |-> {}]
    /\ copies = [s \in Conn |-> [n \in Number |-> 0]]
    /\ abandoned = [s \in Conn |-> {}]

(***************************************************************************)
(* The client.                                                             *)
(***************************************************************************)

\* connect(): the old socket is closed without its reconnect callback, and
\* what was on its way on it is discarded.  A resume request goes out on
\* opening if a number above 0 was seen; after[c] = 0 stands for none.
Connect(c) ==
    /\ phase[c] = "new"
    /\ phase' = [phase EXCEPT ![c] = "handshake"]
    /\ open' = [open EXCEPT ![c] = TRUE]
    /\ after' = [after EXCEPT ![c] = last]
    /\ client' = c
    /\ wire' = [d \in Conn |-> IF d = client THEN <<>> ELSE wire[d]]
    /\ UNCHANGED <<active, saved, sess, msgVars, taskVars, last, received, acks>>

\* handleMessage: the number is noted and acknowledged, whatever was received
\* before; nothing is compared with the numbers seen so far.
Receive(c) ==
    /\ client = c
    /\ wire[c] # <<>>
    /\ wire' = [wire EXCEPT ![c] = Tail(@)]
    /\ last' = Head(wire[c])
    /\ received' = [received EXCEPT ![sess[c]] = @ \cup {Head(wire[c])}]
    /\ acks' = IF open[c] THEN [acks EXCEPT ![c] = Append(@, Head(wire[c]))]
                          ELSE acks
    /\ UNCHANGED <<connVars, msgVars, taskVars, client>>

\* The server notices that the connection is lost, or closes it itself after
\* a heartbeat timeout.
Drop(c) ==
    /\ open[c]
    /\ open' = [open EXCEPT ![c] = FALSE]
    /\ wire' = [wire EXCEPT ![c] = <<>>]
    /\ UNCHANGED <<active, saved, phase, sess, after, msgVars, taskVars,
                   clientVars, acks>>

(***************************************************************************)
(* The handler: handshake, registration, greeting or replay.               *)
(***************************************************************************)

\* (Fault: restore returns the stored session and leaves it in the store.)
RestoreKeepingIt(c) ==
    /\ phase[c] = "handshake"
    /\ after[c] > 0
    /\ saved # None
    /\ phase' = [phase EXCEPT ![c] = "restored"]
    /\ sess' = [sess EXCEPT ![c] = saved]
    /\ UNCHANGED <<active, saved, open, after, msgVars, taskVars, clientVars,
                   wire, acks>>

\* handle_initial_message with a resume request that arrives in time:
\* session_store.restore takes the session out of the store.
Restore(c) ==
    /\ phase[c] = "handshake"
    /\ after[c] > 0
    /\ saved # None
    /\ phase' = [phase EXCEPT ![c] = "restored"]
    /\ sess' = [sess EXCEPT ![c] = saved]
    /\ saved' = None
    /\ UNCHANGED <<active, open, after, msgVars, taskVars, clientVars, wire, acks>>

\* Every other handshake makes a new session: no resume request, one that
\* comes after the 0.1 s, one behind a first-message authentication, or
\* nothing stored.  restore removes a session whose TTL has passed.
StartFresh(c) ==
    /\ phase[c] = "handshake"
    /\ phase' = [phase EXCEPT ![c] = "fresh"]
    /\ after' = [after EXCEPT ![c] = 0]
    /\ UNCHANGED <<active, saved, sess, open, msgVars, taskVars,
                   clientVars, wire, acks>>

Expire ==
    /\ saved # None
    /\ saved' = None
    /\ UNCHANGED <<active, phase, sess, open, after, msgVars, taskVars,
                   clientVars, wire, acks>>

\* The section under manager._lock: the connection registered before is
\* closed (4002) and replaced.
Register(c) ==
    /\ phase[c] \in {"fresh", "restored"}
    /\ open' = [d \in Conn |-> open[d] /\ ~(d = active /\ d # c)]
    /\ active' = c
    /\ phase' = [phase EXCEPT ![c] =
                    IF @ = "fresh" THEN "greeting" ELSE "replaying"]
    /\ UNCHANGED <<saved, sess, after, msgVars, taskVars, clientVars, wire, acks>>

Live(c) == phase[c] \in {"restored", "greeting", "replaying", "serving"}

\* What reaches the client of what the server sends on connection c.
Sent(c, n) ==
    /\ Len(wire[c]) + Len(acks[c]) < MaxFlight
    /\ wire' = IF open[c] /\ client = c
               THEN [wire EXCEPT ![c] = Append(@, n)] ELSE wire

\* A key that is new in a dict comes last: places with n moved to the end.
Last(places, n) ==
    [m \in Number |-> IF m = n THEN MaxSeq - 1
                      ELSE IF places[m] > places[n] THEN places[m] - 1
                      ELSE places[m]]

\* The bounds on the numbers handed out.
Within(s) == /\ seq[s] < MaxSeq
             /\ \A t \in Conn \ {s} : seq[s] + seq[t] < MaxBoth

\* (Fault: the entry is made after the send, so a failed send leaves none.)
TrackWhatWasSent(s) ==
    /\ Within(s)
    /\ seq' = [seq EXCEPT ![s] = @ + 1]
    /\ unacked' = IF \E c \in Conn : sess[c] = s /\ phase[c] = "serving" /\ open[c]
                  THEN [unacked EXCEPT ![s] = @ \cup {seq[s]}] ELSE unacked
    /\ place' = [place EXCEPT ![s] = Last(@, seq[s])]
    /\ UNCHANGED <<tries, copies, abandoned>>

\* send_sequenced up to its await: the message has its number and its entry
\* in unacked before the socket is tried.
Track(s) ==
    /\ Within(s)
    /\ seq' = [seq EXCEPT ![s] = @ + 1]
    /\ unacked' = [unacked EXCEPT ![s] = @ \cup {seq[s]}]
    /\ place' = [place EXCEPT ![s] = Last(@, seq[s])]
    /\ UNCHANGED <<tries, copies, abandoned>>

\* The new_session message, number 0.  It is sent outside the try block: if
\* the send fails the handler is over, and nothing is saved or unregistered.
Greet(c) ==
    /\ phase[c] = "greeting"
    /\ Track(sess[c])
    /\ Sent(c, seq[sess[c]])
    /\ phase' = [phase EXCEPT ![c] = IF open[c] THEN "serving" ELSE "gone"]
    /\ retry' = IF open[c] THEN [retry EXCEPT ![sess[c]] = "alive"] ELSE retry
    /\ UNCHANGED <<active, saved, sess, open, after, todo, resending,
                   clientVars, acks>>

\* session.buffer keeps the last BufferSize messages.
Buffered(s) == {n \in Number : n < seq[s] /\ seq[s] <= n + BufferSize}
Missed(c) == {n \in Buffered(sess[c]) : n > after[c]}

\* replay_missed_messages, one message per await, then the resumed message
\* and the background tasks.  It too is outside the try block.
Replay(c) ==
    /\ phase[c] = "replaying"
    /\ open[c]
    /\ \E n \in Missed(c) :
          /\ \A m \in Missed(c) : n <= m
          /\ after' = [after EXCEPT ![c] = n]
          /\ Sent(c, n)
    /\ UNCHANGED <<active, saved, phase, sess, open, msgVars, taskVars,
                   clientVars, acks>>

Resumed(c) ==
    /\ phase[c] = "replaying"
    /\ open[c]
    /\ Missed(c) = {}
    /\ phase' = [phase EXCEPT ![c] = "serving"]
    /\ after' = [after EXCEPT ![c] = 0]
    /\ retry' = [retry EXCEPT ![sess[c]] = "alive"]
    /\ UNCHANGED <<active, saved, sess, open, msgVars, todo, resending,
                   clientVars, wire, acks>>

\* The handler of a connection that is lost before it serves ends at its next
\* receive or send, with its session, if it has one.
EndEarly(c) ==
    /\ phase[c] \in {"handshake", "replaying"}
    /\ ~open[c]
    /\ phase' = [phase EXCEPT ![c] = "gone"]
    /\ UNCHANGED <<active, saved, sess, open, after, msgVars, taskVars,
                   clientVars, wire, acks>>

(***************************************************************************)
(* The handler: serving.                                                   *)
(***************************************************************************)

Send(c) ==
    /\ phase[c] = "serving"
    /\ Track(sess[c])
    /\ Sent(c, seq[sess[c]])
    /\ UNCHANGED <<connVars, taskVars, clientVars, acks>>

\* (Fault: an acknowledgement counts for every smaller number as well.)
HandleCumulativeAck(c) ==
    /\ phase[c] = "serving"
    /\ acks[c] # <<>>
    /\ acks' = [acks EXCEPT ![c] = Tail(@)]
    /\ unacked' = [unacked EXCEPT ![sess[c]] = {n \in @ : n > Head(acks[c])}]
    /\ UNCHANGED <<connVars, seq, place, tries, copies, abandoned, taskVars,
                   clientVars, wire>>

\* handle_ack.
HandleAck(c) ==
    /\ phase[c] = "serving"
    /\ acks[c] # <<>>
    /\ acks' = [acks EXCEPT ![c] = Tail(@)]
    /\ unacked' = [unacked EXCEPT ![sess[c]] = @ \ {Head(acks[c])}]
    /\ UNCHANGED <<connVars, seq, place, tries, copies, abandoned, taskVars,
                   clientVars, wire>>

\* The end of the handler.  A WebSocketDisconnect saves the session; any
\* other exception (a send to a closed socket, a message that is not JSON)
\* does not.  Both cancel the background tasks; the await on one that is dead
\* raises its exception again and skips the disconnect: a retry task, or the
\* heartbeat, when closing a connection that is closed has failed.
End(c, saves) ==
    /\ phase[c] = "serving"
    /\ saves => ~open[c]
    /\ saved' = IF saves THEN sess[c] ELSE saved
    /\ open' = [open EXCEPT ![c] = FALSE]
    /\ \E heartbeatDied \in BOOLEAN :
          /\ heartbeatDied => ~open[c]
          /\ phase' = [phase EXCEPT ![c] =
                 IF heartbeatDied \/ retry[sess[c]] = "dead" THEN "gone" ELSE "ending"]
    /\ retry' = [retry EXCEPT ![sess[c]] = "none"]
    /\ todo' = [todo EXCEPT ![sess[c]] = {}]
    /\ resending' = [resending EXCEPT ![sess[c]] = None]
    /\ acks' = [acks EXCEPT ![c] = <<>>]
    /\ UNCHANGED <<active, sess, after, msgVars, clientVars, wire>>

\* manager.disconnect(conversation_id): whichever connection is registered.
Disconnect(c) ==
    /\ phase[c] = "ending"
    /\ phase' = [phase EXCEPT ![c] = "gone"]
    /\ active' = None
    /\ UNCHANGED <<saved, sess, open, after, msgVars, taskVars, clientVars,
                   wire, acks>>

(***************************************************************************)
(* The retry task of the session on connection c.                          *)
(***************************************************************************)

Exhausted(s) == {n \in Number : tries[s][n] >= MaxRetries}

Foremost(s, D) == {n \in D : \A m \in D : place[s][n] <= place[s][m]}

\* The loop of retry_unacked over what is left of its copy of the entries,
\* from one await to the next: exhausted messages are given up on the way to
\* the first one to be sent.  `del session.unacked[seq]' of an entry that was
\* acknowledged since the copy was made is a KeyError and ends the task.  On
\* a closed connection every send fails at once, which is only logged.
Loop(c, left, entries) ==
    LET s == sess[c]
        next == IF open[c] THEN Foremost(s, left \ Exhausted(s)) ELSE {}
        due == {n \in left \cap Exhausted(s) :
                    \A m \in next : place[s][n] < place[s][m]}
        missing == due \ entries
        up == {n \in due : \A m \in missing : place[s][n] < place[s][m]}
    IN
    /\ unacked' = [unacked EXCEPT ![s] = entries \ up]
    /\ abandoned' = [abandoned EXCEPT ![s] = @ \cup up]
    /\ IF missing = {} /\ next # {}
       THEN \E n \in next :
               /\ Sent(c, n)
               /\ resending' = [resending EXCEPT ![s] = n]
               /\ copies' = [copies EXCEPT ![s][n] = @ + 1]
               /\ todo' = [todo EXCEPT ![s] = left \ (due \cup {n})]
       ELSE /\ resending' = [resending EXCEPT ![s] = None]
            /\ todo' = [todo EXCEPT ![s] = {}]
            /\ UNCHANGED <<wire, copies>>
    /\ retry' = IF missing = {} THEN retry ELSE [retry EXCEPT ![s] = "dead"]
    /\ UNCHANGED <<connVars, seq, clientVars, acks>>

\* (Fault: a resend that failed is counted like one that was made.)
RetryCountingFailures(c, overdue) ==
    LET s == sess[c] IN
    /\ phase[c] = "serving"
    /\ retry[s] = "alive" /\ resending[s] = None
    /\ Loop(c, overdue, unacked[s])
    /\ tries' = [tries EXCEPT ![s] = [n \in Number |->
                    IF ~open[c] /\ n \in overdue \ Exhausted(s)
                    THEN @[n] + 1 ELSE @[n]]]
    /\ UNCHANGED place

\* periodic_retry wakes up; overdue are the entries older than
\* WS_ACK_TIMEOUT_S.
Retry(c, overdue) ==
    LET s == sess[c] IN
    /\ phase[c] = "serving"
    /\ retry[s] = "alive" /\ resending[s] = None
    /\ overdue # {}
    /\ Loop(c, overdue, unacked[s])
    /\ UNCHANGED <<tries, place>>

\* The await of a resend is over, and the entry is written with its new
\* count, also when the acknowledgement has removed it in between: it then is
\* the last of the dict.
Resent(c) ==
    LET s == sess[c]
        n == resending[s] IN
    /\ phase[c] = "serving"
    /\ n # None
    /\ tries' = [tries EXCEPT ![s][n] = @ + 1]
    /\ place' = IF n \in unacked[s] THEN place ELSE [place EXCEPT ![s] = Last(@, n)]
    /\ Loop(c, todo[s], unacked[s] \cup {n})

\* It failed after all.
NotResent(c) ==
    LET s == sess[c] IN
    /\ phase[c] = "serving"
    /\ resending[s] # None
    /\ ~open[c]
    /\ Loop(c, todo[s], unacked[s])
    /\ UNCHANGED <<tries, place>>

Next ==
    \/ Expire
    \/ \E c \in Conn :
          \/ Connect(c) \/ Receive(c) \/ Drop(c)
          \/ Restore(c) \/ StartFresh(c) \/ Register(c) \/ Greet(c)
          \/ Replay(c) \/ Resumed(c) \/ EndEarly(c)
          \/ Send(c) \/ HandleAck(c) \/ Disconnect(c)
          \/ Resent(c) \/ NotResent(c)
          \/ \E saves \in BOOLEAN : End(c, saves)
          \/ \E overdue \in SUBSET unacked[sess[c]] : Retry(c, overdue)

Spec == Init /\ [][Next]_vars

(***************************************************************************)
(* Properties                                                              *)
(***************************************************************************)

\* No message of a session vanishes: whatever was numbered is still
\* unacknowledged, or the client has received it, or the retry task has given
\* it up; through failed sends, reconnections and replays.
NothingLost ==
    \A s \in Conn : \A n \in Number :
        n < seq[s] => n \in unacked[s] \cup received[s] \cup abandoned[s]

\* A message is given up only after the retry task has sent it MaxRetries
\* times on an open connection; resends that failed do not count, and the
\* counts survive the reconnections of the session.
GiveUpEarned ==
    \A s \in Conn : \A n \in abandoned[s] : copies[s][n] >= MaxRetries

\* No two handlers work on one session, and none on the stored one: two
\* connections that resume at the same time do not both get it.
OneHandlerPerSession ==
    \A c, d \in Conn :
        Live(c) => /\ sess[c] # saved
                   /\ Live(d) /\ sess[c] = sess[d] => c = d

\* WsSession implements the abstract delivery of AtLeastOnce.
Abstract == INSTANCE AtLeastOnce
                WITH Session <- Conn, Number <- Number, MaxRetries <- MaxRetries,
                     next <- seq, outstanding <- unacked, received <- received,
                     abandoned <- abandoned, copies <- copies
Delivery == Abstract!Spec

\* ConnectionManager.connect: "if client_id already has an active connection,
\* the old connection is closed before being replaced".
OneOpenConnection ==
    \A c, d \in Conn :
        (open[c] /\ phase[c] \in {"greeting", "replaying", "serving"}
            /\ open[d] /\ phase[d] \in {"greeting", "replaying", "serving"})
                => c = d

\* periodic_retry: "Runs until cancelled".
RetryRunsUntilCancelled ==
    \A s \in Conn : retry[s] # "dead"
==============================================================================
