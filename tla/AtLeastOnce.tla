----------------------------- MODULE AtLeastOnce -----------------------------
(***************************************************************************)
(* What sequenced delivery (core/api/routes/websocket.py) promises for the *)
(* messages of a session: each is outstanding from the moment it has its   *)
(* number until the client has received and acknowledged it, or until it   *)
(* was repeated MaxRetries times in vain.  Connections, buffers, tasks and *)
(* their order do not appear; WsSession implements this.                   *)
(***************************************************************************)
EXTENDS Naturals

CONSTANTS Session, Number, MaxRetries

VARIABLES
    next,         \* per session, the number of the next message
    outstanding,  \* per session, the messages not settled yet
    received,     \* per session, the messages the client has received
    abandoned,    \* per session, the messages given up
    copies        \* per session and message, how often it was repeated
vars == <<next, outstanding, received, abandoned, copies>>

Init ==
    /\ next = [s \in Session |-> 0]
    /\ outstanding = [s \in Session |-> {}]
    /\ received = [s \in Session |-> {}]
    /\ abandoned = [s \in Session |-> {}]
    /\ copies = [s \in Session |-> [n \in Number |-> 0]]

Send(s) ==
    /\ next' = [next EXCEPT ![s] = @ + 1]
    /\ outstanding' = [outstanding EXCEPT ![s] = @ \cup {next[s]}]
    /\ UNCHANGED <<received, abandoned, copies>>

Receive(s, n) ==
    /\ n < next[s]
    /\ received' = [received EXCEPT ![s] = @ \cup {n}]
    /\ UNCHANGED <<next, outstanding, abandoned, copies>>

Acknowledge(s, n) ==
    /\ n \in received[s]
    /\ outstanding' = [outstanding EXCEPT ![s] = @ \ {n}]
    /\ UNCHANGED <<next, received, abandoned, copies>>

\* A round of repetitions.  One that was sent counts, and puts its message
\* back whatever became of it meanwhile; messages repeated MaxRetries times
\* in vain are given up.
Retry(s, sent, back, up) ==
    /\ \A n \in back : n < next[s] /\ copies[s][n] > 0
    /\ \A n \in sent : n < next[s]
    /\ \A n \in up : copies[s][n] >= MaxRetries
    /\ up \subseteq outstanding[s] \cup back
    /\ outstanding' = [outstanding EXCEPT ![s] = (@ \cup back) \ up]
    /\ abandoned' = [abandoned EXCEPT ![s] = @ \cup up]
    /\ copies' = [copies EXCEPT ![s] =
                    [n \in Number |-> IF n \in sent THEN @[n] + 1 ELSE @[n]]]
    /\ UNCHANGED <<next, received>>

Next ==
    \E s \in Session :
        \/ Send(s)
        \/ \E n \in Number : Receive(s, n) \/ Acknowledge(s, n)
        \/ \E sent, back, up \in SUBSET Number : Retry(s, sent, back, up)

Spec == Init /\ [][Next]_vars
==============================================================================
