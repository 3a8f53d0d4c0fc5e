--------------------------- MODULE WsSessionProofs ---------------------------
(***************************************************************************)
(* Proofs about WsSession: its type invariant, that no message is lost,    *)
(* that giving up is earned, that a session has one handler, and that      *)
(* every behaviour of WsSession is one of AtLeastOnce.                     *)
(***************************************************************************)
EXTENDS WsSession, TLAPS

\* A connection before its handler has chosen a session; nothing is saved
\* or restored under its name yet.
Early(c) == phase[c] \in {"new", "handshake", "fresh"}

Own ==
    \A c \in Conn : Early(c) =>
        /\ sess[c] = c
        /\ saved # c
        /\ \A d \in Conn : sess[d] = c => d = c

SessInv == Own /\ OneHandlerPerSession

\* Nothing is under way on a connection without a session.
Quiet == \A c \in Conn : Early(c) => wire[c] = <<>> /\ acks[c] = <<>>

OnTheWay ==
    \A c \in Conn :
        /\ \A i \in 1 .. Len(wire[c]) : wire[c][i] < seq[sess[c]]
        /\ \A i \in 1 .. Len(acks[c]) : acks[c][i] \in received[sess[c]]

Numbered ==
    \A s \in Conn :
        /\ \A n \in unacked[s] \cup todo[s] \cup received[s] : n < seq[s]
        /\ resending[s] # None =>
              resending[s] < seq[s] /\ resending[s] \notin todo[s]

\* The count kept with an entry is that of the sends that were made; the one
\* under way is not in it yet.
Counted ==
    \A s \in Conn : \A n \in Number :
        /\ tries[s][n] <= copies[s][n]
        /\ resending[s] = n => /\ tries[s][n] < copies[s][n]
                               /\ tries[s][n] < MaxRetries

MsgInv == Quiet /\ OnTheWay /\ Numbered /\ Counted /\ NothingLost /\ GiveUpEarned

IInv == TypeOK /\ SessInv /\ MsgInv

\* The three effects of the retry task's loop, without its order: what it
\* gives up, and the message it sends or that it is through.
GivesUp(c, entries, up) ==
    /\ up \subseteq Exhausted(sess[c])
    /\ unacked' = [unacked EXCEPT ![sess[c]] = entries \ up]
    /\ abandoned' = [abandoned EXCEPT ![sess[c]] = @ \cup up]

Sends(c, left, n) ==
    /\ wire' = IF open[c] /\ client = c
               THEN [wire EXCEPT ![c] = Append(@, n)] ELSE wire
    /\ resending' = [resending EXCEPT ![sess[c]] = n]
    /\ copies' = [copies EXCEPT ![sess[c]][n] = @ + 1]
    /\ \E rest \in SUBSET (left \ {n}) : todo' = [todo EXCEPT ![sess[c]] = rest]

IsThrough(c) ==
    /\ resending' = [resending EXCEPT ![sess[c]] = None]
    /\ todo' = [todo EXCEPT ![sess[c]] = {}]
    /\ UNCHANGED <<wire, copies>>

LEMMA LoopEffect ==
    ASSUME TypeOK, NEW c \in Conn, NEW left \in SUBSET Number,
           NEW entries \in SUBSET Number, Loop(c, left, entries)
    PROVE  /\ \E up \in SUBSET entries : GivesUp(c, entries, up)
           /\ \/ \E n \in left \ Exhausted(sess[c]) : Sends(c, left, n)
              \/ IsThrough(c)
           /\ retry' = retry \/ retry' = [retry EXCEPT ![sess[c]] = "dead"]
           /\ UNCHANGED <<connVars, seq, clientVars, acks>>
<1> DEFINE s == sess[c]
           next == IF open[c] THEN Foremost(s, left \ Exhausted(s)) ELSE {}
           due == {n \in left \cap Exhausted(s) :
                       \A m \in next : place[s][n] < place[s][m]}
           missing == due \ entries
           up == {n \in due : \A m \in missing : place[s][n] < place[s][m]}
<1>0. /\ unacked' = [unacked EXCEPT ![s] = entries \ up]
      /\ abandoned' = [abandoned EXCEPT ![s] = @ \cup up]
      /\ IF missing = {} /\ next # {}
         THEN \E n \in next :
                 /\ Sent(c, n)
                 /\ resending' = [resending EXCEPT ![s] = n]
                 /\ copies' = [copies EXCEPT ![s][n] = @ + 1]
                 /\ todo' = [todo EXCEPT ![s] = left \ (due \cup {n})]
         ELSE /\ resending' = [resending EXCEPT ![s] = None]
              /\ todo' = [todo EXCEPT ![s] = {}]
              /\ UNCHANGED <<wire, copies>>
      /\ retry' = IF missing = {} THEN retry ELSE [retry EXCEPT ![s] = "dead"]
      /\ UNCHANGED <<connVars, seq, clientVars, acks>>
  BY DEF Loop
<1>1. up \subseteq Exhausted(s)
  OBVIOUS
<1>2. up \subseteq entries
  <2> SUFFICES ASSUME NEW n \in up, n \notin entries PROVE FALSE
    OBVIOUS
  <2>1. n \in missing
    OBVIOUS
  <2>2. place[s][n] < place[s][n]
    BY <2>1
  <2>3. n \in Number /\ s \in Conn
    BY DEF TypeOK, Exhausted
  <2>4. place \in [Conn -> [Number -> Number]]
    BY DEF TypeOK
  <2>5. place[s][n] \in Number
    BY <2>3, <2>4
  <2>6. \A x \in Number : ~(x < x)
    BY DEF Number
  <2> QED
    BY <2>2, <2>5, <2>6
<1>3. next \subseteq left \ Exhausted(s)
  BY DEF Foremost
<1> HIDE DEF next, due, missing, up, s
<1>4. GivesUp(c, entries, up) /\ up \in SUBSET entries
  BY <1>0, <1>1, <1>2 DEF s, GivesUp
<1>5. CASE missing = {} /\ next # {}
  <2>1. PICK n \in next : /\ Sent(c, n)
                          /\ resending' = [resending EXCEPT ![s] = n]
                          /\ copies' = [copies EXCEPT ![s][n] = @ + 1]
                          /\ todo' = [todo EXCEPT ![s] = left \ (due \cup {n})]
    BY <1>0, <1>5
  <2>2. left \ (due \cup {n}) \in SUBSET (left \ {n})
    OBVIOUS
  <2>3. n \in left \ Exhausted(s)
    BY <1>3
  <2>4. \E rest \in SUBSET (left \ {n}) : todo' = [todo EXCEPT ![s] = rest]
    BY <2>1, <2>2
  <2>5. wire' = IF open[c] /\ client = c
                THEN [wire EXCEPT ![c] = Append(@, n)] ELSE wire
    BY <2>1 DEF Sent
  <2>6. Sends(c, left, n)
    BY <2>1, <2>4, <2>5 DEF s, Sends
  <2>7. retry' = retry
    BY <1>0, <1>5
  <2> QED
    BY <1>0, <1>4, <2>3, <2>6, <2>7 DEF s
<1>6. CASE ~(missing = {} /\ next # {})
  BY <1>0, <1>6, <1>4 DEF s, IsThrough
<1> QED
  BY <1>5, <1>6

\* What the retry task does to the handlers: nothing.
LEMMA LoopKeepsHandlers ==
    ASSUME TypeOK, NEW c \in Conn, NEW left, NEW entries, Loop(c, left, entries)
    PROVE  UNCHANGED <<active, saved, phase, sess, open, after, seq, acks,
                       client, last, received>>
  BY DEF Loop, connVars, clientVars

LEMMA RetryKeepsHandlers ==
    ASSUME TypeOK, NEW c \in Conn,
           \/ \E overdue \in SUBSET unacked[sess[c]] : Retry(c, overdue)
           \/ Resent(c)
           \/ NotResent(c)
    PROVE  UNCHANGED <<active, saved, phase, sess, open, after, seq, acks,
                       client, last, received>>
<1>1. CASE \E overdue \in SUBSET unacked[sess[c]] : Retry(c, overdue)
  BY <1>1, LoopKeepsHandlers DEF Retry
<1>2. CASE Resent(c)
  BY <1>2, LoopKeepsHandlers DEF Resent
<1>3. CASE NotResent(c)
  BY <1>3, LoopKeepsHandlers DEF NotResent
<1> QED
  BY <1>1, <1>2, <1>3

LEMMA SessInit == ASSUME Init PROVE SessInv
  BY WsAssumption DEF Init, SessInv, Own, OneHandlerPerSession, Live, Early

\* A session is handed on only through the store, which holds one that no
\* live handler has, and a restoring handler takes it out.
LEMMA SessStep ==
    ASSUME TypeOK, SessInv, [Next]_vars
    PROVE  SessInv'
<1> USE DEF SessInv, Own, OneHandlerPerSession, Live, Early
<1>0. phase \in [Conn -> Phases] /\ sess \in [Conn -> Conn]
      /\ saved \in Conn \cup {None} /\ None \notin Conn
  BY WsAssumption DEF TypeOK
<1>1. CASE UNCHANGED <<phase, sess, saved>>
  BY <1>1
<1>2. CASE Expire
  BY <1>0, <1>2 DEF Expire
<1>3. ASSUME NEW c \in Conn, Restore(c)
      PROVE  SessInv'
  BY <1>0, <1>3 DEF Restore
<1>4. ASSUME NEW c \in Conn, Connect(c) \/ StartFresh(c)
      PROVE  SessInv'
  BY <1>0, <1>4 DEF Connect, StartFresh
<1>5. ASSUME NEW c \in Conn, Register(c)
      PROVE  SessInv'
  BY <1>0, <1>5 DEF Register
<1>6. ASSUME NEW c \in Conn, Greet(c) \/ Resumed(c)
      PROVE  SessInv'
  BY <1>0, <1>6 DEF Greet, Resumed
<1>7. ASSUME NEW c \in Conn, EndEarly(c) \/ Disconnect(c)
      PROVE  SessInv'
  BY <1>0, <1>7 DEF EndEarly, Disconnect
<1>8. ASSUME NEW c \in Conn, NEW saves \in BOOLEAN, End(c, saves)
      PROVE  SessInv'
  <2>1. phase[c] = "serving" /\ sess' = sess
    BY <1>8 DEF End
  <2>2. phase' = [phase EXCEPT ![c] = "gone"] \/ phase' = [phase EXCEPT ![c] = "ending"]
    BY <1>8 DEF End
  <2>3. saved' = saved \/ saved' = sess[c]
    BY <1>8 DEF End
  <2> QED
    BY <1>0, <2>1, <2>2, <2>3
<1>9. ASSUME NEW c \in Conn,
             Receive(c) \/ Drop(c) \/ Replay(c) \/ Send(c) \/ HandleAck(c)
      PROVE  SessInv'
  BY <1>1, <1>9 DEF Receive, Drop, Replay, Send, HandleAck, connVars
<1>10. ASSUME NEW c \in Conn,
              \/ \E overdue \in SUBSET unacked[sess[c]] : Retry(c, overdue)
              \/ Resent(c)
              \/ NotResent(c)
       PROVE  SessInv'
  BY <1>1, <1>10, RetryKeepsHandlers
<1>11. CASE UNCHANGED vars
  BY <1>1, <1>11 DEF vars, connVars
<1> HIDE DEF SessInv
<1> QED
  BY <1>2, <1>3, <1>4, <1>5, <1>6, <1>7, <1>8, <1>9, <1>10, <1>11 DEF Next

LEMMA TypeInit == ASSUME Init PROVE TypeOK
<1>1. \A n \in Number : n \in Nat /\ n \in Number
  BY DEF Number
<1>2. 0 \in 0 .. MaxSeq /\ 0 \in 0 .. MaxRetries
  BY WsAssumption
<1>3. <<>> \in Seq(Number)
  OBVIOUS
<1> QED
  BY <1>1, <1>2, <1>3 DEF Init, TypeOK, Phases

\* Number is closed under the move of a key to the end of the dict.
LEMMA LastType ==
    ASSUME NEW places \in [Number -> Number], NEW n \in Number
    PROVE  Last(places, n) \in [Number -> Number]
<1> SUFFICES ASSUME NEW m \in Number
             PROVE  (IF m = n THEN MaxSeq - 1
                     ELSE IF places[m] > places[n] THEN places[m] - 1
                     ELSE places[m]) \in Number
  BY DEF Last
<1>1. places[m] \in Number /\ places[n] \in Number
  OBVIOUS
<1>2. \A x, y \in Number : MaxSeq - 1 \in Number /\ (x > y => x - 1 \in Number)
  BY WsAssumption DEF Number
<1> QED
  BY <1>1, <1>2

LEMMA TrackType ==
    ASSUME TypeOK, NEW s \in Conn, Track(s)
    PROVE  /\ seq[s] \in Number
           /\ seq' \in [Conn -> 0 .. MaxSeq]
           /\ unacked' \in [Conn -> SUBSET Number]
           /\ place' \in [Conn -> [Number -> Number]]
           /\ tries' = tries /\ copies' = copies /\ abandoned' = abandoned
<1>1. seq[s] \in 0 .. MaxSeq /\ seq[s] < MaxSeq
  BY DEF TypeOK, Track, Within
<1>2. seq[s] \in Number /\ seq[s] + 1 \in 0 .. MaxSeq
  BY <1>1, WsAssumption DEF Number
<1>3. Last(place[s], seq[s]) \in [Number -> Number]
  BY <1>2, LastType DEF TypeOK
<1> QED
  BY <1>2, <1>3 DEF TypeOK, Track

LEMMA SentType ==
    ASSUME TypeOK, NEW c \in Conn, NEW n \in Number, Sent(c, n)
    PROVE  wire' \in [Conn -> Seq(Number)]
<1>1. wire[c] \in Seq(Number)
  BY DEF TypeOK
<1>2. Append(wire[c], n) \in Seq(Number)
  BY <1>1
<1> QED
  BY <1>2 DEF TypeOK, Sent

LEMMA LoopType ==
    ASSUME TypeOK, NEW c \in Conn, NEW left \in SUBSET Number,
           NEW entries \in SUBSET Number, Loop(c, left, entries)
    PROVE  /\ unacked' \in [Conn -> SUBSET Number]
           /\ abandoned' \in [Conn -> SUBSET Number]
           /\ wire' \in [Conn -> Seq(Number)]
           /\ resending' \in [Conn -> Number \cup {None}]
           /\ copies' \in [Conn -> [Number -> Nat]]
           /\ todo' \in [Conn -> SUBSET Number]
           /\ retry' \in [Conn -> {"none", "alive", "dead"}]
<1>1. sess[c] \in Conn
  BY DEF TypeOK
<1>2. /\ unacked' \in [Conn -> SUBSET Number]
      /\ abandoned' \in [Conn -> SUBSET Number]
  <2>1. PICK up \in SUBSET entries : GivesUp(c, entries, up)
    BY LoopEffect
  <2> QED
    BY <1>1, <2>1 DEF TypeOK, GivesUp
<1>3. /\ wire' \in [Conn -> Seq(Number)]
      /\ resending' \in [Conn -> Number \cup {None}]
      /\ copies' \in [Conn -> [Number -> Nat]]
      /\ todo' \in [Conn -> SUBSET Number]
  <2>1. ASSUME NEW n \in left \ Exhausted(sess[c]), Sends(c, left, n)
        PROVE  /\ wire' \in [Conn -> Seq(Number)]
               /\ resending' \in [Conn -> Number \cup {None}]
               /\ copies' \in [Conn -> [Number -> Nat]]
               /\ todo' \in [Conn -> SUBSET Number]
    <3>1. /\ wire' = IF open[c] /\ client = c
                     THEN [wire EXCEPT ![c] = Append(@, n)] ELSE wire
          /\ resending' = [resending EXCEPT ![sess[c]] = n]
          /\ copies' = [copies EXCEPT ![sess[c]][n] = @ + 1]
          /\ \E rest \in SUBSET (left \ {n}) : todo' = [todo EXCEPT ![sess[c]] = rest]
      BY <2>1 DEF Sends
    <3>2. n \in Number /\ wire[c] \in Seq(Number)
      BY DEF TypeOK
    <3>3. Append(wire[c], n) \in Seq(Number)
      BY <3>2
    <3>4. copies[sess[c]][n] + 1 \in Nat
      <4>1. copies \in [Conn -> [Number -> Nat]]
        BY DEF TypeOK
      <4>2. copies[sess[c]][n] \in Nat
        BY <1>1, <3>2, <4>1
      <4> QED
        BY <4>2
    <3>5. wire' \in [Conn -> Seq(Number)]
      BY <3>1, <3>3 DEF TypeOK
    <3>6. resending' \in [Conn -> Number \cup {None}]
      BY <1>1, <3>1, <3>2 DEF TypeOK
    <3>7. copies' \in [Conn -> [Number -> Nat]]
      BY <1>1, <3>1, <3>2, <3>4 DEF TypeOK
    <3>8. todo' \in [Conn -> SUBSET Number]
      BY <1>1, <3>1 DEF TypeOK
    <3> QED
      BY <3>5, <3>6, <3>7, <3>8
  <2>2. CASE IsThrough(c)
    <3>1. wire' \in [Conn -> Seq(Number)] /\ copies' \in [Conn -> [Number -> Nat]]
      BY <2>2 DEF TypeOK, IsThrough
    <3>2. resending' \in [Conn -> Number \cup {None}]
      BY <1>1, <2>2 DEF TypeOK, IsThrough
    <3>3. todo' \in [Conn -> SUBSET Number]
      BY <1>1, <2>2 DEF TypeOK, IsThrough
    <3> QED
      BY <3>1, <3>2, <3>3
  <2> QED
    BY <2>1, <2>2, LoopEffect
<1>4. retry' \in [Conn -> {"none", "alive", "dead"}]
  <2>1. retry' = retry \/ retry' = [retry EXCEPT ![sess[c]] = "dead"]
    BY LoopEffect
  <2> QED
    BY <1>1, <2>1 DEF TypeOK
<1> QED
  BY <1>2, <1>3, <1>4

LEMMA TypeStep ==
    ASSUME TypeOK, Counted, [Next]_vars
    PROVE  TypeOK'
<1>0. \A c \in Conn : /\ sess[c] \in Conn
                      /\ unacked[sess[c]] \in SUBSET Number
                      /\ wire[c] \in Seq(Number) /\ acks[c] \in Seq(Number)
  BY DEF TypeOK
<1>1. ASSUME NEW c \in Conn, Connect(c)
      PROVE  TypeOK'
  <2>1. wire' \in [Conn -> Seq(Number)]
    BY <1>0, <1>1 DEF Connect
  <2> QED
    BY <1>1, <2>1 DEF TypeOK, Connect, Phases, msgVars, taskVars
<1>2. ASSUME NEW c \in Conn, Receive(c)
      PROVE  TypeOK'
  <2>1. Head(wire[c]) \in Number /\ Tail(wire[c]) \in Seq(Number)
    BY <1>0, <1>2 DEF Receive
  <2>2. last' \in Nat
    BY <1>2, <2>1 DEF Receive, Number
  <2>3. wire' \in [Conn -> Seq(Number)]
    BY <1>2, <2>1 DEF Receive, TypeOK
  <2>4. Append(acks[c], Head(wire[c])) \in Seq(Number)
    BY <1>0, <2>1
  <2>5. acks' \in [Conn -> Seq(Number)]
    BY <1>2, <2>4 DEF Receive, TypeOK
  <2>6. received' \in [Conn -> SUBSET Number]
    BY <1>0, <1>2, <2>1 DEF Receive, TypeOK
  <2> QED
    BY <1>2, <2>2, <2>3, <2>5, <2>6 DEF Receive, TypeOK, connVars, msgVars, taskVars
<1>3. ASSUME NEW c \in Conn, Drop(c)
      PROVE  TypeOK'
  <2>1. wire' \in [Conn -> Seq(Number)]
    BY <1>3 DEF Drop, TypeOK
  <2> QED
    BY <1>3, <2>1 DEF Drop, TypeOK, msgVars, taskVars, clientVars
<1>4. ASSUME NEW c \in Conn,
             Restore(c) \/ StartFresh(c) \/ EndEarly(c) \/ Disconnect(c)
      PROVE  TypeOK'
  <2>1. CASE Restore(c)
    BY <2>1 DEF Restore, TypeOK, Phases, msgVars, taskVars, clientVars
  <2>2. CASE StartFresh(c)
    BY <2>2 DEF StartFresh, TypeOK, Phases, msgVars, taskVars, clientVars
  <2>3. CASE EndEarly(c)
    BY <2>3 DEF EndEarly, TypeOK, Phases, msgVars, taskVars, clientVars
  <2>4. CASE Disconnect(c)
    BY <2>4 DEF Disconnect, TypeOK, Phases, msgVars, taskVars, clientVars
  <2> QED
    BY <1>4, <2>1, <2>2, <2>3, <2>4
<1>5. ASSUME NEW c \in Conn, Register(c)
      PROVE  TypeOK'
  <2>1. open' \in [Conn -> BOOLEAN] /\ phase' \in [Conn -> Phases]
    BY <1>5 DEF Register, TypeOK, Phases
  <2> QED
    BY <1>5, <2>1 DEF Register, TypeOK, msgVars, taskVars, clientVars
<1>6. CASE Expire
  BY <1>6 DEF Expire, TypeOK, msgVars, taskVars, clientVars
<1>7. ASSUME NEW c \in Conn, Greet(c)
      PROVE  TypeOK'
  <2>1. Track(sess[c]) /\ Sent(c, seq[sess[c]])
    BY <1>7 DEF Greet
  <2>2. wire' \in [Conn -> Seq(Number)]
    BY <1>0, <2>1, TrackType, SentType
  <2>3. /\ seq' \in [Conn -> 0 .. MaxSeq]
        /\ unacked' \in [Conn -> SUBSET Number]
        /\ place' \in [Conn -> [Number -> Number]]
        /\ tries' = tries /\ copies' = copies /\ abandoned' = abandoned
    BY <1>0, <2>1, TrackType
  <2>4. /\ phase' \in [Conn -> Phases]
        /\ retry' \in [Conn -> {"none", "alive", "dead"}]
    BY <1>0, <1>7 DEF Greet, TypeOK, Phases
  <2> QED
    BY <1>7, <2>2, <2>3, <2>4 DEF Greet, TypeOK, clientVars
<1>8. ASSUME NEW c \in Conn, Replay(c)
      PROVE  TypeOK'
  <2>1. PICK n \in Missed(c) : after' = [after EXCEPT ![c] = n] /\ Sent(c, n)
    BY <1>8 DEF Replay
  <2>2. n \in Number /\ n \in Nat
    BY DEF Missed, Buffered, Number
  <2>3. wire' \in [Conn -> Seq(Number)]
    BY <2>1, <2>2, SentType
  <2>4. after' \in [Conn -> Nat]
    BY <2>1, <2>2 DEF TypeOK
  <2> QED
    BY <1>8, <2>3, <2>4 DEF Replay, TypeOK, msgVars, taskVars, clientVars
<1>9. ASSUME NEW c \in Conn, Resumed(c)
      PROVE  TypeOK'
  BY <1>0, <1>9 DEF Resumed, TypeOK, Phases, msgVars, clientVars
<1>10. ASSUME NEW c \in Conn, Send(c)
       PROVE  TypeOK'
  <2>1. Track(sess[c]) /\ Sent(c, seq[sess[c]])
    BY <1>10 DEF Send
  <2>2. wire' \in [Conn -> Seq(Number)]
    BY <1>0, <2>1, TrackType, SentType
  <2>3. /\ seq' \in [Conn -> 0 .. MaxSeq]
        /\ unacked' \in [Conn -> SUBSET Number]
        /\ place' \in [Conn -> [Number -> Number]]
        /\ tries' = tries /\ copies' = copies /\ abandoned' = abandoned
    BY <1>0, <2>1, TrackType
  <2> QED
    BY <1>10, <2>2, <2>3 DEF Send, TypeOK, connVars, taskVars, clientVars
<1>11. ASSUME NEW c \in Conn, HandleAck(c)
       PROVE  TypeOK'
  <2>1. Tail(acks[c]) \in Seq(Number)
    BY <1>0, <1>11 DEF HandleAck
  <2>2. acks' \in [Conn -> Seq(Number)]
    BY <1>11, <2>1 DEF HandleAck, TypeOK
  <2>3. unacked' \in [Conn -> SUBSET Number]
    BY <1>0, <1>11 DEF HandleAck, TypeOK
  <2> QED
    BY <1>11, <2>2, <2>3 DEF HandleAck, TypeOK, connVars, taskVars, clientVars
<1>12. ASSUME NEW c \in Conn, NEW saves \in BOOLEAN, End(c, saves)
       PROVE  TypeOK'
  <2>1. acks' \in [Conn -> Seq(Number)]
    BY <1>12 DEF End, TypeOK
  <2>2. saved' \in Conn \cup {None} /\ open' \in [Conn -> BOOLEAN]
    BY <1>0, <1>12 DEF End, TypeOK
  <2>3. phase' \in [Conn -> Phases] /\ retry' \in [Conn -> {"none", "alive", "dead"}]
    BY <1>0, <1>12 DEF End, TypeOK, Phases
  <2>4. todo' \in [Conn -> SUBSET Number] /\ resending' \in [Conn -> Number \cup {None}]
    BY <1>0, <1>12 DEF End, TypeOK
  <2> QED
    BY <1>12, <2>1, <2>2, <2>3, <2>4 DEF End, TypeOK, msgVars, clientVars
<1>13. ASSUME NEW c \in Conn, NEW left \in SUBSET Number,
              NEW entries \in SUBSET Number, Loop(c, left, entries),
              place' \in [Conn -> [Number -> Number]],
              tries' \in [Conn -> [Number -> 0 .. MaxRetries]]
       PROVE  TypeOK'
  <2>1. UNCHANGED <<active, saved, phase, sess, open, after, seq, acks,
                    client, last, received>>
    BY <1>13, LoopKeepsHandlers
  <2> QED
    BY <1>13, <2>1, LoopType DEF TypeOK
<1>14. ASSUME NEW c \in Conn, NEW overdue \in SUBSET unacked[sess[c]],
              Retry(c, overdue)
       PROVE  TypeOK'
  <2>1. place' = place /\ tries' = tries /\ Loop(c, overdue, unacked[sess[c]])
    BY <1>14 DEF Retry
  <2>2. overdue \in SUBSET Number
    BY <1>0
  <2> QED
    BY <1>0, <1>13, <2>1, <2>2 DEF TypeOK
<1>15. ASSUME NEW c \in Conn, NotResent(c)
       PROVE  TypeOK'
  <2>1. place' = place /\ tries' = tries /\ Loop(c, todo[sess[c]], unacked[sess[c]])
    BY <1>15 DEF NotResent
  <2>2. todo[sess[c]] \in SUBSET Number
    BY <1>0 DEF TypeOK
  <2> QED
    BY <1>0, <1>13, <2>1, <2>2 DEF TypeOK
<1>16. ASSUME NEW c \in Conn, Resent(c)
       PROVE  TypeOK'
  <2> DEFINE s == sess[c]
             n == resending[s]
  <2>1. s \in Conn /\ n \in Number
    BY <1>0, <1>16 DEF Resent, TypeOK
  <2>2. /\ tries' = [tries EXCEPT ![s][n] = @ + 1]
        /\ place' = IF n \in unacked[s] THEN place ELSE [place EXCEPT ![s] = Last(@, n)]
        /\ Loop(c, todo[s], unacked[s] \cup {n})
    BY <1>16 DEF Resent
  <2>3. Last(place[s], n) \in [Number -> Number]
    BY <2>1, LastType DEF TypeOK
  <2>4. place' \in [Conn -> [Number -> Number]]
    BY <2>1, <2>2, <2>3 DEF TypeOK
  <2>5. tries \in [Conn -> [Number -> 0 .. MaxRetries]]
    BY DEF TypeOK
  <2>6. tries[s][n] \in 0 .. MaxRetries /\ tries[s][n] < MaxRetries
    BY <2>1, <2>5 DEF Counted
  <2>7. tries[s][n] + 1 \in 0 .. MaxRetries
    BY <2>6, WsAssumption
  <2>8. tries' \in [Conn -> [Number -> 0 .. MaxRetries]]
    BY <2>1, <2>2, <2>5, <2>7
  <2>9. todo[s] \in SUBSET Number /\ unacked[s] \cup {n} \in SUBSET Number
    BY <2>1 DEF TypeOK
  <2> QED
    BY <1>13, <2>2, <2>4, <2>8, <2>9
<1>17. CASE UNCHANGED vars
  BY <1>17 DEF vars, connVars, msgVars, taskVars, clientVars, TypeOK
<1> QED
  BY <1>1, <1>2, <1>3, <1>4, <1>5, <1>6, <1>7, <1>8, <1>9, <1>10, <1>11, <1>12,
     <1>14, <1>15, <1>16, <1>17 DEF Next

LEMMA MsgInit == ASSUME Init PROVE MsgInv
<1>1. Quiet
  BY DEF Init, Quiet
<1>2. OnTheWay
  <2>1. \A c \in Conn : wire[c] = <<>> /\ acks[c] = <<>>
    BY DEF Init
  <2>2. Len(<<>>) = 0 /\ \A i \in 1 .. 0 : FALSE
    OBVIOUS
  <2> QED
    BY <2>1, <2>2 DEF OnTheWay
<1>3. Numbered
  BY DEF Init, Numbered
<1>4. Counted
  <2>1. ASSUME NEW s \in Conn, NEW n \in Number
        PROVE  tries[s][n] = 0 /\ copies[s][n] = 0 /\ resending[s] = None
    BY DEF Init
  <2>2. ASSUME NEW n \in Number PROVE n # None
    BY WsAssumption
  <2> QED
    BY <2>1, <2>2 DEF Counted
<1>5. NothingLost
  BY DEF Init, NothingLost, Number
<1>6. GiveUpEarned
  BY DEF Init, GiveUpEarned
<1> QED
  BY <1>1, <1>2, <1>3, <1>4, <1>5, <1>6 DEF MsgInv

\* Sending one more message of the session keeps what is under way in order.
LEMMA SentOnTheWay ==
    ASSUME TypeOK, OnTheWay, NEW c \in Conn, NEW n \in Number,
           wire' = IF open[c] /\ client = c
                   THEN [wire EXCEPT ![c] = Append(@, n)] ELSE wire,
           seq' \in [Conn -> 0 .. MaxSeq], \A s \in Conn : seq[s] <= seq'[s],
           n < seq'[sess[c]],
           UNCHANGED <<acks, sess, received>>
    PROVE  OnTheWay'
<1>1. ASSUME NEW d \in Conn, NEW i \in 1 .. Len(wire'[d])
      PROVE  wire'[d][i] < seq'[sess[d]]
  <2>1. wire[d] \in Seq(Number) /\ wire[c] \in Seq(Number) /\ sess[d] \in Conn
    BY DEF TypeOK
  <2>2. ASSUME i \in 1 .. Len(wire[d])
        PROVE  wire[d][i] < seq'[sess[d]]
    <3>1. wire[d][i] < seq[sess[d]] /\ seq[sess[d]] <= seq'[sess[d]]
      BY <2>1, <2>2 DEF OnTheWay
    <3>2. wire[d][i] \in Int /\ seq[sess[d]] \in Int /\ seq'[sess[d]] \in Int
      <4>1. wire[d][i] \in Number
        BY <2>1, <2>2
      <4>2. seq[sess[d]] \in 0 .. MaxSeq /\ seq'[sess[d]] \in 0 .. MaxSeq
        BY <2>1 DEF TypeOK
      <4> QED
        BY <4>1, <4>2 DEF Number
    <3> QED
      BY <3>1, <3>2
  <2>3. CASE wire'[d] = wire[d]
    BY <2>2, <2>3
  <2>4. CASE d = c /\ wire'[d] = Append(wire[d], n)
    <3>1. i \in 1 .. Len(wire[d]) \/ i = Len(wire[d]) + 1
      BY <2>1, <2>4
    <3> QED
      BY <2>1, <2>2, <2>4, <3>1
  <2> QED
    BY <2>3, <2>4 DEF TypeOK
<1> QED
  BY <1>1 DEF OnTheWay

\* Track keeps the record of a session: the new message is outstanding.
LEMMA TrackMsg ==
    ASSUME TypeOK, MsgInv, NEW s \in Conn, Track(s),
           UNCHANGED <<todo, resending, received>>
    PROVE  /\ \A t \in Conn : seq[t] <= seq'[t]
           /\ seq[s] < seq'[s]
           /\ Numbered' /\ Counted' /\ NothingLost' /\ GiveUpEarned'
<1>1. seq \in [Conn -> 0 .. MaxSeq]
  BY DEF TypeOK
<1>2. seq' = [seq EXCEPT ![s] = @ + 1]
      /\ unacked' = [unacked EXCEPT ![s] = @ \cup {seq[s]}]
      /\ UNCHANGED <<tries, copies, abandoned>>
  BY DEF Track
<1>3. \A t \in Conn : seq[t] \in Int /\ seq'[t] \in Int /\ seq[t] <= seq'[t]
  BY <1>1, <1>2
<1>4. seq[s] < seq'[s]
  BY <1>1, <1>2
<1>5. Numbered'
  <2>1. ASSUME NEW t \in Conn, NEW n \in unacked'[t] \cup todo'[t] \cup received'[t]
        PROVE  n < seq'[t]
    <3>1. n \in Int
      BY <1>1, <1>2 DEF TypeOK, Number
    <3>2. n < seq[t] \/ (t = s /\ n = seq[s])
      BY <1>2, <2>1 DEF MsgInv, Numbered, TypeOK
    <3> QED
      BY <1>3, <1>4, <3>1, <3>2
  <2>2. ASSUME NEW t \in Conn, resending'[t] # None
        PROVE  resending'[t] < seq'[t] /\ resending'[t] \notin todo'[t]
    <3>1. /\ resending[t] < seq[t] /\ resending[t] \in Int
          /\ resending'[t] \notin todo'[t]
      BY <2>2 DEF MsgInv, Numbered, TypeOK, Number
    <3> QED
      BY <1>3, <3>1
  <2> QED
    BY <2>1, <2>2 DEF Numbered
<1>6. Counted' /\ GiveUpEarned'
  BY <1>2 DEF MsgInv, Counted, GiveUpEarned
<1>7. NothingLost'
  <2> SUFFICES ASSUME NEW t \in Conn, NEW n \in Number, n < seq'[t]
               PROVE  n \in unacked'[t] \cup received'[t] \cup abandoned'[t]
    BY DEF NothingLost
  <2>1. n < seq[t] \/ (t = s /\ n = seq[s])
    BY <1>1, <1>2 DEF Number
  <2> QED
    BY <1>2, <2>1 DEF MsgInv, NothingLost, TypeOK
<1> QED
  BY <1>3, <1>4, <1>5, <1>6, <1>7

LEMMA LoopMsg ==
    ASSUME TypeOK, MsgInv, NEW c \in Conn, phase[c] = "serving",
           NEW left \in SUBSET Number, NEW entries \in SUBSET Number,
           Loop(c, left, entries),
           unacked[sess[c]] \subseteq entries,
           \A n \in left \cup entries : n < seq[sess[c]],
           tries' \in [Conn -> [Number -> 0 .. MaxRetries]],
           \A s \in Conn : \A n \in Number : tries'[s][n] <= copies[s][n],
           \A s \in Conn \ {sess[c]} : tries'[s] = tries[s],
           \A n \in left \ Exhausted(sess[c]) : tries'[sess[c]][n] < MaxRetries
    PROVE  MsgInv'
<1> DEFINE s == sess[c]
<1>0. s \in Conn
  BY DEF TypeOK
<1>1. UNCHANGED <<active, saved, phase, sess, open, after, seq, acks,
                  client, last, received>>
  BY LoopKeepsHandlers
<1>2. PICK up \in SUBSET entries : GivesUp(c, entries, up)
  BY LoopEffect
<1>3. /\ up \subseteq Exhausted(s)
      /\ unacked' = [unacked EXCEPT ![s] = entries \ up]
      /\ abandoned' = [abandoned EXCEPT ![s] = @ \cup up]
  BY <1>2 DEF GivesUp
<1>4. copies \in [Conn -> [Number -> Nat]] /\ tries \in [Conn -> [Number -> 0 .. MaxRetries]]
  BY DEF TypeOK
<1>5. \A t \in Conn, n \in Number : /\ copies[t][n] \in Nat
                                    /\ tries[t][n] \in Nat /\ tries'[t][n] \in Nat
  BY <1>4
<1>6. NothingLost'
  <2> SUFFICES ASSUME NEW t \in Conn, NEW n \in Number, n < seq[t]
               PROVE  n \in unacked'[t] \cup received'[t] \cup abandoned'[t]
    BY <1>1 DEF NothingLost
  <2>1. n \in unacked[t] \cup received[t] \cup abandoned[t]
    BY DEF MsgInv, NothingLost
  <2>2. CASE t = s
    BY <1>0, <1>1, <1>3, <2>1, <2>2 DEF TypeOK
  <2>3. CASE t # s
    BY <1>0, <1>1, <1>3, <2>1, <2>3 DEF TypeOK
  <2> QED
    BY <2>2, <2>3
<1>7. \A n \in up : copies[s][n] >= MaxRetries
  <2> SUFFICES ASSUME NEW n \in up PROVE copies[s][n] >= MaxRetries
    OBVIOUS
  <2>1. n \in Number /\ tries[s][n] >= MaxRetries
    BY <1>3 DEF Exhausted
  <2>2. tries[s][n] <= copies[s][n]
    BY <1>0, <2>1 DEF MsgInv, Counted
  <2> QED
    BY <1>0, <1>5, <2>1, <2>2, WsAssumption
<1>8. (\A t \in Conn, n \in Number : copies'[t][n] >= copies[t][n]) => GiveUpEarned'
  <2> SUFFICES ASSUME \A t \in Conn, n \in Number :
                          copies'[t][n] >= copies[t][n] /\ copies'[t][n] \in Nat,
                      NEW t \in Conn, NEW n \in abandoned'[t]
               PROVE  copies'[t][n] >= MaxRetries
    BY <1>0, LoopType DEF GiveUpEarned
  <2>1. n \in Number
    BY LoopType
  <2>2. n \in abandoned[t] \/ (t = s /\ n \in up)
    BY <1>0, <1>3 DEF TypeOK
  <2>3. copies[t][n] >= MaxRetries
    BY <1>7, <2>2 DEF MsgInv, GiveUpEarned
  <2> QED
    BY <1>5, <2>1, <2>3, WsAssumption
<1>9. ASSUME NEW n \in left \ Exhausted(s), Sends(c, left, n)
      PROVE  MsgInv'
  <2>1. /\ wire' = IF open[c] /\ client = c
                   THEN [wire EXCEPT ![c] = Append(@, n)] ELSE wire
        /\ resending' = [resending EXCEPT ![s] = n]
        /\ copies' = [copies EXCEPT ![s][n] = @ + 1]
    BY <1>9 DEF Sends
  <2>2. PICK rest \in SUBSET (left \ {n}) : todo' = [todo EXCEPT ![s] = rest]
    BY <1>9 DEF Sends
  <2>3. n \in Number
    OBVIOUS
  <2>4. Quiet'
    BY <1>1, <2>1 DEF MsgInv, Quiet, Early, TypeOK
  <2>5. OnTheWay'
    <3>1. \A t \in Conn : seq[t] <= seq'[t]
      BY <1>1 DEF TypeOK
    <3> QED
      BY <1>1, <2>1, <2>3, <3>1, SentOnTheWay DEF MsgInv, TypeOK
  <2>6. Numbered'
    BY <1>0, <1>1, <1>3, <2>1, <2>2 DEF MsgInv, Numbered, TypeOK
  <2>7. Counted'
    <3> SUFFICES ASSUME NEW t \in Conn, NEW m \in Number
                 PROVE  /\ tries'[t][m] <= copies'[t][m]
                        /\ resending'[t] = m => /\ tries'[t][m] < copies'[t][m]
                                                /\ tries'[t][m] < MaxRetries
      BY DEF Counted
    <3>1. CASE t = s /\ m = n
      <4>1. copies'[t][m] = copies[t][m] + 1
        BY <1>0, <1>4, <2>1, <2>3, <3>1
      <4> QED
        BY <1>5, <3>1, <4>1
    <3>2. CASE t = s /\ m # n
      <4>1. copies'[t][m] = copies[t][m] /\ resending'[t] # m
        BY <1>0, <1>4, <2>1, <2>3, <3>2 DEF TypeOK
      <4> QED
        BY <4>1
    <3>3. CASE t # s
      <4>1. copies'[t] = copies[t] /\ resending'[t] = resending[t] /\ tries'[t] = tries[t]
        BY <1>0, <1>4, <2>1, <3>3 DEF TypeOK
      <4> QED
        BY <4>1 DEF MsgInv, Counted
    <3> QED
      BY <3>1, <3>2, <3>3
  <2>8. \A t \in Conn, m \in Number : copies'[t][m] >= copies[t][m]
    <3> SUFFICES ASSUME NEW t \in Conn, NEW m \in Number
                 PROVE  copies'[t][m] >= copies[t][m]
      OBVIOUS
    <3>1. copies'[t][m] = copies[t][m] \/ copies'[t][m] = copies[t][m] + 1
      BY <1>0, <1>4, <2>1, <2>3
    <3> QED
      BY <1>5, <3>1
  <2> QED
    BY <1>6, <1>8, <2>4, <2>5, <2>6, <2>7, <2>8 DEF MsgInv
<1>10. CASE IsThrough(c)
  <2>1. /\ resending' = [resending EXCEPT ![s] = None]
        /\ todo' = [todo EXCEPT ![s] = {}]
        /\ wire' = wire /\ copies' = copies
    BY <1>10 DEF IsThrough
  <2>2. Quiet' /\ OnTheWay'
    BY <1>1, <2>1 DEF MsgInv, Quiet, Early, OnTheWay
  <2>3. Numbered'
    BY <1>0, <1>1, <1>3, <2>1 DEF MsgInv, Numbered, TypeOK
  <2>4. Counted'
    <3> SUFFICES ASSUME NEW t \in Conn, NEW m \in Number
                 PROVE  /\ tries'[t][m] <= copies'[t][m]
                        /\ resending'[t] = m => /\ tries'[t][m] < copies'[t][m]
                                                /\ tries'[t][m] < MaxRetries
      BY DEF Counted
    <3>1. CASE t = s
      <4>1. resending'[t] # m
        BY <1>0, <2>1, <3>1, WsAssumption DEF TypeOK
      <4> QED
        BY <2>1, <4>1
    <3>2. CASE t # s
      <4>1. resending'[t] = resending[t] /\ tries'[t] = tries[t]
        BY <1>0, <2>1, <3>2 DEF TypeOK
      <4> QED
        BY <2>1, <4>1 DEF MsgInv, Counted
    <3> QED
      BY <3>1, <3>2
  <2>5. \A t \in Conn, m \in Number : copies'[t][m] >= copies[t][m]
    BY <1>5, <2>1
  <2> QED
    BY <1>6, <1>8, <2>2, <2>3, <2>4, <2>5 DEF MsgInv
<1> QED
  BY <1>9, <1>10, LoopEffect

\* Steps that move handlers only.
LEMMA MsgKept ==
    ASSUME TypeOK, MsgInv, NEW c \in Conn,
           UNCHANGED <<msgVars, received, wire, sess>>,
           \A d \in Conn : acks'[d] = acks[d] \/ acks'[d] = <<>>,
           \A d \in Conn : Early(d)' => Early(d),
           \A s \in Conn : \/ todo'[s] = todo[s] /\ resending'[s] = resending[s]
                           \/ todo'[s] = {} /\ resending'[s] = None
    PROVE  MsgInv'
<1>1. Quiet'
  BY DEF MsgInv, Quiet
<1>2. OnTheWay'
  <2>1. \A d \in Conn : \A i \in 1 .. Len(acks'[d]) : acks'[d][i] = acks[d][i]
                                                     /\ i \in 1 .. Len(acks[d])
    <3>1. Len(<<>>) = 0 /\ \A i \in 1 .. 0 : FALSE
      OBVIOUS
    <3> QED
      BY <3>1
  <2> QED
    BY <2>1 DEF MsgInv, OnTheWay, msgVars
<1>3. Numbered'
  BY DEF MsgInv, Numbered, msgVars
<1>4. Counted'
  BY WsAssumption DEF MsgInv, Counted, msgVars
<1>5. NothingLost' /\ GiveUpEarned'
  BY DEF MsgInv, NothingLost, GiveUpEarned, msgVars
<1> QED
  BY <1>1, <1>2, <1>3, <1>4, <1>5 DEF MsgInv

LEMMA MsgReceive ==
    ASSUME TypeOK, MsgInv, NEW c \in Conn, Receive(c)
    PROVE  MsgInv'
<1> DEFINE s == sess[c]
           n == Head(wire[c])
<1>1. wire[c] \in Seq(Number) /\ wire[c] # <<>> /\ s \in Conn
  BY DEF Receive, TypeOK
<1>2. n \in Number /\ n < seq[s]
  <2>1. n = wire[c][1] /\ 1 \in 1 .. Len(wire[c])
    BY <1>1
  <2> QED
    BY <1>1, <2>1 DEF MsgInv, OnTheWay
<1>3. /\ received' = [received EXCEPT ![s] = @ \cup {n}]
      /\ wire' = [wire EXCEPT ![c] = Tail(@)]
      /\ acks' = IF open[c] THEN [acks EXCEPT ![c] = Append(@, n)] ELSE acks
      /\ UNCHANGED <<connVars, msgVars, taskVars>>
  BY DEF Receive
<1>4. \A t \in Conn : received[t] \subseteq received'[t] /\ n \in received'[s]
  BY <1>1, <1>3 DEF TypeOK
<1>5. Quiet'
  <2>1. ~Early(c)
    BY <1>1 DEF MsgInv, Quiet
  <2> QED
    BY <1>3, <2>1 DEF MsgInv, Quiet, Early, TypeOK, connVars
<1>6. OnTheWay'
  <2>1. ASSUME NEW d \in Conn, NEW i \in 1 .. Len(wire'[d])
        PROVE  wire'[d][i] < seq'[sess'[d]]
    <3>1. wire[d] \in Seq(Number)
      BY DEF TypeOK
    <3>2. CASE d = c
      <4>1. wire'[d] = Tail(wire[c])
        BY <1>3, <3>2 DEF TypeOK
      <4>2. i + 1 \in 1 .. Len(wire[c]) /\ wire'[d][i] = wire[c][i + 1]
        BY <1>1, <2>1, <4>1
      <4> QED
        BY <1>3, <3>2, <4>2 DEF MsgInv, OnTheWay, connVars, msgVars
    <3>3. CASE d # c
      BY <1>3, <2>1, <3>3 DEF MsgInv, OnTheWay, connVars, msgVars, TypeOK
    <3> QED
      BY <3>2, <3>3
  <2>2. ASSUME NEW d \in Conn, NEW i \in 1 .. Len(acks'[d])
        PROVE  acks'[d][i] \in received'[sess'[d]]
    <3>1. acks[d] \in Seq(Number) /\ sess'[d] = sess[d] /\ sess[d] \in Conn
      BY <1>3 DEF TypeOK, connVars
    <3>2. i \in 1 .. Len(acks[d]) => acks[d][i] \in received'[sess[d]]
      BY <1>4, <3>1 DEF MsgInv, OnTheWay
    <3>3. CASE acks'[d] = acks[d]
      BY <2>2, <3>1, <3>2, <3>3
    <3>4. CASE d = c /\ acks'[d] = Append(acks[d], n)
      <4>1. i \in 1 .. Len(acks[d]) \/ i = Len(acks[d]) + 1
        BY <2>2, <3>1, <3>4
      <4> QED
        BY <1>4, <3>1, <3>2, <3>4, <4>1
    <3> QED
      BY <1>3, <3>3, <3>4 DEF TypeOK
  <2> QED
    BY <2>1, <2>2 DEF OnTheWay
<1>7. Numbered'
  BY <1>1, <1>2, <1>3 DEF MsgInv, Numbered, msgVars, taskVars, TypeOK
<1>8. Counted' /\ GiveUpEarned'
  BY <1>3 DEF MsgInv, Counted, GiveUpEarned, msgVars, taskVars
<1>9. NothingLost'
  BY <1>3, <1>4 DEF MsgInv, NothingLost, msgVars
<1> QED
  BY <1>5, <1>6, <1>7, <1>8, <1>9 DEF MsgInv

\* The acknowledged message has been received.
LEMMA MsgHandleAck ==
    ASSUME TypeOK, MsgInv, NEW c \in Conn, HandleAck(c)
    PROVE  /\ MsgInv'
           /\ Head(acks[c]) \in received[sess[c]]
<1> DEFINE s == sess[c]
           n == Head(acks[c])
<1>1. acks[c] \in Seq(Number) /\ acks[c] # <<>> /\ s \in Conn
  BY DEF HandleAck, TypeOK
<1>2. n \in received[s]
  <2>1. n = acks[c][1] /\ 1 \in 1 .. Len(acks[c])
    BY <1>1
  <2> QED
    BY <1>1, <2>1 DEF MsgInv, OnTheWay
<1>3. /\ acks' = [acks EXCEPT ![c] = Tail(@)]
      /\ unacked' = [unacked EXCEPT ![s] = @ \ {n}]
      /\ UNCHANGED <<connVars, seq, tries, copies, abandoned, taskVars,
                     received, wire>>
      /\ phase[c] = "serving"
  BY DEF HandleAck, clientVars
<1>4. Quiet'
  BY <1>3 DEF MsgInv, Quiet, Early, TypeOK, connVars
<1>5. OnTheWay'
  <2>1. ASSUME NEW d \in Conn, NEW i \in 1 .. Len(acks'[d])
        PROVE  acks'[d][i] \in received[sess[d]]
    <3>1. CASE d = c
      <4>1. acks'[d] = Tail(acks[c])
        BY <1>3, <3>1 DEF TypeOK
      <4>2. i + 1 \in 1 .. Len(acks[c]) /\ acks'[d][i] = acks[c][i + 1]
        BY <1>1, <2>1, <4>1
      <4> QED
        BY <3>1, <4>2 DEF MsgInv, OnTheWay
    <3>2. CASE d # c
      BY <1>3, <2>1, <3>2 DEF MsgInv, OnTheWay, TypeOK
    <3> QED
      BY <3>1, <3>2
  <2> QED
    BY <1>3, <2>1 DEF MsgInv, OnTheWay, connVars
<1>6. Numbered'
  BY <1>1, <1>3 DEF MsgInv, Numbered, taskVars, TypeOK
<1>7. Counted' /\ GiveUpEarned'
  BY <1>3 DEF MsgInv, Counted, GiveUpEarned, taskVars
<1>8. NothingLost'
  BY <1>1, <1>2, <1>3 DEF MsgInv, NothingLost, TypeOK
<1> QED
  BY <1>2, <1>4, <1>5, <1>6, <1>7, <1>8 DEF MsgInv

\* What the retry task reads when it starts or goes on satisfies LoopMsg.
LEMMA MsgRetry ==
    ASSUME TypeOK, MsgInv, NEW c \in Conn,
           \/ \E overdue \in SUBSET unacked[sess[c]] : Retry(c, overdue)
           \/ NotResent(c)
    PROVE  /\ MsgInv'
           /\ \E left \in SUBSET Number :
                 /\ Loop(c, left, unacked[sess[c]])
                 /\ \A n \in left : n < seq[sess[c]]
<1>0. sess[c] \in Conn /\ unacked[sess[c]] \in SUBSET Number
      /\ todo[sess[c]] \in SUBSET Number
  BY DEF TypeOK
<1>1. tries' = tries /\ phase[c] = "serving"
  BY DEF Retry, NotResent
<1>2. PICK left \in SUBSET Number :
          /\ Loop(c, left, unacked[sess[c]])
          /\ left \subseteq unacked[sess[c]] \/ left = todo[sess[c]]
  <2>1. CASE NotResent(c)
    BY <1>0, <2>1 DEF NotResent
  <2>2. CASE \E overdue \in SUBSET unacked[sess[c]] : Retry(c, overdue)
    BY <1>0, <2>2 DEF Retry
  <2> QED
    BY <2>1, <2>2
<1>3. \A n \in left \cup unacked[sess[c]] : n < seq[sess[c]]
  BY <1>0, <1>2 DEF MsgInv, Numbered
<1>4. tries' \in [Conn -> [Number -> 0 .. MaxRetries]]
  BY <1>1 DEF TypeOK
<1>5. \A s \in Conn : \A n \in Number : tries'[s][n] <= copies[s][n]
  BY <1>1 DEF MsgInv, Counted
<1>6. ASSUME NEW n \in left \ Exhausted(sess[c])
      PROVE  tries'[sess[c]][n] < MaxRetries
  <2>1. tries[sess[c]] \in [Number -> 0 .. MaxRetries]
    BY <1>0 DEF TypeOK
  <2>2. tries[sess[c]][n] \in 0 .. MaxRetries
    BY <2>1
  <2> QED
    BY <1>1, <2>2, WsAssumption DEF Exhausted
<1>7. \A s \in Conn \ {sess[c]} : tries'[s] = tries[s]
  BY <1>1
<1>8. MsgInv'
  BY <1>0, <1>1, <1>2, <1>3, <1>4, <1>5, <1>6, <1>7, LoopMsg
<1> QED
  BY <1>2, <1>3, <1>8

LEMMA MsgResent ==
    ASSUME TypeOK, TypeOK', MsgInv, NEW c \in Conn, Resent(c)
    PROVE  /\ MsgInv'
           /\ \E left \in SUBSET Number, n \in Number :
                 /\ Loop(c, left, unacked[sess[c]] \cup {n})
                 /\ \A m \in left \cup {n} : m < seq[sess[c]]
                 /\ copies[sess[c]][n] > 0
<1> DEFINE s == sess[c]
           n == resending[s]
           left == todo[s]
<1>0. /\ s \in Conn /\ n \in Number /\ n # None
      /\ unacked[s] \in SUBSET Number /\ left \in SUBSET Number
  BY DEF Resent, TypeOK
<1>1. /\ tries' = [tries EXCEPT ![s][n] = @ + 1]
      /\ phase[c] = "serving"
      /\ Loop(c, left, unacked[s] \cup {n})
  BY DEF Resent
<1>2. /\ tries \in [Conn -> [Number -> 0 .. MaxRetries]]
      /\ tries' \in [Conn -> [Number -> 0 .. MaxRetries]]
      /\ copies \in [Conn -> [Number -> Nat]]
  BY DEF TypeOK
<1>3. tries[s][n] < copies[s][n] /\ tries[s][n] < MaxRetries
  BY <1>0 DEF MsgInv, Counted
<1>4. \A m \in left \cup (unacked[s] \cup {n}) : m < seq[s]
  BY <1>0 DEF MsgInv, Numbered
<1>5. ASSUME NEW t \in Conn, NEW m \in Number
      PROVE  tries'[t][m] <= copies[t][m]
  <2>1. tries[t][m] <= copies[t][m] /\ tries[t][m] \in Nat /\ copies[t][m] \in Nat
    BY <1>2 DEF MsgInv, Counted
  <2>2. CASE t = s /\ m = n
    BY <1>0, <1>1, <1>2, <1>3, <2>1, <2>2
  <2>3. CASE ~(t = s /\ m = n)
    BY <1>0, <1>1, <1>2, <2>1, <2>3
  <2> QED
    BY <2>2, <2>3
<1>6. n \notin left
  BY <1>0 DEF MsgInv, Numbered
<1>7. ASSUME NEW m \in left \ Exhausted(s)
      PROVE  tries'[s][m] < MaxRetries
  <2>1. m \in Number /\ m # n
    BY <1>0, <1>6
  <2>2. tries'[s][m] = tries[s][m]
    BY <1>0, <1>1, <1>2, <2>1
  <2>3. tries[s][m] \in 0 .. MaxRetries
    BY <1>0, <1>2, <2>1
  <2> QED
    BY <2>1, <2>2, <2>3, WsAssumption DEF Exhausted
<1>8. \A t \in Conn \ {s} : tries'[t] = tries[t]
  BY <1>0, <1>1, <1>2
<1>9. unacked[s] \cup {n} \in SUBSET Number
  BY <1>0
<1>10. MsgInv'
  <2> DEFINE entries == unacked[s] \cup {n}
  <2>1. unacked[s] \subseteq entries /\ entries \in SUBSET Number
    BY <1>9
  <2>2. Loop(c, left, entries) /\ left \in SUBSET Number
    BY <1>0, <1>1
  <2>3. \A m \in left \cup entries : m < seq[s]
    BY <1>4
  <2> HIDE DEF n, left, entries
  <2> QED
    BY <1>1, <1>2, <1>5, <1>7, <1>8, <2>1, <2>2, <2>3, LoopMsg
<1>11. copies[s][n] > 0
  <2>1. tries[s][n] \in Nat /\ copies[s][n] \in Nat
    BY <1>0, <1>2
  <2> QED
    BY <1>3, <2>1
<1> QED
  BY <1>0, <1>1, <1>4, <1>10, <1>11

\* send_sequenced on a connection that has its session.
LEMMA MsgSend ==
    ASSUME TypeOK, MsgInv, NEW c \in Conn, Track(sess[c]), Sent(c, seq[sess[c]]),
           ~Early(c), \A d \in Conn : Early(d)' => Early(d),
           UNCHANGED <<sess, todo, resending, received, acks>>
    PROVE  MsgInv'
<1>1. sess[c] \in Conn
  BY DEF TypeOK
<1>2. /\ \A t \in Conn : seq[t] <= seq'[t]
      /\ seq[sess[c]] < seq'[sess[c]]
      /\ Numbered' /\ Counted' /\ NothingLost' /\ GiveUpEarned'
  BY <1>1, TrackMsg
<1>3. seq[sess[c]] \in Number /\ seq' \in [Conn -> 0 .. MaxSeq]
  BY <1>1, TrackType
<1>4. wire' = IF open[c] /\ client = c
              THEN [wire EXCEPT ![c] = Append(@, seq[sess[c]])] ELSE wire
  BY DEF Sent
<1>5. OnTheWay'
  BY <1>2, <1>3, <1>4, SentOnTheWay DEF MsgInv
<1>6. Quiet'
  BY <1>4 DEF MsgInv, Quiet, TypeOK
<1> QED
  BY <1>2, <1>5, <1>6 DEF MsgInv

LEMMA MsgStep ==
    ASSUME TypeOK, TypeOK', SessInv, MsgInv, [Next]_vars
    PROVE  MsgInv'
<1>1. ASSUME NEW c \in Conn, Connect(c) \/ Drop(c)
      PROVE  MsgInv'
  <2>1. \A d \in Conn : wire'[d] = wire[d] \/ wire'[d] = <<>>
    BY <1>1 DEF Connect, Drop, TypeOK
  <2>2. /\ UNCHANGED <<sess, msgVars, taskVars, received, acks>>
        /\ \A d \in Conn : Early(d)' => Early(d)
    BY <1>1 DEF Connect, Drop, Early, TypeOK, clientVars
  <2>3. Quiet'
    BY <2>1, <2>2 DEF MsgInv, Quiet
  <2>4. OnTheWay'
    <3>1. \A d \in Conn : \A i \in 1 .. Len(wire'[d]) : wire'[d][i] = wire[d][i]
                                                       /\ i \in 1 .. Len(wire[d])
      <4>1. Len(<<>>) = 0 /\ \A i \in 1 .. 0 : FALSE
        OBVIOUS
      <4> QED
        BY <2>1, <4>1
    <3> QED
      BY <2>2, <3>1 DEF MsgInv, OnTheWay, msgVars
  <2>5. Numbered' /\ Counted'
    BY <2>2 DEF MsgInv, Numbered, Counted, msgVars, taskVars
  <2>6. NothingLost' /\ GiveUpEarned'
    BY <2>2 DEF MsgInv, NothingLost, GiveUpEarned, msgVars
  <2> QED
    BY <2>3, <2>4, <2>5, <2>6 DEF MsgInv
<1>2. ASSUME NEW c \in Conn, Restore(c)
      PROVE  MsgInv'
  <2>1. /\ sess' = [sess EXCEPT ![c] = saved] /\ phase[c] = "handshake"
        /\ phase' = [phase EXCEPT ![c] = "restored"]
        /\ UNCHANGED <<msgVars, taskVars, received, wire, acks>>
    BY <1>2 DEF Restore, clientVars
  <2>2. wire[c] = <<>> /\ acks[c] = <<>>
    BY <2>1 DEF MsgInv, Quiet, Early
  <2>3. Quiet'
    BY <2>1 DEF MsgInv, Quiet, Early, TypeOK
  <2>4. OnTheWay'
    <3>1. Len(<<>>) = 0 /\ \A i \in 1 .. 0 : FALSE
      OBVIOUS
    <3>2. ASSUME NEW d \in Conn
          PROVE  /\ \A i \in 1 .. Len(wire[d]) : wire[d][i] < seq[sess'[d]]
                 /\ \A i \in 1 .. Len(acks[d]) : acks[d][i] \in received[sess'[d]]
      <4>1. CASE d = c
        BY <2>2, <3>1, <4>1
      <4>2. CASE d # c
        <5>1. sess'[d] = sess[d]
          BY <2>1, <4>2 DEF TypeOK
        <5> QED
          BY <5>1 DEF MsgInv, OnTheWay
      <4> QED
        BY <4>1, <4>2
    <3> QED
      BY <2>1, <3>2 DEF OnTheWay, msgVars
  <2>5. Numbered' /\ Counted'
    BY <2>1 DEF MsgInv, Numbered, Counted, msgVars, taskVars
  <2>6. NothingLost' /\ GiveUpEarned'
    BY <2>1 DEF MsgInv, NothingLost, GiveUpEarned, msgVars
  <2> QED
    BY <2>3, <2>4, <2>5, <2>6 DEF MsgInv
<1>3. ASSUME NEW c \in Conn, StartFresh(c) \/ Register(c) \/ Resumed(c)
                             \/ EndEarly(c) \/ Disconnect(c)
      PROVE  MsgInv'
  <2>1. UNCHANGED <<msgVars, received, wire, sess, acks, todo, resending>>
    BY <1>3 DEF StartFresh, Register, Resumed, EndEarly, Disconnect,
                taskVars, clientVars
  <2>2. \A d \in Conn : Early(d)' => Early(d)
    BY <1>3 DEF StartFresh, Register, Resumed, EndEarly, Disconnect, Early, TypeOK
  <2> QED
    BY <2>1, <2>2, MsgKept
<1>4. CASE Expire \/ UNCHANGED vars
  <2>1. UNCHANGED <<msgVars, received, wire, sess, acks, todo, resending, phase>>
    BY <1>4 DEF Expire, vars, connVars, taskVars, clientVars
  <2>2. Quiet' /\ OnTheWay'
    BY <2>1 DEF MsgInv, Quiet, OnTheWay, Early, msgVars
  <2>3. Numbered' /\ Counted'
    BY <2>1 DEF MsgInv, Numbered, Counted, msgVars
  <2>4. NothingLost' /\ GiveUpEarned'
    BY <2>1 DEF MsgInv, NothingLost, GiveUpEarned, msgVars
  <2> QED
    BY <2>2, <2>3, <2>4 DEF MsgInv
<1>5. ASSUME NEW c \in Conn, Greet(c) \/ Send(c)
      PROVE  MsgInv'
  <2>1. /\ Track(sess[c]) /\ Sent(c, seq[sess[c]])
        /\ UNCHANGED <<sess, todo, resending, received, acks>>
    BY <1>5 DEF Greet, Send, connVars, taskVars, clientVars
  <2>2. ~Early(c) /\ \A d \in Conn : Early(d)' => Early(d)
    BY <1>5 DEF Greet, Send, Early, TypeOK, connVars
  <2> QED
    BY <2>1, <2>2, MsgSend
<1>6. ASSUME NEW c \in Conn, Replay(c)
      PROVE  MsgInv'
  <2>1. PICK n \in Missed(c) : Sent(c, n)
    BY <1>6 DEF Replay
  <2>2. n \in Number /\ n < seq[sess[c]]
    BY DEF Missed, Buffered
  <2>3. wire' = IF open[c] /\ client = c
                THEN [wire EXCEPT ![c] = Append(@, n)] ELSE wire
    BY <2>1 DEF Sent
  <2>4. /\ UNCHANGED <<msgVars, taskVars, received, sess, phase, acks>>
        /\ phase[c] = "replaying"
    BY <1>6 DEF Replay, clientVars
  <2>5. seq' \in [Conn -> 0 .. MaxSeq] /\ \A s \in Conn : seq[s] <= seq'[s]
    <3>1. seq' = seq /\ seq \in [Conn -> 0 .. MaxSeq]
      BY <2>4 DEF TypeOK, msgVars
    <3> QED
      BY <3>1
  <2>6. OnTheWay'
    BY <2>2, <2>3, <2>4, <2>5, SentOnTheWay DEF MsgInv, msgVars
  <2>7. Quiet'
    BY <2>3, <2>4 DEF MsgInv, Quiet, Early, TypeOK
  <2>8. Numbered' /\ Counted'
    BY <2>4 DEF MsgInv, Numbered, Counted, msgVars, taskVars
  <2>9. NothingLost' /\ GiveUpEarned'
    BY <2>4 DEF MsgInv, NothingLost, GiveUpEarned, msgVars
  <2> QED
    BY <2>6, <2>7, <2>8, <2>9 DEF MsgInv
<1>7. ASSUME NEW c \in Conn, NEW saves \in BOOLEAN, End(c, saves)
      PROVE  MsgInv'
  <2>1. UNCHANGED <<msgVars, received, wire, sess>>
    BY <1>7 DEF End, clientVars
  <2>2. \A d \in Conn : acks'[d] = acks[d] \/ acks'[d] = <<>>
    BY <1>7 DEF End, TypeOK
  <2>3. \A d \in Conn : Early(d)' => Early(d)
    <3>1. phase' = [phase EXCEPT ![c] = "gone"] \/ phase' = [phase EXCEPT ![c] = "ending"]
      BY <1>7 DEF End
    <3> QED
      BY <3>1 DEF Early, TypeOK
  <2>4. \A s \in Conn : \/ todo'[s] = todo[s] /\ resending'[s] = resending[s]
                        \/ todo'[s] = {} /\ resending'[s] = None
    BY <1>7 DEF End, TypeOK
  <2> QED
    BY <2>1, <2>2, <2>3, <2>4, MsgKept
<1> QED
  BY <1>1, <1>2, <1>3, <1>4, <1>5, <1>6, <1>7, MsgReceive, MsgHandleAck, MsgRetry,
     MsgResent DEF Next

LEMMA Inductive == Spec => []IInv
<1>1. Init => IInv
  BY TypeInit, SessInit, MsgInit DEF IInv
<1>2. IInv /\ [Next]_vars => IInv'
  <2> SUFFICES ASSUME IInv, [Next]_vars PROVE IInv'
    OBVIOUS
  <2>1. TypeOK'
    BY TypeStep DEF IInv, MsgInv
  <2> QED
    BY <2>1, SessStep, MsgStep DEF IInv
<1> QED
  BY <1>1, <1>2, PTL DEF Spec

\* The state of a session stays well formed; in particular a retry count
\* never exceeds WS_MAX_RETRIES.
THEOREM WsTypeCorrect == Spec => []TypeOK
<1>1. IInv => TypeOK
  BY DEF IInv
<1> QED
  BY <1>1, Inductive, PTL

\* Whatever a session has numbered is unacknowledged, received or given up.
THEOREM NoMessageIsLost == Spec => []NothingLost
<1>1. IInv => NothingLost
  BY DEF IInv, MsgInv
<1> QED
  BY <1>1, Inductive, PTL

\* The retry task gives up only what it has sent WS_MAX_RETRIES times.
THEOREM GivingUpIsEarned == Spec => []GiveUpEarned
<1>1. IInv => GiveUpEarned
  BY DEF IInv, MsgInv
<1> QED
  BY <1>1, Inductive, PTL

\* A session has one handler at most, and none while it is stored.
THEOREM SessionsHaveOneHandler == Spec => []OneHandlerPerSession
<1>1. IInv => OneHandlerPerSession
  BY DEF IInv, SessInv
<1> QED
  BY <1>1, Inductive, PTL

LEMMA AbstractInit == ASSUME Init PROVE Abstract!Init
  BY DEF Init, Abstract!Init

\* A round of the retry task is a round of repetitions; `back' is the message
\* whose send has just returned.
LEMMA LoopIsRetry ==
    ASSUME TypeOK, MsgInv, NEW c \in Conn, NEW left \in SUBSET Number,
           NEW back \in SUBSET Number,
           Loop(c, left, unacked[sess[c]] \cup back),
           \A n \in left \cup back : n < seq[sess[c]],
           \A n \in back : copies[sess[c]][n] > 0
    PROVE  Abstract!Next
<1> DEFINE s == sess[c]
<1>0. s \in Conn /\ unacked[s] \cup back \in SUBSET Number
  BY DEF TypeOK
<1>1. PICK up \in SUBSET (unacked[s] \cup back) : GivesUp(c, unacked[s] \cup back, up)
  BY <1>0, LoopEffect
<1>2. /\ up \subseteq Exhausted(s)
      /\ unacked' = [unacked EXCEPT ![s] = (@ \cup back) \ up]
      /\ abandoned' = [abandoned EXCEPT ![s] = @ \cup up]
  BY <1>0, <1>1 DEF GivesUp, TypeOK
<1>3. seq' = seq /\ received' = received
  BY LoopKeepsHandlers
<1>4. ASSUME NEW n \in up
      PROVE  copies[s][n] >= MaxRetries
  <2>1. n \in Number /\ tries[s][n] >= MaxRetries
    BY <1>2 DEF Exhausted
  <2>2. tries[s][n] <= copies[s][n]
    BY <1>0, <2>1 DEF MsgInv, Counted
  <2>3. tries \in [Conn -> [Number -> 0 .. MaxRetries]]
        /\ copies \in [Conn -> [Number -> Nat]]
    BY DEF TypeOK
  <2>4. tries[s][n] \in Nat /\ copies[s][n] \in Nat
    BY <1>0, <2>1, <2>3
  <2> QED
    BY <2>1, <2>2, <2>4, WsAssumption
<1>5. up \in SUBSET Number
  BY <1>0
<1>6. copies \in [Conn -> [Number -> Nat]]
  BY DEF TypeOK
<1>7. ASSUME NEW sent \in SUBSET left,
             copies' = [copies EXCEPT ![s] =
                           [n \in Number |-> IF n \in sent THEN @[n] + 1 ELSE @[n]]]
      PROVE  Abstract!Next
  <2>1. Abstract!Retry(s, sent, back, up)
    BY <1>0, <1>1, <1>2, <1>3, <1>4, <1>7 DEF Abstract!Retry
  <2>2. sent \in SUBSET Number
    OBVIOUS
  <2> QED
    BY <1>0, <1>5, <2>1, <2>2 DEF Abstract!Next
<1>8. ASSUME NEW n \in left \ Exhausted(s), Sends(c, left, n)
      PROVE  Abstract!Next
  <2>1. copies' = [copies EXCEPT ![s][n] = @ + 1] /\ n \in Number
    BY <1>8 DEF Sends
  <2>2. copies' = [copies EXCEPT ![s] =
                      [m \in Number |-> IF m \in {n} THEN @[m] + 1 ELSE @[m]]]
    BY <1>0, <1>6, <2>1
  <2>3. {n} \in SUBSET left
    OBVIOUS
  <2> QED
    BY <1>7, <2>2, <2>3
<1>9. CASE IsThrough(c)
  <2>1. copies' = copies
    BY <1>9 DEF IsThrough
  <2>2. PICK sent \in SUBSET left : sent = {}
    OBVIOUS
  <2>3. copies' = [copies EXCEPT ![s] =
                      [m \in Number |-> IF m \in sent THEN @[m] + 1 ELSE @[m]]]
    BY <1>0, <1>6, <2>1, <2>2
  <2> QED
    BY <1>7, <2>3
<1> QED
  <2>1. PICK entries \in SUBSET Number : entries = unacked[s] \cup back
    BY <1>0
  <2>2. Loop(c, left, entries)
    BY <2>1
  <2> QED
    BY <1>8, <1>9, <2>2, LoopEffect

LEMMA AbstractStep ==
    ASSUME IInv, [Next]_vars
    PROVE  [Abstract!Next]_(Abstract!vars)
<1>0. TypeOK /\ MsgInv
  BY DEF IInv
<1>1. CASE UNCHANGED <<seq, unacked, received, abandoned, copies>>
  BY <1>1 DEF Abstract!vars
<1>2. CASE Expire \/ UNCHANGED vars
  BY <1>1, <1>2 DEF Expire, vars, msgVars, clientVars
<1>3. ASSUME NEW c \in Conn,
             \/ Connect(c) \/ Drop(c) \/ Restore(c) \/ StartFresh(c)
             \/ Register(c) \/ Replay(c) \/ Resumed(c) \/ EndEarly(c)
             \/ Disconnect(c)
             \/ \E saves \in BOOLEAN : End(c, saves)
      PROVE  [Abstract!Next]_(Abstract!vars)
  BY <1>1, <1>3 DEF Connect, Drop, Restore, StartFresh, Register, Replay, Resumed,
                    EndEarly, Disconnect, End, msgVars, clientVars
<1>4. ASSUME NEW c \in Conn, Receive(c)
      PROVE  Abstract!Next
  <2>1. wire[c] \in Seq(Number) /\ wire[c] # <<>> /\ sess[c] \in Conn
    BY <1>0, <1>4 DEF Receive, TypeOK
  <2>2. Head(wire[c]) = wire[c][1] /\ 1 \in 1 .. Len(wire[c])
        /\ Head(wire[c]) \in Number
    BY <2>1
  <2>3. Head(wire[c]) < seq[sess[c]]
    BY <1>0, <2>1, <2>2 DEF MsgInv, OnTheWay
  <2>4. Abstract!Receive(sess[c], Head(wire[c]))
    BY <1>4, <2>3 DEF Receive, Abstract!Receive, msgVars
  <2> QED
    BY <2>1, <2>2, <2>4 DEF Abstract!Next
<1>5. ASSUME NEW c \in Conn, Greet(c) \/ Send(c)
      PROVE  Abstract!Next
  <2>1. Track(sess[c]) /\ received' = received /\ sess[c] \in Conn
    BY <1>0, <1>5 DEF Greet, Send, clientVars, TypeOK
  <2>2. Abstract!Send(sess[c])
    BY <2>1 DEF Track, Abstract!Send
  <2> QED
    BY <2>1, <2>2 DEF Abstract!Next
<1>6. ASSUME NEW c \in Conn, HandleAck(c)
      PROVE  Abstract!Next
  <2>1. Head(acks[c]) \in received[sess[c]] /\ sess[c] \in Conn
    BY <1>0, <1>6, MsgHandleAck DEF TypeOK
  <2>2. Head(acks[c]) \in Number
    BY <1>0, <2>1 DEF TypeOK
  <2>3. Abstract!Acknowledge(sess[c], Head(acks[c]))
    BY <1>6, <2>1 DEF HandleAck, Abstract!Acknowledge, clientVars
  <2> QED
    BY <2>1, <2>2, <2>3 DEF Abstract!Next
<1>7. ASSUME NEW c \in Conn,
             \/ \E overdue \in SUBSET unacked[sess[c]] : Retry(c, overdue)
             \/ NotResent(c)
      PROVE  Abstract!Next
  <2>1. PICK left \in SUBSET Number :
              /\ Loop(c, left, unacked[sess[c]])
              /\ \A n \in left : n < seq[sess[c]]
    BY <1>0, <1>7, MsgRetry
  <2>2. PICK back \in SUBSET Number : back = {}
    OBVIOUS
  <2>3. unacked[sess[c]] = unacked[sess[c]] \cup back
    BY <2>2
  <2>4. Loop(c, left, unacked[sess[c]] \cup back)
    BY <2>1, <2>3
  <2> QED
    BY <1>0, <2>1, <2>2, <2>4, LoopIsRetry
<1>8. ASSUME NEW c \in Conn, Resent(c)
      PROVE  Abstract!Next
  <2>1. TypeOK'
    BY <1>0, <1>8, TypeStep DEF MsgInv, Next
  <2>2. PICK left \in SUBSET Number, n \in Number :
              /\ Loop(c, left, unacked[sess[c]] \cup {n})
              /\ \A m \in left \cup {n} : m < seq[sess[c]]
              /\ copies[sess[c]][n] > 0
    BY <1>0, <1>8, <2>1, MsgResent
  <2>3. {n} \in SUBSET Number
    OBVIOUS
  <2> QED
    BY <1>0, <2>2, <2>3, LoopIsRetry
<1> QED
  BY <1>2, <1>3, <1>4, <1>5, <1>6, <1>7, <1>8 DEF Next

\* Sequenced delivery with its connections, buffers and tasks implements the
\* delivery of AtLeastOnce.
THEOREM DeliveryIsAtLeastOnce == Spec => Delivery
<1>1. Init => Abstract!Init
  BY AbstractInit
<1>2. IInv /\ [Next]_vars => [Abstract!Next]_(Abstract!vars)
  BY AbstractStep
<1> QED
  BY <1>1, <1>2, Inductive, PTL DEF Spec, Delivery, Abstract!Spec
==============================================================================
