---------------------------- MODULE RetriedCall ----------------------------
(***************************************************************************)
(* What a caller of StdioTransport.send_request may rely on                *)
(* (core/mcp/stdio_transport.py): a call ends once, with the result of an  *)
(* execution of this very call or with an error; the server executes each  *)
(* attempt of it at most once, possibly after the caller has been told     *)
(* that the call failed, and the call may fail although it was executed.   *)
(***************************************************************************)
CONSTANTS Call, NoCall, Attempt

VARIABLES phase,     \* "new", "asked", "answered" or "failed"
          executed,  \* the attempts of a call that the server has executed
          result     \* the call whose execution gave the result
vars == <<phase, executed, result>>

Init == /\ phase = [c \in Call |-> "new"]
        /\ executed = [c \in Call |-> {}]
        /\ result = [c \in Call |-> NoCall]

\* send_request begins.
Ask(c) == /\ phase[c] = "new"
          /\ phase' = [phase EXCEPT ![c] = "asked"]
          /\ UNCHANGED <<executed, result>>

\* The server does what the call asks.
Execute(c, k) == /\ phase[c] # "new" /\ k \notin executed[c]
                 /\ executed' = [executed EXCEPT ![c] = @ \cup {k}]
                 /\ UNCHANGED <<phase, result>>

\* send_request returns: with the result of its own execution.
Answer(c) == /\ phase[c] = "asked" /\ executed[c] # {}
             /\ phase' = [phase EXCEPT ![c] = "answered"]
             /\ result' = [result EXCEPT ![c] = c]
             /\ UNCHANGED executed

\* send_request raises.
Fail(c) == /\ phase[c] = "asked"
           /\ phase' = [phase EXCEPT ![c] = "failed"]
           /\ UNCHANGED <<executed, result>>

Next == \E c \in Call : \/ Ask(c) \/ Answer(c) \/ Fail(c)
                        \/ \E k \in Attempt : Execute(c, k)

Spec == Init /\ [][Next]_vars
=============================================================================
