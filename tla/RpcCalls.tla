------------------------------ MODULE RpcCalls ------------------------------
(***************************************************************************)
(* What a SuRPC client promises to its callers: a call is accepted while   *)
(* the client is usable and refused afterwards, and it ends once, in one   *)
(* way.  RpcClient is shown to implement this.                             *)
(***************************************************************************)
CONSTANTS
  Calls,
  DeadlineCalls  \* the calls that may end by their context

VARIABLES
  status,   \* of each call: "idle", "open", "refused", "ended"
  outcome,  \* of each ended call, "none" before
  down      \* the client was closed or lost its connection

vars == <<status, outcome, down>>

Init ==
  /\ status = [c \in Calls |-> "idle"]
  /\ outcome = [c \in Calls |-> "none"]
  /\ down = FALSE

\* registerCall, either way.
Accept(c) ==
  /\ status[c] = "idle" /\ ~down
  /\ status' = [status EXCEPT ![c] = "open"]
  /\ UNCHANGED <<outcome, down>>

Refuse(c) ==
  /\ status[c] = "idle" /\ down
  /\ status' = [status EXCEPT ![c] = "refused"]
  /\ UNCHANGED <<outcome, down>>

\* The ways an accepted or a refused call may end.
Outcomes(c) ==
  (CASE status[c] = "open"    -> {"reply", "server", "body"}
                                 \cup (IF down THEN {"conn"} ELSE {})
     [] status[c] = "refused" -> {"shutdown"}
     [] OTHER                 -> {})
  \cup (IF c \in DeadlineCalls /\ status[c] # "ended" THEN {"timeout"} ELSE {})

End(c, o) ==
  /\ status[c] \in {"open", "refused"}
  /\ o \in Outcomes(c)
  /\ status' = [status EXCEPT ![c] = "ended"]
  /\ outcome' = [outcome EXCEPT ![c] = o]
  /\ UNCHANGED down

GoDown ==
  /\ down' = TRUE
  /\ UNCHANGED <<status, outcome>>

Next ==
  \/ \E c \in Calls : Accept(c) \/ Refuse(c) \/ (\E o \in Outcomes(c) : End(c, o))
  \/ GoDown

Spec == Init /\ [][Next]_vars
=============================================================================
