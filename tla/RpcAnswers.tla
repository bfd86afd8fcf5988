----------------------------- MODULE RpcAnswers -----------------------------
(***************************************************************************)
(* What the server's side of a SuRPC connection promises its client: what  *)
(* becomes of a request is decided once, for a cause, and the client gets  *)
(* at most one response to it, a whole one, which says what was decided.   *)
(* RpcServer is shown to implement this.                                   *)
(***************************************************************************)
EXTENDS Naturals, Sequences

CONSTANTS Requests, Kinds

VARIABLES
  conn, option, kind, service, asked,  \* as in RpcServer
  verdict,  \* on each request, "none" before it is decided
  answers   \* the responses, in the order they were sent: [req, what]

vars == <<conn, option, kind, service, asked, verdict, answers>>

Init ==
  /\ conn = "up" /\ option \in {"limited", "unlimited", "bad"}
  /\ kind \in [Requests -> Kinds] /\ service = FALSE /\ asked = {}
  /\ verdict = [r \in Requests |-> "none"] /\ answers = <<>>

Register ==
  /\ service' = TRUE
  /\ UNCHANGED <<conn, option, kind, asked, verdict, answers>>

Ask(r) ==
  /\ conn = "up" /\ r \notin asked
  /\ asked' = asked \cup {r}
  /\ UNCHANGED <<conn, option, kind, service, verdict, answers>>

\* Of the client, and by the server.
PeerGone == conn = "up" /\ conn' = "peerGone"
Close == conn' = "closed"

GoDown ==
  /\ PeerGone \/ Close
  /\ UNCHANGED <<option, kind, service, asked, verdict, answers>>

\* What can be decided.  An argument may not arrive when the connection fails; only a
\* HandleTimeout makes a request time out.
Verdicts(r) ==
  CASE kind[r] = "unknown" \/ ~service -> {"service"}
    [] kind[r] = "badArgs" /\ service  -> {"args"}
    [] kind[r] = "valid" /\ service    -> {"reply", "method"}
         \cup (IF conn # "up" THEN {"args"} ELSE {})
         \cup (IF option = "limited" THEN {"timeout"} ELSE {})

\* Nothing is, when the Option is refused.
Decide(r, v) ==
  /\ option # "bad" /\ r \in asked /\ verdict[r] = "none"
  /\ v \in Verdicts(r)
  /\ verdict' = [verdict EXCEPT ![r] = v]
  /\ UNCHANGED <<conn, option, kind, service, asked, answers>>

\* The connection of a client that is gone may be closed meanwhile.
Answer(r) ==
  /\ conn # "closed" /\ verdict[r] # "none"
  /\ \A i \in 1..Len(answers) : answers[i].req # r
  /\ answers' = Append(answers, [req |-> r, what |-> verdict[r]])
  /\ conn' = conn \/ (conn = "peerGone" /\ conn' = "closed")
  /\ UNCHANGED <<option, kind, service, asked, verdict>>

Next ==
  \/ \E r \in Requests : Ask(r) \/ Answer(r) \/ (\E v \in Verdicts(r) : Decide(r, v))
  \/ Register \/ GoDown

Spec == Init /\ [][Next]_vars
=============================================================================
