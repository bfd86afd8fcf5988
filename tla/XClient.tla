------------------------------- MODULE XClient -------------------------------
(***************************************************************************)
(* xclient.XClient: a cache of one Client per server address, filled by    *)
(* dial under mu, which stays locked while XDial connects; goroutines that *)
(* call through it; and one Broadcast, whose goroutines share a context    *)
(* and a mutex of their own.  The Clients are those of RpcClient, seen     *)
(* through what they promise: a call ends with an answer or an error, or   *)
(* with its context.  Servers may refuse to be dialled, and never answer.  *)
(***************************************************************************)
EXTENDS Naturals, FiniteSets

CONSTANTS
  Addrs,
  Casters,    \* the goroutines of the Broadcast, one per server of GetAll
  Callers,    \* goroutines in Call
  AddrOf,     \* the address each of them calls
  MaxDials,   \* bound on the connections made to one address
  NoClient, NoOne

Goroutines == Casters \cup Callers

ASSUME XClientAssumption ==
  /\ Casters \cap Callers = {}
  /\ AddrOf \in [Goroutines -> Addrs]
  /\ MaxDials \in Nat
  /\ NoOne \notin Goroutines
  /\ NoClient \notin Addrs \X (1..MaxDials)

Clients == Addrs \X (1..MaxDials)

VARIABLES
  mu,         \* the goroutine in XDial, or NoOne
  clients,    \* x.clients: address -> Client, or NoClient
  dialled,    \* all Clients made
  available,  \* those for which IsAvailable
  pc,
  my,         \* the Client each goroutine calls with
  err,        \* "nil", or how its call failed
  cancelled,  \* the context of the Broadcast is done
  e, replyOf, \* its result: an error, the goroutine whose answer was copied
  returned,   \* it has returned
  abandoned   \* history: the caller of Broadcast cancelled the context

cache == <<mu, clients, dialled, available>>
cast == <<cancelled, e, replyOf, returned, abandoned>>
vars == <<cache, pc, my, err, cast>>

TypeOK ==
  /\ mu \in Goroutines \cup {NoOne}
  /\ clients \in [Addrs -> Clients \cup {NoClient}]
  /\ dialled \subseteq Clients /\ available \subseteq Clients
  /\ pc \in [Goroutines -> {"dial", "dialling", "call", "report", "returned"}]
  /\ my \in [Goroutines -> Clients \cup {NoClient}]
  /\ err \in [Goroutines -> {"nil", "dial", "call", "context"}]
  /\ {cancelled, returned, abandoned} \subseteq BOOLEAN
  /\ e \in {"nil", "dial", "call", "context"}
  /\ replyOf \in Casters \cup {NoOne}
  /\ \A g \in Goroutines : mu = g <=> pc[g] = "dialling"
  /\ \A g \in Callers : pc[g] # "report"

Init ==
  /\ mu = NoOne
  /\ clients = [a \in Addrs |-> NoClient] /\ dialled = {} /\ available = {}
  /\ pc = [g \in Goroutines |-> "dial"]
  /\ my = [g \in Goroutines |-> NoClient]
  /\ err = [g \in Goroutines |-> "nil"]
  /\ cancelled = FALSE /\ e = "nil" /\ replyOf = NoOne
  /\ returned = FALSE /\ abandoned = FALSE

Goto(g, p) == pc' = [pc EXCEPT ![g] = p]

\* The call of g is over: a Broadcast still has to take note of it.
EndsWith(g, r) ==
  /\ err' = [err EXCEPT ![g] = r]
  /\ Goto(g, IF g \in Casters THEN "report" ELSE "returned")

-----------------------------------------------------------------------------
(* dial and call.                                                          *)

\* mu is free.  Mutant: dial does not lock.
NoLock == TRUE
Free == mu = NoOne

Reuse(g) ==
  /\ pc[g] = "dial" /\ Free
  /\ clients[AddrOf[g]] \in available
  /\ my' = [my EXCEPT ![g] = clients[AddrOf[g]]]
  /\ Goto(g, "call")
  /\ UNCHANGED <<cache, err, cast>>

\* A cached Client that is not available is closed and dropped first.
BeginDial(g) ==
  /\ pc[g] = "dial" /\ Free
  /\ clients[AddrOf[g]] \notin available
  /\ clients' = [clients EXCEPT ![AddrOf[g]] = NoClient]
  /\ mu' = g
  /\ Goto(g, "dialling")
  /\ UNCHANGED <<dialled, available, my, err, cast>>

DialSucceeds(g) ==
  /\ pc[g] = "dialling"
  /\ \E n \in 1..MaxDials :
       LET c == <<AddrOf[g], n>> IN
       /\ c \notin dialled /\ \A i \in 1..(n - 1) : <<AddrOf[g], i>> \in dialled
       /\ dialled' = dialled \cup {c} /\ available' = available \cup {c}
       /\ clients' = [clients EXCEPT ![AddrOf[g]] = c]
       /\ my' = [my EXCEPT ![g] = c]
  /\ mu' = NoOne
  /\ Goto(g, "call")
  /\ UNCHANGED <<err, cast>>

\* The server refuses, or ConnectTimeout ends the wait.
DialFails(g) ==
  /\ pc[g] = "dialling"
  /\ mu' = NoOne
  /\ EndsWith(g, "dial")
  /\ UNCHANGED <<clients, dialled, available, my, cast>>

\* Client.Call ends, when the server or the loss of the connection lets it ...
CallEnds(g) ==
  /\ pc[g] = "call"
  /\ EndsWith(g, "nil") \/ EndsWith(g, "call")
  /\ UNCHANGED <<cache, my, cast>>

\* ... or with the context of the Broadcast.
CallCancelled(g) ==
  /\ pc[g] = "call" /\ g \in Casters /\ cancelled
  /\ EndsWith(g, "context")
  /\ UNCHANGED <<cache, my, cast>>

\* Client.receive finds the connection lost.
Lose(c) ==
  /\ c \in available
  /\ available' = available \ {c}
  /\ UNCHANGED <<mu, clients, dialled, pc, my, err, cast>>

\* XClient.Close.
Close ==
  /\ mu = NoOne
  /\ available' = available \ {clients[a] : a \in Addrs}
  /\ clients' = [a \in Addrs |-> NoClient]
  /\ UNCHANGED <<mu, dialled, pc, my, err, cast>>

-----------------------------------------------------------------------------
(* Broadcast.                                                              *)

\* The error of g is the first one.  Mutant: the last one is kept.
AnyError(g) == err[g] # "nil"
FirstError(g) == err[g] # "nil" /\ e = "nil"

\* The answer of g is the first one.
FirstReply(g) == err[g] = "nil" /\ replyOf = NoOne

\* cancel().  Mutant: it is forgotten.
NoCancel == UNCHANGED cancelled
Cancel == cancelled' = TRUE

\* The end of one of its goroutines, under its mutex.
Report(g) ==
  /\ pc[g] = "report"
  /\ IF FirstError(g)
     THEN e' = err[g] /\ Cancel
     ELSE UNCHANGED <<e, cancelled>>
  /\ replyOf' = IF FirstReply(g) THEN g ELSE replyOf
  /\ Goto(g, "returned")
  /\ UNCHANGED <<cache, my, err, returned, abandoned>>

\* wg.Wait and the return of e.
BroadcastReturns ==
  /\ ~returned /\ \A g \in Casters : pc[g] = "returned"
  /\ returned' = TRUE
  /\ UNCHANGED <<cache, pc, my, err, cancelled, e, replyOf, abandoned>>

\* The caller's own context ends.
Abandon ==
  /\ ~cancelled
  /\ cancelled' = TRUE /\ abandoned' = TRUE
  /\ UNCHANGED <<cache, pc, my, err, e, replyOf, returned>>

-----------------------------------------------------------------------------

DialEnds(g) == DialSucceeds(g) \/ DialFails(g)

Next ==
  \/ \E g \in Goroutines : \/ Reuse(g) \/ BeginDial(g) \/ DialEnds(g)
                           \/ CallEnds(g) \/ CallCancelled(g) \/ Report(g)
  \/ \E c \in Clients : Lose(c)
  \/ Close \/ BroadcastReturns \/ Abandon

Spec == Init /\ [][Next]_vars

\* Goroutines run, mu is starvation free and XDial ends (ConnectTimeout is not
\* 0); no call need ever be answered.
FairSpec ==
  /\ Spec
  /\ \A g \in Goroutines : /\ SF_vars(Reuse(g) \/ BeginDial(g))
                           /\ WF_vars(DialEnds(g))
                           /\ WF_vars(CallCancelled(g))
                           /\ WF_vars(Report(g))
  /\ WF_vars(BroadcastReturns)

-----------------------------------------------------------------------------
(* Properties.                                                             *)

\* xclient.go:16, connections are reused: there is at most one usable Client for
\* an address, however many goroutines find none at the same time.
OneUsableClient ==
  \A c, d \in available : c[1] = d[1] => c = d

Inv == TypeOK /\ OneUsableClient

\* With what makes it inductive: a usable Client is the one in the map, and the
\* map has none for the address that is being dialled.
ClientInv ==
  /\ TypeOK
  /\ \A c \in available : clients[c[1]] = c
  /\ mu # NoOne => clients[AddrOf[mu]] = NoClient

\* Broadcast returns nil exactly when all servers answered without an error, and
\* the reply is then one of theirs; the error it returns is why it stopped, not a
\* consequence of its own cancel.
AllOrError ==
  /\ returned => /\ e = "nil" <=> \A g \in Casters : err[g] = "nil"
                 /\ replyOf = NoOne <=> \A g \in Casters : err[g] # "nil"
                 /\ replyOf # NoOne => err[replyOf] = "nil"
  /\ e = "context" => abandoned

\* What its proof needs: the result so far is that of the goroutines that have
\* reported, and a goroutine fails for the context only when that is done.
CastInv ==
  /\ e = "nil" <=> \A g \in Casters : pc[g] = "returned" => err[g] = "nil"
  /\ replyOf = NoOne <=> \A g \in Casters : pc[g] = "returned" => err[g] # "nil"
  /\ replyOf # NoOne => pc[replyOf] = "returned" /\ err[replyOf] = "nil"
  /\ \A g \in Casters : err[g] = "context" => cancelled
  /\ \A g \in Goroutines : pc[g] \in {"dial", "dialling", "call"} => err[g] = "nil"
  /\ cancelled => abandoned \/ e # "nil"
  /\ e = "context" => abandoned
  /\ returned => \A g \in Casters : pc[g] = "returned"

\* Once a server failed, Broadcast returns although the others may never answer.
FailedBroadcastEnds == e # "nil" ~> returned
=============================================================================
