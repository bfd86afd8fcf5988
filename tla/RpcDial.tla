------------------------------- MODULE RpcDial -------------------------------
(***************************************************************************)
(* One call of dialTimeout (SuRPC/client.go): it connects, hands the       *)
(* connection to a goroutine that makes the client (NewClient or, over     *)
(* HTTP, NewHTTPClient), and returns what comes first, the goroutine's     *)
(* result on an unbuffered channel or the timeout.  On the other side, the *)
(* ServeHTTP of SuRPC/server.go.  The network is external.                 *)
(***************************************************************************)
EXTENDS Naturals, Sequences

CONSTANTS Faults \* the peer or the network may fail

ASSUME DialAssumption == Faults \in BOOLEAN

VARIABLES
  opt,      \* what the call was given: HTTP or not, ConnectTimeout # 0, a known codec
  caller,   \* where the caller is
  timedOut, \* the timeout was first
  ret,      \* what dialTimeout returned
  link,     \* "none", "open" or "closed" on this side
  lost,     \* the other side is gone
  line,     \* the words of the status line that came back, <<>> before
  f,        \* where the goroutine is; "deliver" holds it until somebody receives
  result,   \* what it made
  receive   \* the receive goroutine of the client it made

dialVars == <<opt, caller, timedOut, ret, link, lost, line, f, result, receive>>
callerVars == <<opt, caller, timedOut, ret>>
makerVars == <<f, result, receive>>

Options == [http : BOOLEAN, limited : BOOLEAN, codec : BOOLEAN]
Results == {"none", "client", "error"}

\* What ServeHTTP writes starts with a blank.
Greeting == <<"", "HTTP/1.0", "200", "connected", "to", "SuRPC">>

DialTypeOK ==
  /\ opt \in Options
  /\ caller \in {"dial", "select", "defer", "returned"}
  /\ timedOut \in BOOLEAN /\ ret \in Results
  /\ link \in {"none", "open", "closed"} /\ lost \in BOOLEAN
  /\ line \in {<<>>, Greeting}
  /\ f \in {"none", "connect", "response", "encode", "deliver", "gone"}
  /\ result \in Results /\ receive \in {"none", "running", "ended"}
  /\ (result = "client") <=> (receive # "none")
  /\ f = "gone" => ret = result

DialInit ==
  /\ opt \in Options
  /\ caller = "dial" /\ timedOut = FALSE /\ ret = "none"
  /\ link = "none" /\ lost = FALSE /\ line = <<>>
  /\ f = "none" /\ result = "none" /\ receive = "none"

-----------------------------------------------------------------------------
(* The caller.                                                             *)

\* net.DialTimeout connects and the goroutine is started ...
Connect ==
  /\ caller = "dial"
  /\ link' = "open" /\ caller' = "select"
  /\ f' = IF opt.http THEN "connect" ELSE "encode"
  /\ UNCHANGED <<opt, timedOut, ret, lost, line, result, receive>>

\* ... or it fails.
ConnectFails ==
  /\ caller = "dial" /\ Faults
  /\ ret' = "error" /\ caller' = "returned"
  /\ UNCHANGED <<opt, timedOut, link, lost, line, makerVars>>

\* A ConnectTimeout of 0 is none.
Timeout ==
  /\ caller = "select" /\ opt.limited
  /\ timedOut' = TRUE /\ ret' = "error" /\ caller' = "defer"
  /\ UNCHANGED <<opt, link, lost, line, makerVars>>

TakeResult ==
  /\ caller = "select" /\ f = "deliver"
  /\ ret' = result /\ caller' = "defer"
  /\ f' = "gone"
  /\ UNCHANGED <<opt, timedOut, link, lost, line, result, receive>>

\* The deferred function closes the connection when no client is returned.
\* Mutant: never.
Never == FALSE
Closes == ret # "client"

Return ==
  /\ caller = "defer"
  /\ link' = IF Closes THEN "closed" ELSE link
  /\ caller' = "returned"
  /\ UNCHANGED <<opt, timedOut, ret, lost, line, makerVars>>

-----------------------------------------------------------------------------
(* The goroutine.                                                          *)

\* What it sends on the channel.
Makes(r) == result' = r /\ f' = "deliver"

\* What ends the reads of the client.  Mutant: only the other side does.
LostOnly == lost
Broken == link = "closed" \/ lost

\* NewHTTPClient writes CONNECT; whether that fails is not looked at.
WriteConnect ==
  /\ f = "connect"
  /\ f' = "response"
  /\ UNCHANGED <<callerVars, link, lost, line, result, receive>>

\* http.ReadResponse and the test of its Status.  A status line is protocol, code
\* and reason, separated by blanks.
Switched == link = "open" /\ Len(line) > 1 /\ line[2] = "200"

ReadResponse ==
  /\ f = "response" /\ (line # <<>> \/ Broken)
  /\ IF Switched THEN f' = "encode" /\ UNCHANGED result ELSE Makes("error")
  /\ UNCHANGED <<callerVars, link, lost, line, receive>>

\* NewClient: the codec, the Option, the client and its receive.
NewClient ==
  /\ f = "encode" /\ opt.codec /\ link = "open"
  /\ Makes("client") /\ receive' = "running"
  /\ UNCHANGED <<callerVars, link, lost, line>>

NewClientFails ==
  /\ f = "encode" /\ Makes("error")
  /\ \/ ~opt.codec /\ UNCHANGED link
     \/ opt.codec /\ Broken /\ link' = "closed"
  /\ UNCHANGED <<callerVars, lost, line, receive>>

\* The client's receive finds the connection closed, and terminates its calls.
ReceiveEnds ==
  /\ receive = "running" /\ Broken
  /\ receive' = "ended"
  /\ UNCHANGED <<callerVars, link, lost, line, f, result>>

-----------------------------------------------------------------------------
(* The other side.                                                         *)

\* Server.ServeHTTP.
ServeHTTP ==
  /\ opt.http /\ f \notin {"none", "connect"} /\ line = <<>> /\ ~lost
  /\ line' = Greeting
  /\ UNCHANGED <<callerVars, link, lost, makerVars>>

OtherSideGone ==
  /\ Faults /\ link # "none" /\ ~lost
  /\ lost' = TRUE
  /\ UNCHANGED <<callerVars, link, line, makerVars>>

-----------------------------------------------------------------------------

MakerStep == WriteConnect \/ ReadResponse \/ NewClient \/ NewClientFails
CallerStep == Connect \/ ConnectFails \/ TakeResult \/ Return

DialNext == CallerStep \/ Timeout \/ MakerStep \/ ReceiveEnds \/ ServeHTTP \/ OtherSideGone

DialSpec == DialInit /\ [][DialNext]_dialVars

\* net.DialTimeout comes back, goroutines run and time passes; the peer may say
\* nothing for ever.
DialFairSpec ==
  /\ DialSpec
  /\ WF_dialVars(CallerStep) /\ WF_dialVars(Timeout) /\ WF_dialVars(MakerStep) /\ WF_dialVars(ReceiveEnds)

-----------------------------------------------------------------------------
(* Properties.                                                             *)

\* The connection of a client that was returned was not closed, whichever of the
\* timeout and the result was first; that of every other dial was.
OwnedOrClosed ==
  caller = "returned" => (link = "open" <=> ret = "client")

\* A dial fails for a cause: no connection, the timeout, a codec nobody has, the
\* loss of the other side; or the blank before the HTTP version in what ServeHTTP
\* writes (server.go:265), because of which no dial over HTTP succeeds.
FailsForACause ==
  caller = "returned" =>
    IF ret = "client" THEN ~opt.http
    ELSE link = "none" \/ timedOut \/ ~opt.codec \/ lost \/ (line # <<>> /\ line[1] = "")

DialEndsWell == DialTypeOK /\ OwnedOrClosed /\ FailsForACause

\* A client finished after the timeout, which nobody will ever hold or close,
\* does not keep its receive goroutine.
LateClientEnds == (receive # "none" /\ timedOut) ~> receive = "ended"

-----------------------------------------------------------------------------
(* The inductive invariant behind DialEndsWell.                                     *)

Cause == link = "none" \/ timedOut \/ ~opt.codec \/ lost \/ line # <<>>

\* While the caller waits the connection is open unless the goroutine has failed,
\* and then for a cause; over HTTP it never gets as far as a client.
DialInv ==
  /\ DialEndsWell
  /\ f = "none" <=> link = "none"
  /\ caller = "dial" => f = "none"
  /\ caller \in {"select", "defer"} => f # "none"
  /\ ret = "none" <=> caller \in {"dial", "select"}
  /\ result = "none" <=> f \notin {"deliver", "gone"}
  /\ f = "gone" => caller \in {"defer", "returned"}
  /\ ret = "client" => f = "gone"
  /\ caller \in {"select", "defer"} /\ result # "error" => link = "open"
  /\ opt.http => f # "encode" /\ result # "client"
  /\ result = "error" /\ caller = "select" => ~opt.codec \/ lost \/ line # <<>>
  /\ ret = "error" => Cause
=============================================================================
