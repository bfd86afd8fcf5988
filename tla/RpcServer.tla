------------------------------ MODULE RpcServer ------------------------------
(***************************************************************************)
(* The server's side of one SuRPC connection (SuRPC/server.go): the loop   *)
(* of ServerCodec reads requests; each is served by two goroutines, the    *)
(* handler (handleRequest) and the worker it starts, which meet on the     *)
(* unbuffered channels `called` and `sent`.  Loop, handlers and workers    *)
(* write responses under the mutex `sending`.  The client and the methods  *)
(* of the registered services are external.  The requests ask for methods *)
(* of one service, which the program registers at any time.               *)
(***************************************************************************)
EXTENDS Naturals, Sequences, FiniteSets

CONSTANTS
  Requests,
  Kinds,  \* the kinds of requests the client makes, among AllKinds
  NoReq

AllKinds == {"valid",     \* of a registered method, with the right argument
             "unknown",   \* of a method that cannot be called, or ill-formed
             "badArgs"}   \* with an argument of another type

Loop == <<"loop", NoReq>>
Handler(r) == <<"handler", r>>
Worker(r) == <<"worker", r>>
Threads == {Loop} \cup {Handler(r) : r \in Requests} \cup {Worker(r) : r \in Requests}

ASSUME ServerAssumption ==
  /\ Kinds \subseteq AllKinds
  /\ NoReq \notin Requests \cup Threads

VARIABLES
  conn,     \* "up", "peerGone" (the client is gone), "closed" (by the server)
  option,   \* "limited" or "unlimited", with a HandleTimeout or without, or
            \* "bad": wrong magic number or codec
  kind,     \* of each request
  service,  \* serviceMap has the service
  asked,    \* the requests the client has sent
  input,    \* gob messages on their way to the server: [part, req]
  pc,       \* of each goroutine
  cur,      \* the request of the loop's current iteration
  hErr,     \* h.Err of each request, shared by its goroutines
  result,   \* what the method of each request returned
  sending,  \* the goroutine holding the mutex, or NoReq
  output    \* gob messages written: [part, req, what]

vars == <<service, conn, option, kind, asked, input, pc, cur, hErr, result, sending, output>>

TypeOK ==
  /\ conn \in {"up", "peerGone", "closed"}
  /\ option \in {"limited", "unlimited", "bad"}
  /\ kind \in [Requests -> Kinds]
  /\ service \in BOOLEAN /\ asked \in SUBSET Requests
  /\ input \in Seq([part : {"header", "body", "torn"}, req : Requests])
  /\ pc \in [Threads -> {"idle", "option", "header", "service", "body", "wait",
                         "select", "await", "call", "called", "lock",
                         "sendHeader", "sendBody", "sent", "finished"}]
  /\ cur \in Requests \cup {NoReq}
  /\ hErr \in [Requests -> {"none", "service", "args", "method", "timeout"}]
  /\ result \in [Requests -> {"none", "ok", "err", "unencodable"}]
  /\ sending \in Threads \cup {NoReq}
  /\ output \in Seq([part : {"header", "body"}, req : Requests,
                     what : {"none", "service", "args", "method", "timeout",
                             "reply", "invalidRequest"}])

Init ==
  /\ conn = "up" /\ option \in {"limited", "unlimited", "bad"}
  /\ kind \in [Requests -> Kinds] /\ service = FALSE /\ asked = {} /\ input = <<>>
  /\ pc = [t \in Threads |-> IF t = Loop THEN "option" ELSE "idle"]
  /\ cur = NoReq
  /\ hErr = [r \in Requests |-> "none"]
  /\ result = [r \in Requests |-> "none"]
  /\ sending = NoReq /\ output = <<>>

Goto(t, p) == pc' = [pc EXCEPT ![t] = p]

\* h.Err of a request.  Mutant: it is not stored.
ForgetErr(r, text) == UNCHANGED hErr
SetErr(r, text) == hErr' = [hErr EXCEPT ![r] = text]

Part(p, r) == [part |-> p, req |-> r]

\* Server.Register: newService takes the methods of the type that can be called,
\* and the map keeps the first service of a name.
Register ==
  /\ service' = TRUE
  /\ UNCHANGED <<conn, option, kind, asked, input, pc, cur, hErr, result, sending, output>>

-----------------------------------------------------------------------------
(* The client, external: GobCodec.Write sends a header and a body.         *)

Ask(r) ==
  /\ conn = "up" /\ r \notin asked
  /\ asked' = asked \cup {r}
  /\ input' = input \o <<Part("header", r), Part("body", r)>>
  /\ UNCHANGED <<service, conn, option, kind, pc, cur, hErr, result, sending, output>>

\* The client closes or dies; the last body it wrote may not arrive.
PeerGone ==
  /\ conn = "up"
  /\ conn' = "peerGone"
  /\ \/ UNCHANGED input
     \/ /\ input # <<>>
        /\ input' = SubSeq(input, 1, Len(input) - 1)
  /\ UNCHANGED <<service, option, kind, asked, pc, cur, hErr, result, sending, output>>

-----------------------------------------------------------------------------
(* ServeConn and the loop of ServerCodec.                                  *)

\* The json decoder that reads the Option takes whatever arrived with it: whole
\* messages, maybe a piece of the next one.  They never reach the codec.
Surplus(n, torn) ==
  IF torn THEN <<[input[n + 1] EXCEPT !.part = "torn"]>>
               \o SubSeq(input, n + 2, Len(input))
          ELSE SubSeq(input, n + 1, Len(input))

ReadOption ==
  /\ pc[Loop] = "option"
  /\ \E n \in 0..Len(input), torn \in BOOLEAN :
       /\ torn => n < Len(input)
       /\ input' = Surplus(n, torn)
  /\ IF option # "bad"
     THEN Goto(Loop, "header") /\ UNCHANGED conn
     ELSE Goto(Loop, "finished") /\ conn' = "closed"
  /\ UNCHANGED <<service, option, kind, asked, cur, hErr, result, sending, output>>

\* A message that is no header, an end of input or a closed connection ends the
\* loop.
ReadHeader ==
  /\ pc[Loop] = "header"
  /\ \/ /\ input # <<>>
        /\ input' = Tail(input)
        /\ IF Head(input).part = "header"
           THEN cur' = Head(input).req /\ Goto(Loop, "service")
           ELSE cur' = NoReq /\ Goto(Loop, "wait")
     \/ /\ conn = "closed" \/ (conn = "peerGone" /\ input = <<>>)
        /\ cur' = NoReq /\ Goto(Loop, "wait")
        /\ UNCHANGED input
  /\ UNCHANGED <<service, conn, option, kind, asked, hErr, result, sending, output>>

\* findService; on an error the body stays unread.
FindService ==
  /\ pc[Loop] = "service"
  /\ IF kind[cur] = "unknown" \/ ~service
     THEN SetErr(cur, "service") /\ Goto(Loop, "lock")
     ELSE Goto(Loop, "body") /\ UNCHANGED hErr
  /\ UNCHANGED <<service, conn, option, kind, asked, input, cur, result, sending, output>>

\* The stream after a body of another type was read.  Mutant: it is left there.
BodyLeft == input
BodyRead == Tail(input)

\* The argument: served concurrently when it decodes, else answered by the loop.
ReadBody ==
  /\ pc[Loop] = "body"
  /\ \/ /\ input # <<>> /\ kind[cur] = "valid"
        /\ input' = Tail(input)
        /\ pc' = [pc EXCEPT ![Loop] = "header", ![Handler(cur)] = "select",
                            ![Worker(cur)] = "call"]
        /\ UNCHANGED hErr
     \/ /\ \/ input # <<>> /\ kind[cur] = "badArgs" /\ input' = BodyRead
           \/ conn = "closed" /\ UNCHANGED input
           \/ conn = "peerGone" /\ input = <<>> /\ UNCHANGED input
        /\ SetErr(cur, "args")
        /\ Goto(Loop, "lock")
  /\ UNCHANGED <<service, conn, option, kind, asked, cur, result, sending, output>>

\* What wg.Wait waits for: it counts the handlers.  Mutant: no wait.
NoWait == TRUE
AllHandled == \A r \in Requests : pc[Handler(r)] \in {"idle", "finished"}

\* wg.Wait, then cc.Close.
WaitAndClose ==
  /\ pc[Loop] = "wait" /\ AllHandled
  /\ conn' = "closed"
  /\ Goto(Loop, "finished")
  /\ UNCHANGED <<service, option, kind, asked, input, cur, hErr, result, sending, output>>

-----------------------------------------------------------------------------
(* handleRequest and its worker.                                           *)

\* service.call: the method returns.
CallMethod(r) ==
  /\ pc[Worker(r)] = "call"
  /\ \E res \in {"ok", "err", "unencodable"} : result' = [result EXCEPT ![r] = res]
  /\ Goto(Worker(r), "called")
  /\ UNCHANGED <<service, conn, option, kind, asked, input, cur, hErr, sending, output>>

\* Mutant: `called` has a buffer, the worker goes on alone.
MeetCalledBuffered(r) ==
  /\ pc[Worker(r)] = "called"
  /\ pc' = [pc EXCEPT ![Worker(r)] = "lock",
                      ![Handler(r)] = IF @ = "select" THEN "await" ELSE @]
  /\ UNCHANGED <<service, conn, option, kind, asked, input, cur, hErr, result, sending, output>>

\* `called`: both goroutines meet.
MeetCalled(r) ==
  /\ pc[Worker(r)] = "called" /\ pc[Handler(r)] = "select"
  /\ pc' = [pc EXCEPT ![Worker(r)] = "lock", ![Handler(r)] = "await"]
  /\ hErr' = IF result[r] = "err" THEN [hErr EXCEPT ![r] = "method"] ELSE hErr
  /\ UNCHANGED <<service, conn, option, kind, asked, input, cur, result, sending, output>>

\* time.After(timeout) in the handler's select; nobody receives `called` then.
Timeout(r) ==
  /\ option = "limited" /\ pc[Handler(r)] = "select"
  /\ SetErr(r, "timeout")
  /\ Goto(Handler(r), "lock")
  /\ UNCHANGED <<service, conn, option, kind, asked, input, cur, result, sending, output>>

MeetSent(r) ==
  /\ pc[Worker(r)] = "sent" /\ pc[Handler(r)] = "await"
  /\ pc' = [pc EXCEPT ![Worker(r)] = "finished", ![Handler(r)] = "finished"]
  /\ UNCHANGED <<service, conn, option, kind, asked, input, cur, hErr, result, sending, output>>

-----------------------------------------------------------------------------
(* sendResponse, run by any of the goroutines.                             *)

RequestOf(t) == IF t = Loop THEN cur ELSE t[2]

\* The body of the response t sends.
BodyOf(t) == IF t[1] = "worker" /\ result[t[2]] # "err" THEN "reply" ELSE "invalidRequest"

\* Encode, and Flush at the end, reach the client until the connection is closed.
Emit(p, r, w) ==
  output' = IF conn = "closed" THEN output
            ELSE Append(output, [part |-> p, req |-> r, what |-> w])

\* sending.Lock and Unlock.  Mutant: it is never released.
Free == sending = NoReq
StayLocked == UNCHANGED sending
Unlock == sending' = NoReq

SendLock(t) ==
  /\ pc[t] = "lock" /\ Free
  /\ sending' = t
  /\ Goto(t, "sendHeader")
  /\ UNCHANGED <<service, conn, option, kind, asked, input, cur, hErr, result, output>>

SendHeader(t) ==
  /\ pc[t] = "sendHeader"
  /\ Emit("header", RequestOf(t), hErr[RequestOf(t)])
  /\ Goto(t, "sendBody")
  /\ UNCHANGED <<service, conn, option, kind, asked, input, cur, hErr, result, sending>>

\* A reply gob cannot encode, and an earlier Flush that failed because the
\* client is gone, make Write close the connection.
SendBody(t) ==
  /\ pc[t] = "sendBody"
  /\ IF BodyOf(t) = "reply" /\ result[t[2]] = "unencodable"
     THEN conn' = "closed" /\ UNCHANGED output
     ELSE /\ Emit("body", RequestOf(t), BodyOf(t))
          /\ conn' \in {conn} \cup (IF conn = "peerGone" THEN {"closed"} ELSE {})
  /\ Unlock
  /\ Goto(t, CASE t[1] = "loop" -> "header" [] t[1] = "handler" -> "finished"
               [] t[1] = "worker" -> "sent")
  /\ UNCHANGED <<service, option, kind, asked, input, cur, hErr, result>>

-----------------------------------------------------------------------------

LoopStep == ReadOption \/ ReadHeader \/ FindService \/ ReadBody \/ WaitAndClose
Send(t) == SendHeader(t) \/ SendBody(t)

\* The connection is over: the loop has returned; workers whose handler timed
\* out wait for ever on `called`.
Terminated ==
  /\ pc[Loop] = "finished"
  /\ \A r \in Requests : \/ pc[Worker(r)] \in {"idle", "finished"}
                         \/ pc[Worker(r)] = "called" /\ pc[Handler(r)] = "finished"
  /\ UNCHANGED vars

Next ==
  \/ \E r \in Requests : \/ Ask(r) \/ CallMethod(r) \/ MeetCalled(r)
                         \/ Timeout(r) \/ MeetSent(r)
  \/ PeerGone \/ Register \/ LoopStep
  \/ \E t \in Threads : SendLock(t) \/ Send(t)
  \/ Terminated

Spec == Init /\ [][Next]_vars

\* Every goroutine that can run does, `sending` is starvation free, timers fire, and
\* methods return when no timer limits them.  A Write returns, which is all that is
\* assumed of the client: it reads what is sent to it, or its connection fails.
FairSpec ==
  /\ Spec
  /\ WF_vars(LoopStep)
  /\ \A r \in Requests : /\ WF_vars(MeetCalled(r)) /\ WF_vars(MeetSent(r))
                         /\ WF_vars(Timeout(r))
                         /\ WF_vars(option = "unlimited" /\ CallMethod(r))
  /\ \A t \in Threads : SF_vars(SendLock(t)) /\ WF_vars(Send(t))

-----------------------------------------------------------------------------
(* Properties.                                                             *)

Answered(r) == \E i \in 1..Len(output) : output[i].part = "body" /\ output[i].req = r

\* Concurrent responses do not interleave: a body follows the header of its own
\* response (server.go:100).
Framed ==
  \A i \in 1..Len(output) :
    IF i % 2 = 1 THEN output[i].part = "header"
    ELSE output[i].part = "body" /\ output[i].req = output[i - 1].req

\* A request is answered once, although the loop, its handler (on a timeout) and
\* its worker (with a late result) may all want to.
AnsweredOnce ==
  \A i, j \in 1..Len(output) :
    output[i].req = output[j].req /\ output[i].part = output[j].part => i = j

\* The error of a header tells what its body is: h.Err is shared by the handler
\* and the worker, and no timeout is reported over a result or the reverse.
HonestHeader ==
  \A i, j \in 1..Len(output) :
    output[i].req = output[j].req /\ output[i].part = "header" /\ output[j].part = "body"
      => (output[i].what = "none" <=> output[j].what = "reply")

\* A client that reads one response after the other finds each whole, never two
\* for one request, and an error or a reply but not both.
WholeAnswers == Framed /\ AnsweredOnce /\ HonestHeader

\* wg counts handlers only, and yet no goroutine is left that could use the
\* codec once ServerCodec has returned.
QuietAfterClose ==
  pc[Loop] = "finished" =>
    /\ sending = NoReq
    /\ \A t \in Threads : pc[t] \notin {"lock", "sendHeader", "sendBody"}

\* The goroutine that stays for ever on `called` is the worker of a request that
\* was answered with a timeout, and of no other (server.go:178).
LeakedOnlyByTimeout ==
  \A r \in Requests :
    pc[Worker(r)] \in {"call", "called"} /\ pc[Handler(r)] = "finished" => hErr[r] = "timeout"

InStream(r) == pc[Loop] # "option" /\ \E i \in 1..Len(input) : input[i] = Part("header", r)

\* server.go:178, 197, every request that reaches the loop's stream is answered,
\* though its method may never return, unless the connection goes first.
EveryRequestAnswered ==
  \A r \in Requests : InStream(r) ~> Answered(r) \/ conn # "up"

\* When the client goes, the server closes its end: no request in progress keeps
\* the loop in wg.Wait.
Drains == conn = "peerGone" ~> conn = "closed" /\ pc[Loop] = "finished"

\* server.go:103 and 112, only a header that cannot be parsed ends the loop, and a
\* request in error ends its own iteration.  With a client that writes well the
\* loop stops while the connection is up only for what is left on the stream: the
\* body of a request for what was not registered, even if it is by now, or a message
\* whose beginning went to the decoder of the Option.
LoopEndsForACause ==
  pc[Loop] = "wait" /\ conn = "up" =>
    \E r \in asked :
      \/ hErr[r] = "service"
      \/ pc[Handler(r)] = "idle" /\ hErr[r] = "none" /\ ~InStream(r)

\* The loop is at the request cur.
Serving == pc[Loop] \in {"service", "body", "lock", "sendHeader", "sendBody"}

\* Nothing has been done for the request.
Untouched(r) == pc[Handler(r)] = "idle" /\ hErr[r] = "none" /\ (Serving => cur # r)

\* The loop serves the request itself, or its handler runs.
InHand(r) == (Serving /\ cur = r) \/ pc[Handler(r)] \notin {"idle", "finished"}

\* While the connection is open no request that was begun is dropped, by the loop,
\* its handler or its worker, each of which may leave the answer to another: when
\* they are through with it, and when the worker says so on `sent`, it is answered
\* (server.go:178-203).
NothingDropped ==
  conn # "closed" =>
    \A r \in Requests : pc[Worker(r)] = "sent" \/ ~(Untouched(r) \/ InHand(r)) => Answered(r)

\* The type invariant, with what holds of the requests and of the goroutines that
\* are left behind.
Inv == TypeOK /\ QuietAfterClose /\ LeakedOnlyByTimeout /\ NothingDropped

-----------------------------------------------------------------------------
(* RpcServer implements RpcAnswers.                                        *)

\* What is decided: by h.Err, or by the meeting on `called`.
VerdictOf(r) ==
  IF hErr[r] # "none" THEN hErr[r]
  ELSE IF pc[Handler(r)] \in {"await", "finished"} THEN "reply" ELSE "none"

\* The responses in o, headers and bodies, as far as they are complete.
Whole(o) ==
  [i \in 1..(Len(o) \div 2) |->
     [req  |-> o[2 * i].req,
      what |-> IF o[2 * i].what = "reply" THEN "reply" ELSE o[2 * i - 1].what]]

Answers == INSTANCE RpcAnswers WITH
  verdict <- [r \in Requests |-> VerdictOf(r)],
  answers <- Whole(output)

\* Of the timeout, the result, the errors and the failing connection, one decides
\* what becomes of a request, only when it may, and nothing overrules it; the client
\* is told that and nothing else, in one response.
ImplementsAnswers == Answers!Spec

-----------------------------------------------------------------------------
(* The inductive invariant behind Inv, WholeAnswers, LoopEndsForACause and *)
(* ImplementsAnswers.                                                      *)

\* Where a handler and its worker are together, and who holds the mutex.
PcInv ==
  /\ pc[Loop] \in {"option", "header", "service", "body", "wait", "lock",
                    "sendHeader", "sendBody", "finished"}
  /\ Serving => cur \in Requests /\ pc[Handler(cur)] = "idle"
  /\ \A r \in Requests :
       /\ pc[Handler(r)] \in {"idle", "select", "await", "lock", "sendHeader", "sendBody",
                               "finished"}
       /\ pc[Handler(r)] = "idle" => pc[Worker(r)] = "idle"
       /\ pc[Handler(r)] \in {"select", "lock", "sendHeader", "sendBody"} =>
            pc[Worker(r)] \in {"call", "called"}
       /\ pc[Handler(r)] = "await" =>
            pc[Worker(r)] \in {"lock", "sendHeader", "sendBody", "sent"}
       /\ pc[Handler(r)] = "finished" => pc[Worker(r)] \in {"call", "called", "finished"}
       /\ pc[Loop] = "option" => pc[Handler(r)] = "idle"
       /\ pc[Loop] = "finished" => pc[Handler(r)] \in {"idle", "finished"}
  /\ \A t \in Threads : sending = t <=> pc[t] \in {"sendHeader", "sendBody"}

\* A request comes once, and is untouched before.
ToCome(r) == r \notin asked \/ \E i \in 1..Len(input) : input[i] = Part("header", r)

StreamInv ==
  /\ \A i \in 1..Len(input) : input[i].req \in asked
  /\ \A i, j \in 1..Len(input) :
       input[i].part = "header" /\ input[j] = input[i] => i = j
  /\ \A r \in Requests : ToCome(r) => Untouched(r)

\* What h.Err is while the goroutines of the request run.
ErrInv ==
  \A r \in Requests :
    /\ pc[Handler(r)] = "select" => hErr[r] = "none"
    /\ pc[Handler(r)] \in {"lock", "sendHeader", "sendBody"} => hErr[r] = "timeout"
    /\ pc[Handler(r)] = "await" => hErr[r] = IF result[r] = "err" THEN "method" ELSE "none"
    /\ pc[Handler(r)] = "finished" /\ pc[Worker(r)] \in {"call", "called"} =>
         hErr[r] = "timeout"
    /\ Serving /\ cur = r =>
         IF pc[Loop] \in {"service", "body"} THEN hErr[r] = "none"
                                            ELSE hErr[r] \in {"service", "args"}

\* A request of which nothing has been written.
Unwritten(r) ==
  \/ ToCome(r)
  \/ Serving /\ cur = r /\ pc[Loop] # "sendBody"
  \/ pc[Handler(r)] \in {"select", "lock", "sendHeader"}
  \/ pc[Handler(r)] = "await" /\ pc[Worker(r)] \in {"lock", "sendHeader"}

\* Between header and body, the header is the last thing written, and the only one
\* of its request.
OutInv ==
  /\ \A r \in Requests : Unwritten(r) => \A i \in 1..Len(output) : output[i].req # r
  /\ \A t \in Threads : pc[t] = "sendBody" =>
       \A i \in 1..Len(output) : output[i].req = RequestOf(t) =>
         i = Len(output) /\ output[i].part = "header" /\ output[i].what = hErr[RequestOf(t)]
  /\ conn # "closed" =>
       /\ (\E t \in Threads : pc[t] = "sendBody") <=> Len(output) % 2 = 1
       /\ \A t \in Threads : pc[t] = "sendBody" => output[Len(output)].req = RequestOf(t)

\* A request whose body, or what is left of it, the loop would take for a header.
Lost(r) ==
  /\ r \in asked
  /\ \/ hErr[r] = "service"
     \/ Untouched(r) /\ \A i \in 1..Len(input) : input[i] # Part("header", r)

\* A header is followed by its body.  What is no header follows its header, or is the
\* body the loop is about to read, or belongs to a lost request.
Ordered(i) ==
  IF input[i].part = "header"
  THEN i < Len(input) /\ input[i + 1] = Part("body", input[i].req)
  ELSE \/ i > 1 /\ input[i - 1] = Part("header", input[i].req)
       \/ i = 1 /\ pc[Loop] \in {"service", "body"}
       \/ Lost(input[i].req)

CauseInv ==
  /\ pc[Loop] = "option" => \A r \in Requests : hErr[r] = "none"
  /\ conn = "up" =>
       /\ pc[Loop] = "wait" => \E r \in asked : Lost(r)
       /\ pc[Loop] \in {"service", "body"} => input # <<>> /\ input[1] = Part("body", cur)
       /\ \A i \in 1..Len(input) : Ordered(i)

\* What the loop passed on, and with which Option.
KindInv ==
  /\ option = "bad" => pc[Loop] \in {"option", "finished"}
  /\ pc[Loop] = "body" => kind[cur] # "unknown" /\ service
  /\ \A r \in Requests :
       pc[Handler(r)] # "idle" => kind[r] = "valid" /\ service /\ option # "bad"

IInv ==
  /\ TypeOK /\ PcInv /\ StreamInv /\ ErrInv /\ OutInv /\ WholeAnswers /\ CauseInv /\ KindInv
  /\ NothingDropped
=============================================================================
