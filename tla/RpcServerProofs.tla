--------------------------- MODULE RpcServerProofs ---------------------------
(***************************************************************************)
(* Proofs about RpcServer for any number of requests of any kinds.         *)
(***************************************************************************)
EXTENDS RpcServer, TLAPS

(* The goroutines and the requests they work for. *)
LEMMA Names ==
  /\ Loop \in Threads
  /\ \A r \in Requests : /\ Handler(r) \in Threads /\ Worker(r) \in Threads
                         /\ Handler(r) # Loop /\ Worker(r) # Loop
  /\ \A r, s \in Requests : /\ Handler(r) # Worker(s)
                            /\ Handler(r) = Handler(s) => r = s
                            /\ Worker(r) = Worker(s) => r = s
  /\ \A t \in Threads : t = Loop \/ \E r \in Requests : t = Handler(r) \/ t = Worker(r)
  /\ NoReq \notin Threads
BY ServerAssumption DEF Threads, Loop, Handler, Worker

LEMMA Requested ==
  /\ RequestOf(Loop) = cur
  /\ \A r \in Requests : RequestOf(Handler(r)) = r /\ RequestOf(Worker(r)) = r
BY DEF RequestOf, Loop, Handler, Worker

LEMMA Bodies ==
  /\ BodyOf(Loop) = "invalidRequest"
  /\ \A r \in Requests :
       /\ BodyOf(Handler(r)) = "invalidRequest"
       /\ BodyOf(Worker(r)) = IF result[r] # "err" THEN "reply" ELSE "invalidRequest"
BY DEF BodyOf, Loop, Handler, Worker

(* Where the sender of a response goes on. *)
LEMMA SendBodyGoes ==
  ASSUME NEW t \in Threads, SendBody(t)
  PROVE  /\ pc[t] = "sendBody" /\ sending' = NoReq
         /\ UNCHANGED <<service, option, kind, asked, input, cur, hErr, result>>
         /\ t = Loop => pc' = [pc EXCEPT ![t] = "header"]
         /\ \A r \in Requests : /\ t = Handler(r) => pc' = [pc EXCEPT ![t] = "finished"]
                                /\ t = Worker(r) => pc' = [pc EXCEPT ![t] = "sent"]
<1>1. t = Loop => t[1] = "loop"
  BY DEF Loop
<1>2. \A r \in Requests : t = Handler(r) => t[1] = "handler"
  BY DEF Handler
<1>3. \A r \in Requests : t = Worker(r) => t[1] = "worker"
  BY DEF Worker
<1> QED BY <1>1, <1>2, <1>3 DEF SendBody, Goto, Unlock

-----------------------------------------------------------------------------
(* The stream.                                                             *)

Messages == [part : {"header", "body", "torn"}, req : Requests]

(* Messages and streams of them. *)
LEMMA Appended ==
  ASSUME NEW S, NEW s \in Seq(S), NEW x \in S
  PROVE  Append(s, x) \in Seq(S)
OBVIOUS

LEMMA Parts == \A p, r : Part(p, r).part = p /\ Part(p, r).req = r
BY DEF Part

LEMMA IsPart == \A m \in Messages : m.req \in Requests /\ m = Part(m.part, m.req)
BY DEF Messages, Part

(* Part of a stream is a stream, with its positions shifted. *)
LEMMA SuffixOf ==
  ASSUME NEW S, NEW s \in Seq(S), NEW a \in Nat, NEW b \in 0..Len(s), a <= b
  PROVE  /\ SubSeq(s, a + 1, b) \in Seq(S) /\ Len(SubSeq(s, a + 1, b)) = b - a
         /\ \A i \in 1..(b - a) : SubSeq(s, a + 1, b)[i] = s[i + a]
<1>1. a + 1 \in Nat /\ b \in Nat
  OBVIOUS
<1>2. SubSeq(s, a + 1, b) = [i \in 1..(b - a) |-> s[i + a]]
  BY <1>1
<1>3. b - a \in Nat /\ \A i \in 1..(b - a) : i + a \in 1..Len(s)
  OBVIOUS
<1>4. \A i \in 1..(b - a) : s[i + a] \in S
  BY <1>3
<1> DEFINE sub == [i \in 1..(b - a) |-> s[i + a]]
<1>5. sub \in [1..(b - a) -> S]
  BY <1>4
<1>6. sub \in Seq(S) /\ Len(sub) = b - a
  <2> HIDE DEF sub
  <2> QED BY <1>3, <1>5, SMT
<1> QED BY <1>2, <1>6

-----------------------------------------------------------------------------
(* Types, and the places of the goroutines.                                *)

LEMMA TypeKept == TypeOK /\ PcInv /\ [Next]_vars => TypeOK'
<1> SUFFICES ASSUME TypeOK, PcInv, [Next]_vars PROVE TypeOK'
  OBVIOUS
<1> DEFINE Pcs == {"idle", "option", "header", "service", "body", "wait", "select", "await",
                   "call", "called", "lock", "sendHeader", "sendBody", "sent", "finished"}
           Errs == {"none", "service", "args", "method", "timeout"}
           Responses == [part : {"header", "body"}, req : Requests,
                         what : {"none", "service", "args", "method", "timeout",
                                 "reply", "invalidRequest"}]
<1>0. /\ conn \in {"up", "peerGone", "closed"} /\ option \in {"limited", "unlimited", "bad"}
      /\ kind \in [Requests -> Kinds] /\ service \in BOOLEAN /\ asked \in SUBSET Requests
      /\ input \in Seq(Messages) /\ pc \in [Threads -> Pcs] /\ cur \in Requests \cup {NoReq}
      /\ hErr \in [Requests -> Errs]
      /\ result \in [Requests -> {"none", "ok", "err", "unencodable"}]
      /\ sending \in Threads \cup {NoReq} /\ output \in Seq(Responses)
  BY DEF TypeOK, Messages
<1>a. /\ Loop \in Threads
      /\ \A r \in Requests : Handler(r) \in Threads /\ Worker(r) \in Threads
  BY Names
<1>b. ASSUME NEW t \in Threads, pc[t] \in {"sendHeader", "sendBody"} PROVE RequestOf(t) \in Requests
  <2>1. CASE t = Loop
    BY <1>b, <2>1, Requested DEF PcInv, Serving
  <2>2. CASE t # Loop
    BY <2>2, Requested, Names
  <2> QED BY <2>1, <2>2
<1>c. Serving => cur \in Requests
  BY DEF PcInv
<1> HIDE DEF Pcs, Errs, Responses
<1> USE <1>0, <1>a
<1>1. ASSUME NEW r \in Requests, Ask(r) PROVE TypeOK'
  <2>1. Part("header", r) \in Messages /\ Part("body", r) \in Messages
    BY DEF Part, Messages
  <2>2. input' \in Seq(Messages)
    BY <1>1, <2>1 DEF Ask
  <2> QED BY <1>1, <2>2 DEF Ask, TypeOK, Messages, Pcs, Errs, Responses
<1>2. CASE PeerGone
  <2>1. input' \in Seq(Messages)
    <3>1. CASE UNCHANGED input
      BY <3>1
    <3>2. CASE input # <<>> /\ input' = SubSeq(input, 1, Len(input) - 1)
      BY <3>2
    <3> QED BY <1>2, <3>1, <3>2 DEF PeerGone
  <2> QED BY <1>2, <2>1 DEF PeerGone, TypeOK, Messages, Pcs, Errs, Responses
<1>3. CASE Register
  BY <1>3 DEF Register, TypeOK, Messages, Pcs, Errs, Responses
<1>4. CASE ReadOption
  <2>1. PICK n \in 0..Len(input), torn \in BOOLEAN : (torn => n < Len(input)) /\ input' = Surplus(n, torn)
    BY <1>4 DEF ReadOption
  <2>2. input' \in Seq(Messages)
    <3>1. CASE torn
      <4>1. [input[n + 1] EXCEPT !.part = "torn"] \in Messages
        <5>1. input[n + 1] \in Messages
          BY <2>1, <3>1
        <5> QED BY <5>1 DEF Messages
      <4>2. SubSeq(input, n + 2, Len(input)) \in Seq(Messages)
        BY <2>1, <3>1
      <4> QED BY <2>1, <3>1, <4>1, <4>2 DEF Surplus
    <3>2. CASE ~torn
      BY <2>1, <3>2, SuffixOf DEF Surplus
    <3> QED BY <3>1, <3>2
  <2>3. pc' \in [Threads -> Pcs] /\ conn' \in {"up", "peerGone", "closed"}
    BY <1>4 DEF ReadOption, Goto, Pcs
  <2> QED BY <1>4, <2>2, <2>3 DEF ReadOption, TypeOK, Messages, Pcs, Errs, Responses
<1>5. CASE ReadHeader
  <2>1. input' \in Seq(Messages) /\ cur' \in Requests \cup {NoReq}
    <3>1. CASE input # <<>> /\ input' = Tail(input) /\ cur' \in {Head(input).req, NoReq}
      <4>1. Head(input) \in Messages /\ Tail(input) \in Seq(Messages)
        BY <3>1
      <4> QED BY <3>1, <4>1 DEF Messages
    <3>2. CASE UNCHANGED input /\ cur' = NoReq
      BY <3>2
    <3> QED BY <1>5, <3>1, <3>2 DEF ReadHeader
  <2>2. pc' \in [Threads -> Pcs]
    BY <1>5 DEF ReadHeader, Goto, Pcs
  <2> QED BY <1>5, <2>1, <2>2 DEF ReadHeader, TypeOK, Messages, Pcs, Errs, Responses
<1>6. CASE FindService
  <2>1. pc' \in [Threads -> Pcs] /\ hErr' \in [Requests -> Errs]
    BY <1>6 DEF FindService, Goto, SetErr, Pcs, Errs
  <2> QED BY <1>6, <2>1 DEF FindService, TypeOK, Messages, Pcs, Errs, Responses
<1>7. CASE ReadBody
  <2>1. input' \in Seq(Messages)
    <3>1. CASE input # <<>> /\ input' = Tail(input)
      BY <3>1
    <3>2. CASE UNCHANGED input
      BY <3>2
    <3> QED BY <1>7, <3>1, <3>2 DEF ReadBody, BodyRead
  <2>2. pc' \in [Threads -> Pcs] /\ hErr' \in [Requests -> Errs]
    BY <1>7 DEF ReadBody, Goto, SetErr, Pcs, Errs
  <2> QED BY <1>7, <2>1, <2>2 DEF ReadBody, TypeOK, Messages, Pcs, Errs, Responses
<1>8. CASE WaitAndClose
  <2>1. pc' \in [Threads -> Pcs]
    BY <1>8 DEF WaitAndClose, Goto, Pcs
  <2> QED BY <1>8, <2>1 DEF WaitAndClose, TypeOK, Messages, Pcs, Errs, Responses
<1>9. ASSUME NEW r \in Requests, CallMethod(r) PROVE TypeOK'
  <2>1. pc' \in [Threads -> Pcs] /\ result' \in [Requests -> {"none", "ok", "err", "unencodable"}]
    BY <1>9 DEF CallMethod, Goto, Pcs
  <2> QED BY <1>9, <2>1 DEF CallMethod, TypeOK, Messages, Pcs, Errs, Responses
<1>10. ASSUME NEW r \in Requests, MeetCalled(r) PROVE TypeOK'
  <2>1. pc' \in [Threads -> Pcs] /\ hErr' \in [Requests -> Errs]
    BY <1>10 DEF MeetCalled, Pcs, Errs
  <2> QED BY <1>10, <2>1 DEF MeetCalled, TypeOK, Messages, Pcs, Errs, Responses
<1>11. ASSUME NEW r \in Requests, Timeout(r) PROVE TypeOK'
  <2>1. pc' \in [Threads -> Pcs] /\ hErr' \in [Requests -> Errs]
    BY <1>11 DEF Timeout, Goto, SetErr, Pcs, Errs
  <2> QED BY <1>11, <2>1 DEF Timeout, TypeOK, Messages, Pcs, Errs, Responses
<1>12. ASSUME NEW r \in Requests, MeetSent(r) PROVE TypeOK'
  <2>1. pc' \in [Threads -> Pcs]
    BY <1>12 DEF MeetSent, Pcs
  <2> QED BY <1>12, <2>1 DEF MeetSent, TypeOK, Messages, Pcs, Errs, Responses
<1>13. ASSUME NEW t \in Threads, SendLock(t) PROVE TypeOK'
  <2>1. pc' \in [Threads -> Pcs]
    BY <1>13 DEF SendLock, Goto, Pcs
  <2> QED BY <1>13, <2>1 DEF SendLock, TypeOK, Messages, Pcs, Errs, Responses
<1>14. ASSUME NEW t \in Threads, SendHeader(t) PROVE TypeOK'
  <2>1. pc' \in [Threads -> Pcs]
    BY <1>14 DEF SendHeader, Goto, Pcs
  <2>2. RequestOf(t) \in Requests
    BY <1>14, <1>b DEF SendHeader
  <2>3. [part |-> "header", req |-> RequestOf(t), what |-> hErr[RequestOf(t)]] \in Responses
    BY <2>2 DEF Responses, Errs
  <2>4. output' \in Seq(Responses)
    BY <1>14, <2>3 DEF SendHeader, Emit
  <2> QED BY <1>14, <2>1, <2>4 DEF SendHeader, TypeOK, Messages, Pcs, Errs, Responses
<1>15. ASSUME NEW t \in Threads, SendBody(t) PROVE TypeOK'
  <2>1. pc' \in [Threads -> Pcs]
    BY <1>15, SendBodyGoes, Names DEF Pcs
  <2>2. RequestOf(t) \in Requests
    BY <1>15, <1>b DEF SendBody
  <2> DEFINE e == [part |-> "body", req |-> RequestOf(t), what |-> BodyOf(t)]
  <2>3. e \in Responses
    BY <2>2 DEF Responses, BodyOf
  <2>4. output' \in Seq(Responses)
    <3>1. output' = output \/ output' = Append(output, e)
      BY <1>15 DEF SendBody, Emit
    <3>2. output \in Seq(Responses)
      BY DEF TypeOK, Responses
    <3> HIDE DEF e
    <3> QED BY <2>3, <3>1, <3>2, Appended
  <2>5. conn' \in {"up", "peerGone", "closed"}
    BY <1>15 DEF SendBody
  <2>6. UNCHANGED <<service, option, kind, asked, input, cur, hErr, result>> /\ sending' = NoReq
    BY <1>15, SendBodyGoes
  <2>7. /\ option' \in {"limited", "unlimited", "bad"} /\ kind' \in [Requests -> Kinds]
        /\ service' \in BOOLEAN /\ asked' \in SUBSET Requests
    BY <2>6 DEF TypeOK
  <2>8. input' \in Seq(Messages) /\ cur' \in Requests \cup {NoReq}
    BY <2>6 DEF TypeOK, Messages
  <2>9. hErr' \in [Requests -> Errs] /\ result' \in [Requests -> {"none", "ok", "err", "unencodable"}]
    BY <2>6 DEF TypeOK, Errs
  <2>10. sending' \in Threads \cup {NoReq}
    BY <2>6
  <2> QED BY <2>1, <2>4, <2>5, <2>7, <2>8, <2>9, <2>10 DEF TypeOK, Messages, Pcs, Errs, Responses
<1>16. CASE UNCHANGED vars
  BY <1>16 DEF vars, TypeOK, Messages, Pcs, Errs, Responses
<1> QED BY <1>1, <1>2, <1>3, <1>4, <1>5, <1>6, <1>7, <1>8, <1>9, <1>10, <1>11, <1>12, <1>13,
        <1>14, <1>15, <1>16 DEF Next, LoopStep, Send, Terminated

LEMMA PcInvKept == TypeOK /\ PcInv /\ StreamInv /\ [Next]_vars => PcInv'
<1> SUFFICES ASSUME TypeOK, PcInv, StreamInv, [Next]_vars PROVE PcInv'
  OBVIOUS
<1>0. pc \in [Threads -> {"idle", "option", "header", "service", "body", "wait", "select",
                         "await", "call", "called", "lock", "sendHeader", "sendBody",
                         "sent", "finished"}]
  BY DEF TypeOK
<1> USE <1>0, Names
<1>1. ASSUME pc' = pc, cur' = cur, sending' = sending PROVE PcInv'
  BY <1>1 DEF PcInv, Serving
<1>2. CASE ReadOption
  <2>1. pc' \in {[pc EXCEPT ![Loop] = "header"], [pc EXCEPT ![Loop] = "finished"]}
    BY <1>2 DEF ReadOption, Goto
  <2>2. pc[Loop] = "option" /\ UNCHANGED <<cur, sending>>
    BY <1>2 DEF ReadOption
  <2> QED BY <2>1, <2>2 DEF PcInv, Serving
<1>3. CASE ReadHeader
  <2>1. pc[Loop] = "header" /\ UNCHANGED sending
    BY <1>3 DEF ReadHeader
  <2>2. CASE pc' = [pc EXCEPT ![Loop] = "wait"]
    BY <2>1, <2>2 DEF PcInv, Serving
  <2>3. CASE input # <<>> /\ Head(input).part = "header" /\ cur' = Head(input).req
             /\ pc' = [pc EXCEPT ![Loop] = "service"]
    <3>1. cur' \in Requests /\ input[1] = Part("header", cur') /\ 1 \in 1..Len(input)
      <4>1. input \in Seq(Messages) /\ Head(input) = input[1] /\ 1 \in 1..Len(input)
        BY <2>3 DEF TypeOK, Messages
      <4> QED BY <2>3, <4>1, IsPart
    <3>2. pc[Handler(cur')] = "idle"
      BY <3>1 DEF StreamInv, Untouched, ToCome
    <3> QED BY <2>1, <2>3, <3>1, <3>2 DEF PcInv, Serving
  <2> QED BY <1>3, <2>2, <2>3 DEF ReadHeader, Goto
<1>4. CASE FindService
  <2>1. pc' \in {[pc EXCEPT ![Loop] = "lock"], [pc EXCEPT ![Loop] = "body"]}
    BY <1>4 DEF FindService, Goto
  <2>2. pc[Loop] = "service" /\ UNCHANGED <<cur, sending>>
    BY <1>4 DEF FindService
  <2> QED BY <2>1, <2>2 DEF PcInv, Serving
<1>5. CASE ReadBody
  <2>1. pc[Loop] = "body" /\ UNCHANGED <<cur, sending>>
    BY <1>5 DEF ReadBody
  <2>2. CASE pc' = [pc EXCEPT ![Loop] = "lock"]
    BY <2>1, <2>2 DEF PcInv, Serving
  <2>3. CASE pc' = [pc EXCEPT ![Loop] = "header", ![Handler(cur)] = "select",
                              ![Worker(cur)] = "call"]
    <3>1. cur \in Requests /\ pc[Handler(cur)] = "idle" /\ pc[Worker(cur)] = "idle"
      BY <2>1 DEF PcInv, Serving
    <3>2. /\ pc'[Loop] = "header" /\ pc'[Handler(cur)] = "select" /\ pc'[Worker(cur)] = "call"
          /\ \A t \in Threads : t \notin {Loop, Handler(cur), Worker(cur)} => pc'[t] = pc[t]
      BY <2>3, <3>1
    <3> QED BY <2>1, <3>1, <3>2 DEF PcInv, Serving
  <2> QED BY <1>5, <2>2, <2>3 DEF ReadBody, Goto
<1>6. CASE WaitAndClose
  BY <1>6 DEF WaitAndClose, AllHandled, Goto, PcInv, Serving
<1>7. ASSUME NEW r \in Requests, CallMethod(r) PROVE PcInv'
  BY <1>7 DEF CallMethod, Goto, PcInv, Serving
<1>8. ASSUME NEW r \in Requests, MeetCalled(r) PROVE PcInv'
  BY <1>8 DEF MeetCalled, PcInv, Serving
<1>9. ASSUME NEW r \in Requests, Timeout(r) PROVE PcInv'
  BY <1>9 DEF Timeout, Goto, PcInv, Serving
<1>10. ASSUME NEW r \in Requests, MeetSent(r) PROVE PcInv'
  BY <1>10 DEF MeetSent, PcInv, Serving
(* Taking and leaving the mutex. *)
<1>11. ASSUME NEW t \in Threads, SendLock(t) PROVE PcInv'
  <2>1. /\ pc[t] = "lock" /\ sending = NoReq /\ sending' = t /\ cur' = cur
        /\ pc' = [pc EXCEPT ![t] = "sendHeader"]
    BY <1>11 DEF SendLock, Free, Goto
  <2>2. CASE t = Loop
    BY <2>1, <2>2 DEF PcInv, Serving
  <2>3. ASSUME NEW r \in Requests, t = Handler(r) \/ t = Worker(r) PROVE PcInv'
    BY <2>1, <2>3 DEF PcInv, Serving
  <2> QED BY <2>2, <2>3
<1>12. ASSUME NEW t \in Threads, SendHeader(t) PROVE PcInv'
  <2>1. /\ pc[t] = "sendHeader" /\ UNCHANGED <<cur, sending>>
        /\ pc' = [pc EXCEPT ![t] = "sendBody"]
    BY <1>12 DEF SendHeader, Goto
  <2>2. CASE t = Loop
    BY <2>1, <2>2 DEF PcInv, Serving
  <2>3. ASSUME NEW r \in Requests, t = Handler(r) \/ t = Worker(r) PROVE PcInv'
    BY <2>1, <2>3 DEF PcInv, Serving
  <2> QED BY <2>2, <2>3
<1>13. ASSUME NEW t \in Threads, SendBody(t) PROVE PcInv'
  <2>1. pc[t] = "sendBody" /\ sending = t /\ sending' = NoReq /\ cur' = cur
    BY <1>13, SendBodyGoes DEF PcInv
  <2>2. CASE t = Loop
    BY <1>13, <2>1, <2>2, SendBodyGoes DEF PcInv, Serving
  <2>3. ASSUME NEW r \in Requests, t = Handler(r) PROVE PcInv'
    <3>1. pc' = [pc EXCEPT ![t] = "finished"]
      BY <1>13, <2>3, SendBodyGoes
    <3> QED BY <2>1, <2>3, <3>1 DEF PcInv, Serving
  <2>4. ASSUME NEW r \in Requests, t = Worker(r) PROVE PcInv'
    <3>1. pc' = [pc EXCEPT ![t] = "sent"]
      BY <1>13, <2>4, SendBodyGoes
    <3> QED BY <2>1, <2>4, <3>1 DEF PcInv, Serving
  <2> QED BY <2>2, <2>3, <2>4
<1> QED
  <2>1. ASSUME NEW r \in Requests, Ask(r) PROVE PcInv'
    BY <1>1, <2>1 DEF Ask
  <2>2. CASE PeerGone \/ Register \/ UNCHANGED vars
    BY <1>1, <2>2 DEF PeerGone, Register, vars
  <2> QED BY <1>2, <1>3, <1>4, <1>5, <1>6, <1>7, <1>8, <1>9, <1>10, <1>11, <1>12, <1>13,
          <2>1, <2>2 DEF Next, LoopStep, Send, Terminated

-----------------------------------------------------------------------------
(* The requests still to come.                                             *)

(* The stream that is left after the Option. *)
LEMMA SurplusIs ==
  ASSUME input \in Seq(Messages), NEW n \in 0..Len(input), NEW torn \in BOOLEAN,
         torn => n < Len(input), input' = Surplus(n, torn)
  PROVE  /\ n \in Nat /\ Len(input) = Len(input') + n /\ input' \in Seq(Messages)
         /\ \A i \in 1..Len(input') :
              \/ input'[i] = input[i + n]
              \/ i = 1 /\ input'[i] = Part("torn", input[i + n].req)
<1>1. CASE torn
  <2> DEFINE first == [input[n + 1] EXCEPT !.part = "torn"]
             rest == SubSeq(input, n + 2, Len(input))
  <2>1. input' = <<first>> \o rest
    BY <1>1 DEF Surplus
  <2>2. /\ rest \in Seq(Messages) /\ Len(rest) = Len(input) - (n + 1)
        /\ \A i \in 1..(Len(input) - (n + 1)) : rest[i] = input[i + (n + 1)]
    <3>1. n + 1 \in Nat /\ Len(input) \in 0..Len(input) /\ n + 1 <= Len(input)
          /\ n + 1 + 1 = n + 2
      BY <1>1
    <3> QED BY <3>1, SuffixOf
  <2>3. input[n + 1] \in Messages
    BY <1>1
  <2>4. first = Part("torn", input[n + 1].req) /\ first \in Messages
    BY <2>3 DEF Messages, Part
  <2> HIDE DEF first, rest
  <2>5. /\ Len(input') = 1 + Len(rest) /\ input'[1] = first /\ input' \in Seq(Messages)
        /\ \A i \in 2..Len(input') : input'[i] = rest[i - 1]
    BY <2>1, <2>2, <2>4
  <2>6. ASSUME NEW i \in 2..Len(input') PROVE input'[i] = input[i + n]
    <3>1. i - 1 \in 1..(Len(input) - (n + 1)) /\ i - 1 + (n + 1) = i + n
      BY <2>2, <2>5
    <3> QED BY <2>2, <2>5, <3>1
  <2>7. \A i \in 1..Len(input') : i = 1 \/ i \in 2..Len(input')
    OBVIOUS
  <2>8. 1 + n = n + 1 /\ Len(input) = Len(input') + n
    BY <2>2, <2>5
  <2> QED BY <2>4, <2>5, <2>6, <2>7, <2>8
<1>2. CASE ~ torn
  <2>1. input' = SubSeq(input, n + 1, Len(input))
    BY <1>2 DEF Surplus
  <2>2. /\ Len(input') = Len(input) - n /\ input' \in Seq(Messages)
        /\ \A i \in 1..(Len(input) - n) : input'[i] = input[i + n]
    <3>1. n \in Nat /\ Len(input) \in 0..Len(input) /\ n <= Len(input)
      OBVIOUS
    <3> QED BY <2>1, <3>1, SuffixOf
  <2> QED BY <2>2
<1> QED BY <1>1, <1>2

(* What is left of a stream brings no request that was not on it. *)
LEMMA Remains ==
  ASSUME TypeOK, TypeOK', StreamInv, asked' = asked, NEW d \in Nat,
         \A i \in 1..Len(input') :
           /\ i + d \in 1..Len(input)
           /\ \/ input'[i] = input[i + d]
              \/ input'[i].part = "torn" /\ input'[i].req = input[i + d].req
  PROVE  /\ \A i \in 1..Len(input') : input'[i].req \in asked'
         /\ \A i, j \in 1..Len(input') :
              input'[i].part = "header" /\ input'[j] = input'[i] => i = j
         /\ \A r \in Requests : ToCome(r)' =>
              ToCome(r) /\ \A k \in 1..Len(input) : input[k] = Part("header", r) => k > d
<1>0. input \in Seq(Messages) /\ input' \in Seq(Messages)
  BY DEF TypeOK, Messages
<1>1. \A i \in 1..Len(input) : input[i].req \in asked
  BY DEF StreamInv
<1>2. \A i, j \in 1..Len(input) : input[i].part = "header" /\ input[j] = input[i] => i = j
  BY DEF StreamInv
<1>3. \A i \in 1..Len(input') : input'[i].req \in asked'
  BY <1>1
<1>4. ASSUME NEW i \in 1..Len(input'), NEW j \in 1..Len(input'),
             input'[i].part = "header", input'[j] = input'[i]
      PROVE  i = j
  <2>1. input'[i] = input[i + d] /\ input'[j] = input[j + d]
    BY <1>4
  <2>2. i + d = j + d
    BY <1>2, <1>4, <2>1
  <2> QED BY <2>2
<1>5. ASSUME NEW r \in Requests, ToCome(r)'
      PROVE  ToCome(r) /\ \A k \in 1..Len(input) : input[k] = Part("header", r) => k > d
  <2>1. CASE r \notin asked
    <3>1. ASSUME NEW k \in 1..Len(input), input[k] = Part("header", r) PROVE FALSE
      BY <1>1, <2>1, <3>1 DEF Part
    <3> QED BY <2>1, <3>1 DEF ToCome
  <2>2. CASE \E i \in 1..Len(input') : input'[i] = Part("header", r)
    <3>1. PICK i \in 1..Len(input') : input'[i] = Part("header", r)
      BY <2>2
    <3>2. input[i + d] = Part("header", r) /\ input[i + d].part = "header" /\ i + d \in 1..Len(input)
      BY <3>1 DEF Part
    <3>3. \A k \in 1..Len(input) : input[k] = Part("header", r) => k = i + d
      BY <1>2, <3>2
    <3> QED BY <3>2, <3>3 DEF ToCome
  <2> QED BY <1>5, <2>1, <2>2 DEF ToCome, Part
<1> QED BY <1>3, <1>4, <1>5

(* The effect of every step on the stream. *)
LEMMA StreamStep ==
  ASSUME TypeOK, PcInv, StreamInv, TypeOK', [Next]_vars
  PROVE  /\ \A i \in 1..Len(input') : input'[i].req \in asked'
         /\ \A i, j \in 1..Len(input') :
              input'[i].part = "header" /\ input'[j] = input'[i] => i = j
         /\ \A r \in Requests : ToCome(r)' =>
              ToCome(r) /\ (ReadHeader /\ Head(input).part = "header" => r # cur')
<1> DEFINE Goal == /\ \A i \in 1..Len(input') : input'[i].req \in asked'
                   /\ \A i, j \in 1..Len(input') :
                        input'[i].part = "header" /\ input'[j] = input'[i] => i = j
                   /\ \A r \in Requests : ToCome(r)' => ToCome(r)
<1>0. input \in Seq(Messages) /\ input' \in Seq(Messages)
  BY DEF TypeOK, Messages
<1>1. ASSUME UNCHANGED <<input, asked>> PROVE Goal
  <2>1. \A i \in 1..Len(input') : i + 0 \in 1..Len(input) /\ input'[i] = input[i + 0]
    BY <1>0, <1>1
  <2> QED BY <1>1, <2>1, Remains
<1>2. ASSUME asked' = asked, input # <<>>, input' = Tail(input)
      PROVE  Goal /\ \A r \in Requests : ToCome(r)' => input[1] # Part("header", r)
  <2>1. \A i \in 1..Len(input') : i + 1 \in 1..Len(input) /\ input'[i] = input[i + 1]
    BY <1>0, <1>2
  <2>2. 1 \in 1..Len(input) /\ ~(1 > 1)
    BY <1>0, <1>2
  <2> QED BY <1>2, <2>1, <2>2, Remains
<1>3. ASSUME NEW r \in Requests, Ask(r) PROVE Goal
  <2>1. /\ asked' = asked \cup {r} /\ r \notin asked
        /\ input' = input \o <<Part("header", r), Part("body", r)>>
    BY <1>3 DEF Ask
  <2>2. /\ Len(input') = Len(input) + 2
        /\ \A i \in 1..Len(input) : input'[i] = input[i]
        /\ input'[Len(input) + 1] = Part("header", r) /\ input'[Len(input) + 2] = Part("body", r)
    BY <1>0, <2>1
  <2>3. \A i \in 1..Len(input') :
          i \in 1..Len(input) \/ i = Len(input) + 1 \/ i = Len(input) + 2
    BY <1>0, <2>2
  <2>4. \A i \in 1..Len(input) : input[i].req \in asked
    BY DEF StreamInv
  <2>5. \A i \in 1..Len(input') : input'[i].req \in asked'
    BY <2>1, <2>2, <2>3, <2>4 DEF Part
  <2>6. \A i, j \in 1..Len(input') :
          input'[i].part = "header" /\ input'[j] = input'[i] => i = j
    <3>1. SUFFICES ASSUME NEW i \in 1..Len(input'), NEW j \in 1..Len(input'),
                          input'[i].part = "header", input'[j] = input'[i]
                   PROVE  i = j
      OBVIOUS
    <3>2. CASE i \in 1..Len(input)
      <4>1. j \in 1..Len(input)
        BY <2>1, <2>2, <2>3, <2>4, <3>1, <3>2 DEF Part
      <4> QED BY <2>2, <3>1, <3>2, <4>1 DEF StreamInv
    <3>3. CASE i = Len(input) + 1
      <4>1. input'[i].req = r /\ input'[i].part = "header"
        BY <2>2, <3>3 DEF Part
      <4>2. j \notin 1..Len(input)
        BY <2>1, <2>2, <2>4, <3>1, <4>1
      <4>3. j # Len(input) + 2
        BY <2>2, <3>1, <4>1 DEF Part
      <4> QED BY <2>3, <3>3, <4>2, <4>3
    <3>4. i # Len(input) + 2
      BY <2>2, <3>1 DEF Part
    <3> QED BY <2>3, <3>2, <3>3, <3>4
  <2>7. ASSUME NEW s \in Requests, ToCome(s)' PROVE ToCome(s)
    <3>1. CASE s = r
      BY <2>1, <3>1 DEF ToCome
    <3>2. CASE s # r
      BY <2>1, <2>2, <2>3, <2>7, <3>2 DEF ToCome, Part
    <3> QED BY <3>1, <3>2
  <2> QED BY <2>5, <2>6, <2>7
<1>4. ASSUME PeerGone PROVE Goal
  <2>1. CASE input # <<>> /\ input' = SubSeq(input, 1, Len(input) - 1)
    <3>1. \A i \in 1..Len(input') : i + 0 \in 1..Len(input) /\ input'[i] = input[i + 0]
      BY <1>0, <2>1
    <3> QED BY <1>4, <3>1, Remains DEF PeerGone
  <2> QED BY <1>1, <1>4, <2>1 DEF PeerGone
<1>5. ASSUME ReadOption PROVE Goal
  <2>1. PICK n \in 0..Len(input), torn \in BOOLEAN :
          (torn => n < Len(input)) /\ input' = Surplus(n, torn)
    BY <1>5 DEF ReadOption
  <2>2. \A i \in 1..Len(input') :
          /\ i + n \in 1..Len(input)
          /\ \/ input'[i] = input[i + n]
             \/ input'[i].part = "torn" /\ input'[i].req = input[i + n].req
    <3>1. /\ n \in Nat /\ Len(input) = Len(input') + n
          /\ \A i \in 1..Len(input') :
               \/ input'[i] = input[i + n]
               \/ i = 1 /\ input'[i] = Part("torn", input[i + n].req)
      BY <1>0, <2>1, SurplusIs
    <3>2. \A i \in 1..Len(input') : i + n \in 1..Len(input)
      BY <1>0, <3>1
    <3> QED BY <3>1, <3>2, Parts
  <2>3. n \in Nat /\ asked' = asked
    BY <1>0, <1>5 DEF ReadOption
  <2> QED BY <2>2, <2>3, Remains
<1>6. ASSUME ReadHeader
      PROVE  Goal /\ \A r \in Requests : ToCome(r)' /\ Head(input).part = "header" => r # cur'
  <2>1. CASE input # <<>> /\ input' = Tail(input)
    <3>1. Goal /\ \A r \in Requests : ToCome(r)' => input[1] # Part("header", r)
      BY <1>2, <1>6, <2>1 DEF ReadHeader
    <3>2. Head(input).part = "header" => cur' = Head(input).req
      BY <1>6, <2>1, <1>0 DEF ReadHeader
    <3>3. input[1] \in Messages /\ Head(input) = input[1]
      BY <1>0, <2>1
    <3>4. Head(input).part = "header" => input[1] = Part("header", cur')
      BY <3>2, <3>3, IsPart
    <3> QED BY <3>1, <3>4
  <2>2. CASE UNCHANGED input /\ cur' = NoReq
    <3>1. NoReq \notin Requests
      BY ServerAssumption
    <3> QED BY <1>1, <1>6, <2>2, <3>1 DEF ReadHeader
  <2> QED BY <1>6, <2>1, <2>2 DEF ReadHeader
<1>7. ASSUME ReadBody PROVE Goal
  <2>1. CASE input # <<>> /\ input' = Tail(input)
    BY <1>2, <1>7, <2>1 DEF ReadBody
  <2>2. CASE UNCHANGED input
    BY <1>1, <1>7, <2>2 DEF ReadBody
  <2> QED BY <1>7, <2>1, <2>2 DEF ReadBody, BodyRead
<1>8. ASSUME FindService \/ WaitAndClose \/ Register \/ UNCHANGED vars PROVE Goal
  <2>1. UNCHANGED <<input, asked>>
    BY <1>8 DEF FindService, WaitAndClose, Register, vars
  <2> QED BY <1>1, <2>1
<1>9. ASSUME NEW r \in Requests, CallMethod(r) \/ MeetCalled(r) \/ Timeout(r) \/ MeetSent(r)
      PROVE  Goal
  <2>1. UNCHANGED <<input, asked>>
    BY <1>9 DEF CallMethod, MeetCalled, Timeout, MeetSent
  <2> QED BY <1>1, <2>1
<1>10. ASSUME NEW t \in Threads, SendLock(t) \/ SendHeader(t) \/ SendBody(t) PROVE Goal
  <2>1. UNCHANGED <<input, asked>>
    BY <1>10 DEF SendLock, SendHeader, SendBody
  <2> QED BY <1>1, <2>1
<1>11. Goal
  <2> HIDE DEF Goal
  <2> QED BY <1>3, <1>4, <1>5, <1>6, <1>7, <1>8, <1>9, <1>10
          DEF Next, LoopStep, Send, Terminated
<1> QED BY <1>6, <1>11

(* A request is untouched until the loop takes its header from the stream.      *)
LEMMA UntouchedStays ==
  ASSUME TypeOK, PcInv, [Next]_vars, NEW r \in Requests, Untouched(r),
         ReadHeader /\ Head(input).part = "header" => r # cur'
  PROVE  Untouched(r)'
<1> USE DEF Untouched
<1>0. /\ Handler(r) \in Threads /\ Handler(r) # Loop
      /\ pc \in [Threads -> {"idle", "option", "header", "service", "body", "wait", "select",
                             "await", "call", "called", "lock", "sendHeader", "sendBody",
                             "sent", "finished"}]
      /\ hErr \in [Requests -> {"none", "service", "args", "method", "timeout"}]
  BY Names DEF TypeOK
<1> USE <1>0, Names
<1>1. ASSUME UNCHANGED <<pc, hErr, cur>> PROVE Untouched(r)'
  BY <1>1 DEF Serving
<1>2. CASE ReadOption
  <2>1. /\ pc' \in {[pc EXCEPT ![Loop] = "header"], [pc EXCEPT ![Loop] = "finished"]}
        /\ UNCHANGED <<hErr, cur>>
    BY <1>2 DEF ReadOption, Goto
  <2> QED BY <2>1 DEF Serving
<1>3. CASE ReadHeader
  BY <1>3 DEF ReadHeader, Goto, Serving
<1>4. CASE FindService
  BY <1>4 DEF FindService, Goto, SetErr, Serving, PcInv
<1>5. CASE ReadBody
  <2>1. pc[Loop] = "body" /\ cur # r /\ cur' = cur /\ cur \in Requests
    BY <1>5 DEF ReadBody, Serving, PcInv
  <2>2. pc'[Handler(r)] = pc[Handler(r)] /\ hErr'[r] = hErr[r]
    BY <1>5, <2>1 DEF ReadBody, Goto, SetErr
  <2> QED BY <2>1, <2>2
<1>6. CASE WaitAndClose
  BY <1>6 DEF WaitAndClose, Goto, Serving
<1>7. ASSUME NEW s \in Requests, CallMethod(s) PROVE Untouched(r)'
  BY <1>7 DEF CallMethod, Goto, Serving
<1>8. ASSUME NEW s \in Requests, MeetCalled(s) PROVE Untouched(r)'
  BY <1>8 DEF MeetCalled, Serving
<1>9. ASSUME NEW s \in Requests, Timeout(s) PROVE Untouched(r)'
  BY <1>9 DEF Timeout, Goto, SetErr, Serving
<1>10. ASSUME NEW s \in Requests, MeetSent(s) PROVE Untouched(r)'
  BY <1>10 DEF MeetSent, Serving
<1>11. ASSUME NEW t \in Threads, SendLock(t) PROVE Untouched(r)'
  BY <1>11 DEF SendLock, Goto, Serving
<1>12. ASSUME NEW t \in Threads, SendHeader(t) PROVE Untouched(r)'
  BY <1>12 DEF SendHeader, Goto, Serving
<1>13. ASSUME NEW t \in Threads, SendBody(t) PROVE Untouched(r)'
  <2>1. /\ pc[t] = "sendBody" /\ UNCHANGED <<hErr, cur>>
        /\ \E p \in {"header", "finished", "sent"} : pc' = [pc EXCEPT ![t] = p]
    BY <1>13, SendBodyGoes
  <2> QED BY <2>1 DEF Serving
<1> QED
  <2>1. ASSUME NEW s \in Requests, Ask(s) PROVE Untouched(r)'
    BY <1>1, <2>1 DEF Ask
  <2>2. CASE PeerGone \/ Register \/ UNCHANGED vars
    BY <1>1, <2>2 DEF PeerGone, Register, vars
  <2> HIDE DEF Untouched
  <2> QED BY <1>2, <1>3, <1>4, <1>5, <1>6, <1>7, <1>8, <1>9, <1>10, <1>11, <1>12, <1>13,
          <2>1, <2>2 DEF Next, LoopStep, Send, Terminated

LEMMA StreamInvKept ==
  ASSUME TypeOK, PcInv, StreamInv, TypeOK', [Next]_vars
  PROVE  StreamInv'
<1> SUFFICES ASSUME NEW r \in Requests, ToCome(r)' PROVE Untouched(r)'
  BY StreamStep DEF StreamInv
<1>1. Untouched(r) /\ (ReadHeader /\ Head(input).part = "header" => r # cur')
  BY StreamStep DEF StreamInv
<1> QED BY <1>1, UntouchedStays

-----------------------------------------------------------------------------
(* The error of a request.                                                 *)

LEMMA ErrInvKept ==
  ASSUME TypeOK, PcInv, StreamInv, ErrInv, TypeOK', [Next]_vars
  PROVE  ErrInv'
<1>0. /\ pc \in [Threads -> {"idle", "option", "header", "service", "body", "wait", "select",
                             "await", "call", "called", "lock", "sendHeader", "sendBody",
                             "sent", "finished"}]
      /\ hErr \in [Requests -> {"none", "service", "args", "method", "timeout"}]
      /\ result \in [Requests -> {"none", "ok", "err", "unencodable"}]
  BY DEF TypeOK
<1> USE <1>0, Names
<1>1. ASSUME UNCHANGED <<pc, hErr, cur, result>> PROVE ErrInv'
  BY <1>1 DEF ErrInv, Serving
<1>2. CASE ReadOption
  <2>1. /\ pc' \in {[pc EXCEPT ![Loop] = "header"], [pc EXCEPT ![Loop] = "finished"]}
        /\ UNCHANGED <<hErr, cur, result>>
    BY <1>2 DEF ReadOption, Goto
  <2> QED BY <2>1 DEF ErrInv, Serving
<1>3. CASE ReadHeader
  <2>1. pc[Loop] = "header" /\ UNCHANGED <<hErr, result>>
    BY <1>3 DEF ReadHeader
  <2>2. CASE pc' = [pc EXCEPT ![Loop] = "wait"]
    BY <2>1, <2>2 DEF ErrInv, Serving
  <2>3. CASE input # <<>> /\ Head(input).part = "header" /\ cur' = Head(input).req
             /\ pc' = [pc EXCEPT ![Loop] = "service"]
    <3>1. cur' \in Requests /\ input[1] = Part("header", cur') /\ 1 \in 1..Len(input)
      <4>1. input \in Seq(Messages) /\ Head(input) = input[1] /\ 1 \in 1..Len(input)
        BY <2>3 DEF TypeOK, Messages
      <4> QED BY <2>3, <4>1, IsPart
    <3>2. hErr[cur'] = "none"
      BY <3>1 DEF StreamInv, Untouched, ToCome
    <3> QED BY <2>1, <2>3, <3>1, <3>2 DEF ErrInv, Serving
  <2> QED BY <1>3, <2>2, <2>3 DEF ReadHeader, Goto
<1>4. CASE FindService
  <2>1. /\ pc[Loop] = "service" /\ UNCHANGED <<cur, result>>
        /\ cur \in Requests /\ pc[Handler(cur)] = "idle"
    BY <1>4 DEF FindService, PcInv, Serving
  <2>2. CASE /\ pc' = [pc EXCEPT ![Loop] = "lock"]
             /\ hErr' = [hErr EXCEPT ![cur] = "service"]
    BY <2>1, <2>2 DEF ErrInv, Serving
  <2>3. CASE pc' = [pc EXCEPT ![Loop] = "body"] /\ hErr' = hErr
    BY <2>1, <2>3 DEF ErrInv, Serving
  <2> QED BY <1>4, <2>2, <2>3 DEF FindService, Goto, SetErr
<1>5. CASE ReadBody
  <2>1. /\ pc[Loop] = "body" /\ UNCHANGED <<cur, result>>
        /\ cur \in Requests /\ pc[Handler(cur)] = "idle"
    BY <1>5 DEF ReadBody, PcInv, Serving
  <2>2. CASE /\ pc' = [pc EXCEPT ![Loop] = "lock"]
             /\ hErr' = [hErr EXCEPT ![cur] = "args"]
    BY <2>1, <2>2 DEF ErrInv, Serving
  <2>3. CASE /\ pc' = [pc EXCEPT ![Loop] = "header", ![Handler(cur)] = "select",
                                 ![Worker(cur)] = "call"]
             /\ hErr' = hErr
    <3>1. /\ pc'[Loop] = "header" /\ pc'[Handler(cur)] = "select" /\ pc'[Worker(cur)] = "call"
          /\ \A t \in Threads : t \notin {Loop, Handler(cur), Worker(cur)} => pc'[t] = pc[t]
      BY <2>1, <2>3
    <3>2. hErr[cur] = "none"
      BY <2>1 DEF ErrInv, Serving
    <3> QED BY <2>1, <2>3, <3>1, <3>2 DEF ErrInv, Serving
  <2> QED BY <1>5, <2>2, <2>3 DEF ReadBody, Goto, SetErr
<1>6. CASE WaitAndClose
  BY <1>6 DEF WaitAndClose, Goto, ErrInv, Serving
<1>7. ASSUME NEW r \in Requests, CallMethod(r) PROVE ErrInv'
  <2>1. pc[Worker(r)] = "call" /\ pc[Handler(r)] # "await"
    BY <1>7 DEF CallMethod, PcInv
  <2> QED BY <1>7, <2>1 DEF CallMethod, Goto, ErrInv, Serving
<1>8. ASSUME NEW r \in Requests, MeetCalled(r) PROVE ErrInv'
  <2>1. Serving => cur # r
    BY <1>8 DEF MeetCalled, PcInv
  <2>2. /\ pc'[Handler(r)] = "await" /\ pc'[Worker(r)] = "lock"
        /\ \A t \in Threads : t \notin {Handler(r), Worker(r)} => pc'[t] = pc[t]
    BY <1>8 DEF MeetCalled
  <2>3. hErr'[r] = (IF result[r] = "err" THEN "method" ELSE "none")
        /\ \A s \in Requests : s # r => hErr'[s] = hErr[s]
    BY <1>8 DEF MeetCalled, ErrInv
  <2> QED BY <1>8, <2>1, <2>2, <2>3 DEF MeetCalled, ErrInv, Serving
<1>9. ASSUME NEW r \in Requests, Timeout(r) PROVE ErrInv'
  <2>1. Serving => cur # r
    BY <1>9 DEF Timeout, PcInv
  <2> QED BY <1>9, <2>1 DEF Timeout, Goto, SetErr, ErrInv, Serving
<1>10. ASSUME NEW r \in Requests, MeetSent(r) PROVE ErrInv'
  <2>1. /\ pc'[Handler(r)] = "finished" /\ pc'[Worker(r)] = "finished"
        /\ \A t \in Threads : t \notin {Handler(r), Worker(r)} => pc'[t] = pc[t]
    BY <1>10 DEF MeetSent
  <2> QED BY <1>10, <2>1 DEF MeetSent, ErrInv, Serving
<1>11. ASSUME NEW t \in Threads, SendLock(t) PROVE ErrInv'
  <2>1. /\ pc[t] = "lock" /\ UNCHANGED <<hErr, cur, result>>
        /\ pc' = [pc EXCEPT ![t] = "sendHeader"]
    BY <1>11 DEF SendLock, Goto
  <2>2. CASE t = Loop
    BY <2>1, <2>2 DEF ErrInv, Serving
  <2>3. ASSUME NEW r \in Requests, t = Handler(r) \/ t = Worker(r) PROVE ErrInv'
    BY <2>1, <2>3 DEF ErrInv, Serving
  <2> QED BY <2>2, <2>3
<1>12. ASSUME NEW t \in Threads, SendHeader(t) PROVE ErrInv'
  <2>1. /\ pc[t] = "sendHeader" /\ UNCHANGED <<hErr, cur, result>>
        /\ pc' = [pc EXCEPT ![t] = "sendBody"]
    BY <1>12 DEF SendHeader, Goto
  <2>2. CASE t = Loop
    BY <2>1, <2>2 DEF ErrInv, Serving
  <2>3. ASSUME NEW r \in Requests, t = Handler(r) \/ t = Worker(r) PROVE ErrInv'
    BY <2>1, <2>3 DEF ErrInv, Serving
  <2> QED BY <2>2, <2>3
<1>13. ASSUME NEW t \in Threads, SendBody(t) PROVE ErrInv'
  <2>1. pc[t] = "sendBody" /\ UNCHANGED <<hErr, cur, result>>
    BY <1>13, SendBodyGoes
  <2>2. CASE t = Loop
    BY <1>13, <2>1, <2>2, SendBodyGoes DEF ErrInv, Serving
  <2>3. ASSUME NEW r \in Requests, t = Handler(r) PROVE ErrInv'
    <3>1. pc' = [pc EXCEPT ![t] = "finished"]
      BY <1>13, <2>3, SendBodyGoes
    <3> QED BY <2>1, <2>3, <3>1 DEF ErrInv, Serving
  <2>4. ASSUME NEW r \in Requests, t = Worker(r) PROVE ErrInv'
    <3>1. pc' = [pc EXCEPT ![t] = "sent"]
      BY <1>13, <2>4, SendBodyGoes
    <3> QED BY <2>1, <2>4, <3>1 DEF ErrInv, Serving
  <2> QED BY <2>2, <2>3, <2>4
<1> QED
  <2>1. ASSUME NEW r \in Requests, Ask(r) PROVE ErrInv'
    BY <1>1, <2>1 DEF Ask
  <2>2. CASE PeerGone \/ Register \/ UNCHANGED vars
    BY <1>1, <2>2 DEF PeerGone, Register, vars
  <2> QED BY <1>2, <1>3, <1>4, <1>5, <1>6, <1>7, <1>8, <1>9, <1>10, <1>11, <1>12, <1>13,
          <2>1, <2>2 DEF Next, LoopStep, Send, Terminated

-----------------------------------------------------------------------------
(* The responses.                                                          *)

(* A goroutine that writes holds the mutex, serves a request, and knows what it *)
(* has written.                                                                 *)
LEMMA Writer ==
  ASSUME TypeOK, PcInv, StreamInv, ErrInv, NEW t \in Threads,
         pc[t] \in {"sendHeader", "sendBody"}
  PROVE  /\ RequestOf(t) \in Requests
         /\ pc[t] = "sendHeader" => Unwritten(RequestOf(t))
         /\ pc[t] = "sendBody" => ~Unwritten(RequestOf(t))
         /\ hErr[RequestOf(t)] = "none" <=> BodyOf(t) = "reply"
         /\ \A u \in Threads : pc[u] \in {"sendHeader", "sendBody"} => u = t
<1>1. \A u \in Threads : pc[u] \in {"sendHeader", "sendBody"} => u = t
  BY DEF PcInv
<1>2. CASE t = Loop
  <2>1. Serving /\ cur \in Requests /\ RequestOf(t) = cur /\ BodyOf(t) = "invalidRequest"
    BY <1>2, Requested, Bodies DEF Serving, PcInv
  <2>2. hErr[cur] \in {"service", "args"} /\ ~ToCome(cur) /\ pc[Handler(cur)] = "idle"
    BY <1>2, <2>1 DEF ErrInv, StreamInv, Untouched, PcInv
  <2> QED BY <1>1, <1>2, <2>1, <2>2 DEF Unwritten
<1>3. ASSUME NEW r \in Requests, t = Handler(r) PROVE RequestOf(t) = r /\ (
         /\ pc[t] = "sendHeader" => Unwritten(r)
         /\ pc[t] = "sendBody" => ~Unwritten(r)
         /\ hErr[r] = "none" <=> BodyOf(t) = "reply")
  <2>1. RequestOf(t) = r /\ BodyOf(t) = "invalidRequest"
    BY <1>3, Requested, Bodies
  <2>2. hErr[r] = "timeout" /\ ~ToCome(r) /\ (Serving => cur # r)
    BY <1>3 DEF ErrInv, StreamInv, Untouched, PcInv
  <2> QED BY <1>3, <2>1, <2>2 DEF Unwritten
<1>4. ASSUME NEW r \in Requests, t = Worker(r) PROVE RequestOf(t) = r /\ (
         /\ pc[t] = "sendHeader" => Unwritten(r)
         /\ pc[t] = "sendBody" => ~Unwritten(r)
         /\ hErr[r] = "none" <=> BodyOf(t) = "reply")
  <2>1. RequestOf(t) = r /\ BodyOf(t) = IF result[r] # "err" THEN "reply" ELSE "invalidRequest"
    BY <1>4, Requested, Bodies
  <2>2. pc[Handler(r)] = "await"
    BY <1>4 DEF PcInv
  <2>3. hErr[r] = (IF result[r] = "err" THEN "method" ELSE "none") /\ ~ToCome(r) /\ (Serving => cur # r)
    BY <2>2 DEF ErrInv, StreamInv, Untouched, PcInv
  <2> QED BY <1>4, <2>1, <2>2, <2>3 DEF Unwritten
<1> QED BY <1>1, <1>2, <1>3, <1>4, Names

(* A step after which nothing has been written for a request is a step before   *)
(* which nothing had been.                                                      *)
LEMMA UnwrittenBefore ==
  ASSUME TypeOK, PcInv, StreamInv, TypeOK', [Next]_vars,
         NEW r \in Requests, Unwritten(r)'
  PROVE  Unwritten(r)
<1>0. pc \in [Threads -> {"idle", "option", "header", "service", "body", "wait", "select",
                          "await", "call", "called", "lock", "sendHeader", "sendBody",
                          "sent", "finished"}]
  BY DEF TypeOK
<1>a. ToCome(r)' => ToCome(r)
  BY StreamStep
<1> USE <1>0, <1>a, Names
<1>1. ASSUME UNCHANGED <<pc, cur>> PROVE Unwritten(r)
  BY <1>1 DEF Unwritten, Serving
<1>2. CASE ReadOption
  BY <1>2 DEF ReadOption, Goto, Unwritten, Serving
<1>3. CASE ReadHeader
  <2>1. CASE pc' = [pc EXCEPT ![Loop] = "wait"]
    BY <2>1 DEF Unwritten, Serving
  <2>2. CASE input # <<>> /\ Head(input).part = "header" /\ cur' = Head(input).req
             /\ pc' = [pc EXCEPT ![Loop] = "service"]
    <3>1. cur' = r => ToCome(r)
      <4>1. input \in Seq(Messages) /\ Head(input) = input[1] /\ 1 \in 1..Len(input)
        BY <2>2 DEF TypeOK, Messages
      <4> QED BY <2>2, <4>1, IsPart DEF ToCome
    <3> QED BY <2>2, <3>1 DEF Unwritten, Serving
  <2> QED BY <1>3, <2>1, <2>2 DEF ReadHeader, Goto
<1>4. CASE FindService
  BY <1>4 DEF FindService, Goto, Unwritten, Serving
<1>5. CASE ReadBody
  <2>1. pc[Loop] = "body" /\ cur' = cur /\ cur \in Requests
    BY <1>5 DEF ReadBody, PcInv, Serving
  <2>2. CASE cur = r
    BY <2>1, <2>2 DEF Unwritten, Serving
  <2>3. CASE cur # r
    <3>1. pc'[Handler(r)] = pc[Handler(r)] /\ pc'[Worker(r)] = pc[Worker(r)]
      BY <1>5, <2>1, <2>3 DEF ReadBody, Goto
    <3> QED BY <2>1, <2>3, <3>1 DEF Unwritten
  <2> QED BY <2>2, <2>3
<1>6. CASE WaitAndClose
  BY <1>6 DEF WaitAndClose, Goto, Unwritten, Serving
<1>7. ASSUME NEW s \in Requests, CallMethod(s) PROVE Unwritten(r)
  BY <1>7 DEF CallMethod, Goto, Unwritten, Serving
<1>8. ASSUME NEW s \in Requests, MeetCalled(s) PROVE Unwritten(r)
  BY <1>8 DEF MeetCalled, Unwritten, Serving
<1>9. ASSUME NEW s \in Requests, Timeout(s) PROVE Unwritten(r)
  BY <1>9 DEF Timeout, Goto, Unwritten, Serving
<1>10. ASSUME NEW s \in Requests, MeetSent(s) PROVE Unwritten(r)
  BY <1>10 DEF MeetSent, Unwritten, Serving
<1>11. ASSUME NEW t \in Threads, SendLock(t) PROVE Unwritten(r)
  BY <1>11 DEF SendLock, Goto, Unwritten, Serving
<1>12. ASSUME NEW t \in Threads, SendHeader(t) PROVE Unwritten(r)
  BY <1>12 DEF SendHeader, Goto, Unwritten, Serving
<1>13. ASSUME NEW t \in Threads, SendBody(t) PROVE Unwritten(r)
  <2>1. /\ pc[t] = "sendBody" /\ UNCHANGED cur
        /\ \E p \in {"header", "finished", "sent"} : pc' = [pc EXCEPT ![t] = p]
    BY <1>13, SendBodyGoes
  <2> QED BY <2>1 DEF Unwritten, Serving
<1> QED
  <2>1. ASSUME NEW s \in Requests, Ask(s) PROVE Unwritten(r)
    BY <1>1, <2>1 DEF Ask
  <2>2. CASE PeerGone \/ Register \/ UNCHANGED vars
    BY <1>1, <2>2 DEF PeerGone, Register, vars
  <2> QED BY <1>2, <1>3, <1>4, <1>5, <1>6, <1>7, <1>8, <1>9, <1>10, <1>11, <1>12, <1>13,
          <2>1, <2>2 DEF Next, LoopStep, Send, Terminated

(* Where no response is written, who is between header and body stays there, and *)
(* the error of its request too.                                                 *)
LEMMA WriterStays ==
  ASSUME TypeOK, PcInv, TypeOK', [Next]_vars,
         ~\E t \in Threads : SendHeader(t) \/ SendBody(t),
         NEW u \in Threads
  PROVE  /\ pc'[u] = "sendBody" <=> pc[u] = "sendBody"
         /\ pc[u] = "sendBody" => /\ RequestOf(u)' = RequestOf(u)
                                  /\ hErr'[RequestOf(u)] = hErr[RequestOf(u)]
         /\ output' = output /\ (conn' # "closed" => conn # "closed")
<1> DEFINE Goal == /\ pc'[u] = "sendBody" <=> pc[u] = "sendBody"
                   /\ pc[u] = "sendBody" => /\ RequestOf(u)' = RequestOf(u)
                                            /\ hErr'[RequestOf(u)] = hErr[RequestOf(u)]
                   /\ output' = output /\ (conn' # "closed" => conn # "closed")
<1> SUFFICES Goal
  OBVIOUS
<1>0. /\ pc \in [Threads -> {"idle", "option", "header", "service", "body", "wait", "select",
                             "await", "call", "called", "lock", "sendHeader", "sendBody",
                             "sent", "finished"}]
      /\ hErr \in [Requests -> {"none", "service", "args", "method", "timeout"}]
  BY DEF TypeOK
<1>a. ASSUME cur' = cur \/ u # Loop PROVE RequestOf(u)' = RequestOf(u)
  BY <1>a DEF RequestOf
(* A writer's request is not being found, read or waited for. *)
<1>b. ASSUME pc[u] = "sendBody"
      PROVE  /\ RequestOf(u) \in Requests
             /\ pc[Handler(RequestOf(u))] # "select"
             /\ pc[Loop] \in {"service", "body"} => RequestOf(u) # cur
  <2>1. CASE u = Loop
    BY <1>b, <2>1, Requested DEF PcInv, Serving
  <2>2. ASSUME NEW r \in Requests, u = Handler(r) \/ u = Worker(r)
        PROVE  /\ RequestOf(u) = r /\ pc[Handler(r)] # "select"
               /\ pc[Loop] \in {"service", "body"} => r # cur
    <3>1. pc[Handler(r)] # "select" /\ pc[Handler(r)] # "idle"
      BY <1>b, <2>2, Names DEF PcInv
    <3>2. pc[Loop] \in {"service", "body"} => r # cur
      BY <3>1 DEF PcInv, Serving
    <3> QED BY <2>2, <3>1, <3>2, Requested
  <2> QED BY <2>1, <2>2, Names
<1>c. \/ \E s \in Requests : \/ Ask(s) \/ CallMethod(s) \/ MeetCalled(s)
                               \/ Timeout(s) \/ MeetSent(s)
      \/ PeerGone \/ Register \/ UNCHANGED vars
      \/ ReadOption \/ ReadHeader \/ FindService \/ ReadBody \/ WaitAndClose
      \/ \E t \in Threads : SendLock(t)
  BY DEF Next, LoopStep, Send, Terminated
<1> USE <1>0, <1>a, <1>b, Names
<1>1. ASSUME UNCHANGED <<pc, hErr, cur, output>>, conn' # "closed" => conn # "closed" PROVE Goal
  BY <1>1
<1>2. CASE ReadOption
  BY <1>2 DEF ReadOption, Goto
<1>3. CASE ReadHeader
  BY <1>3 DEF ReadHeader, Goto
<1>4. CASE FindService
  BY <1>4 DEF FindService, Goto, SetErr
<1>5. CASE ReadBody
  <2>1. /\ pc[Loop] = "body" /\ UNCHANGED <<cur, conn, output>> /\ cur \in Requests
        /\ pc[Handler(cur)] = "idle" /\ pc[Worker(cur)] = "idle"
    BY <1>5 DEF ReadBody, PcInv, Serving
  <2>2. pc'[u] = "sendBody" <=> pc[u] = "sendBody"
    BY <1>5, <2>1 DEF ReadBody, Goto
  <2>3. pc[u] = "sendBody" => hErr'[RequestOf(u)] = hErr[RequestOf(u)]
    BY <1>5, <2>1 DEF ReadBody, SetErr
  <2> QED BY <2>1, <2>2, <2>3
<1>6. CASE WaitAndClose
  BY <1>6 DEF WaitAndClose, Goto
<1>7. ASSUME NEW s \in Requests, CallMethod(s) PROVE Goal
  BY <1>7 DEF CallMethod, Goto
<1>8. ASSUME NEW s \in Requests, MeetCalled(s) PROVE Goal
  BY <1>8 DEF MeetCalled
<1>9. ASSUME NEW s \in Requests, Timeout(s) PROVE Goal
  BY <1>9 DEF Timeout, Goto, SetErr
<1>10. ASSUME NEW s \in Requests, MeetSent(s) PROVE Goal
  BY <1>10 DEF MeetSent
<1>11. ASSUME NEW t \in Threads, SendLock(t) PROVE Goal
  BY <1>11 DEF SendLock, Goto
<1> QED
  <2>1. ASSUME NEW s \in Requests, Ask(s) PROVE Goal
    BY <1>1, <2>1 DEF Ask
  <2>2. CASE PeerGone \/ Register \/ UNCHANGED vars
    BY <1>1, <2>2 DEF PeerGone, Register, vars
  <2> HIDE <1>0, <1>a, <1>b, Names DEF Goal
  <2> QED BY <1>2, <1>3, <1>4, <1>5, <1>6, <1>7, <1>8, <1>9, <1>10, <1>11, <1>c, <2>1, <2>2

(* After the header something has been written. *)
LEMMA HeaderWritten ==
  ASSUME TypeOK, PcInv, StreamInv, TypeOK', [Next]_vars, NEW t \in Threads,
         pc[t] = "sendHeader", pc' = [pc EXCEPT ![t] = "sendBody"], cur' = cur
  PROVE  \A q \in Requests : Unwritten(q)' => q # RequestOf(t)
<1>0. pc \in [Threads -> {"idle", "option", "header", "service", "body", "wait", "select",
                          "await", "call", "called", "lock", "sendHeader", "sendBody",
                          "sent", "finished"}]
  BY DEF TypeOK
<1>1. \A r \in Requests : ToCome(r)' => pc[Handler(r)] = "idle" /\ (Serving => cur # r)
  BY StreamStep DEF StreamInv, Untouched
<1>2. CASE t = Loop
  <2>1. Serving /\ cur \in Requests /\ RequestOf(t) = cur /\ pc[Handler(cur)] = "idle"
    BY <1>2, Requested DEF Serving, PcInv
  <2> QED BY <1>0, <1>1, <1>2, <2>1, Names DEF Unwritten
<1>3. ASSUME NEW r \in Requests, t = Handler(r) PROVE RequestOf(t) = r /\ ~Unwritten(r)'
  <2>1. RequestOf(t) = r /\ (Serving => cur # r)
    BY <1>3, Requested DEF PcInv
  <2>2. Serving' <=> Serving
    BY <1>0, <1>3, Names DEF Serving
  <2> QED BY <1>0, <1>1, <1>3, <2>1, <2>2, Names DEF Unwritten
<1>4. ASSUME NEW r \in Requests, t = Worker(r) PROVE RequestOf(t) = r /\ ~Unwritten(r)'
  <2>1. RequestOf(t) = r /\ pc[Handler(r)] = "await" /\ (Serving => cur # r)
    BY <1>4, Requested DEF PcInv
  <2>2. Serving' <=> Serving
    BY <1>0, <1>4, Names DEF Serving
  <2> QED BY <1>0, <1>1, <1>4, <2>1, <2>2, Names DEF Unwritten
<1> QED BY <1>2, <1>3, <1>4, Names

(* A header begins a response, the only one of its request. *)
LEMMA HeaderKept ==
  ASSUME IInv, TypeOK', PcInv', [Next]_vars, NEW t \in Threads, SendHeader(t)
  PROVE  OutInv' /\ WholeAnswers'
<1> USE DEF IInv
<1> DEFINE r == RequestOf(t)
           new == [part |-> "header", req |-> r, what |-> hErr[r]]
           N == Len(output)
<1>0. /\ pc[t] = "sendHeader" /\ pc' = [pc EXCEPT ![t] = "sendBody"] /\ pc'[t] = "sendBody"
      /\ UNCHANGED <<conn, cur, hErr>>
      /\ output' = (IF conn = "closed" THEN output ELSE Append(output, new))
  BY DEF SendHeader, Emit, Goto, TypeOK
<1>1. r \in Requests /\ Unwritten(r) /\ \A u \in Threads : pc[u] = "sendBody" => u = t
  BY <1>0, Writer
<1>2. N \in Nat /\ \A i \in 1..N : output[i].req # r
  BY <1>1 DEF OutInv, TypeOK
<1>3. RequestOf(t)' = r /\ \A u \in Threads : pc'[u] = "sendBody" <=> u = t
  BY <1>0, <1>1 DEF RequestOf, TypeOK
<1>4. ASSUME NEW q \in Requests, Unwritten(q)' PROVE q # r /\ Unwritten(q)
  BY <1>0, <1>4, HeaderWritten, UnwrittenBefore
<1>5. CASE conn = "closed"
  <2>1. OutInv'
    <3>1. ASSUME NEW q \in Requests, Unwritten(q)', NEW i \in 1..Len(output')
          PROVE  output'[i].req # q
      BY <1>0, <1>4, <1>5, <3>1 DEF OutInv
    <3>2. ASSUME NEW u \in Threads, pc'[u] = "sendBody", NEW i \in 1..Len(output')
          PROVE  output'[i].req # RequestOf(u)'
      BY <1>0, <1>2, <1>3, <1>5, <3>2
    <3>3. conn' = "closed"
      BY <1>0, <1>5
    <3> HIDE DEF IInv, r, new, N
    <3> QED BY <3>1, <3>2, <3>3 DEF OutInv
  <2> QED BY <1>0, <1>5, <2>1 DEF WholeAnswers, Framed, AnsweredOnce, HonestHeader
<1>6. CASE conn # "closed"
  <2>1. /\ Len(output') = N + 1 /\ output'[N + 1] = new
        /\ \A i \in 1..N : output'[i] = output[i]
        /\ \A i \in 1..Len(output') : i \in 1..N \/ i = N + 1
    BY <1>0, <1>2, <1>6 DEF TypeOK
  <2>2. N % 2 = 0 /\ (N + 1) % 2 = 1
    <3>1. ~\E u \in Threads : pc[u] = "sendBody"
      BY <1>0, <1>1
    <3>2. N % 2 # 1
      BY <1>6, <3>1 DEF OutInv
    <3> QED BY <1>2, <3>2
  <2>3. new.part = "header" /\ new.req = r /\ new.what = hErr[r]
    OBVIOUS
  <2> HIDE DEF new, r, N
  <2>4. OutInv'
    <3>1. ASSUME NEW q \in Requests, Unwritten(q)', NEW i \in 1..Len(output')
          PROVE  output'[i].req # q
      BY <1>4, <2>1, <2>3, <3>1 DEF OutInv, N
    <3>2. ASSUME NEW i \in 1..Len(output'), output'[i].req = r
          PROVE  i = N + 1 /\ output'[i].part = "header" /\ output'[i].what = hErr[r]
      BY <1>2, <2>1, <2>3, <3>2
    <3>3. ASSUME NEW u \in Threads, pc'[u] = "sendBody"
          PROVE  /\ \A i \in 1..Len(output') : output'[i].req = RequestOf(u)' =>
                      /\ i = Len(output') /\ output'[i].part = "header"
                      /\ output'[i].what = hErr'[RequestOf(u)']
                 /\ output'[Len(output')].req = RequestOf(u)'
      <4>1. RequestOf(u)' = r /\ hErr' = hErr
        BY <1>0, <1>3, <3>3
      <4> QED BY <2>1, <2>3, <3>2, <4>1
    <3>4. (\E u \in Threads : pc'[u] = "sendBody") /\ Len(output') % 2 = 1
      BY <1>3, <2>1, <2>2
    <3> HIDE DEF IInv
    <3> QED BY <3>1, <3>3, <3>4 DEF OutInv
  <2>5. Framed'
    BY <1>2, <2>1, <2>2, <2>3 DEF Framed, WholeAnswers, N
  <2>6. AnsweredOnce'
    BY <1>2, <2>1, <2>3 DEF AnsweredOnce, WholeAnswers, N
  <2>7. HonestHeader'
    BY <1>2, <2>1, <2>3 DEF HonestHeader, WholeAnswers, N
  <2> QED BY <2>4, <2>5, <2>6, <2>7 DEF WholeAnswers
<1> QED BY <1>5, <1>6

(* A body completes the response its writer began. *)
LEMMA BodyKept ==
  ASSUME IInv, TypeOK', PcInv', [Next]_vars, NEW t \in Threads, SendBody(t)
  PROVE  OutInv' /\ WholeAnswers'
<1> USE DEF IInv
<1> DEFINE r == RequestOf(t)
           new == [part |-> "body", req |-> r, what |-> BodyOf(t)]
           N == Len(output)
<1>0. /\ pc[t] = "sendBody" /\ pc'[t] # "sendBody" /\ \A u \in Threads : u # t => pc'[u] = pc[u]
      /\ conn = "closed" => output' = output /\ conn' = "closed"
      /\ conn' # "closed" => output' = Append(output, new)
      /\ output' \in {output, Append(output, new)}
  <2>1. pc[t] = "sendBody" /\ \E p \in {"header", "finished", "sent"} : pc' = [pc EXCEPT ![t] = p]
    BY SendBodyGoes, Names
  <2> QED BY <2>1 DEF SendBody, Emit, TypeOK
<1>1. /\ r \in Requests /\ ~Unwritten(r) /\ \A u \in Threads : pc[u] = "sendBody" => u = t
      /\ hErr[r] = "none" <=> BodyOf(t) = "reply"
  BY <1>0, Writer
<1>2. /\ N \in Nat
      /\ \A i \in 1..N : output[i].req = r =>
           i = N /\ output[i].part = "header" /\ output[i].what = hErr[r]
  BY <1>0 DEF OutInv, TypeOK
<1>3. \A u \in Threads : pc'[u] # "sendBody"
  BY <1>0, <1>1
<1>4. ASSUME NEW q \in Requests, Unwritten(q)' PROVE q # r /\ Unwritten(q)
  BY <1>1, <1>4, UnwrittenBefore
<1>5. CASE output' = output
  <2>1. conn' = "closed"
    BY <1>0, <1>2, <1>5 DEF TypeOK
  <2>2. OutInv'
    BY <1>3, <1>4, <1>5, <2>1 DEF OutInv
  <2> QED BY <1>5, <2>2 DEF WholeAnswers, Framed, AnsweredOnce, HonestHeader
<1>6. CASE output' = Append(output, new)
  <2>0. conn # "closed"
    BY <1>0, <1>2, <1>6 DEF TypeOK
  <2>1. /\ Len(output') = N + 1 /\ output'[N + 1] = new
        /\ \A i \in 1..N : output'[i] = output[i]
        /\ \A i \in 1..Len(output') : i \in 1..N \/ i = N + 1
    BY <1>2, <1>6 DEF TypeOK
  <2>2. N % 2 = 1 /\ (N + 1) % 2 = 0 /\ N \in 1..N /\ output[N].req = r
    <3>1. N % 2 = 1 /\ output[N].req = r
      BY <1>0, <2>0 DEF OutInv
    <3> QED BY <1>2, <3>1
  <2>3. new.part = "body" /\ new.req = r /\ new.what = BodyOf(t)
    OBVIOUS
  <2> HIDE DEF new, r, N
  <2>4. OutInv'
    <3>1. ASSUME NEW q \in Requests, Unwritten(q)', NEW i \in 1..Len(output')
          PROVE  output'[i].req # q
      BY <1>4, <2>1, <2>3, <3>1 DEF OutInv, N
    <3> QED BY <1>3, <2>1, <2>2, <3>1 DEF OutInv
  <2>5. Framed'
    <3>1. \A i \in 1..N : IF i % 2 = 1 THEN output'[i].part = "header"
                          ELSE output'[i].part = "body" /\ output'[i].req = output'[i - 1].req
      <4>1. ASSUME NEW i \in 1..N, i % 2 # 1 PROVE i - 1 \in 1..N
        BY <1>2, <4>1
      <4> QED BY <2>1, <4>1 DEF Framed, WholeAnswers, N
    <3>2. output'[N + 1].part = "body" /\ output'[N + 1].req = output'[(N + 1) - 1].req
      BY <1>2, <2>1, <2>2, <2>3
    <3> QED BY <2>1, <2>2, <3>1, <3>2 DEF Framed
  <2>6. AnsweredOnce'
    BY <1>2, <2>1, <2>3 DEF AnsweredOnce, WholeAnswers, N
  <2>7. HonestHeader'
    BY <1>1, <1>2, <2>1, <2>3 DEF HonestHeader, WholeAnswers, N
  <2> QED BY <2>4, <2>5, <2>6, <2>7 DEF WholeAnswers
<1> QED BY <1>0, <1>5, <1>6

(* The other steps write nothing. *)
LEMMA OutKept ==
  ASSUME IInv, TypeOK', PcInv', [Next]_vars
  PROVE  OutInv' /\ WholeAnswers'
<1>1. CASE \E t \in Threads : SendHeader(t)
  BY <1>1, HeaderKept
<1>2. CASE \E t \in Threads : SendBody(t)
  BY <1>2, BodyKept
<1>3. CASE ~\E t \in Threads : SendHeader(t) \/ SendBody(t)
  <2>1. /\ \A u \in Threads :
             /\ pc'[u] = "sendBody" <=> pc[u] = "sendBody"
             /\ pc[u] = "sendBody" => /\ RequestOf(u)' = RequestOf(u)
                                      /\ hErr'[RequestOf(u)] = hErr[RequestOf(u)]
        /\ output' = output /\ (conn' # "closed" => conn # "closed")
    BY <1>3, WriterStays, Names DEF IInv
  <2>2. \A q \in Requests : Unwritten(q)' => Unwritten(q)
    BY UnwrittenBefore DEF IInv
  <2>3. OutInv'
    BY <2>1, <2>2 DEF IInv, OutInv
  <2>4. output' = output /\ WholeAnswers
    BY <2>1 DEF IInv
  <2>5. WholeAnswers'
    BY <2>4 DEF WholeAnswers, Framed, AnsweredOnce, HonestHeader
  <2> QED BY <2>3, <2>5
<1> QED BY <1>1, <1>2, <1>3

-----------------------------------------------------------------------------
(* Why the loop ends.                                                      *)

(* A lost request stays lost: h.Err keeps what findService said, and no     *)
(* second header of it comes.                                              *)
LEMMA LostStays ==
  ASSUME TypeOK, PcInv, StreamInv, ErrInv, TypeOK', [Next]_vars, NEW r \in Requests, Lost(r)
  PROVE  Lost(r)'
<1>1. asked \subseteq asked'
  BY DEF Next, LoopStep, Send, Terminated, vars, Ask, CallMethod, MeetCalled, Timeout, MeetSent,
         PeerGone, Register, ReadOption, ReadHeader, FindService, ReadBody, WaitAndClose,
         SendLock, SendHeader, SendBody
<1>2. r \in asked /\ r \in asked'
  BY <1>1 DEF Lost
<1>3. CASE hErr[r] = "service"
  <2>0. hErr \in [Requests -> {"none", "service", "args", "method", "timeout"}]
    BY DEF TypeOK
  <2>1. ASSUME UNCHANGED hErr PROVE hErr'[r] = "service"
    BY <1>3, <2>1
  <2>2. ASSUME FindService PROVE hErr'[r] = "service"
    <3>1. UNCHANGED hErr \/ hErr' = [hErr EXCEPT ![cur] = "service"]
      BY <2>2 DEF FindService, SetErr
    <3> QED BY <1>3, <2>0, <3>1
  <2>3. ASSUME ReadBody PROVE hErr'[r] = "service"
    <3>1. cur # r
      BY <1>3, <2>3 DEF ReadBody, ErrInv, Serving
    <3>2. UNCHANGED hErr \/ hErr' = [hErr EXCEPT ![cur] = "args"]
      BY <2>3 DEF ReadBody, SetErr
    <3> QED BY <1>3, <2>0, <3>1, <3>2
  <2>4. ASSUME NEW s \in Requests, MeetCalled(s) \/ Timeout(s) PROVE hErr'[r] = "service"
    <3>1. s # r
      BY <1>3, <2>4 DEF MeetCalled, Timeout, ErrInv
    <3> QED BY <1>3, <2>0, <2>4, <3>1 DEF MeetCalled, Timeout, SetErr
  <2>5. hErr'[r] = "service"
    <3>1. ASSUME ReadOption \/ ReadHeader \/ WaitAndClose \/ PeerGone \/ Register \/ UNCHANGED vars
          PROVE  hErr'[r] = "service"
      BY <2>1, <3>1 DEF ReadOption, ReadHeader, WaitAndClose, PeerGone, Register, vars
    <3>2. ASSUME NEW s \in Requests, Ask(s) \/ CallMethod(s) \/ MeetSent(s)
          PROVE  hErr'[r] = "service"
      BY <2>1, <3>2 DEF Ask, CallMethod, MeetSent
    <3>3. ASSUME NEW t \in Threads, SendLock(t) \/ SendHeader(t) \/ SendBody(t)
          PROVE  hErr'[r] = "service"
      BY <2>1, <3>3 DEF SendLock, SendHeader, SendBody
    <3> HIDE <1>3
    <3> DEFINE Stays == hErr'[r] = "service"
    <3>4. \/ ReadOption \/ ReadHeader \/ FindService \/ ReadBody \/ WaitAndClose \/ PeerGone
          \/ Register \/ UNCHANGED vars
          \/ \E s \in Requests : \/ Ask(s) \/ CallMethod(s) \/ MeetSent(s)
                                 \/ MeetCalled(s) \/ Timeout(s)
          \/ \E t \in Threads : SendLock(t) \/ SendHeader(t) \/ SendBody(t)
      BY DEF Next, LoopStep, Send, Terminated
    <3> SUFFICES Stays
      OBVIOUS
    <3> HIDE DEF Stays
    <3> QED BY <2>2, <2>3, <2>4, <3>1, <3>2, <3>3, <3>4 DEF Stays
  <2> QED BY <1>2, <2>5 DEF Lost
<1>4. CASE hErr[r] # "service"
  <2>1. Untouched(r) /\ \A i \in 1..Len(input) : input[i] # Part("header", r)
    BY <1>4 DEF Lost
  <2>2. ~ ToCome(r)
    BY <1>2, <2>1 DEF ToCome
  <2>3. ~ ToCome(r)'
    BY <2>2, StreamStep
  <2>4. ASSUME ReadHeader, Head(input).part = "header" PROVE r # cur'
    <3>1. CASE input # <<>>
      <4>0. input \in Seq(Messages)
        BY DEF TypeOK, Messages
      <4>1. input[1] \in Messages /\ Head(input) = input[1] /\ 1 \in 1..Len(input)
        BY <3>1, <4>0
      <4>2. cur' = NoReq \/ cur' = input[1].req
        BY <2>4, <4>1 DEF ReadHeader
      <4> QED BY <2>1, <2>4, <4>1, <4>2, IsPart, ServerAssumption
    <3>2. CASE input = <<>>
      BY <2>4, <3>2, ServerAssumption DEF ReadHeader
    <3> QED BY <3>1, <3>2
  <2>5. Untouched(r)'
    BY <2>1, <2>4, UntouchedStays
  <2>6. \A i \in 1..Len(input') : input'[i] # Part("header", r)
    BY <1>2, <2>3 DEF ToCome, Part
  <2> QED BY <1>2, <2>5, <2>6 DEF Lost, Part
<1> QED BY <1>3, <1>4

(* The rest of an ordered stream is ordered when its first message is. *)
LEMMA RestIsOrdered ==
  ASSUME input \in Seq(Messages), input' \in Seq(Messages), NEW d \in Nat,
         Len(input) = Len(input') + d,
         \A r \in Requests : Lost(r) => Lost(r)',
         \A i \in 1..Len(input) : Ordered(i),
         \A i \in 1..Len(input') :
           \/ input'[i] = input[i + d]
           \/ i = 1 /\ input'[i] = Part("torn", input[i + d].req),
         input' # <<>> /\ input'[1].part # "header" =>
           pc'[Loop] \in {"service", "body"} \/ Lost(input[1].req)',
         input' # <<>> /\ input'[1].part = "torn" => Lost(input[1].req)'
  PROVE  \A i \in 1..Len(input') : Ordered(i)'
<1> SUFFICES ASSUME NEW i \in 1..Len(input') PROVE Ordered(i)'
  OBVIOUS
<1>1. i + d \in 1..Len(input) /\ Ordered(i + d) /\ input[i + d] \in Messages
  OBVIOUS
<1>2. CASE i = 1 /\ input'[i].part # "header"
  BY <1>2 DEF Ordered
<1>3. CASE input'[i].part = "header"
  <2>1. input'[i] = input[i + d]
    <3>1. Part("torn", input[i + d].req).part # "header"
      BY DEF Part
    <3> QED BY <1>3, <3>1
  <2>2. i + d < Len(input) /\ input[i + d + 1] = Part("body", input[i + d].req)
    BY <1>1, <1>3, <2>1 DEF Ordered
  <2>3. i < Len(input') /\ i + 1 \in 1..Len(input') /\ i + 1 # 1 /\ i + 1 + d = i + d + 1
    BY <2>2
  <2>4. input'[i + 1] = input[i + 1 + d]
    BY <2>3
  <2> QED BY <1>3, <2>1, <2>2, <2>3, <2>4 DEF Ordered
<1>4. CASE i # 1 /\ input'[i].part # "header"
  <2>1. input'[i] = input[i + d] /\ i + d # 1 /\ i > 1
    BY <1>4
  <2>2. CASE Lost(input[i + d].req)
    <3>1. Lost(input[i].req)'
      BY <1>1, <2>1, <2>2, IsPart
    <3> QED BY <1>4, <3>1 DEF Ordered
  <2>3. CASE input[i + d - 1] = Part("header", input[i + d].req)
    <3>1. i - 1 \in 1..Len(input') /\ i - 1 + d = i + d - 1
      BY <2>1
    <3>2. CASE input'[i - 1] = input[i - 1 + d]
      BY <1>4, <2>1, <2>3, <3>1, <3>2 DEF Ordered
    <3>3. CASE i - 1 = 1 /\ input'[1] = Part("torn", input[i - 1 + d].req)
      <4>1. input'[1].part = "torn" /\ input'[1].req = input'[i].req /\ input' # <<>>
        BY <2>1, <2>3, <3>1, <3>3 DEF Part
      <4>2. Lost(input[i].req)'
        BY <4>1
      <4> QED BY <1>4, <4>2 DEF Ordered
    <3> QED BY <3>1, <3>2, <3>3
  <2> QED BY <1>1, <1>4, <2>1, <2>2, <2>3 DEF Ordered
<1> QED BY <1>2, <1>3, <1>4

(* The steps of the handlers and the writers leave the stream alone.           *)
LEMMA OffStream ==
  ASSUME TypeOK, PcInv,
         \/ Register \/ UNCHANGED vars
         \/ \E r \in Requests : CallMethod(r) \/ MeetCalled(r) \/ Timeout(r) \/ MeetSent(r)
         \/ \E t \in Threads : SendLock(t) \/ SendHeader(t) \/ SendBody(t)
  PROVE  /\ UNCHANGED <<input, asked, cur>>
         /\ \/ pc'[Loop] = pc[Loop]
            \/ /\ pc[Loop] \in {"lock", "sendHeader", "sendBody"}
               /\ pc'[Loop] \in {"sendHeader", "sendBody", "header"}
         /\ \/ UNCHANGED hErr
            \/ \E r \in Requests : pc[Handler(r)] = "select"
         /\ conn' = "up" => conn = "up"
<1> DEFINE Kept == UNCHANGED <<input, asked, cur>> /\ (conn' = "up" => conn = "up")
           Moved == \/ pc'[Loop] = pc[Loop]
                    \/ /\ pc[Loop] \in {"lock", "sendHeader", "sendBody"}
                       /\ pc'[Loop] \in {"sendHeader", "sendBody", "header"}
           Errors == UNCHANGED hErr \/ \E r \in Requests : pc[Handler(r)] = "select"
<1>0. /\ pc \in [Threads -> {"idle", "option", "header", "service", "body", "wait", "select",
                             "await", "call", "called", "lock", "sendHeader", "sendBody",
                             "sent", "finished"}]
      /\ Loop \in Threads
  BY Names DEF TypeOK
<1>1. ASSUME Register \/ UNCHANGED vars PROVE Kept /\ Moved /\ Errors
  BY <1>1 DEF Register, vars
<1>2. ASSUME NEW r \in Requests, CallMethod(r) \/ MeetCalled(r) \/ Timeout(r) \/ MeetSent(r)
      PROVE  Kept /\ Moved /\ Errors
  <2>1. Kept /\ Errors
    BY <1>2 DEF CallMethod, MeetCalled, Timeout, MeetSent
  <2>2. \/ \E p \in {"called", "lock"} : \E t \in {Handler(r), Worker(r)} : pc' = [pc EXCEPT ![t] = p]
        \/ \E p, q \in {"lock", "await", "finished"} :
             pc' = [pc EXCEPT ![Worker(r)] = p, ![Handler(r)] = q]
    BY <1>2 DEF CallMethod, MeetCalled, Timeout, MeetSent, Goto
  <2>3. Handler(r) # Loop /\ Worker(r) # Loop
    BY Names
  <2> QED BY <1>0, <2>1, <2>2, <2>3
<1>3. ASSUME NEW t \in Threads, SendLock(t) \/ SendHeader(t) \/ SendBody(t)
      PROVE  Kept /\ Moved /\ Errors
  <2>1. Kept /\ Errors
    BY <1>3 DEF SendLock, SendHeader, SendBody
  <2>2. CASE SendLock(t) \/ SendHeader(t)
    BY <1>0, <2>1, <2>2 DEF SendLock, SendHeader, Goto
  <2>3. CASE SendBody(t)
    <3>1. CASE t = Loop
      BY <1>0, <2>1, <2>3, <3>1, SendBodyGoes
    <3>2. ASSUME NEW r \in Requests, t = Handler(r) \/ t = Worker(r) PROVE pc'[Loop] = pc[Loop]
      BY <1>0, <2>3, <3>2, SendBodyGoes, Names
    <3> QED BY <2>1, <3>1, <3>2, Names
  <2> QED BY <1>3, <2>2, <2>3
<1> QED
  <2> HIDE DEF Kept, Moved, Errors
  <2>1. Kept /\ Moved /\ Errors
    BY <1>1, <1>2, <1>3
  <2> QED BY <2>1 DEF Kept, Moved, Errors

(* What the decoder of the Option takes is lost. *)
LEMMA SurplusIsLost ==
  ASSUME TypeOK, PcInv, StreamInv, CauseInv, ReadOption, TypeOK', NEW d \in Nat,
         \A i \in 1..Len(input') :
           \/ input'[i] = input[i + d]
           \/ i = 1 /\ input'[i] = Part("torn", input[i + d].req),
         Len(input) = Len(input') + d,
         NEW r \in asked, NEW k \in 1..Len(input), input[k] = Part("header", r),
         k <= d \/ (k = d + 1 /\ input'[1].part = "torn")
  PROVE  Lost(r)'
<1>1. input \in Seq(Messages) /\ input' \in Seq(Messages) /\ r \in Requests
  BY DEF TypeOK, Messages
<1>2. /\ pc[Loop] = "option" /\ UNCHANGED <<asked, hErr, cur>>
      /\ pc' = [pc EXCEPT ![Loop] = "header"] \/ pc' = [pc EXCEPT ![Loop] = "finished"]
  BY DEF ReadOption, Goto
<1>3. pc'[Handler(r)] = "idle" /\ hErr'[r] = "none" /\ ~ Serving'
  <2>1. pc \in [Threads -> {"idle", "option", "header", "service", "body", "wait", "select",
                             "await", "call", "called", "lock", "sendHeader", "sendBody",
                             "sent", "finished"}]
    BY DEF TypeOK
  <2>2. pc[Handler(r)] = "idle" /\ hErr[r] = "none"
    BY <1>1, <1>2 DEF PcInv, CauseInv
  <2> QED BY <1>1, <1>2, <2>1, <2>2, Names DEF Serving
<1>4. ASSUME NEW i \in 1..Len(input'), input'[i] = Part("header", r) PROVE FALSE
  <2>1. input'[i] = input[i + d] /\ i + d \in 1..Len(input)
    <3>1. Part("torn", input[i + d].req) # Part("header", r)
      BY DEF Part
    <3> QED BY <1>1, <1>4, <3>1
  <2>2. i + d = k
    <3>1. input[k].part = "header" /\ input[i + d] = input[k]
      BY <1>4, <2>1 DEF Part
    <3> QED BY <2>1, <3>1 DEF StreamInv
  <2>3. i = 1 /\ input'[1].part = "torn"
    BY <1>1, <2>2
  <2> QED BY <1>4, <2>3 DEF Part
<1>5. \A i \in 1..Len(input') : input'[i] # Part("header", r)
  BY <1>4
<1> QED BY <1>2, <1>3, <1>5 DEF Lost, Untouched, Part

LEMMA CauseInvKept ==
  ASSUME IInv, TypeOK', [Next]_vars
  PROVE  CauseInv'
<1>a. TypeOK /\ PcInv /\ StreamInv /\ ErrInv /\ CauseInv
  BY DEF IInv
<1>b. /\ input \in Seq(Messages) /\ input' \in Seq(Messages)
      /\ asked \in SUBSET Requests /\ asked' \in SUBSET Requests
      /\ pc \in [Threads -> {"idle", "option", "header", "service", "body", "wait", "select",
                             "await", "call", "called", "lock", "sendHeader", "sendBody",
                             "sent", "finished"}]
      /\ hErr \in [Requests -> {"none", "service", "args", "method", "timeout"}]
      /\ Loop \in Threads
  BY <1>a, Names DEF TypeOK, Messages
<1>c. \A r \in Requests : Lost(r) => Lost(r)'
  BY <1>a, LostStays
<1>d. \A i \in 1..Len(input) : input[i].req \in asked /\ input[i] \in Messages
  BY <1>a, <1>b DEF StreamInv
<1>e. conn = "up" => \A i \in 1..Len(input) : Ordered(i)
  BY <1>a DEF CauseInv
<1>f. conn = "up" /\ pc[Loop] = "wait" => \E r \in asked : Lost(r)
  BY <1>a DEF CauseInv
<1>g. conn = "up" /\ pc[Loop] \in {"service", "body"} => input # <<>> /\ input[1] = Part("body", cur)
  BY <1>a DEF CauseInv
<1>h. pc[Loop] = "option" => \A r \in Requests : hErr[r] = "none" /\ pc[Handler(r)] = "idle"
  BY <1>a DEF CauseInv, PcInv
<1> USE <1>b
<1>1. ASSUME UNCHANGED <<input, asked, cur>>, conn' = "up" => conn = "up",
             \/ pc'[Loop] = pc[Loop]
             \/ /\ pc[Loop] \in {"lock", "sendHeader", "sendBody"}
                /\ pc'[Loop] \in {"sendHeader", "sendBody", "header"},
             \/ UNCHANGED hErr \/ \E r \in Requests : pc[Handler(r)] = "select"
      PROVE  CauseInv'
  <2>1. pc'[Loop] = "option" => \A r \in Requests : hErr'[r] = "none"
    BY <1>1, <1>h
  <2>2. ASSUME conn' = "up" PROVE \A i \in 1..Len(input') : Ordered(i)'
    <3>1. CASE pc'[Loop] = pc[Loop]
      BY <1>1, <1>c, <1>d, <1>e, <2>2, <3>1 DEF Ordered
    <3>2. CASE pc[Loop] \notin {"service", "body"}
      BY <1>1, <1>c, <1>d, <1>e, <2>2, <3>2 DEF Ordered
    <3> QED BY <1>1, <3>1, <3>2
  <2>3. ASSUME conn' = "up", pc'[Loop] = "wait" PROVE \E r \in asked' : Lost(r)'
    BY <1>1, <1>c, <1>f, <2>3
  <2>4. ASSUME conn' = "up", pc'[Loop] \in {"service", "body"}
        PROVE  input' # <<>> /\ input'[1] = Part("body", cur')
    BY <1>1, <1>g, <2>4
  <2> QED BY <2>1, <2>2, <2>3, <2>4 DEF CauseInv, Part
<1>2. ASSUME NEW r \in Requests, Ask(r) PROVE CauseInv'
  <2>1. /\ conn' = "up" /\ conn = "up" /\ UNCHANGED <<pc, hErr, cur>>
        /\ asked' = asked \cup {r}
        /\ input' = input \o <<Part("header", r), Part("body", r)>>
    BY <1>2 DEF Ask
  <2>2. /\ Len(input') = Len(input) + 2
        /\ \A i \in 1..Len(input) : input'[i] = input[i]
        /\ input'[Len(input) + 1] = Part("header", r) /\ input'[Len(input) + 2] = Part("body", r)
    BY <2>1
  <2>3. ASSUME NEW i \in 1..Len(input') PROVE Ordered(i)'
    <3>1. CASE i \in 1..Len(input)
      <4>1. Ordered(i) /\ input[i].req \in Requests /\ input'[i] = input[i]
        BY <1>d, <1>e, <2>1, <2>2, <3>1
      <4>2. CASE input[i].part = "header"
        BY <2>2, <3>1, <4>1, <4>2 DEF Ordered
      <4>3. CASE input[i].part # "header"
        BY <1>c, <2>1, <2>2, <3>1, <4>1, <4>3 DEF Ordered
      <4> QED BY <4>2, <4>3
    <3>2. CASE i = Len(input) + 1
      BY <2>2, <3>2 DEF Ordered, Part
    <3>3. CASE i = Len(input) + 2
      BY <2>2, <3>3 DEF Ordered, Part
    <3> QED BY <2>2, <3>1, <3>2, <3>3
  <2>4. pc'[Loop] = "wait" => \E q \in asked' : Lost(q)'
    BY <1>c, <1>f, <2>1
  <2>5. pc'[Loop] \in {"service", "body"} => input' # <<>> /\ input'[1] = Part("body", cur')
    BY <1>g, <2>1, <2>2
  <2>6. pc'[Loop] = "option" => \A q \in Requests : hErr'[q] = "none"
    BY <1>h, <2>1
  <2> QED BY <2>3, <2>4, <2>5, <2>6 DEF CauseInv, Part
<1>3. ASSUME pc'[Loop] # "option", conn' # "up" PROVE CauseInv'
  BY <1>3 DEF CauseInv
<1>4. ASSUME ReadOption PROVE CauseInv'
  <2>1. PICK n \in 0..Len(input), torn \in BOOLEAN :
          (torn => n < Len(input)) /\ input' = Surplus(n, torn)
    BY <1>4 DEF ReadOption
  <2>2. /\ pc[Loop] = "option" /\ UNCHANGED asked
        /\ \/ pc'[Loop] = "header" /\ conn' = conn
           \/ pc'[Loop] = "finished" /\ conn' = "closed"
    BY <1>4 DEF ReadOption, Goto
  <2>3. CASE conn' = "up"
    <3>1. /\ n \in Nat /\ Len(input) = Len(input') + n
          /\ \A i \in 1..Len(input') :
               \/ input'[i] = input[i + n]
               \/ i = 1 /\ input'[i] = Part("torn", input[i + n].req)
      BY SurplusIs, <2>1
    <3>2. ASSUME input' # <<>>, input'[1].part # "header" PROVE Lost(input[1].req)'
      <4>1. 1 \in 1..Len(input') /\ n + 1 \in 1..Len(input) /\ 1 + n = n + 1
        BY <3>1, <3>2
      <4>2. input'[1].req = input[n + 1].req
        <5>1. input'[1] = input[n + 1] \/ input'[1] = Part("torn", input[n + 1].req)
          BY <3>1, <4>1
        <5> QED BY <5>1, Parts
      <4>3. CASE input[n + 1].part = "header"
        <5>1. input[n + 1] = Part("header", input[n + 1].req)
          BY <1>d, <4>1, <4>3, IsPart
        <5>2. input'[1].part = "torn"
          <6>1. input'[1] = input[n + 1] \/ input'[1] = Part("torn", input[n + 1].req)
            BY <3>1, <4>1
          <6> QED BY <3>2, <4>3, <6>1, Parts
        <5> QED BY <1>4, <1>a, <1>d, <3>1, <4>1, <4>2, <5>1, <5>2, SurplusIsLost
      <4>4. CASE input[n + 1].part # "header"
        <5>1. Ordered(n + 1)
          BY <1>e, <2>2, <2>3, <4>1
        <5>2. CASE Lost(input[n + 1].req)
          BY <1>c, <1>d, <4>1, <4>2, <5>2, IsPart
        <5>3. CASE n + 1 > 1 /\ input[n] = Part("header", input[n + 1].req)
          <6>1. n \in 1..Len(input) /\ n <= n /\ input[n + 1].req \in asked
            BY <1>d, <3>1, <4>1, <5>3
          <6> QED BY <1>4, <1>a, <3>1, <4>2, <5>3, <6>1, SurplusIsLost
        <5> QED BY <2>2, <4>4, <5>1, <5>2, <5>3 DEF Ordered
      <4> QED BY <4>3, <4>4
    <3>3. \A i \in 1..Len(input) : Ordered(i)
      BY <1>e, <2>2, <2>3
    <3>4. \A i \in 1..Len(input') : Ordered(i)'
      BY <1>c, <3>1, <3>2, <3>3, RestIsOrdered
    <3> QED BY <2>2, <2>3, <3>4 DEF CauseInv
  <2> QED BY <1>3, <2>2, <2>3
<1>5. ASSUME input # <<>>, input' = Tail(input), UNCHANGED asked, conn = "up",
             Head(input).part = "header" => pc'[Loop] = "service"
      PROVE  /\ \A i \in 1..Len(input') : Ordered(i)'
             /\ Head(input) = input[1] /\ input[1] \in Messages /\ input[1].req \in asked
             /\ input[1].part = "header" =>
                  input' # <<>> /\ input'[1] = Part("body", input[1].req)
             /\ input[1].part # "header" =>
                  Lost(input[1].req) \/ pc[Loop] \in {"service", "body"}
  <2>1. /\ Head(input) = input[1] /\ 1 \in 1..Len(input) /\ Len(input) = Len(input') + 1
        /\ \A i \in 1..Len(input') : input'[i] = input[i + 1]
    BY <1>5
  <2>2. Ordered(1) /\ input[1] \in Messages /\ input[1].req \in asked
    BY <1>5, <1>d, <1>e, <2>1
  <2>3. input[1].part = "header" => input' # <<>> /\ input'[1] = Part("body", input[1].req)
    BY <2>1, <2>2 DEF Ordered
  <2>4. ASSUME input' # <<>>, input'[1].part # "header", input[1].part # "header"
        PROVE  Lost(input[1].req)'
    <3>1. 2 \in 1..Len(input) /\ input'[1] = input[2]
      BY <2>1, <2>4
    <3>2. Ordered(2) /\ input[2].req \in Requests
      BY <1>5, <1>d, <1>e, <3>1
    <3>3. Lost(input[2].req)
      BY <2>4, <3>1, <3>2 DEF Ordered, Part
    <3> QED BY <1>c, <3>1, <3>2, <3>3
  <2>5. input'# <<>> => input'[1] \in {input[i] : i \in 1..Len(input)}
    BY <2>1
  <2>6. \A i \in 1..Len(input') : Ordered(i)'
    <3>1. input' # <<>> /\ input'[1].part # "header" =>
            pc'[Loop] \in {"service", "body"} \/ Lost(input[1].req)'
      BY <1>5, <2>1, <2>4
    <3>2. input' # <<>> /\ input'[1].part = "torn" => Lost(input[1].req)'
      BY <2>3, <2>4 DEF Part
    <3>3. \A i \in 1..Len(input) : Ordered(i)
      BY <1>5, <1>e
    <3> QED BY <1>c, <2>1, <3>1, <3>2, <3>3, RestIsOrdered
  <2> QED BY <2>1, <2>2, <2>3, <2>6 DEF Ordered
<1>6. ASSUME ReadHeader PROVE CauseInv'
  <2>1. pc[Loop] = "header" /\ UNCHANGED <<conn, asked, hErr>>
    BY <1>6 DEF ReadHeader
  <2>2. CASE conn = "up"
    <3>1. /\ input # <<>> /\ input' = Tail(input)
          /\ \/ Head(input).part = "header" /\ cur' = Head(input).req /\ pc'[Loop] = "service"
             \/ Head(input).part # "header" /\ pc'[Loop] = "wait"
      BY <1>6, <2>2 DEF ReadHeader, Goto
    <3>2. /\ \A i \in 1..Len(input') : Ordered(i)'
          /\ Head(input) = input[1] /\ input[1].req \in asked
          /\ input[1].part = "header" => input' # <<>> /\ input'[1] = Part("body", input[1].req)
          /\ input[1].part # "header" => Lost(input[1].req)
      BY <1>5, <2>1, <2>2, <3>1
    <3>3. Head(input).part # "header" => \E r \in asked' : Lost(r)'
      BY <1>c, <2>1, <3>2
    <3> QED BY <2>1, <3>1, <3>2, <3>3 DEF CauseInv, Part
  <2>3. CASE conn # "up"
    <3>1. pc'[Loop] # "option"
      BY <1>6 DEF ReadHeader, Goto
    <3> QED BY <1>3, <2>1, <2>3, <3>1
  <2> QED BY <2>2, <2>3
<1>7. ASSUME FindService PROVE CauseInv'
  <2>1. /\ pc[Loop] = "service" /\ UNCHANGED <<conn, asked, input, cur>> /\ cur \in Requests
        /\ \/ pc'[Loop] = "body"
           \/ pc'[Loop] = "lock" /\ hErr' = [hErr EXCEPT ![cur] = "service"]
    BY <1>7, <1>a DEF FindService, Goto, SetErr, PcInv, Serving
  <2>2. CASE conn = "up"
    <3>1. input # <<>> /\ input[1] = Part("body", cur) /\ 1 \in 1..Len(input)
      BY <1>g, <2>1, <2>2
    <3>2. pc'[Loop] = "lock" => Lost(cur)'
      <4>1. cur \in asked
        BY <1>d, <3>1 DEF Part
      <4> QED BY <2>1, <4>1 DEF Lost
    <3>3. ASSUME NEW i \in 1..Len(input) PROVE Ordered(i)'
      <4>1. Ordered(i) /\ input[i].req \in Requests
        BY <1>d, <1>e, <2>2
      <4>2. CASE i = 1
        BY <2>1, <3>1, <3>2, <4>2 DEF Ordered, Part
      <4>3. CASE i # 1
        BY <1>c, <2>1, <4>1, <4>3 DEF Ordered
      <4> QED BY <4>2, <4>3
    <3> QED BY <2>1, <3>1, <3>3 DEF CauseInv, Part
  <2> QED BY <1>3, <2>1, <2>2
<1>8. ASSUME ReadBody PROVE CauseInv'
  <2>1. /\ pc[Loop] = "body" /\ UNCHANGED <<conn, asked, cur>> /\ pc'[Loop] \in {"header", "lock"}
    <3>1. pc[Loop] = "body" /\ UNCHANGED <<conn, asked, cur>> /\ cur \in Requests
      BY <1>8, <1>a DEF ReadBody, PcInv, Serving
    <3> QED BY <1>8, <3>1, Names DEF ReadBody, Goto
  <2>2. CASE conn = "up"
    <3>1. input # <<>> /\ input' = Tail(input) /\ input[1] = Part("body", cur)
      BY <1>8, <1>g, <2>1, <2>2 DEF ReadBody, BodyRead
    <3>2. Head(input).part # "header"
      BY <3>1 DEF Part
    <3>3. \A i \in 1..Len(input') : Ordered(i)'
      BY <1>5, <2>1, <2>2, <3>1, <3>2
    <3> QED BY <2>1, <3>3 DEF CauseInv
  <2> QED BY <1>3, <2>1, <2>2
<1>9. ASSUME WaitAndClose \/ PeerGone PROVE CauseInv'
  <2>1. CASE WaitAndClose
    BY <1>3, <2>1 DEF WaitAndClose, Goto
  <2>2. CASE PeerGone
    BY <1>h, <2>2 DEF PeerGone, CauseInv
  <2> QED BY <1>9, <2>1, <2>2
<1>10. ASSUME \/ Register \/ UNCHANGED vars
              \/ \E r \in Requests : CallMethod(r) \/ MeetCalled(r) \/ Timeout(r) \/ MeetSent(r)
              \/ \E t \in Threads : SendLock(t) \/ SendHeader(t) \/ SendBody(t)
       PROVE  CauseInv'
  BY <1>1, <1>10, <1>a, OffStream
<1> QED
  <2> HIDE <1>b
  <2> QED BY <1>2, <1>4, <1>6, <1>7, <1>8, <1>9, <1>10 DEF Next, LoopStep, Send, Terminated

(* The loop reads the body of, and starts the goroutines of, requests they are for. *)
LEMMA KindInvKept ==
  ASSUME TypeOK, PcInv, KindInv, [Next]_vars
  PROVE  KindInv'
<1>0. pc \in [Threads -> {"idle", "option", "header", "service", "body", "wait", "select",
                          "await", "call", "called", "lock", "sendHeader", "sendBody",
                          "sent", "finished"}]
  BY DEF TypeOK
<1> USE <1>0, Names
(* A step that starts no request. *)
<1>1. ASSUME UNCHANGED <<kind, option>>, service => service',
             \A r \in Requests : pc'[Handler(r)] # "idle" => pc[Handler(r)] # "idle",
             pc'[Loop] = "body" => pc[Loop] = "body" /\ cur' = cur,
             pc[Loop] \in {"option", "finished"} => pc'[Loop] = pc[Loop]
      PROVE  KindInv'
  BY <1>1 DEF KindInv
<1>2. CASE ReadOption
  <2>1. UNCHANGED <<kind, option, service>> /\ pc[Loop] = "option"
    BY <1>2 DEF ReadOption
  <2>2. /\ pc'[Loop] \in {"header", "finished"} /\ (option = "bad" => pc'[Loop] = "finished")
        /\ \A r \in Requests : pc'[Handler(r)] = pc[Handler(r)]
    BY <1>2 DEF ReadOption, Goto
  <2> QED BY <2>1, <2>2 DEF KindInv
<1>3. CASE ReadHeader
  <2>1. UNCHANGED <<kind, option, service>> /\ pc[Loop] = "header"
    BY <1>3 DEF ReadHeader
  <2>2. pc'[Loop] \in {"service", "wait"} /\ \A r \in Requests : pc'[Handler(r)] = pc[Handler(r)]
    BY <1>3 DEF ReadHeader, Goto
  <2> QED BY <1>1, <2>1, <2>2
<1>4. CASE FindService
  <2>1. UNCHANGED <<kind, option, service, cur>> /\ pc[Loop] = "service"
    BY <1>4 DEF FindService
  <2>2. /\ pc'[Loop] \in {"lock", "body"} /\ \A r \in Requests : pc'[Handler(r)] = pc[Handler(r)]
        /\ pc'[Loop] = "body" => kind[cur] # "unknown" /\ service
    BY <1>4 DEF FindService, Goto
  <2> QED BY <2>1, <2>2 DEF KindInv
<1>5. CASE ReadBody
  <2>1. /\ UNCHANGED <<kind, option, service, cur>> /\ pc[Loop] = "body" /\ cur \in Requests
        /\ service /\ option # "bad"
    BY <1>5 DEF ReadBody, KindInv, PcInv, Serving
  <2>2. CASE pc' = [pc EXCEPT ![Loop] = "lock"]
    BY <1>1, <2>1, <2>2
  <2>3. CASE /\ kind[cur] = "valid"
             /\ pc' = [pc EXCEPT ![Loop] = "header", ![Handler(cur)] = "select",
                                 ![Worker(cur)] = "call"]
    <3>1. /\ pc'[Loop] = "header"
          /\ \A r \in Requests : r # cur => pc'[Handler(r)] = pc[Handler(r)]
      BY <2>1, <2>3
    <3> QED BY <2>1, <2>3, <3>1 DEF KindInv
  <2> QED BY <1>5, <2>2, <2>3 DEF ReadBody, Goto
<1>6. CASE WaitAndClose
  <2>1. UNCHANGED <<kind, option, service>> /\ pc[Loop] = "wait"
    BY <1>6 DEF WaitAndClose
  <2>2. pc'[Loop] = "finished" /\ \A r \in Requests : pc'[Handler(r)] = pc[Handler(r)]
    BY <1>6 DEF WaitAndClose, Goto
  <2> QED BY <1>1, <2>1, <2>2
<1>7. ASSUME NEW r \in Requests, CallMethod(r) \/ MeetCalled(r) \/ Timeout(r) \/ MeetSent(r)
      PROVE  KindInv'
  <2>1. /\ UNCHANGED <<kind, option, service, cur>>
        /\ pc'[Loop] = pc[Loop]
        /\ \A q \in Requests : pc'[Handler(q)] # "idle" => pc[Handler(q)] # "idle"
    BY <1>7 DEF CallMethod, MeetCalled, Timeout, MeetSent, Goto
  <2> QED BY <1>1, <2>1
<1>8. ASSUME NEW t \in Threads, SendLock(t) \/ SendHeader(t) \/ SendBody(t) PROVE KindInv'
  <2>1. /\ UNCHANGED <<kind, option, service, cur>> /\ pc[t] \in {"lock", "sendHeader", "sendBody"}
        /\ \E p \in {"sendHeader", "sendBody", "header", "finished", "sent"} : pc' = [pc EXCEPT ![t] = p]
    <3>1. CASE SendLock(t) \/ SendHeader(t)
      BY <3>1 DEF SendLock, SendHeader, Goto
    <3>2. CASE SendBody(t)
      BY <3>2, SendBodyGoes
    <3> QED BY <1>8, <3>1, <3>2
  <2>2. PICK p \in {"sendHeader", "sendBody", "header", "finished", "sent"} : pc' = [pc EXCEPT ![t] = p]
    BY <2>1
  <2>3. /\ \A q \in Requests : pc'[Handler(q)] # "idle" => pc[Handler(q)] # "idle"
        /\ pc'[Loop] = "body" => pc[Loop] = "body"
        /\ pc[Loop] \in {"option", "finished"} => pc'[Loop] = pc[Loop]
    BY <2>1, <2>2
  <2> QED BY <1>1, <2>1, <2>3
<1>9. CASE Register \/ PeerGone \/ UNCHANGED vars \/ \E r \in Requests : Ask(r)
  <2>1. CASE Register \/ PeerGone
    BY <1>1, <2>1 DEF Register, PeerGone
  <2>2. CASE UNCHANGED vars
    BY <1>1, <2>2 DEF vars
  <2>3. ASSUME NEW r \in Requests, Ask(r) PROVE KindInv'
    BY <1>1, <2>3 DEF Ask
  <2> QED BY <1>9, <2>1, <2>2, <2>3
<1> QED
  <2> HIDE <1>0, Names
  <2> QED BY <1>2, <1>3, <1>4, <1>5, <1>6, <1>7, <1>8, <1>9 DEF Next, LoopStep, Send, Terminated

-----------------------------------------------------------------------------

LEMMA Grows ==
  ASSUME TypeOK, NEW t \in Threads, NEW p \in {"header", "body"}, NEW r \in Requests, NEW w,
         Emit(p, r, w)
  PROVE  /\ \A q \in Requests : Answered(q) => Answered(q)'
         /\ p = "body" /\ conn # "closed" => Answered(r)'
<1> DEFINE m == [part |-> p, req |-> r, what |-> w]
<1>1. output \in Seq([part : {"header", "body"}, req : Requests,
                      what : {"none", "service", "args", "method", "timeout",
                              "reply", "invalidRequest"}]) /\ Len(output) \in Nat
  BY DEF TypeOK
<1>2. m.part = p /\ m.req = r
  OBVIOUS
<1> HIDE DEF m
<1>3. CASE output' = output /\ conn = "closed"
  BY <1>3 DEF Answered
<1>4. CASE output' = Append(output, m)
  <2>1. /\ Len(output') = Len(output) + 1 /\ output'[Len(output) + 1] = m
        /\ \A i \in 1..Len(output) : output'[i] = output[i]
    BY <1>1, <1>4
  <2> QED BY <1>1, <1>2, <2>1 DEF Answered
<1> QED BY <1>3, <1>4 DEF Emit, m

(* No step leaves a request behind. *)
LEMMA NothingDroppedKept ==
  ASSUME IInv, TypeOK', [Next]_vars
  PROVE  NothingDropped'
<1> USE DEF IInv
<1>0. /\ pc \in [Threads -> {"idle", "option", "header", "service", "body", "wait", "select",
                             "await", "call", "called", "lock", "sendHeader", "sendBody",
                             "sent", "finished"}]
      /\ hErr \in [Requests -> {"none", "service", "args", "method", "timeout"}]
  BY DEF TypeOK
<1> USE <1>0, Names
(* A step that is through with no request. *)
<1>1. ASSUME conn' # "closed" => conn # "closed",
             \A r \in Requests : Answered(r) => Answered(r)',
             \A r \in Requests : pc'[Worker(r)] = "sent" => pc[Worker(r)] = "sent",
             \A r \in Requests : Untouched(r) \/ InHand(r) => Untouched(r)' \/ InHand(r)'
      PROVE  NothingDropped'
  BY <1>1 DEF NothingDropped
(* ... in particular none that leaves the loop at its request and the handlers where *)
(* they are.                                                                         *)
<1>2. ASSUME conn' # "closed" => conn # "closed", UNCHANGED <<cur, output>>,
             Serving' <=> Serving,
             \A r \in Requests : /\ pc'[Worker(r)] = "sent" => pc[Worker(r)] = "sent"
                                 /\ pc'[Handler(r)] = pc[Handler(r)]
                                 /\ hErr'[r] = hErr[r] \/ (Serving /\ cur = r)
      PROVE  NothingDropped'
  <2>1. \A r \in Requests : Answered(r) => Answered(r)'
    BY <1>2 DEF Answered
  <2>2. \A r \in Requests : Untouched(r) \/ InHand(r) => Untouched(r)' \/ InHand(r)'
    BY <1>2 DEF Untouched, InHand
  <2> QED BY <1>1, <1>2, <2>1, <2>2
<1>3. CASE ReadOption
  <2>1. /\ UNCHANGED <<cur, output, hErr>> /\ (conn' # "closed" => conn # "closed")
        /\ ~Serving /\ ~Serving'
    BY <1>3 DEF ReadOption, Goto, Serving
  <2>2. \A t \in Threads : t # Loop => pc'[t] = pc[t]
    BY <1>3 DEF ReadOption, Goto
  <2> QED BY <1>2, <2>1, <2>2
<1>4. CASE ReadHeader
  <2>1. UNCHANGED <<conn, output, hErr>> /\ ~Serving
    BY <1>4 DEF ReadHeader, Serving
  <2>2. \A t \in Threads : t # Loop => pc'[t] = pc[t]
    BY <1>4 DEF ReadHeader, Goto
  <2>3. \A r \in Requests : Untouched(r) \/ InHand(r) => Untouched(r)' \/ InHand(r)'
    BY <2>1, <2>2 DEF Untouched, InHand
  <2> QED BY <1>1, <2>1, <2>2, <2>3 DEF Answered
<1>5. CASE FindService
  <2>1. UNCHANGED <<conn, output, cur>> /\ Serving /\ Serving' /\ cur \in Requests
    BY <1>5 DEF FindService, Goto, Serving, PcInv
  <2>2. \A t \in Threads : t # Loop => pc'[t] = pc[t]
    BY <1>5 DEF FindService, Goto
  <2>3. \A r \in Requests : hErr'[r] = hErr[r] \/ cur = r
    BY <1>5 DEF FindService, SetErr
  <2> QED BY <1>2, <2>1, <2>2, <2>3
<1>6. CASE ReadBody
  <2>1. UNCHANGED <<conn, output, cur>> /\ Serving /\ cur \in Requests
    BY <1>6 DEF ReadBody, Serving, PcInv
  <2>2. CASE SetErr(cur, "args") /\ Goto(Loop, "lock")
    <3>1. Serving' /\ \A t \in Threads : t # Loop => pc'[t] = pc[t]
      BY <2>2 DEF Goto, Serving
    <3>2. \A r \in Requests : hErr'[r] = hErr[r] \/ cur = r
      BY <2>2 DEF SetErr
    <3> QED BY <1>2, <2>1, <3>1, <3>2
  <2>3. CASE /\ pc' = [pc EXCEPT ![Loop] = "header", ![Handler(cur)] = "select",
                                 ![Worker(cur)] = "call"]
             /\ UNCHANGED hErr
    <3>1. /\ pc'[Loop] = "header" /\ pc'[Handler(cur)] = "select" /\ pc'[Worker(cur)] = "call"
          /\ \A r \in Requests : r # cur => /\ pc'[Handler(r)] = pc[Handler(r)]
                                           /\ pc'[Worker(r)] = pc[Worker(r)]
      BY <2>1, <2>3
    <3>2. \A r \in Requests : Untouched(r) \/ InHand(r) => Untouched(r)' \/ InHand(r)'
      <4>1. ~Serving'
        BY <3>1 DEF Serving
      <4> QED BY <2>1, <2>3, <3>1, <4>1 DEF Untouched, InHand
    <3>3. \A r \in Requests : pc'[Worker(r)] = "sent" => pc[Worker(r)] = "sent"
      BY <3>1
    <3> QED BY <1>1, <2>1, <3>2, <3>3 DEF Answered
  <2> QED BY <1>6, <2>2, <2>3 DEF ReadBody
<1>7. CASE WaitAndClose
  BY <1>7 DEF WaitAndClose, NothingDropped
<1>8. ASSUME NEW r \in Requests, CallMethod(r) \/ MeetCalled(r) \/ Timeout(r)
      PROVE  NothingDropped'
  <2>1. UNCHANGED <<conn, output, cur>> /\ pc'[Loop] = pc[Loop]
    BY <1>8 DEF CallMethod, MeetCalled, Timeout, Goto
  <2>2. \A q \in Requests : /\ pc'[Worker(q)] = "sent" => pc[Worker(q)] = "sent"
                            /\ q # r => pc'[Handler(q)] = pc[Handler(q)] /\ hErr'[q] = hErr[q]
    BY <1>8 DEF CallMethod, MeetCalled, Timeout, Goto, SetErr
  <2>3. \/ pc'[Handler(r)] = pc[Handler(r)] /\ hErr'[r] = hErr[r]
        \/ pc'[Handler(r)] \in {"await", "lock"}
    BY <1>8 DEF CallMethod, MeetCalled, Timeout, Goto
  <2>4. \A q \in Requests : Untouched(q) \/ InHand(q) => Untouched(q)' \/ InHand(q)'
    BY <2>1, <2>2, <2>3 DEF Untouched, InHand, Serving
  <2> QED BY <1>1, <2>1, <2>2, <2>4 DEF Answered
(* The handler that receives from `sent` has nothing left to do. *)
<1>9. ASSUME NEW r \in Requests, MeetSent(r) PROVE NothingDropped'
  <2>1. /\ UNCHANGED <<conn, output, cur, hErr>> /\ pc'[Loop] = pc[Loop]
        /\ pc[Worker(r)] = "sent" /\ pc'[Worker(r)] = "finished"
        /\ \A q \in Requests : q # r => /\ pc'[Worker(q)] = pc[Worker(q)]
                                       /\ pc'[Handler(q)] = pc[Handler(q)]
    BY <1>9 DEF MeetSent
  <2>2. Answered(r)' <=> Answered(r)
    BY <2>1 DEF Answered
  <2>3. \A q \in Requests : q # r =>
          /\ Untouched(q) \/ InHand(q) => Untouched(q)' \/ InHand(q)'
          /\ Answered(q) => Answered(q)'
    BY <2>1 DEF Untouched, InHand, Serving, Answered
  <2> QED BY <2>1, <2>2, <2>3 DEF NothingDropped
<1>10. ASSUME NEW t \in Threads, SendLock(t) \/ SendHeader(t) PROVE NothingDropped'
  <2>1. /\ UNCHANGED <<conn, cur, hErr>>
        /\ \/ pc[t] = "lock" /\ pc' = [pc EXCEPT ![t] = "sendHeader"]
           \/ pc[t] = "sendHeader" /\ pc' = [pc EXCEPT ![t] = "sendBody"]
    BY <1>10 DEF SendLock, SendHeader, Goto
  <2>2. \A r \in Requests : Answered(r) => Answered(r)'
    <3>1. CASE SendLock(t)
      BY <3>1 DEF SendLock, Answered
    <3>2. CASE SendHeader(t)
      <4>1. RequestOf(t) \in Requests
        BY <3>2, Writer DEF SendHeader
      <4> QED BY <3>2, <4>1, Grows DEF SendHeader
    <3> QED BY <1>10, <3>1, <3>2
  <2>3. \A r \in Requests : /\ pc'[Worker(r)] = "sent" => pc[Worker(r)] = "sent"
                            /\ Untouched(r) \/ InHand(r) => Untouched(r)' \/ InHand(r)'
    BY <2>1 DEF Untouched, InHand, Serving
  <2> QED BY <1>1, <2>1, <2>2, <2>3
(* Whoever sends the response is through with its request. *)
<1>11. ASSUME NEW t \in Threads, SendBody(t), conn' # "closed" PROVE NothingDropped'
  <2>1. PICK r \in Requests : r = RequestOf(t)
    BY <1>11, Writer DEF SendBody
  <2>2. /\ pc[t] = "sendBody" /\ UNCHANGED <<cur, hErr>>
        /\ Emit("body", r, BodyOf(t)) /\ conn # "closed"
    BY <1>11, <2>1, SendBodyGoes DEF SendBody
  <2>3. Answered(r)' /\ \A q \in Requests : Answered(q) => Answered(q)'
    BY <2>2, Grows
  <2>4. ASSUME NEW q \in Requests, q # r
        PROVE  /\ pc'[Worker(q)] = "sent" => pc[Worker(q)] = "sent"
               /\ Untouched(q) \/ InHand(q) => Untouched(q)' \/ InHand(q)'
    <3>1. CASE t = Loop
      <4>1. r = cur /\ Serving /\ pc' = [pc EXCEPT ![t] = "header"]
        BY <1>11, <2>1, <2>2, <3>1, Requested, SendBodyGoes DEF Serving
      <4> QED BY <2>2, <2>4, <3>1, <4>1 DEF Untouched, InHand, Serving
    <3>2. ASSUME NEW s \in Requests, t = Handler(s) \/ t = Worker(s)
          PROVE  /\ pc'[Worker(q)] = "sent" => pc[Worker(q)] = "sent"
                 /\ Untouched(q) \/ InHand(q) => Untouched(q)' \/ InHand(q)'
      <4>1. s = r
        BY <2>1, <3>2, Requested
      <4>2. pc'[Loop] = pc[Loop] /\ pc'[Worker(q)] = pc[Worker(q)] /\ pc'[Handler(q)] = pc[Handler(q)]
        BY <1>11, <2>4, <3>2, <4>1, SendBodyGoes
      <4> QED BY <2>2, <4>2 DEF Untouched, InHand, Serving
    <3> QED BY <3>1, <3>2, Names
  <2> QED BY <2>2, <2>3, <2>4 DEF NothingDropped
<1>12. ASSUME NEW r \in Requests, Ask(r) PROVE NothingDropped'
  BY <1>2, <1>12 DEF Ask, Serving
<1>13. CASE PeerGone \/ Register \/ UNCHANGED vars
  BY <1>2, <1>13 DEF PeerGone, Register, vars, Serving
<1>14. ASSUME conn' = "closed" PROVE NothingDropped'
  BY <1>14 DEF NothingDropped
<1> QED
  <2> HIDE <1>0, Names DEF IInv
  <2> QED BY <1>3, <1>4, <1>5, <1>6, <1>7, <1>8, <1>9, <1>10, <1>11, <1>12, <1>13, <1>14
          DEF Next, LoopStep, Send, Terminated

LEMMA InitInv == Init => IInv
<1> SUFFICES ASSUME Init PROVE IInv
  OBVIOUS
<1>1. /\ pc[Loop] = "option" /\ \A r \in Requests : pc[Handler(r)] = "idle" /\ pc[Worker(r)] = "idle"
      /\ \A t \in Threads : pc[t] \in {"option", "idle"} /\ t # NoReq
      /\ ~Serving /\ input = <<>> /\ output = <<>> /\ sending = NoReq /\ asked = {}
  BY Names DEF Init, Serving
<1>2. TypeOK
  <2>1. /\ asked \in SUBSET Requests /\ cur \in Requests \cup {NoReq}
        /\ input \in Seq([part : {"header", "body", "torn"}, req : Requests])
        /\ output \in Seq([part : {"header", "body"}, req : Requests,
                           what : {"none", "service", "args", "method", "timeout",
                                   "reply", "invalidRequest"}])
    BY DEF Init
  <2>2. /\ pc \in [Threads -> {"idle", "option"}] /\ service \in BOOLEAN
        /\ hErr \in [Requests -> {"none"}] /\ result \in [Requests -> {"none"}]
        /\ sending \in Threads \cup {NoReq}
    BY DEF Init
  <2> QED BY <2>1, <2>2 DEF Init, TypeOK
<1>3. PcInv
  BY <1>1 DEF PcInv
<1>4. StreamInv
  BY <1>1 DEF StreamInv, Untouched, Init
<1>5. ErrInv
  BY <1>1 DEF ErrInv
<1>6. OutInv /\ WholeAnswers
  BY <1>1 DEF OutInv, WholeAnswers, Framed, AnsweredOnce, HonestHeader
<1>7. CauseInv
  BY <1>1 DEF CauseInv, Init
<1>8. KindInv
  BY <1>1 DEF KindInv
<1>9. NothingDropped
  BY <1>1 DEF NothingDropped, Untouched, Init
<1> QED BY <1>2, <1>3, <1>4, <1>5, <1>6, <1>7, <1>8, <1>9 DEF IInv

(* What holds of the server's goroutines, its stream and its responses at any time. *)
THEOREM Invariance == Spec => []IInv
<1>1. IInv /\ [Next]_vars => IInv'
  <2> SUFFICES ASSUME IInv, [Next]_vars PROVE IInv'
    OBVIOUS
  <2>1. TypeOK'
    BY TypeKept DEF IInv
  <2>2. PcInv'
    BY PcInvKept DEF IInv
  <2>3. StreamInv' /\ ErrInv'
    BY <2>1, StreamInvKept, ErrInvKept DEF IInv
  <2>4. OutInv' /\ WholeAnswers'
    BY <2>1, <2>2, OutKept
  <2>5. CauseInv'
    BY <2>1, CauseInvKept
  <2>6. KindInv'
    BY KindInvKept DEF IInv
  <2>7. NothingDropped'
    BY <2>1, NothingDroppedKept
  <2> QED BY <2>1, <2>2, <2>3, <2>4, <2>5, <2>6, <2>7 DEF IInv
<1> QED BY <1>1, InitInv, PTL DEF Spec

(* Every response a client finds on the connection is whole, the only one of its *)
(* request, and its header tells whether a reply follows, whichever of loop,     *)
(* handler and worker wrote it (sendResponse).                                   *)
THEOREM ResponsesAreWhole == Spec => []WholeAnswers
<1>1. IInv => WholeAnswers
  BY DEF IInv
<1> QED BY <1>1, Invariance, PTL

(* Once ServerCodec has returned no goroutine of the connection writes, the      *)
(* workers left behind are those of requests that ran out of time, and until the *)
(* connection is closed no request that was begun is left unanswered by its      *)
(* goroutines.                                                                   *)
THEOREM NothingElseIsLeft == Spec => []Inv
<1>1. IInv => Inv
  <2> SUFFICES ASSUME IInv PROVE Inv
    OBVIOUS
  <2>1. LeakedOnlyByTimeout
    BY DEF IInv, ErrInv, LeakedOnlyByTimeout
  <2>2. ASSUME pc[Loop] = "finished", NEW t \in Threads
        PROVE  pc[t] \notin {"lock", "sendHeader", "sendBody"}
    <3>1. CASE t = Loop
      BY <2>2, <3>1
    <3>2. ASSUME NEW r \in Requests, t = Handler(r) \/ t = Worker(r)
          PROVE  pc[t] \notin {"lock", "sendHeader", "sendBody"}
      BY <2>2, <3>2 DEF IInv, PcInv
    <3> QED BY <3>1, <3>2, Names
  <2>3. QuietAfterClose
    BY <2>2 DEF QuietAfterClose, IInv, PcInv, TypeOK
  <2> QED BY <2>1, <2>3 DEF Inv, IInv
<1> QED BY <1>1, Invariance, PTL

(* With a client that writes well the loop gives up a connection that is up only *)
(* for what findService left on the stream, or the decoder of the Option took    *)
(* from it (server.go:103, 112).                                                 *)
THEOREM LoopOnlyEndsForACause == Spec => []LoopEndsForACause
<1>1. IInv => LoopEndsForACause
  <2> SUFFICES ASSUME IInv, pc[Loop] = "wait", conn = "up"
               PROVE  \E r \in asked : \/ hErr[r] = "service"
                                       \/ /\ pc[Handler(r)] = "idle" /\ hErr[r] = "none"
                                          /\ ~ InStream(r)
    BY DEF LoopEndsForACause
  <2>1. PICK r \in asked : Lost(r)
    BY DEF IInv, CauseInv
  <2>2. CASE \A i \in 1..Len(input) : input[i] # Part("header", r)
    BY <2>1, <2>2 DEF Lost, Untouched, InStream
  <2> QED BY <2>1, <2>2 DEF Lost, Untouched
<1> QED BY <1>1, Invariance, PTL

-----------------------------------------------------------------------------
(* The responses, and what they say: RpcServer implements RpcAnswers.      *)

(* Pairs of a stream of messages. *)
LEMMA Halves ==
  ASSUME NEW n \in Nat
  PROVE  /\ n \div 2 \in Nat /\ \A i \in 1..(n \div 2) : 2 * i \in 1..n /\ 2 * i - 1 \in 1..n
         /\ n % 2 = 0 => (n + 1) \div 2 = n \div 2
         /\ n % 2 = 1 => (n + 1) \div 2 = n \div 2 + 1 /\ 2 * (n \div 2 + 1) = n + 1
OBVIOUS

Written == [part : {"header", "body"}, req : Requests,
            what : {"none", "service", "args", "method", "timeout", "reply", "invalidRequest"}]

LEMMA WholeLength == \A o : Len(o) \div 2 \in Nat => Len(Whole(o)) = Len(o) \div 2
<1> SUFFICES ASSUME NEW o, Len(o) \div 2 \in Nat PROVE Len(Whole(o)) = Len(o) \div 2
  OBVIOUS
<1> DEFINE h == Len(o) \div 2
           f(i) == [req |-> o[2 * i].req,
                    what |-> IF o[2 * i].what = "reply" THEN "reply" ELSE o[2 * i - 1].what]
<1>1. Whole(o) = [i \in 1..h |-> f(i)] /\ h \in Nat
  BY DEF Whole
<1> HIDE DEF h, f
<1>2. Len(Whole(o)) = h
  BY <1>1
<1> QED BY <1>2 DEF h

(* A header alone is no response ... *)
LEMMA HeaderAlone ==
  ASSUME NEW o \in Seq(Written), NEW m \in Written, Len(o) % 2 = 0
  PROVE  Whole(Append(o, m)) = Whole(o)
<1> DEFINE p == Append(o, m)
<1>1. /\ Len(o) \in Nat /\ Len(p) = Len(o) + 1 /\ \A i \in 1..Len(o) : p[i] = o[i]
  OBVIOUS
<1>2. Len(p) \div 2 = Len(o) \div 2
  BY <1>1, Halves
<1>3. \A i \in 1..(Len(o) \div 2) : p[2 * i] = o[2 * i] /\ p[2 * i - 1] = o[2 * i - 1]
  BY <1>1, Halves
<1> HIDE DEF p
<1>4. Whole(p) = Whole(o)
  BY <1>2, <1>3 DEF Whole
<1> QED BY <1>4 DEF p

(* ... with its body it is. *)
LEMMA BodyCompletes ==
  ASSUME NEW o \in Seq(Written), NEW m \in Written, Len(o) % 2 = 1,
         NEW w \in {"none", "service", "args", "method", "timeout", "reply", "invalidRequest"},
         w = IF m.what = "reply" THEN "reply" ELSE o[Len(o)].what
  PROVE  Whole(Append(o, m)) = Append(Whole(o), [req |-> m.req, what |-> w])
<1> DEFINE p == Append(o, m)
           h == Len(o) \div 2
           e == [req |-> m.req, what |-> w]
           at(s, i) == [req |-> s[2 * i].req,
                        what |-> IF s[2 * i].what = "reply" THEN "reply" ELSE s[2 * i - 1].what]
<1>1. /\ Len(o) \in Nat /\ Len(p) = Len(o) + 1 /\ p[Len(o) + 1] = m
      /\ \A i \in 1..Len(o) : p[i] = o[i]
  OBVIOUS
<1>2. h \in Nat /\ Len(p) \div 2 = h + 1 /\ 2 * (h + 1) = Len(o) + 1
  BY <1>1, Halves
<1>3. \A i \in 1..h : /\ 2 * i \in 1..Len(o) /\ 2 * i - 1 \in 1..Len(o)
                      /\ p[2 * i] = o[2 * i] /\ p[2 * i - 1] = o[2 * i - 1]
  BY <1>1, Halves
<1>4. at(p, h + 1) = e
  <2>1. 2 * (h + 1) - 1 = Len(o) /\ Len(o) \in 1..Len(o)
    BY <1>1, <1>2
  <2>2. p[2 * (h + 1)] = m /\ p[2 * (h + 1) - 1] = o[Len(o)]
    BY <1>1, <1>2, <2>1
  <2> QED BY <2>2
<1>5. Whole(p) = [i \in 1..(h + 1) |-> at(p, i)] /\ Whole(o) = [i \in 1..h |-> at(o, i)]
  BY <1>2 DEF Whole
<1>6. \A i \in 1..h : at(p, i) = at(o, i)
  BY <1>3
<1> DEFINE S == {at(o, i) : i \in 1..h} \cup {e}
<1>7. Whole(o) \in Seq(S) /\ Len(Whole(o)) = h
  <2> HIDE DEF at, h
  <2> QED BY <1>2, <1>5
<1> HIDE DEF p, h, e, at
<1>8. Append(Whole(o), e) = [i \in 1..(h + 1) |-> at(p, i)]
  <2>1. e \in S
    OBVIOUS
  <2> HIDE DEF S
  <2>2. /\ Append(Whole(o), e) \in Seq(S) /\ Len(Append(Whole(o), e)) = h + 1
        /\ \A i \in 1..h : Append(Whole(o), e)[i] = Whole(o)[i]
        /\ Append(Whole(o), e)[h + 1] = e
    BY <1>2, <1>7, <2>1
  <2>3. Append(Whole(o), e) = [i \in 1..(h + 1) |-> Append(Whole(o), e)[i]]
    <3> DEFINE q == Append(Whole(o), e)
    <3>1. q \in Seq(S) /\ Len(q) = h + 1
      BY <2>2
    <3> HIDE DEF q
    <3>2. q = [i \in 1..(h + 1) |-> q[i]]
      BY <3>1
    <3> QED BY <3>2 DEF q
  <2>4. \A i \in 1..(h + 1) : Append(Whole(o), e)[i] = at(p, i)
    <3>1. ASSUME NEW i \in 1..(h + 1) PROVE Append(Whole(o), e)[i] = at(p, i)
      <4>1. CASE i = h + 1
        BY <1>4, <2>2, <4>1
      <4>2. CASE i # h + 1
        <5>1. i \in 1..h
          BY <1>2, <4>2
        <5> QED BY <1>5, <1>6, <2>2, <5>1
      <4> QED BY <4>1, <4>2
    <3> QED BY <3>1
  <2> QED BY <2>3, <2>4
<1> QED BY <1>5, <1>8 DEF p, e

VerdictsKept == \A r \in Requests : VerdictOf(r)' = VerdictOf(r)

(* Neither decided nor answered. *)
LEMMA AnswersStutter ==
  ASSUME UNCHANGED <<conn, option, kind, service, asked>>, VerdictsKept,
         Whole(output)' = Whole(output)
  PROVE  [Answers!Next]_(Answers!vars)
BY DEF Answers!vars, VerdictsKept

LEMMA VerdictStays ==
  ASSUME NEW r \in Requests, hErr'[r] = hErr[r],
         hErr[r] = "none" => (pc'[Handler(r)] \in {"await", "finished"}
                                <=> pc[Handler(r)] \in {"await", "finished"})
  PROVE  VerdictOf(r)' = VerdictOf(r)
BY DEF VerdictOf

(* The connection fails, or is closed. *)
LEMMA AnswersGoDown ==
  ASSUME UNCHANGED <<option, kind, service, asked, output>>, VerdictsKept,
         conn' = "closed" \/ (conn = "up" /\ conn' = "peerGone")
  PROVE  [Answers!Next]_(Answers!vars)
<1>1. Answers!GoDown
  BY DEF Answers!GoDown, Answers!PeerGone, Answers!Close, VerdictsKept
<1> QED BY <1>1 DEF Answers!Next

LEMMA Decides ==
  ASSUME NEW r \in Requests, NEW v, option # "bad", r \in asked,
         VerdictOf(r) = "none", v \in Answers!Verdicts(r), VerdictOf(r)' = v,
         \A q \in Requests \ {r} : VerdictOf(q)' = VerdictOf(q),
         UNCHANGED <<conn, option, kind, service, asked, output>>
  PROVE  [Answers!Next]_(Answers!vars)
<1>1. [q \in Requests |-> VerdictOf(q)]' = [[q \in Requests |-> VerdictOf(q)] EXCEPT ![r] = v]
  OBVIOUS
<1>2. Answers!Decide(r, v)
  BY <1>1 DEF Answers!Decide
<1> QED BY <1>2 DEF Answers!Next

(* Something is done for requests that were made only. *)
LEMMA OnlyAsked ==
  ASSUME StreamInv, NEW r \in Requests, (Serving /\ cur = r) \/ pc[Handler(r)] # "idle"
  PROVE  r \in asked
BY DEF StreamInv, ToCome, Untouched

(* The loop decides when it finds no service, or no argument ... *)
LEMMA LoopAnswers ==
  ASSUME IInv, LoopStep
  PROVE  [Answers!Next]_(Answers!vars)
<1> USE DEF IInv
<1>0. /\ pc \in [Threads -> {"idle", "option", "header", "service", "body", "wait", "select",
                             "await", "call", "called", "lock", "sendHeader", "sendBody",
                             "sent", "finished"}]
      /\ hErr \in [Requests -> {"none", "service", "args", "method", "timeout"}]
      /\ kind \in [Requests -> AllKinds]
  BY ServerAssumption DEF TypeOK
<1> USE <1>0, Names
(* Only the loop moves. *)
<1>1. ASSUME NEW p, pc' = [pc EXCEPT ![Loop] = p], UNCHANGED hErr PROVE VerdictsKept
  <2>1. \A r \in Requests : pc'[Handler(r)] = pc[Handler(r)]
    BY <1>1
  <2> QED BY <1>1, <2>1 DEF VerdictOf, VerdictsKept
<1>2. ASSUME NEW v, NEW p, option # "bad", Serving, pc[Loop] \in {"service", "body"},
             v # "none", pc' = [pc EXCEPT ![Loop] = p], hErr' = [hErr EXCEPT ![cur] = v],
             v \in Answers!Verdicts(cur), UNCHANGED <<conn, option, kind, service, asked, output>>
      PROVE  [Answers!Next]_(Answers!vars)
  <2>1. PICK r \in Requests : r = cur
    BY <1>2 DEF PcInv
  <2>2. pc[Handler(r)] = "idle" /\ hErr[r] = "none" /\ r \in asked
    BY <1>2, <2>1, OnlyAsked DEF PcInv, ErrInv
  <2>3. \A q \in Requests : pc'[Handler(q)] = pc[Handler(q)]
    BY <1>2
  <2>4. hErr'[r] = v /\ \A q \in Requests \ {r} : hErr'[q] = hErr[q]
    BY <1>2, <2>1
  <2>5. VerdictOf(r) = "none" /\ VerdictOf(r)' = v
    BY <1>2, <2>2, <2>4 DEF VerdictOf
  <2>6. \A q \in Requests \ {r} : VerdictOf(q)' = VerdictOf(q)
    BY <2>3, <2>4 DEF VerdictOf
  <2>7. v \in Answers!Verdicts(r)
    BY <1>2, <2>1
  <2> QED BY <1>2, <2>2, <2>5, <2>6, <2>7, Decides
<1>3. CASE ReadOption
  <2>1. VerdictsKept
    BY <1>1, <1>3 DEF ReadOption, Goto
  <2> QED BY <1>3, <2>1, AnswersStutter, AnswersGoDown DEF ReadOption
<1>4. CASE ReadHeader
  <2>1. VerdictsKept
    BY <1>1, <1>4 DEF ReadHeader, Goto
  <2> QED BY <1>4, <2>1, AnswersStutter DEF ReadHeader
<1>5. CASE FindService
  <2>1. pc[Loop] = "service" /\ UNCHANGED <<conn, option, kind, service, asked, output>>
    BY <1>5 DEF FindService
  <2>2. CASE UNCHANGED hErr /\ pc' = [pc EXCEPT ![Loop] = "body"]
    BY <1>1, <2>1, <2>2, AnswersStutter
  <2>3. CASE /\ kind[cur] = "unknown" \/ ~service
             /\ hErr' = [hErr EXCEPT ![cur] = "service"] /\ pc' = [pc EXCEPT ![Loop] = "lock"]
    <3>1. option # "bad" /\ Serving
      BY <2>1 DEF KindInv, Serving
    <3>2. "service" \in Answers!Verdicts(cur)
      BY <2>3 DEF Answers!Verdicts
    <3> QED BY <1>2, <2>1, <2>3, <3>1, <3>2
  <2> QED BY <1>5, <2>2, <2>3 DEF FindService, SetErr, Goto
<1>6. CASE ReadBody
  <2>1. /\ pc[Loop] = "body" /\ UNCHANGED <<conn, option, kind, service, asked, output>>
        /\ cur \in Requests /\ pc[Handler(cur)] = "idle"
    BY <1>6 DEF ReadBody, PcInv, Serving
  <2>2. CASE /\ UNCHANGED hErr
             /\ pc' = [pc EXCEPT ![Loop] = "header", ![Handler(cur)] = "select",
                                 ![Worker(cur)] = "call"]
    <3>1. \A q \in Requests : pc'[Handler(q)] \in {"await", "finished"}
                                <=> pc[Handler(q)] \in {"await", "finished"}
      BY <2>1, <2>2
    <3>2. VerdictsKept
      BY <2>2, <3>1 DEF VerdictsKept, VerdictOf
    <3> QED BY <2>1, <3>2, AnswersStutter
  <2>3. CASE /\ kind[cur] = "badArgs" \/ conn # "up"
             /\ hErr' = [hErr EXCEPT ![cur] = "args"] /\ pc' = [pc EXCEPT ![Loop] = "lock"]
    <3>1. option # "bad" /\ Serving /\ kind[cur] # "unknown" /\ service
      BY <2>1 DEF KindInv, Serving
    <3>2. "args" \in Answers!Verdicts(cur)
      BY <2>1, <2>3, <3>1 DEF Answers!Verdicts, AllKinds
    <3> QED BY <1>2, <2>1, <2>3, <3>1, <3>2
  <2> QED BY <1>6, <2>2, <2>3 DEF ReadBody, SetErr, Goto
<1>7. CASE WaitAndClose
  <2>1. VerdictsKept
    BY <1>1, <1>7 DEF WaitAndClose, Goto
  <2> QED BY <1>7, <2>1, AnswersGoDown DEF WaitAndClose
<1> QED BY <1>3, <1>4, <1>5, <1>6, <1>7 DEF LoopStep

(* ... the handler when its time is up, or the worker brings the result. *)
LEMMA HandlerAnswers ==
  ASSUME IInv, NEW r \in Requests, CallMethod(r) \/ MeetCalled(r) \/ Timeout(r) \/ MeetSent(r)
  PROVE  [Answers!Next]_(Answers!vars)
<1> USE DEF IInv
<1>0. /\ pc \in [Threads -> {"idle", "option", "header", "service", "body", "wait", "select",
                             "await", "call", "called", "lock", "sendHeader", "sendBody",
                             "sent", "finished"}]
      /\ hErr \in [Requests -> {"none", "service", "args", "method", "timeout"}]
  BY DEF TypeOK
<1> USE <1>0, Names
<1>1. CASE CallMethod(r)
  <2>1. \A q \in Requests : pc'[Handler(q)] = pc[Handler(q)]
    BY <1>1 DEF CallMethod, Goto
  <2>2. VerdictsKept
    BY <1>1, <2>1 DEF VerdictsKept, VerdictOf, CallMethod
  <2> QED BY <1>1, <2>2, AnswersStutter DEF CallMethod
<1>2. CASE MeetSent(r)
  <2>1. \A q \in Requests : pc'[Handler(q)] \in {"await", "finished"}
                              <=> pc[Handler(q)] \in {"await", "finished"}
    BY <1>2 DEF MeetSent
  <2>2. VerdictsKept
    BY <1>2, <2>1 DEF VerdictsKept, VerdictOf, MeetSent
  <2> QED BY <1>2, <2>2, AnswersStutter DEF MeetSent
<1>3. CASE MeetCalled(r) \/ Timeout(r)
  <2>1. /\ pc[Handler(r)] = "select" /\ UNCHANGED <<conn, option, kind, service, asked, output>>
        /\ \A q \in Requests \ {r} : pc'[Handler(q)] = pc[Handler(q)] /\ hErr'[q] = hErr[q]
    BY <1>3 DEF MeetCalled, Timeout, SetErr, Goto
  <2>2. /\ hErr[r] = "none" /\ r \in asked
        /\ kind[r] = "valid" /\ service /\ option # "bad"
    BY <2>1, OnlyAsked DEF ErrInv, KindInv
  <2>3. VerdictOf(r) = "none" /\ \A q \in Requests \ {r} : VerdictOf(q)' = VerdictOf(q)
    BY <2>1, <2>2 DEF VerdictOf
  <2>4. \E v \in Answers!Verdicts(r) : VerdictOf(r)' = v
    <3>1. CASE MeetCalled(r)
      <4>1. pc'[Handler(r)] = "await" /\ hErr'[r] = IF result[r] = "err" THEN "method" ELSE "none"
        BY <2>2, <3>1 DEF MeetCalled
      <4>2. VerdictOf(r)' \in {"method", "reply"}
        BY <4>1 DEF VerdictOf
      <4> QED BY <2>2, <4>2 DEF Answers!Verdicts
    <3>2. CASE Timeout(r)
      <4>1. option = "limited" /\ hErr'[r] = "timeout"
        BY <3>2 DEF Timeout, SetErr
      <4>2. VerdictOf(r)' = "timeout"
        BY <4>1 DEF VerdictOf
      <4> QED BY <2>2, <4>1, <4>2 DEF Answers!Verdicts
    <3> QED BY <1>3, <3>1, <3>2
  <2> QED BY <2>1, <2>2, <2>3, <2>4, Decides
<1> QED BY <1>1, <1>2, <1>3

(* A response is sent in two messages. *)
LEMMA SenderAnswers ==
  ASSUME IInv, TypeOK', NEW t \in Threads, SendLock(t) \/ SendHeader(t) \/ SendBody(t)
  PROVE  [Answers!Next]_(Answers!vars)
<1> USE DEF IInv
<1>0. /\ pc \in [Threads -> {"idle", "option", "header", "service", "body", "wait", "select",
                             "await", "call", "called", "lock", "sendHeader", "sendBody",
                             "sent", "finished"}]
      /\ hErr \in [Requests -> {"none", "service", "args", "method", "timeout"}]
      /\ output \in Seq(Written) /\ Len(output) \in Nat
  BY DEF TypeOK, Written
<1> USE <1>0
(* The handler that ends has reported its timeout. *)
<1>1. VerdictsKept
  <2>1. UNCHANGED hErr
    BY SendBodyGoes DEF SendLock, SendHeader
  <2>2. pc[t] \in {"lock", "sendHeader", "sendBody"} /\ \E p : pc' = [pc EXCEPT ![t] = p]
    <3>1. CASE SendLock(t) \/ SendHeader(t)
      BY <3>1 DEF SendLock, SendHeader, Goto
    <3>2. CASE SendBody(t)
      BY <3>2, SendBodyGoes, Names
    <3> QED BY <3>1, <3>2
  <2>3. ASSUME NEW r \in Requests PROVE VerdictOf(r)' = VerdictOf(r)
    <3>1. CASE t = Handler(r)
      <4>1. hErr[r] = "timeout"
        BY <2>2, <3>1 DEF ErrInv
      <4> QED BY <2>1, <4>1 DEF VerdictOf
    <3>2. CASE t # Handler(r)
      <4>1. pc'[Handler(r)] = pc[Handler(r)]
        BY <2>2, <3>2, Names
      <4> QED BY <2>1, <4>1 DEF VerdictOf
    <3> QED BY <3>1, <3>2
  <2> QED BY <2>3 DEF VerdictsKept
<1>2. CASE SendLock(t)
  BY <1>1, <1>2, AnswersStutter DEF SendLock
<1>3. CASE SendHeader(t)
  <2> DEFINE r == RequestOf(t)
             m == [part |-> "header", req |-> r, what |-> hErr[r]]
  <2>1. /\ pc[t] = "sendHeader" /\ UNCHANGED <<conn, option, kind, service, asked>>
        /\ output' = IF conn = "closed" THEN output ELSE Append(output, m)
    BY <1>3 DEF SendHeader, Emit
  <2>2. r \in Requests /\ \A u \in Threads : pc[u] # "sendBody"
    BY <2>1, Writer
  <2>3. m \in Written
    BY <2>2 DEF Written
  <2> HIDE DEF m, r
  <2>4. Whole(output)' = Whole(output)
    <3>1. CASE conn = "closed"
      BY <2>1, <3>1
    <3>2. CASE conn # "closed"
      <4>1. Len(output) % 2 = 0
        BY <2>2, <3>2 DEF OutInv
      <4> QED BY <2>1, <2>3, <3>2, <4>1, HeaderAlone
    <3> QED BY <3>1, <3>2
  <2> QED BY <1>1, <2>1, <2>4, AnswersStutter
<1>4. CASE SendBody(t)
  <2> DEFINE r == RequestOf(t)
             m == [part |-> "body", req |-> r, what |-> BodyOf(t)]
  <2>1. pc[t] = "sendBody" /\ UNCHANGED <<option, kind, service, asked>>
    BY <1>4, SendBodyGoes
  <2>2. r \in Requests /\ (hErr[r] = "none" <=> BodyOf(t) = "reply")
    BY <2>1, Writer
  <2>3. m \in Written
    BY <2>2 DEF Written, BodyOf
  <2>4. CASE output' = output /\ conn' = "closed"
    BY <1>1, <2>1, <2>4, AnswersGoDown
  <2>5. CASE /\ conn # "closed" /\ output' = Append(output, m)
             /\ conn' = conn \/ (conn = "peerGone" /\ conn' = "closed")
    <3>1. /\ Len(output) % 2 = 1 /\ output[Len(output)].req = r
          /\ \A i \in 1..Len(output) : output[i].req = r => i = Len(output)
          /\ output[Len(output)].what = hErr[r]
      <4>1. Len(output) % 2 = 1 /\ output[Len(output)].req = r
        BY <2>1, <2>5 DEF OutInv
      <4>2. Len(output) \in 1..Len(output)
        BY <4>1
      <4> QED BY <2>1, <4>1, <4>2 DEF OutInv
    <3>2. VerdictOf(r) # "none"
          /\ VerdictOf(r) = IF BodyOf(t) = "reply" THEN "reply" ELSE hErr[r]
      <4>1. CASE hErr[r] # "none"
        BY <2>2, <4>1 DEF VerdictOf
      <4>2. CASE hErr[r] = "none"
        <5>1. t[1] = "worker" /\ BodyOf(t) = "reply"
          BY <2>2, <4>2 DEF BodyOf
        <5>2. t = Worker(r) /\ pc[Handler(r)] = "await"
          <6>1. PICK q \in Requests : t = Worker(q)
            BY <5>1, Names DEF Loop, Handler
          <6>2. q = r
            BY <6>1, Requested
          <6> QED BY <2>1, <6>1, <6>2 DEF PcInv
        <5> QED BY <4>2, <5>1, <5>2 DEF VerdictOf
      <4> QED BY <4>1, <4>2
    <3> DEFINE w == IF BodyOf(t) = "reply" THEN "reply" ELSE hErr[r]
    <3>3. Whole(output)' = Append(Whole(output), [req |-> r, what |-> VerdictOf(r)])
      <4>1. m.req = r /\ m.what = BodyOf(t)
        OBVIOUS
      <4>2. /\ w \in {"none", "service", "args", "method", "timeout", "reply", "invalidRequest"}
            /\ w = IF m.what = "reply" THEN "reply" ELSE output[Len(output)].what
        BY <2>2, <3>1
      <4> HIDE DEF m, w
      <4>3. Whole(Append(output, m)) = Append(Whole(output), [req |-> m.req, what |-> w])
        BY <2>3, <3>1, <4>2, BodyCompletes
      <4>4. VerdictOf(r) = w
        BY <3>2 DEF w
      <4> QED BY <2>5, <4>1, <4>3, <4>4
    <3>4. \A i \in 1..Len(Whole(output)) : Whole(output)[i].req # r
      <4>1. ASSUME NEW i \in 1..(Len(output) \div 2) PROVE output[2 * i].req # r
        <5>1. 2 * i \in 1..Len(output) /\ 2 * i # Len(output)
          BY <3>1, Halves
        <5> QED BY <3>1, <5>1
      <4>2. Len(Whole(output)) = Len(output) \div 2
        BY Halves, WholeLength
      <4> QED BY <4>1, <4>2 DEF Whole
    <3>5. Answers!Answer(r)
      <4> HIDE DEF r, m
      <4> QED BY <1>1, <2>1, <2>2, <2>5, <3>2, <3>3, <3>4 DEF Answers!Answer, VerdictsKept
    <3> QED BY <2>2, <3>5 DEF Answers!Next
  <2>6. CASE conn = "closed" /\ UNCHANGED <<conn, output>>
    BY <1>1, <2>1, <2>6, AnswersStutter
  <2> QED BY <1>4, <2>4, <2>5, <2>6 DEF SendBody, Emit
<1> QED BY <1>2, <1>3, <1>4

LEMMA NextAnswers == IInv /\ IInv' /\ [Next]_vars => [Answers!Next]_(Answers!vars)
<1> SUFFICES ASSUME IInv, IInv', [Next]_vars PROVE [Answers!Next]_(Answers!vars)
  OBVIOUS
<1>0. TypeOK'
  BY DEF IInv
<1>1. ASSUME UNCHANGED <<pc, hErr>> PROVE VerdictsKept
  BY <1>1 DEF VerdictsKept, VerdictOf
<1>2. ASSUME NEW r \in Requests, Ask(r) PROVE [Answers!Next]_(Answers!vars)
  <2>1. VerdictsKept
    BY <1>1, <1>2 DEF Ask
  <2>2. Answers!Ask(r)
    BY <1>2, <2>1 DEF Ask, Answers!Ask, VerdictsKept
  <2> QED BY <2>2 DEF Answers!Next
<1>3. CASE PeerGone
  <2>1. VerdictsKept
    BY <1>1, <1>3 DEF PeerGone
  <2> QED BY <1>3, <2>1, AnswersGoDown DEF PeerGone
<1>4. CASE Register
  <2>1. VerdictsKept
    BY <1>1, <1>4 DEF Register
  <2>2. Answers!Register
    BY <1>4, <2>1 DEF Register, Answers!Register, VerdictsKept
  <2> QED BY <2>2 DEF Answers!Next
<1>5. CASE UNCHANGED vars
  <2>1. VerdictsKept
    BY <1>1, <1>5 DEF vars
  <2> QED BY <1>5, <2>1, AnswersStutter DEF vars
<1> QED BY <1>0, <1>2, <1>3, <1>4, <1>5, LoopAnswers, HandlerAnswers, SenderAnswers
       DEF Next, Send, Terminated

LEMMA InitAnswers == Init => Answers!Init
<1> SUFFICES ASSUME Init PROVE Answers!Init
  OBVIOUS
<1>1. \A r \in Requests : VerdictOf(r) = "none"
  BY Names DEF Init, VerdictOf
<1>2. Whole(output) = <<>>
  <2>1. Len(output) \div 2 = 0
    BY DEF Init
  <2> QED BY <2>1 DEF Whole
<1> QED BY <1>1, <1>2 DEF Init, Answers!Init

(* What becomes of a request is decided once, by whichever of the timeout, the   *)
(* result, an error and the failing connection comes first, and the client is    *)
(* told that in one whole response or nothing (server.go, ServerCodec to         *)
(* sendResponse).                                                                *)
THEOREM AnswersWhatWasDecided == Spec => ImplementsAnswers
BY InitAnswers, NextAnswers, Invariance, PTL DEF Spec, ImplementsAnswers, Answers!Spec
=============================================================================
