------------------------------ MODULE RpcClient ------------------------------
(***************************************************************************)
(* One SuRPC Client (SuRPC/client.go): the goroutines that issue calls     *)
(* with Call or Go, the receive goroutine that hands out the answers, and  *)
(* terminateCalls, which ends what is pending when the connection fails.   *)
(*                                                                         *)
(* Two mutexes are modelled by the goroutine holding them: `sending` and   *)
(* `mu`.  Only terminateCalls keeps mu across steps (it sends on channels  *)
(* while holding it); every other critical section of mu is one step that  *)
(* needs mu to be free.  The server and the network are external: any      *)
(* request in flight may be answered, in any order, at most once.          *)
(***************************************************************************)
EXTENDS Naturals, FiniteSets

CONSTANTS
  SyncCalls,      \* calls made with Call: a Done channel of capacity 1 each
  DeadlineCalls,  \* those of them whose context expires some day
  AsyncCalls,     \* calls made with Go: they share one Done channel ...
  AsyncCap,       \* ... of this capacity (Go panics when it is 0)
  Receiver,       \* the receive goroutine, as holder of a mutex
  NoOne           \* holds a free mutex; also "no call"

Calls == SyncCalls \cup AsyncCalls

ASSUME CallsAssumption ==
  /\ SyncCalls \cap AsyncCalls = {}
  /\ DeadlineCalls \subseteq SyncCalls
  /\ AsyncCap \in Nat \ {0}
  /\ Receiver \notin Calls
  /\ NoOne \notin Calls
  /\ Receiver # NoOne

VARIABLES
  conn,      \* "up", "peerGone" (closed or lost by the other side), "closed"
  flight,    \* requests the server holds: [seq, call]
  closing, shutdown,
  sending, mu,
  seq,       \* Client.seq
  pending,   \* Client.pending: seq -> call
  pc,        \* where the goroutine of each call stands
  seqOf,     \* call.Seq, 0 until registered
  error,     \* call.Error: "nil" or the kind of error
  reply,     \* whose answer was decoded into call.Reply
  done,      \* the calls lying in their Done channel
  rpc,       \* where the receive goroutine stands
  msg,       \* the response whose header it read: [seq, call, kind]
  cur,       \* the call it removed for this response, or NoOne
  failed,    \* its local err is not nil
  sweep,     \* sequence numbers terminateCalls has still to visit
  \* history, read by the properties only
  signals,   \* how often done() ran for each call
  revoked    \* calls that expired while pending, before any shutdown

clientVars == <<closing, shutdown, sending, mu, seq, pending>>
callVars == <<pc, seqOf, error, reply>>
recvVars == <<rpc, msg, cur, failed, sweep>>
vars == <<conn, flight, clientVars, callVars, done, recvVars,
          signals, revoked>>

SendPc == {"register", "reject", "write"}   \* pcs at which `sending` is held
Kinds == {"ok", "err", "mismatch"}
NoMsg == [seq |-> 0, call |-> NoOne, kind |-> "none"]

TypeOK ==
  /\ conn \in {"up", "peerGone", "closed"}
  /\ flight \in SUBSET [seq : Nat, call : Calls]
  /\ closing \in BOOLEAN /\ shutdown \in BOOLEAN
  /\ sending \in Calls \cup {Receiver, NoOne}
  /\ mu \in {Receiver, NoOne}
  /\ seq \in Nat
  /\ DOMAIN pending \in SUBSET Nat
  /\ \A s \in DOMAIN pending : pending[s] \in Calls
  /\ pc \in [Calls -> SendPc \cup {"idle", "lock", "wait", "expired", "returned"}]
  /\ seqOf \in [Calls -> Nat]
  /\ error \in [Calls -> {"nil", "shutdown", "server", "body", "conn"}]
  /\ reply \in [Calls -> Calls \cup {NoOne}]
  /\ done \in SUBSET Calls
  /\ rpc \in {"header", "remove", "body", "done", "lockSending", "lockMu",
              "terminate", "exited"}
  /\ msg \in [seq : Nat, call : Calls, kind : Kinds] \cup {NoMsg}
  /\ cur \in Calls \cup {NoOne}
  /\ failed \in BOOLEAN
  /\ sweep \in SUBSET Nat
  /\ signals \in [Calls -> Nat]
  /\ revoked \in SUBSET Calls

Init ==
  /\ conn = "up" /\ flight = {}
  /\ closing = FALSE /\ shutdown = FALSE
  /\ sending = NoOne /\ mu = NoOne
  /\ seq = 1 /\ pending = [s \in {} |-> NoOne]
  /\ pc = [c \in Calls |-> "idle"]
  /\ seqOf = [c \in Calls |-> 0]
  /\ error = [c \in Calls |-> "nil"]
  /\ reply = [c \in Calls |-> NoOne]
  /\ done = {}
  /\ rpc = "header" /\ msg = NoMsg /\ cur = NoOne /\ failed = FALSE
  /\ sweep = {}
  /\ signals = [c \in Calls |-> 0] /\ revoked = {}

Goto(c, p) == pc' = [pc EXCEPT ![c] = p]

\* IsAvailable, and the check registerCall makes.  Mutant: without shutdown.
NotClosing == ~closing
Usable == ~shutdown /\ ~closing

\* Mutant: the sequence number is not advanced.
SameSeq == seq
NextSeq == seq + 1

\* pending with one entry deleted (a no-op when it is absent, as in Go).
\* Mutant: it is read and not deleted.
Kept(s) == pending
Without(s) == [t \in DOMAIN pending \ {s} |-> pending[t]]

\* sending.Unlock.  Mutant: it is forgotten.
StayLocked == UNCHANGED sending
Unlock == sending' = NoOne

\* Room in the Done channel of c; without it `call.Done <- call` blocks.
HasRoom(c) ==
  IF c \in SyncCalls THEN c \notin done
                     ELSE Cardinality(done \cap AsyncCalls) < AsyncCap

\* done(): hand c to its Done channel.
Signal(c) ==
  /\ HasRoom(c)
  /\ done' = done \cup {c}
  /\ signals' = [signals EXCEPT ![c] = @ + 1]

-----------------------------------------------------------------------------
(* The goroutine of a call: Call or Go, then send.                         *)

Start(c) ==
  /\ pc[c] = "idle"
  /\ Goto(c, "lock")
  /\ UNCHANGED <<conn, flight, clientVars, seqOf, error, reply, done, recvVars,
                 signals, revoked>>

LockSending(c) ==
  /\ pc[c] = "lock" /\ sending = NoOne
  /\ sending' = c
  /\ Goto(c, "register")
  /\ UNCHANGED <<conn, flight, closing, shutdown, mu, seq, pending, seqOf,
                 error, reply, done, recvVars, signals, revoked>>

RegisterCall(c) ==
  /\ pc[c] = "register" /\ mu = NoOne
  /\ IF Usable
     THEN /\ seqOf' = [seqOf EXCEPT ![c] = seq]
          /\ pending' = [s \in DOMAIN pending \cup {seq} |->
                           IF s = seq THEN c ELSE pending[s]]
          /\ seq' = NextSeq
          /\ Goto(c, "write")
          /\ UNCHANGED error
     ELSE /\ error' = [error EXCEPT ![c] = "shutdown"]
          /\ Goto(c, "reject")
          /\ UNCHANGED <<seq, pending, seqOf>>
  /\ UNCHANGED <<conn, flight, closing, shutdown, sending, mu, reply, done,
                 recvVars, signals, revoked>>

\* done() of a refused call runs while `sending` is held.
Reject(c) ==
  /\ pc[c] = "reject"
  /\ Signal(c)
  /\ Unlock
  /\ Goto(c, "wait")
  /\ UNCHANGED <<conn, flight, closing, shutdown, mu, seq, pending, seqOf,
                 error, reply, recvVars, revoked>>

\* cc.Write: the request reaches the server, is lost on a connection that is
\* not up (Flush's error is dropped), or fails to encode, which makes the codec
\* close the connection.  send tests the err of registerCall, nil by now, so no
\* failure of the write removes or ends the call here.
Write(c) ==
  /\ pc[c] = "write"
  /\ \/ /\ conn = "up"
        /\ flight' = flight \cup {[seq |-> seqOf[c], call |-> c]}
        /\ UNCHANGED conn
     \/ conn # "up" /\ UNCHANGED <<conn, flight>>
     \/ conn' = "closed" /\ UNCHANGED flight
  /\ Unlock
  /\ Goto(c, "wait")
  /\ UNCHANGED <<closing, shutdown, mu, seq, pending, seqOf, error, reply, done,
                 recvVars, signals, revoked>>

\* Call's select on Done, or the reader of the shared channel of Go.
TakeDone(c) ==
  /\ pc[c] = "wait" /\ c \in done
  /\ done' = done \ {c}
  /\ Goto(c, "returned")
  /\ UNCHANGED <<conn, flight, clientVars, seqOf, error, reply, recvVars,
                 signals, revoked>>

\* Call's select on ctx.Done().
Expire(c) ==
  /\ c \in DeadlineCalls /\ pc[c] = "wait"
  /\ Goto(c, "expired")
  /\ UNCHANGED <<conn, flight, clientVars, seqOf, error, reply, done, recvVars,
                 signals, revoked>>

\* ... followed by removeCall(call.Seq) and the return of the context's error.
RemoveExpired(c) ==
  /\ pc[c] = "expired" /\ mu = NoOne
  /\ pending' = Without(seqOf[c])
  /\ revoked' = IF ~shutdown /\ seqOf[c] \in DOMAIN pending
                THEN revoked \cup {c} ELSE revoked
  /\ Goto(c, "returned")
  /\ UNCHANGED <<conn, flight, closing, shutdown, sending, mu, seq, seqOf,
                 error, reply, done, recvVars, signals>>

-----------------------------------------------------------------------------
(* The receive goroutine.                                                  *)

\* ReadHeader delivers the answer to some request in flight ...
ReadHeader(m, kind) ==
  /\ rpc = "header" /\ m \in flight
  /\ flight' = flight \ {m}
  /\ msg' = [seq |-> m.seq, call |-> m.call, kind |-> kind]
  /\ rpc' = "remove"
  /\ UNCHANGED <<conn, clientVars, callVars, done, cur, failed, sweep,
                 signals, revoked>>

\* ... or fails, which a connection that is not up makes possible.
ReadFails ==
  /\ rpc = "header" /\ conn # "up"
  /\ failed' = TRUE
  /\ rpc' = "lockSending"
  /\ UNCHANGED <<conn, flight, clientVars, callVars, done, msg, cur, sweep,
                 signals, revoked>>

RemoveCall ==
  /\ rpc = "remove" /\ mu = NoOne
  /\ cur' = IF msg.seq \in DOMAIN pending THEN pending[msg.seq] ELSE NoOne
  /\ pending' = Without(msg.seq)
  /\ rpc' = "body"
  /\ UNCHANGED <<conn, flight, closing, shutdown, sending, mu, seq, callVars,
                 done, msg, failed, sweep, signals, revoked>>

\* Where the loop goes after the body.
AfterBody(fails) ==
  IF cur # NoOne THEN "done" ELSE IF fails THEN "lockSending" ELSE "header"

\* ReadBody can fail once the connection is not up, and always fails when the
\* answer does not decode into the caller's Reply.
ReadBody ==
  /\ rpc = "body"
  /\ \E fails \in BOOLEAN :
       /\ fails => conn # "up" \/ (cur # NoOne /\ msg.kind = "mismatch")
       /\ (cur # NoOne /\ msg.kind = "mismatch") => fails
       /\ failed' = fails
       /\ rpc' = AfterBody(fails)
       /\ \/ cur = NoOne /\ UNCHANGED <<error, reply>>
          \/ /\ cur # NoOne /\ msg.kind = "err"
             /\ error' = [error EXCEPT ![cur] = "server"]
             /\ UNCHANGED reply
          \/ /\ cur # NoOne /\ msg.kind # "err" /\ fails
             /\ error' = [error EXCEPT ![cur] = "body"]
             /\ UNCHANGED reply
          \/ /\ cur # NoOne /\ msg.kind # "err" /\ ~fails
             /\ reply' = [reply EXCEPT ![cur] = msg.call]
             /\ UNCHANGED error
  /\ UNCHANGED <<conn, flight, clientVars, pc, seqOf, done, msg, cur, sweep,
                 signals, revoked>>

\* call.done() at the end of an iteration of the loop.
SignalAnswer ==
  /\ rpc = "done"
  /\ Signal(cur)
  /\ cur' = NoOne
  /\ rpc' = IF failed THEN "lockSending" ELSE "header"
  /\ UNCHANGED <<conn, flight, clientVars, callVars, msg, failed, sweep,
                 revoked>>

\* terminateCalls takes sending, then mu, and keeps both to its end.
TerminateLockSending ==
  /\ rpc = "lockSending" /\ sending = NoOne
  /\ sending' = Receiver
  /\ rpc' = "lockMu"
  /\ UNCHANGED <<conn, flight, closing, shutdown, mu, seq, pending, callVars,
                 done, msg, cur, failed, sweep, signals, revoked>>

TerminateLockMu ==
  /\ rpc = "lockMu" /\ mu = NoOne
  /\ mu' = Receiver
  /\ shutdown' = TRUE
  /\ sweep' = DOMAIN pending
  /\ rpc' = "terminate"
  /\ UNCHANGED <<conn, flight, closing, sending, seq, pending, callVars, done,
                 msg, cur, failed, signals, revoked>>

\* One iteration over pending, in the map's arbitrary order; entries stay.
TerminateOne(s) ==
  /\ rpc = "terminate" /\ s \in sweep
  /\ error' = [error EXCEPT ![pending[s]] = "conn"]
  /\ Signal(pending[s])
  /\ sweep' = sweep \ {s}
  /\ UNCHANGED <<conn, flight, clientVars, pc, seqOf, reply, rpc, msg, cur,
                 failed, revoked>>

TerminateEnd ==
  /\ rpc = "terminate" /\ sweep = {}
  /\ sending' = NoOne /\ mu' = NoOne
  /\ rpc' = "exited"
  /\ UNCHANGED <<conn, flight, closing, shutdown, seq, pending, callVars, done,
                 msg, cur, failed, sweep, signals, revoked>>

-----------------------------------------------------------------------------
(* The user's Close() and the other end of the connection.                 *)

Close ==
  /\ mu = NoOne
  /\ IF shutdown
     THEN UNCHANGED <<closing, conn>>
     ELSE closing' = TRUE /\ conn' = "closed"
  /\ UNCHANGED <<flight, shutdown, sending, mu, seq, pending, callVars, done,
                 recvVars, signals, revoked>>

PeerGone ==
  /\ conn = "up"
  /\ conn' = "peerGone"
  /\ UNCHANGED <<flight, clientVars, callVars, done, recvVars,
                 signals, revoked>>

-----------------------------------------------------------------------------

CallStep(c) ==
  \/ LockSending(c) \/ RegisterCall(c) \/ Reject(c) \/ Write(c)
  \/ TakeDone(c) \/ Expire(c) \/ RemoveExpired(c)

ReadAnswer == \E m \in flight, kind \in Kinds : ReadHeader(m, kind)

ReceiveStep ==
  \/ ReadFails \/ RemoveCall \/ ReadBody \/ SignalAnswer
  \/ TerminateLockSending \/ TerminateLockMu
  \/ (\E s \in sweep : TerminateOne(s)) \/ TerminateEnd

Next ==
  \/ \E c \in Calls : Start(c) \/ CallStep(c)
  \/ ReadAnswer \/ ReceiveStep
  \/ Close \/ PeerGone

Spec == Init /\ [][Next]_vars

\* Every goroutine that can run does; Go's mutexes are starvation free, so a
\* caller that waits for `sending` gets it; deadlines expire.  Nothing is
\* assumed of the server, of the readers of Go's channel, nor that Close or a
\* loss of the connection ever happens.
ClientFairness ==
  /\ WF_vars(ReceiveStep)
  /\ \A c \in Calls : /\ SF_vars(LockSending(c))
                      /\ WF_vars(RegisterCall(c) \/ Reject(c) \/ Write(c))
  /\ \A c \in SyncCalls : WF_vars(TakeDone(c))
  /\ \A c \in DeadlineCalls : WF_vars(Expire(c)) /\ WF_vars(RemoveExpired(c))
  /\ SF_vars(TerminateLockSending)

FairSpec == Spec /\ ClientFairness

-----------------------------------------------------------------------------
(* Properties.                                                             *)

\* done() runs at most once per call, whatever the race between an answer, a
\* refusal, the expiry of the context and terminateCalls: a second send on the
\* one-place channel of Call would block the goroutine that makes it for ever.
SignalledOnce == \A c \in Calls : signals[c] <= 1

\* The client takes its two mutexes and sends on channels while it holds them
\* (client.go:104, 256), yet nobody waits for ever in a circle: whoever holds
\* `sending` can go on, and so can receive with an answer, unless the call it has
\* to signal was made with Go, whose channel may be full.
OnlyGoBlocks ==
  /\ \A c \in Calls : sending = c =>
       \/ pc[c] = "register" /\ mu = NoOne
       \/ pc[c] = "reject" /\ (HasRoom(c) \/ c \in AsyncCalls)
       \/ pc[c] = "write"
  /\ sending = Receiver =>
       \/ rpc = "lockMu" /\ mu = NoOne
       \/ rpc = "terminate" /\ \A s \in sweep : HasRoom(pending[s]) \/ pending[s] \in AsyncCalls
  /\ rpc = "done" => HasRoom(cur) \/ cur \in AsyncCalls
  /\ mu # NoOne => sending = Receiver

\* The type invariant, with the signals and the locks.
Inv == TypeOK /\ SignalledOnce /\ OnlyGoBlocks

\* The Reply of a call is only ever filled with the answer to that call,
\* although answers come in any order and calls may be gone when theirs comes.
ReplyIsOwn == \A c \in Calls : reply[c] \in {c, NoOne}

\* Once the receive goroutine has gone nobody can complete a call any more, so
\* none may be left waiting for a signal: registerCall must not let a call slip
\* in behind the sweep of terminateCalls.
NoOrphan ==
  rpc = "exited" => \A c \in Calls : pc[c] = "wait" => signals[c] = 1

\* A call whose expiry found it still pending (and not yet swept) belongs to its
\* caller again: it is never signalled and its Reply is never written, even by
\* a late answer or by terminateCalls.
RevokedUntouched ==
  \A c \in revoked : signals[c] = 0 /\ reply[c] = NoOne

\* A call that nobody signalled is in the hands of somebody who will: pending
\* has it, or the receive goroutine took it out.
WaitingIsHeld ==
  \A c \in Calls : pc[c] = "wait" /\ signals[c] = 0 =>
    \/ seqOf[c] \in DOMAIN pending /\ pending[seqOf[c]] = c
    \/ cur = c

\* client.go:294, a call whose context expires returns, however the connection
\* fares.
DeadlineReturns ==
  \A c \in DeadlineCalls : pc[c] = "lock" ~> pc[c] = "returned"

ChannelsAreRead == \A c \in AsyncCalls : WF_vars(TakeDone(c))

\* When the server answers what it holds and the Done channels given to Go are
\* read, every call returns.
EveryCallReturns ==
  ChannelsAreRead /\ WF_vars(ReadAnswer) =>
    \A c \in Calls : pc[c] = "lock" ~> pc[c] = "returned"

-----------------------------------------------------------------------------
(* The inductive invariant behind these (RpcClientProofs).                 *)

\* Who holds the mutexes, and what terminateCalls guards with them.
LockInv ==
  /\ \A c \in Calls : pc[c] \in SendPc <=> sending = c
  /\ sending = Receiver <=> rpc \in {"lockMu", "terminate"}
  /\ mu = Receiver <=> rpc = "terminate"
  /\ shutdown <=> rpc \in {"terminate", "exited"}

\* Sequence numbers are given once, and pending, the requests in flight and the
\* response being read all agree with them.
SeqInv ==
  /\ \A c \in Calls : seqOf[c] < seq
  /\ \A c, d \in Calls : seqOf[c] = seqOf[d] /\ seqOf[c] # 0 => c = d
  /\ \A c \in Calls : pc[c] \in {"idle", "lock", "register", "reject"} => seqOf[c] = 0
  /\ \A s \in DOMAIN pending : s # 0 /\ seqOf[pending[s]] = s
  /\ \A m \in flight : m.seq # 0 /\ seqOf[m.call] = m.seq
  /\ rpc \in {"remove", "body", "done"} =>
       /\ msg.call \in Calls
       /\ msg.seq # 0 /\ seqOf[msg.call] = msg.seq

\* Each unsignalled call has one owner: pending (until it is swept) or cur.
OwnerInv ==
  /\ sweep \subseteq DOMAIN pending
  /\ rpc # "terminate" => sweep = {}
  /\ \A s \in DOMAIN pending :
       signals[pending[s]] = IF shutdown /\ s \notin sweep THEN 1 ELSE 0
  /\ rpc = "done" => cur # NoOne
  /\ cur # NoOne => /\ rpc \in {"body", "done"}
                    /\ cur = msg.call
                    /\ signals[cur] = 0
                    /\ seqOf[cur] \notin DOMAIN pending
  /\ \A c \in Calls :
       /\ signals[c] <= 1
       /\ pc[c] \in {"idle", "lock", "register", "reject"} => signals[c] = 0
       /\ pc[c] = "write" => seqOf[c] # 0
       /\ pc[c] \in {"write", "wait"} /\ signals[c] = 0 =>
            seqOf[c] \in DOMAIN pending \/ cur = c

\* A Reply is written while the receive goroutine owns the call, not before.
ReplyInv ==
  /\ \A c \in Calls :
       /\ reply[c] \in {c, NoOne}
       /\ pc[c] \in {"idle", "lock", "register", "reject"} => reply[c] = NoOne
  /\ \A s \in DOMAIN pending : reply[pending[s]] = NoOne
  /\ \A c \in revoked :
       /\ pc[c] = "returned" /\ seqOf[c] \notin DOMAIN pending /\ cur # c
       /\ seqOf[c] # 0 /\ signals[c] = 0 /\ reply[c] = NoOne

\* What a signalled call carries, and where its signal is.
OutcomeInv ==
  /\ \A c \in done : signals[c] = 1
  /\ \A c \in Calls :
       /\ pc[c] \in {"write", "wait", "expired"} /\ signals[c] = 1 => c \in done
       /\ pc[c] = "expired" => c \in DeadlineCalls
       /\ pc[c] = "reject" => error[c] = "shutdown"
       /\ pc[c] \in {"wait", "expired"} /\ seqOf[c] = 0 =>
            error[c] = "shutdown" /\ signals[c] = 1
       /\ pc[c] \in {"idle", "lock", "register"} => error[c] = "nil"
       /\ seqOf[c] # 0 => error[c] # "shutdown" /\ (error[c] = "conn" => shutdown)
       /\ seqOf[c] # 0 /\ signals[c] = 1 /\ error[c] = "nil" => reply[c] = c
  /\ rpc = "done" /\ error[cur] = "nil" => reply[cur] = cur

IInv == TypeOK /\ LockInv /\ SeqInv /\ OwnerInv /\ ReplyInv /\ OutcomeInv

-----------------------------------------------------------------------------
(* RpcClient implements RpcCalls.                                          *)

\* c returned with what its Done channel held, not with its context's error.
TookDone(c) == pc[c] = "returned" /\ signals[c] = 1 /\ c \notin done

StatusOf(c) ==
  CASE pc[c] = "returned" -> "ended"
    [] pc[c] \in {"idle", "lock", "register"} -> "idle"
    [] OTHER -> IF seqOf[c] = 0 THEN "refused" ELSE "open"

OutcomeOf(c) ==
  CASE pc[c] # "returned" -> "none"
    [] pc[c] = "returned" /\ ~TookDone(c) -> "timeout"
    [] TookDone(c) /\ error[c] # "nil" -> error[c]
    [] TookDone(c) /\ error[c] = "nil" -> IF reply[c] = c THEN "reply" ELSE "none"

Promise == INSTANCE RpcCalls WITH
  status <- [c \in Calls |-> StatusOf(c)],
  outcome <- [c \in Calls |-> OutcomeOf(c)],
  down <- closing \/ shutdown

\* Calls are accepted exactly while the client is usable, and each ends once,
\* with an outcome that nothing that happens later (a late answer, the sweep of
\* terminateCalls) changes.
ImplementsCalls == Promise!Spec
=============================================================================
