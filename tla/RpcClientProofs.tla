-------------------------- MODULE RpcClientProofs --------------------------
(***************************************************************************)
(* Proofs about RpcClient for any sets of calls and any capacity of the    *)
(* shared Done channel: IInv is inductive, the safety properties follow    *)
(* from it, and RpcClient implements RpcCalls.  The dial that makes a      *)
(* client, RpcDial, is at the end.                                         *)
(***************************************************************************)
EXTENDS RpcClient, RpcDial, TLAPS

(* A new client satisfies the inductive invariant. *)
LEMMA InitIInv == Init => IInv
<1> SUFFICES ASSUME Init PROVE IInv
  OBVIOUS
<1> USE CallsAssumption DEF Init, Calls, SendPc, NoMsg
<1>1. TypeOK
  BY DEF TypeOK
<1>2. LockInv /\ SeqInv
  BY DEF LockInv, SeqInv
<1>3. OwnerInv /\ ReplyInv
  BY DEF OwnerInv, ReplyInv
<1>4. OutcomeInv
  BY DEF OutcomeInv
<1> QED BY <1>1, <1>2, <1>3, <1>4 DEF IInv

(* Every step of the callers, of the receive goroutine, of Close and of the
   peer keeps it. *)
LEMMA NextKeepsIInv == IInv /\ [Next]_vars => IInv'
<1> USE CallsAssumption DEF Calls, SendPc, Kinds, NoMsg, clientVars, callVars, recvVars
<1> SUFFICES ASSUME IInv, [Next]_vars PROVE IInv'
  OBVIOUS
<1> USE DEF IInv
<1>1. ASSUME NEW c \in Calls, Start(c) PROVE IInv'
  <2>1. TypeOK'
    BY <1>1 DEF Start, Goto, TypeOK
  <2>2. LockInv'
    BY <1>1 DEF Start, Goto, LockInv
  <2>3. SeqInv'
    BY <1>1 DEF Start, Goto, SeqInv
  <2>4. OwnerInv'
    BY <1>1 DEF Start, Goto, OwnerInv
  <2>5. ReplyInv'
    BY <1>1 DEF Start, Goto, ReplyInv
  <2>6. OutcomeInv'
    BY <1>1 DEF Start, Goto, OutcomeInv
  <2> QED BY <2>1, <2>2, <2>3, <2>4, <2>5, <2>6
<1>2. ASSUME NEW c \in Calls, LockSending(c) PROVE IInv'
  <2>1. TypeOK'
    BY <1>2 DEF LockSending, Goto, TypeOK
  <2>2. LockInv'
    BY <1>2 DEF LockSending, Goto, TypeOK, LockInv
  <2>3. SeqInv'
    BY <1>2 DEF LockSending, Goto, SeqInv
  <2>4. OwnerInv'
    BY <1>2 DEF LockSending, Goto, OwnerInv
  <2>5. ReplyInv'
    BY <1>2 DEF LockSending, Goto, ReplyInv
  <2>6. OutcomeInv'
    BY <1>2 DEF LockSending, Goto, OutcomeInv
  <2> QED BY <2>1, <2>2, <2>3, <2>4, <2>5, <2>6
<1>3. ASSUME NEW c \in Calls, RegisterCall(c) PROVE IInv'
  <2>1. TypeOK'
    BY <1>3 DEF RegisterCall, Usable, NextSeq, Goto, TypeOK
  <2>2. LockInv'
    BY <1>3 DEF RegisterCall, Usable, NextSeq, Goto, TypeOK, LockInv
  <2>3. SeqInv'
    BY <1>3 DEF RegisterCall, Usable, NextSeq, Goto, TypeOK, SeqInv
  <2>4. OwnerInv'
    BY <1>3 DEF RegisterCall, Usable, NextSeq, Goto, TypeOK, SeqInv, OwnerInv
  <2>5. ReplyInv'
    BY <1>3 DEF RegisterCall, Usable, NextSeq, Goto, TypeOK, SeqInv, ReplyInv
  <2>6. OutcomeInv'
    BY <1>3 DEF RegisterCall, Usable, NextSeq, Goto, TypeOK, SeqInv, OwnerInv,
       OutcomeInv
  <2> QED BY <2>1, <2>2, <2>3, <2>4, <2>5, <2>6
<1>4. ASSUME NEW c \in Calls, Reject(c) PROVE IInv'
  <2>1. TypeOK'
    BY <1>4 DEF Reject, Goto, Signal, Unlock, TypeOK
  <2>2. LockInv'
    BY <1>4 DEF Reject, Goto, Signal, Unlock, TypeOK, LockInv
  <2>3. SeqInv'
    BY <1>4 DEF Reject, Goto, Signal, Unlock, SeqInv
  <2>4. OwnerInv'
    BY <1>4 DEF Reject, Goto, Signal, Unlock, TypeOK, SeqInv, OwnerInv
  <2>5. ReplyInv'
    BY <1>4 DEF Reject, Goto, Signal, Unlock, ReplyInv
  <2>6. OutcomeInv'
    BY <1>4 DEF Reject, Goto, Signal, Unlock, TypeOK, OwnerInv, OutcomeInv
  <2> QED BY <2>1, <2>2, <2>3, <2>4, <2>5, <2>6
<1>5. ASSUME NEW c \in Calls, Write(c) PROVE IInv'
  <2>1. TypeOK'
    BY <1>5 DEF Write, Goto, Unlock, TypeOK
  <2>2. LockInv'
    BY <1>5 DEF Write, Goto, Unlock, TypeOK, LockInv
  <2>3. SeqInv'
    BY <1>5 DEF Write, Goto, Unlock, SeqInv, OwnerInv
  <2>4. OwnerInv'
    BY <1>5 DEF Write, Goto, Unlock, OwnerInv
  <2>5. ReplyInv'
    BY <1>5 DEF Write, Goto, Unlock, ReplyInv
  <2>6. OutcomeInv'
    BY <1>5 DEF Write, Goto, Unlock, OwnerInv, OutcomeInv
  <2> QED BY <2>1, <2>2, <2>3, <2>4, <2>5, <2>6
<1>6. ASSUME NEW c \in Calls, TakeDone(c) PROVE IInv'
  <2>1. TypeOK'
    BY <1>6 DEF TakeDone, Goto, TypeOK
  <2>2. LockInv'
    BY <1>6 DEF TakeDone, Goto, LockInv
  <2>3. SeqInv'
    BY <1>6 DEF TakeDone, Goto, SeqInv
  <2>4. OwnerInv'
    BY <1>6 DEF TakeDone, Goto, OwnerInv
  <2>5. ReplyInv'
    BY <1>6 DEF TakeDone, Goto, ReplyInv
  <2>6. OutcomeInv'
    BY <1>6 DEF TakeDone, Goto, TypeOK, OutcomeInv
  <2> QED BY <2>1, <2>2, <2>3, <2>4, <2>5, <2>6
<1>7. ASSUME NEW c \in Calls, Expire(c) PROVE IInv'
  <2>1. TypeOK'
    BY <1>7 DEF Expire, Goto, TypeOK
  <2>2. LockInv'
    BY <1>7 DEF Expire, Goto, LockInv
  <2>3. SeqInv'
    BY <1>7 DEF Expire, Goto, SeqInv
  <2>4. OwnerInv'
    BY <1>7 DEF Expire, Goto, OwnerInv
  <2>5. ReplyInv'
    BY <1>7 DEF Expire, Goto, ReplyInv
  <2>6. OutcomeInv'
    BY <1>7 DEF Expire, Goto, OutcomeInv
  <2> QED BY <2>1, <2>2, <2>3, <2>4, <2>5, <2>6
<1>8. ASSUME NEW c \in Calls, RemoveExpired(c) PROVE IInv'
  <2>1. TypeOK'
    BY <1>8 DEF RemoveExpired, Goto, Without, TypeOK
  <2>2. LockInv'
    BY <1>8 DEF RemoveExpired, Goto, Without, LockInv
  <2>3. SeqInv'
    BY <1>8 DEF RemoveExpired, Goto, Without, SeqInv
  <2>4. OwnerInv'
    BY <1>8 DEF RemoveExpired, Goto, Without, LockInv, SeqInv, OwnerInv
  <2>5. ReplyInv'
    BY <1>8 DEF RemoveExpired, Goto, Without, TypeOK, SeqInv, OwnerInv, ReplyInv
  <2>6. OutcomeInv'
    BY <1>8 DEF RemoveExpired, Goto, Without, OutcomeInv
  <2> QED BY <2>1, <2>2, <2>3, <2>4, <2>5, <2>6
<1>9. ASSUME NEW m \in flight, NEW kind \in Kinds, ReadHeader(m, kind) PROVE IInv'
  <2>1. TypeOK'
    BY <1>9 DEF ReadHeader, TypeOK
  <2>2. LockInv'
    BY <1>9 DEF ReadHeader, LockInv
  <2>3. SeqInv'
    BY <1>9 DEF ReadHeader, TypeOK, SeqInv
  <2>4. OwnerInv'
    BY <1>9 DEF ReadHeader, OwnerInv
  <2>5. ReplyInv'
    BY <1>9 DEF ReadHeader, ReplyInv
  <2>6. OutcomeInv'
    BY <1>9 DEF ReadHeader, OutcomeInv
  <2> QED BY <2>1, <2>2, <2>3, <2>4, <2>5, <2>6
<1>10. ASSUME ReadFails PROVE IInv'
  <2>1. TypeOK'
    BY <1>10 DEF ReadFails, TypeOK
  <2>2. LockInv'
    BY <1>10 DEF ReadFails, LockInv
  <2>3. SeqInv'
    BY <1>10 DEF ReadFails, SeqInv
  <2>4. OwnerInv'
    BY <1>10 DEF ReadFails, OwnerInv
  <2>5. ReplyInv'
    BY <1>10 DEF ReadFails, ReplyInv
  <2>6. OutcomeInv'
    BY <1>10 DEF ReadFails, OutcomeInv
  <2> QED BY <2>1, <2>2, <2>3, <2>4, <2>5, <2>6
<1>11. ASSUME RemoveCall PROVE IInv'
  <2>1. TypeOK'
    BY <1>11 DEF RemoveCall, Without, TypeOK
  <2>2. LockInv'
    BY <1>11 DEF RemoveCall, Without, LockInv
  <2>3. SeqInv'
    BY <1>11 DEF RemoveCall, Without, SeqInv
  <2>4. OwnerInv'
    BY <1>11 DEF RemoveCall, Without, TypeOK, LockInv, SeqInv, OwnerInv
  <2>5. ReplyInv'
    BY <1>11 DEF RemoveCall, Without, SeqInv, OwnerInv, ReplyInv
  <2>6. OutcomeInv'
    BY <1>11 DEF RemoveCall, Without, OutcomeInv
  <2> QED BY <2>1, <2>2, <2>3, <2>4, <2>5, <2>6
<1>12. ASSUME ReadBody PROVE IInv'
  <2>1. TypeOK'
    BY <1>12 DEF ReadBody, AfterBody, TypeOK
  <2>2. LockInv'
    BY <1>12 DEF ReadBody, AfterBody, LockInv
  <2>3. SeqInv'
    BY <1>12 DEF ReadBody, AfterBody, SeqInv
  <2>4. OwnerInv'
    BY <1>12 DEF ReadBody, AfterBody, OwnerInv
  <2>5. ReplyInv'
    BY <1>12 DEF ReadBody, AfterBody, TypeOK, SeqInv, OwnerInv, ReplyInv
  <2>6. OutcomeInv'
    BY <1>12 DEF ReadBody, AfterBody, TypeOK, SeqInv, OwnerInv, OutcomeInv
  <2> QED BY <2>1, <2>2, <2>3, <2>4, <2>5, <2>6
<1>13. ASSUME SignalAnswer PROVE IInv'
  <2>1. TypeOK'
    BY <1>13 DEF SignalAnswer, Signal, TypeOK, OwnerInv
  <2>2. LockInv'
    BY <1>13 DEF SignalAnswer, Signal, LockInv
  <2>3. SeqInv'
    BY <1>13 DEF SignalAnswer, Signal, SeqInv
  <2>4. OwnerInv'
    BY <1>13 DEF SignalAnswer, Signal, TypeOK, SeqInv, OwnerInv
  <2>5. ReplyInv'
    BY <1>13 DEF SignalAnswer, Signal, TypeOK, ReplyInv
  <2>6. OutcomeInv'
    BY <1>13 DEF SignalAnswer, Signal, TypeOK, OwnerInv, OutcomeInv
  <2> QED BY <2>1, <2>2, <2>3, <2>4, <2>5, <2>6
<1>14. ASSUME TerminateLockSending PROVE IInv'
  <2>1. TypeOK'
    BY <1>14 DEF TerminateLockSending, TypeOK
  <2>2. LockInv'
    BY <1>14 DEF TerminateLockSending, LockInv
  <2>3. SeqInv'
    BY <1>14 DEF TerminateLockSending, SeqInv
  <2>4. OwnerInv'
    BY <1>14 DEF TerminateLockSending, OwnerInv
  <2>5. ReplyInv'
    BY <1>14 DEF TerminateLockSending, ReplyInv
  <2>6. OutcomeInv'
    BY <1>14 DEF TerminateLockSending, OutcomeInv
  <2> QED BY <2>1, <2>2, <2>3, <2>4, <2>5, <2>6
<1>15. ASSUME TerminateLockMu PROVE IInv'
  <2>1. TypeOK'
    BY <1>15 DEF TerminateLockMu, TypeOK
  <2>2. LockInv'
    BY <1>15 DEF TerminateLockMu, LockInv
  <2>3. SeqInv'
    BY <1>15 DEF TerminateLockMu, SeqInv
  <2>4. OwnerInv'
    BY <1>15 DEF TerminateLockMu, LockInv, OwnerInv
  <2>5. ReplyInv'
    BY <1>15 DEF TerminateLockMu, ReplyInv
  <2>6. OutcomeInv'
    BY <1>15 DEF TerminateLockMu, OutcomeInv
  <2> QED BY <2>1, <2>2, <2>3, <2>4, <2>5, <2>6
<1>16. ASSUME NEW s \in sweep, TerminateOne(s) PROVE IInv'
  <2>1. TypeOK'
    BY <1>16 DEF TerminateOne, Signal, TypeOK, OwnerInv
  <2>2. LockInv'
    BY <1>16 DEF TerminateOne, Signal, LockInv
  <2>3. SeqInv'
    BY <1>16 DEF TerminateOne, Signal, SeqInv
  <2>4. OwnerInv'
    BY <1>16 DEF TerminateOne, Signal, TypeOK, LockInv, SeqInv, OwnerInv
  <2>5. ReplyInv'
    BY <1>16 DEF TerminateOne, Signal, SeqInv, OwnerInv, ReplyInv
  <2>6. OutcomeInv'
    BY <1>16 DEF TerminateOne, Signal, TypeOK, LockInv, SeqInv, OwnerInv, OutcomeInv
  <2> QED BY <2>1, <2>2, <2>3, <2>4, <2>5, <2>6
<1>17. ASSUME TerminateEnd PROVE IInv'
  <2>1. TypeOK'
    BY <1>17 DEF TerminateEnd, TypeOK
  <2>2. LockInv'
    BY <1>17 DEF TerminateEnd, LockInv
  <2>3. SeqInv'
    BY <1>17 DEF TerminateEnd, SeqInv
  <2>4. OwnerInv'
    BY <1>17 DEF TerminateEnd, OwnerInv
  <2>5. ReplyInv'
    BY <1>17 DEF TerminateEnd, ReplyInv
  <2>6. OutcomeInv'
    BY <1>17 DEF TerminateEnd, OutcomeInv
  <2> QED BY <2>1, <2>2, <2>3, <2>4, <2>5, <2>6
<1>18. ASSUME Close PROVE IInv'
  <2>1. TypeOK'
    <3>1. closing' \in BOOLEAN /\ conn' \in {"up", "peerGone", "closed"}
      BY <1>18 DEF Close, TypeOK
    <3>2. UNCHANGED <<flight, shutdown, sending, mu, seq, pending, callVars, done,
                      recvVars, signals, revoked>>
      BY <1>18 DEF Close
    <3> HIDE <1>18
    <3> QED BY <3>1, <3>2 DEF TypeOK, callVars, recvVars
  <2>2. LockInv'
    BY <1>18 DEF Close, LockInv
  <2>3. SeqInv'
    BY <1>18 DEF Close, SeqInv
  <2>4. OwnerInv'
    BY <1>18 DEF Close, OwnerInv
  <2>5. ReplyInv'
    BY <1>18 DEF Close, ReplyInv
  <2>6. OutcomeInv'
    BY <1>18 DEF Close, OutcomeInv
  <2> QED BY <2>1, <2>2, <2>3, <2>4, <2>5, <2>6
<1>19. ASSUME PeerGone PROVE IInv'
  <2>1. TypeOK'
    BY <1>19 DEF PeerGone, TypeOK
  <2>2. LockInv'
    BY <1>19 DEF PeerGone, LockInv
  <2>3. SeqInv'
    BY <1>19 DEF PeerGone, SeqInv
  <2>4. OwnerInv'
    BY <1>19 DEF PeerGone, OwnerInv
  <2>5. ReplyInv'
    BY <1>19 DEF PeerGone, ReplyInv
  <2>6. OutcomeInv'
    BY <1>19 DEF PeerGone, OutcomeInv
  <2> QED BY <2>1, <2>2, <2>3, <2>4, <2>5, <2>6
<1>20. ASSUME UNCHANGED vars PROVE IInv'
  BY <1>20 DEF vars, TypeOK, LockInv, SeqInv, OwnerInv, ReplyInv, OutcomeInv
<1> QED BY <1>1, <1>2, <1>3, <1>4, <1>5, <1>6, <1>7, <1>8, <1>9, <1>10, <1>11, <1>12,
   <1>13, <1>14, <1>15, <1>16, <1>17, <1>18, <1>19, <1>20 DEF Next, CallStep,
   ReadAnswer, ReceiveStep

(* The mutexes, the sequence numbers and the ownership of the calls are as
   RpcClient describes them, in every reachable state of any client. *)
THEOREM Invariance == Spec => []IInv
BY InitIInv, NextKeepsIInv, PTL DEF Spec

(* A signal to a Call finds its channel empty: only the channel of Go can be full. *)
LEMMA UnsignalledHasRoom ==
  ASSUME IInv, NEW c \in Calls, signals[c] = 0
  PROVE  HasRoom(c) \/ c \in AsyncCalls
<1>1. c \notin done
  BY DEF IInv, OutcomeInv
<1> QED BY <1>1 DEF HasRoom, Calls

LEMMA NobodyElseBlocks == IInv => OnlyGoBlocks
<1> SUFFICES ASSUME IInv PROVE OnlyGoBlocks
  OBVIOUS
<1>0. TypeOK /\ LockInv /\ OwnerInv
  BY DEF IInv
<1>1. ASSUME NEW c \in Calls, sending = c
      PROVE  \/ pc[c] = "register" /\ mu = NoOne
             \/ pc[c] = "reject" /\ (HasRoom(c) \/ c \in AsyncCalls)
             \/ pc[c] = "write"
  <2>1. pc[c] \in SendPc
    BY <1>0, <1>1 DEF LockInv
  <2>2. mu = NoOne
    BY <1>0, <1>1, CallsAssumption DEF LockInv, TypeOK
  <2>3. pc[c] = "reject" => HasRoom(c) \/ c \in AsyncCalls
    BY <1>0, UnsignalledHasRoom DEF OwnerInv
  <2> QED BY <2>1, <2>2, <2>3 DEF SendPc
<1>2. ASSUME NEW s \in sweep
      PROVE  HasRoom(pending[s]) \/ pending[s] \in AsyncCalls
  <2>1. s \in DOMAIN pending /\ pending[s] \in Calls /\ signals[pending[s]] = 0
    BY <1>0, <1>2 DEF OwnerInv, TypeOK
  <2> QED BY <2>1, UnsignalledHasRoom
<1>3. rpc = "done" => HasRoom(cur) \/ cur \in AsyncCalls
  <2> SUFFICES ASSUME rpc = "done" PROVE HasRoom(cur) \/ cur \in AsyncCalls
    OBVIOUS
  <2>1. PICK c \in Calls : c = cur
    BY <1>0 DEF OwnerInv, TypeOK
  <2>2. signals[c] = 0
    BY <1>0, <2>1, CallsAssumption DEF OwnerInv
  <2>3. HasRoom(c) \/ c \in AsyncCalls
    BY <2>2, UnsignalledHasRoom
  <2> QED BY <2>1, <2>3
<1>4. (sending = Receiver => rpc \in {"lockMu", "terminate"})
      /\ (mu # NoOne => sending = Receiver) /\ (rpc = "lockMu" => mu = NoOne)
  BY <1>0 DEF LockInv, TypeOK
<1> QED BY <1>1, <1>2, <1>3, <1>4 DEF OnlyGoBlocks

(* Every variable keeps its type, no call is signalled twice, whichever of the
   answer, the refusal and terminateCalls gets to it, and whoever holds a mutex can
   go on unless the channel of Go is full. *)
THEOREM SignalsAndLocks == Spec => []Inv
<1>1. IInv => Inv
  BY NobodyElseBlocks DEF IInv, OwnerInv, Inv, SignalledOnce
<1> QED BY <1>1, Invariance, PTL

(* No Reply is filled with the answer to another call. *)
THEOREM OwnReplies == Spec => []ReplyIsOwn
<1>1. IInv => ReplyIsOwn
  BY DEF IInv, ReplyInv, ReplyIsOwn
<1> QED BY <1>1, Invariance, PTL

(* terminateCalls leaves no waiting call without its signal. *)
THEOREM NobodyOrphaned == Spec => []NoOrphan
<1>1. IInv => NoOrphan
  <2> SUFFICES ASSUME IInv, rpc = "exited", NEW c \in Calls, pc[c] = "wait"
               PROVE  signals[c] = 1
    BY DEF NoOrphan
  <2> USE DEF IInv
  <2>1. cur = NoOne /\ shutdown /\ sweep = {}
    BY DEF OwnerInv, LockInv
  <2>2. CASE seqOf[c] \in DOMAIN pending
    <3>1. pending[seqOf[c]] = c
      BY <2>2 DEF SeqInv, TypeOK
    <3> QED BY <2>1, <2>2, <3>1 DEF OwnerInv
  <2>3. CASE seqOf[c] \notin DOMAIN pending
    <3>1. cur # c
      BY <2>1, CallsAssumption
    <3> QED BY <2>3, <3>1 DEF OwnerInv, TypeOK
  <2> QED BY <2>2, <2>3
<1> QED BY <1>1, Invariance, PTL

(* A call its caller took back before any answer is left alone for ever. *)
THEOREM RevokedIsLeftAlone == Spec => []RevokedUntouched
<1>1. IInv => RevokedUntouched
  BY DEF IInv, ReplyInv, RevokedUntouched
<1> QED BY <1>1, Invariance, PTL

(* A waiting call is in pending or in the hands of the receive goroutine. *)
THEOREM NoCallIsLost == Spec => []WaitingIsHeld
<1>1. IInv => WaitingIsHeld
  BY DEF IInv, TypeOK, SeqInv, OwnerInv, WaitingIsHeld
<1> QED BY <1>1, Invariance, PTL

-----------------------------------------------------------------------------
(* RpcClient implements RpcCalls.                                          *)

(* A step that changes no status, no outcome and not whether the client is
   down is no step of RpcCalls. *)
LEMMA AbstractStutter ==
  ASSUME \A c \in Calls : StatusOf(c)' = StatusOf(c) /\ OutcomeOf(c)' = OutcomeOf(c),
         (closing \/ shutdown)' = (closing \/ shutdown)
  PROVE  UNCHANGED Promise!vars
BY DEF Promise!vars

(* Every other step is one of RpcCalls: registerCall accepts or refuses,
   TakeDone and RemoveExpired end a call, TerminateLockMu and Close take the
   client down. *)
LEMMA NextRefines == IInv /\ [Next]_vars => [Promise!Next]_(Promise!vars)
<1> USE CallsAssumption DEF Calls, SendPc, Kinds, NoMsg, clientVars, callVars, recvVars
<1> SUFFICES ASSUME IInv, [Next]_vars PROVE [Promise!Next]_(Promise!vars)
  OBVIOUS
<1> USE DEF IInv
<1>1. ASSUME NEW c \in Calls, Start(c) PROVE [Promise!Next]_(Promise!vars)
  <2>1. \A d \in Calls : StatusOf(d)' = StatusOf(d) /\ OutcomeOf(d)' = OutcomeOf(d)
    BY <1>1 DEF Start, Goto, StatusOf, OutcomeOf, TookDone, TypeOK, LockInv, SeqInv,
       OwnerInv, ReplyInv, OutcomeInv
  <2>2. (closing \/ shutdown)' = (closing \/ shutdown)
    BY <1>1 DEF Start, Goto
  <2> QED BY <2>1, <2>2, AbstractStutter
<1>2. ASSUME NEW c \in Calls, LockSending(c) PROVE [Promise!Next]_(Promise!vars)
  <2>1. \A d \in Calls : StatusOf(d)' = StatusOf(d) /\ OutcomeOf(d)' = OutcomeOf(d)
    BY <1>2 DEF LockSending, Goto, StatusOf, OutcomeOf, TookDone, TypeOK, LockInv,
       SeqInv, OwnerInv, ReplyInv, OutcomeInv
  <2>2. (closing \/ shutdown)' = (closing \/ shutdown)
    BY <1>2 DEF LockSending, Goto
  <2> QED BY <2>1, <2>2, AbstractStutter
<1>3. ASSUME NEW c \in Calls, RegisterCall(c) PROVE [Promise!Next]_(Promise!vars)
  <2>1. \A d \in Calls \ {c} : StatusOf(d)' = StatusOf(d) /\ OutcomeOf(d)' = OutcomeOf(d)
    BY <1>3 DEF RegisterCall, Usable, NextSeq, Goto, StatusOf, OutcomeOf, TookDone,
       TypeOK, LockInv, SeqInv, OwnerInv, ReplyInv, OutcomeInv
  <2>2. (closing \/ shutdown)' = (closing \/ shutdown)
    BY <1>3 DEF RegisterCall, Usable, NextSeq, Goto
  <2>3. /\ StatusOf(c) = "idle" /\ OutcomeOf(c)' = OutcomeOf(c)
        /\ StatusOf(c)' = IF closing \/ shutdown THEN "refused" ELSE "open"
    BY <1>3 DEF RegisterCall, Usable, NextSeq, Goto, StatusOf, OutcomeOf, TookDone,
       TypeOK, LockInv, SeqInv
  <2>4. Promise!Accept(c) \/ Promise!Refuse(c)
    BY <2>1, <2>2, <2>3 DEF Promise!Accept, Promise!Refuse
  <2> QED BY <2>4 DEF Promise!Next
<1>4. ASSUME NEW c \in Calls, Reject(c) PROVE [Promise!Next]_(Promise!vars)
  <2>1. \A d \in Calls : StatusOf(d)' = StatusOf(d) /\ OutcomeOf(d)' = OutcomeOf(d)
    BY <1>4 DEF Reject, Goto, Signal, Unlock, StatusOf, OutcomeOf, TookDone, TypeOK,
       LockInv, SeqInv, OwnerInv, ReplyInv, OutcomeInv
  <2>2. (closing \/ shutdown)' = (closing \/ shutdown)
    BY <1>4 DEF Reject, Goto, Signal, Unlock
  <2> QED BY <2>1, <2>2, AbstractStutter
<1>5. ASSUME NEW c \in Calls, Write(c) PROVE [Promise!Next]_(Promise!vars)
  <2>1. \A d \in Calls : StatusOf(d)' = StatusOf(d) /\ OutcomeOf(d)' = OutcomeOf(d)
    BY <1>5 DEF Write, Goto, Unlock, StatusOf, OutcomeOf, TookDone, TypeOK, LockInv,
       SeqInv, OwnerInv, ReplyInv, OutcomeInv
  <2>2. (closing \/ shutdown)' = (closing \/ shutdown)
    BY <1>5 DEF Write, Goto, Unlock
  <2> QED BY <2>1, <2>2, AbstractStutter
<1>6. ASSUME NEW c \in Calls, TakeDone(c) PROVE [Promise!Next]_(Promise!vars)
  <2>1. \A d \in Calls \ {c} : StatusOf(d)' = StatusOf(d) /\ OutcomeOf(d)' = OutcomeOf(d)
    BY <1>6 DEF TakeDone, Goto, StatusOf, OutcomeOf, TookDone, TypeOK, LockInv,
       SeqInv, OwnerInv, ReplyInv, OutcomeInv
  <2>2. (closing \/ shutdown)' = (closing \/ shutdown)
    BY <1>6 DEF TakeDone, Goto
  <2>3. /\ StatusOf(c) \in {"open", "refused"} /\ StatusOf(c)' = "ended"
        /\ OutcomeOf(c)' \in Promise!Outcomes(c)
    BY <1>6 DEF TakeDone, Goto, StatusOf, OutcomeOf, TookDone, Promise!Outcomes,
       TypeOK, LockInv, SeqInv, OwnerInv, OutcomeInv
  <2>4. Promise!End(c, OutcomeOf(c)')
    BY <2>1, <2>2, <2>3 DEF Promise!End
  <2> QED BY <2>3, <2>4 DEF Promise!Next
<1>7. ASSUME NEW c \in Calls, Expire(c) PROVE [Promise!Next]_(Promise!vars)
  <2>1. \A d \in Calls : StatusOf(d)' = StatusOf(d) /\ OutcomeOf(d)' = OutcomeOf(d)
    BY <1>7 DEF Expire, Goto, StatusOf, OutcomeOf, TookDone, TypeOK, LockInv, SeqInv,
       OwnerInv, ReplyInv, OutcomeInv
  <2>2. (closing \/ shutdown)' = (closing \/ shutdown)
    BY <1>7 DEF Expire, Goto
  <2> QED BY <2>1, <2>2, AbstractStutter
<1>8. ASSUME NEW c \in Calls, RemoveExpired(c) PROVE [Promise!Next]_(Promise!vars)
  <2>1. \A d \in Calls \ {c} : StatusOf(d)' = StatusOf(d) /\ OutcomeOf(d)' = OutcomeOf(d)
    BY <1>8 DEF RemoveExpired, Goto, Without, StatusOf, OutcomeOf, TookDone, TypeOK,
       LockInv, SeqInv, OwnerInv, ReplyInv, OutcomeInv
  <2>2. (closing \/ shutdown)' = (closing \/ shutdown)
    BY <1>8 DEF RemoveExpired, Goto, Without
  <2>3. /\ StatusOf(c) \in {"open", "refused"} /\ StatusOf(c)' = "ended"
        /\ OutcomeOf(c)' \in Promise!Outcomes(c)
    BY <1>8 DEF RemoveExpired, Goto, Without, StatusOf, OutcomeOf, TookDone,
       Promise!Outcomes, TypeOK, LockInv, SeqInv, OwnerInv, OutcomeInv
  <2>4. Promise!End(c, OutcomeOf(c)')
    BY <2>1, <2>2, <2>3 DEF Promise!End
  <2> QED BY <2>3, <2>4 DEF Promise!Next
<1>9. ASSUME NEW m \in flight, NEW kind \in Kinds, ReadHeader(m,
   kind) PROVE [Promise!Next]_(Promise!vars)
  <2>1. \A d \in Calls : StatusOf(d)' = StatusOf(d) /\ OutcomeOf(d)' = OutcomeOf(d)
    BY <1>9 DEF ReadHeader, StatusOf, OutcomeOf, TookDone, TypeOK, LockInv, SeqInv,
       OwnerInv, ReplyInv, OutcomeInv
  <2>2. (closing \/ shutdown)' = (closing \/ shutdown)
    BY <1>9 DEF ReadHeader
  <2> QED BY <2>1, <2>2, AbstractStutter
<1>10. ASSUME ReadFails PROVE [Promise!Next]_(Promise!vars)
  <2>1. \A d \in Calls : StatusOf(d)' = StatusOf(d) /\ OutcomeOf(d)' = OutcomeOf(d)
    BY <1>10 DEF ReadFails, StatusOf, OutcomeOf, TookDone, TypeOK, LockInv, SeqInv,
       OwnerInv, ReplyInv, OutcomeInv
  <2>2. (closing \/ shutdown)' = (closing \/ shutdown)
    BY <1>10 DEF ReadFails
  <2> QED BY <2>1, <2>2, AbstractStutter
<1>11. ASSUME RemoveCall PROVE [Promise!Next]_(Promise!vars)
  <2>1. \A d \in Calls : StatusOf(d)' = StatusOf(d) /\ OutcomeOf(d)' = OutcomeOf(d)
    BY <1>11 DEF RemoveCall, Without, StatusOf, OutcomeOf, TookDone, TypeOK, LockInv,
       SeqInv, OwnerInv, ReplyInv, OutcomeInv
  <2>2. (closing \/ shutdown)' = (closing \/ shutdown)
    BY <1>11 DEF RemoveCall, Without
  <2> QED BY <2>1, <2>2, AbstractStutter
<1>12. ASSUME ReadBody PROVE [Promise!Next]_(Promise!vars)
  <2>1. \A d \in Calls : StatusOf(d)' = StatusOf(d) /\ OutcomeOf(d)' = OutcomeOf(d)
    BY <1>12 DEF ReadBody, AfterBody, StatusOf, OutcomeOf, TookDone, TypeOK, LockInv,
       SeqInv, OwnerInv, ReplyInv, OutcomeInv
  <2>2. (closing \/ shutdown)' = (closing \/ shutdown)
    BY <1>12 DEF ReadBody, AfterBody
  <2> QED BY <2>1, <2>2, AbstractStutter
<1>13. ASSUME SignalAnswer PROVE [Promise!Next]_(Promise!vars)
  <2>1. \A d \in Calls : StatusOf(d)' = StatusOf(d) /\ OutcomeOf(d)' = OutcomeOf(d)
    BY <1>13 DEF SignalAnswer, Signal, StatusOf, OutcomeOf, TookDone, TypeOK,
       LockInv, SeqInv, OwnerInv, ReplyInv, OutcomeInv
  <2>2. (closing \/ shutdown)' = (closing \/ shutdown)
    BY <1>13 DEF SignalAnswer, Signal
  <2> QED BY <2>1, <2>2, AbstractStutter
<1>14. ASSUME TerminateLockSending PROVE [Promise!Next]_(Promise!vars)
  <2>1. \A d \in Calls : StatusOf(d)' = StatusOf(d) /\ OutcomeOf(d)' = OutcomeOf(d)
    BY <1>14 DEF TerminateLockSending, StatusOf, OutcomeOf, TookDone, TypeOK,
       LockInv, SeqInv, OwnerInv, ReplyInv, OutcomeInv
  <2>2. (closing \/ shutdown)' = (closing \/ shutdown)
    BY <1>14 DEF TerminateLockSending
  <2> QED BY <2>1, <2>2, AbstractStutter
<1>15. ASSUME TerminateLockMu PROVE [Promise!Next]_(Promise!vars)
  <2>1. \A d \in Calls : StatusOf(d)' = StatusOf(d) /\ OutcomeOf(d)' = OutcomeOf(d)
    BY <1>15 DEF TerminateLockMu, StatusOf, OutcomeOf, TookDone
  <2>2. (closing \/ shutdown)' \/ (closing \/ shutdown)' = (closing \/ shutdown)
    BY <1>15 DEF TerminateLockMu
  <2> QED BY <2>1, <2>2, AbstractStutter DEF Promise!Next, Promise!GoDown
<1>16. ASSUME NEW s \in sweep, TerminateOne(s) PROVE [Promise!Next]_(Promise!vars)
  <2>1. \A d \in Calls : StatusOf(d)' = StatusOf(d) /\ OutcomeOf(d)' = OutcomeOf(d)
    BY <1>16 DEF TerminateOne, Signal, StatusOf, OutcomeOf, TookDone, TypeOK,
       LockInv, SeqInv, OwnerInv, ReplyInv, OutcomeInv
  <2>2. (closing \/ shutdown)' = (closing \/ shutdown)
    BY <1>16 DEF TerminateOne, Signal
  <2> QED BY <2>1, <2>2, AbstractStutter
<1>17. ASSUME TerminateEnd PROVE [Promise!Next]_(Promise!vars)
  <2>1. \A d \in Calls : StatusOf(d)' = StatusOf(d) /\ OutcomeOf(d)' = OutcomeOf(d)
    BY <1>17 DEF TerminateEnd, StatusOf, OutcomeOf, TookDone, TypeOK, LockInv,
       SeqInv, OwnerInv, ReplyInv, OutcomeInv
  <2>2. (closing \/ shutdown)' = (closing \/ shutdown)
    BY <1>17 DEF TerminateEnd
  <2> QED BY <2>1, <2>2, AbstractStutter
<1>18. ASSUME Close PROVE [Promise!Next]_(Promise!vars)
  <2>1. \A d \in Calls : StatusOf(d)' = StatusOf(d) /\ OutcomeOf(d)' = OutcomeOf(d)
    BY <1>18 DEF Close, StatusOf, OutcomeOf, TookDone
  <2>2. (closing \/ shutdown)' \/ (closing \/ shutdown)' = (closing \/ shutdown)
    BY <1>18 DEF Close
  <2> QED BY <2>1, <2>2, AbstractStutter DEF Promise!Next, Promise!GoDown
<1>19. ASSUME PeerGone PROVE [Promise!Next]_(Promise!vars)
  <2>1. \A d \in Calls : StatusOf(d)' = StatusOf(d) /\ OutcomeOf(d)' = OutcomeOf(d)
    BY <1>19 DEF PeerGone, StatusOf, OutcomeOf, TookDone, TypeOK, LockInv, SeqInv,
       OwnerInv, ReplyInv, OutcomeInv
  <2>2. (closing \/ shutdown)' = (closing \/ shutdown)
    BY <1>19 DEF PeerGone
  <2> QED BY <2>1, <2>2, AbstractStutter
<1>20. ASSUME UNCHANGED vars PROVE [Promise!Next]_(Promise!vars)
  BY <1>20 DEF vars, StatusOf, OutcomeOf, TookDone, Promise!vars
<1> QED BY <1>1, <1>2, <1>3, <1>4, <1>5, <1>6, <1>7, <1>8, <1>9, <1>10, <1>11, <1>12,
   <1>13, <1>14, <1>15, <1>16, <1>17, <1>18, <1>19, <1>20 DEF Next, CallStep,
   ReadAnswer, ReceiveStep

(* A new client has accepted, refused and ended nothing. *)
LEMMA InitRefines == Init => Promise!Init
BY CallsAssumption DEF Init, Promise!Init, StatusOf, OutcomeOf, TookDone

(* What RpcCalls promises, the client keeps: calls are accepted exactly while
   it is usable, and each ends once, with an outcome that does not change. *)
THEOREM Refinement == Spec => ImplementsCalls
BY InitRefines, NextRefines, Invariance, PTL DEF Spec, ImplementsCalls, Promise!Spec

-----------------------------------------------------------------------------
(* The dial that makes a client, of RpcDial.                               *)

(* What ServeHTTP writes is no status line with code 200. *)
LEMMA NeverSwitched == ASSUME DialTypeOK PROVE ~ Switched
<1>1. CASE line = <<>>
  BY <1>1 DEF Switched
<1>2. CASE line = Greeting
  <2>1. line[2] # "200"
    BY <1>2 DEF Greeting
  <2> QED BY <2>1 DEF Switched
<1> QED BY <1>1, <1>2 DEF DialTypeOK

LEMMA GreetingWords == Greeting # <<>> /\ Greeting[1] = ""
BY DEF Greeting

(* A call of dialTimeout begins in the invariant ... *)
LEMMA DialBegins == DialInit => DialInv
<1> SUFFICES ASSUME DialInit PROVE DialInv
  OBVIOUS
<1>1. DialTypeOK
  BY DEF DialInit, DialTypeOK, Results
<1>2. OwnedOrClosed /\ FailsForACause
  BY DEF DialInit, OwnedOrClosed, FailsForACause
<1> QED BY <1>1, <1>2 DEF DialInit, DialInv, DialEndsWell

(* ... which no step of the caller, the goroutine or the other side breaks. *)
LEMMA DialKeeps == DialInv /\ [DialNext]_dialVars => DialInv'
<1> SUFFICES ASSUME DialInv, [DialNext]_dialVars
             PROVE  DialInv'
  OBVIOUS
<1> USE GreetingWords
    DEF DialInv, DialEndsWell, DialTypeOK, OwnedOrClosed, FailsForACause, Cause,
        Results, callerVars, makerVars
<1>1. CASE Connect
  BY <1>1 DEF Connect
<1>2. CASE ConnectFails
  BY <1>2 DEF ConnectFails
<1>3. CASE Timeout
  BY <1>3 DEF Timeout
<1>4. CASE TakeResult
  BY <1>4 DEF TakeResult
<1>5. CASE Return
  <2>1. /\ caller = "defer" /\ caller' = "returned"
        /\ link' = IF ret # "client" THEN "closed" ELSE link
        /\ UNCHANGED <<opt, timedOut, ret, lost, line, f, result, receive>>
    BY <1>5 DEF Return, Closes
  <2>2. DialTypeOK'
    BY <2>1
  <2> QED BY <2>1, <2>2
<1>6. CASE WriteConnect
  BY <1>6 DEF WriteConnect
<1>7. CASE ReadResponse
  <2>0. /\ f = "response" /\ (line # <<>> \/ Broken)
        /\ f' = "deliver" /\ result' = "error"
        /\ UNCHANGED <<opt, caller, timedOut, ret, link, lost, line, receive>>
    <3>1. ~ Switched
      BY NeverSwitched
    <3> QED BY <1>7, <3>1 DEF ReadResponse, Makes
  <2> QED BY <2>0 DEF Broken
<1>8. CASE NewClient
  BY <1>8 DEF NewClient, Makes
<1>9. CASE NewClientFails
  BY <1>9 DEF NewClientFails, Makes, Broken
<1>10. CASE ReceiveEnds
  BY <1>10 DEF ReceiveEnds
<1>11. CASE ServeHTTP
  BY <1>11 DEF ServeHTTP
<1>12. CASE OtherSideGone
  <2>0. /\ lost' = TRUE /\ link # "none"
        /\ UNCHANGED <<opt, caller, timedOut, ret, link, line, f, result, receive>>
    BY <1>12 DEF OtherSideGone
  <2> QED BY <2>0
<1>13. CASE UNCHANGED dialVars
  <2>1. UNCHANGED <<opt, caller, timedOut, ret, link, lost, line, f, result, receive>>
    BY <1>13 DEF dialVars
  <2>2. DialTypeOK'
    BY <2>1
  <2> QED BY <2>1, <2>2
<1> QED BY <1>1, <1>2, <1>3, <1>4, <1>5, <1>6, <1>7, <1>8, <1>9, <1>10, <1>11, <1>12, <1>13
       DEF DialNext, CallerStep, MakerStep

(* Whichever of the timeout and the result comes first, a connection is open  *)
(* after the dial if and only if its client was returned, and no dial fails   *)
(* without a cause.                                                           *)
THEOREM EveryDialEndsWell == DialSpec => []DialEndsWell
<1>1. DialInv => DialEndsWell
  BY DEF DialInv
<1> QED BY <1>1, DialBegins, DialKeeps, PTL DEF DialSpec
=============================================================================
