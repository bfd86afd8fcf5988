----------------------------- MODULE SormProofs -----------------------------
(***************************************************************************)
(* Proofs about SormTransaction and SormMigrate for any sessions,          *)
(* transactions, migrations and columns, and with a database that fails    *)
(* at any moment or never; and about SormSession for any types, values to  *)
(* insert and texts.                                                       *)
(***************************************************************************)
EXTENDS SormMigrate, SormSession, TLAPS, SequenceTheorems, WellFoundedInduction

(* Before anything happens no session has a transaction. *)
LEMMA InitIInv == Init => IInv
<1> SUFFICES ASSUME Init PROVE IInv
  OBVIOUS
<1> USE SormAssumption DEF Init
<1>1. TypeOK /\ AllOrNothing
  BY DEF TypeOK, AllOrNothing
<1>2. OpenInv
  <2>1. \A x \in Txs : x[1] \in All /\ x[2] \in Nat
    BY DEF Txs
  <2> QED BY <2>1 DEF OpenInv
<1>3. PcInv /\ ReturnTells
  BY DEF PcInv, ReturnTells, All
<1> QED BY <1>1, <1>2, <1>3 DEF IInv, Inv

(* The transactions a session has. *)
LEMMA TxParts ==
  ASSUME begun \in [All -> 0..MaxBegins], NEW s \in All
  PROVE  /\ Tx(s) \in Txs /\ Tx(s)[1] = s /\ Tx(s)[2] = begun[s] /\ begun[s] \in Nat
         /\ Own(s) \in Txs /\ Own(s)[1] = s /\ Own(s)[2] = 1
         /\ <<s, 0>> \in Txs
         /\ \A t \in All : Own(t) = Tx(s) <=> t = s /\ begun[s] = 1
BY SormAssumption DEF Tx, Own, Txs

TxTypes ==
  /\ begun \in [All -> 0..MaxBegins]
  /\ status \in [Txs -> {"nil", "open", "committed", "undone"}]
  /\ written \in [Txs -> Nat] /\ staged \in [Txs -> Nat] /\ durable \in [Txs -> Nat]

(* The exit of the process undoes what is open and nothing else. *)
LEMMA ExitKeepsIInv ==
  ASSUME IInv, Exit, UNCHANGED <<pc, ret, self>>
  PROVE  IInv'
<1> USE SormAssumption DEF IInv, Inv, Exit
<1>1. TypeOK'
  BY DEF TypeOK
<1>2. AllOrNothing' /\ OpenInv'
  BY DEF TypeOK, AllOrNothing, OpenInv
<1>3. PcInv' /\ ReturnTells'
  <2>1. \A t \in Transactions : Own(t) \in Txs
    BY TxParts DEF TypeOK, All
  <2>2. \A t \in Transactions :
          status'[Own(t)] = IF status[Own(t)] = "open" THEN "undone" ELSE status[Own(t)]
    BY <2>1
  <2>3. \A t \in Transactions : Own(t)' = Own(t)
    BY DEF Own
  <2> QED BY <2>2, <2>3 DEF PcInv, ReturnTells
<1> QED BY <1>1, <1>2, <1>3

(* A Begin adds a transaction that holds nothing, and leaves the others alone. *)
LEMMA OpensKeeps ==
  ASSUME TxTypes, AllOrNothing, OpenInv, NEW s \in All, Opens(s)
  PROVE  /\ TxTypes' /\ AllOrNothing' /\ OpenInv'
         /\ \A x \in Txs : x[1] # s \/ x[2] <= begun[s] => status'[x] = status[x]
         /\ begun' = [begun EXCEPT ![s] = begun[s] + 1]
         /\ begun[s] = 0 => status'[Own(s)] = "open"
<1> DEFINE n == <<s, begun[s] + 1>>
<1>1. n \in Txs /\ n[1] = s /\ n[2] = begun[s] + 1 /\ begun[s] \in Nat /\ n[2] \in 0..MaxBegins
  BY SormAssumption DEF Opens, TxTypes, Txs
<1>2. /\ begun' = [begun EXCEPT ![s] = begun[s] + 1]
      /\ status' = [status EXCEPT ![n] = "open"]
      /\ UNCHANGED <<written, staged, durable>>
  BY DEF Opens
<1>3. begun[s] = 0 => n = Own(s)
  BY DEF Own
<1>4. \A x \in Txs : x[1] \in All /\ x[2] \in Nat /\ x = <<x[1], x[2]>>
  BY DEF Txs
<1> HIDE DEF n
<1>5. TxTypes'
  BY <1>1, <1>2 DEF TxTypes
<1>6. \A x \in Txs : x # n => status'[x] = status[x]
  BY <1>2 DEF TxTypes
<1>7. status'[n] = "open" /\ status[n] = "nil" /\ written[n] = 0
  BY <1>1, <1>2 DEF TxTypes, OpenInv
<1>8. durable[n] = 0 /\ staged[n] = 0
  BY <1>1, <1>7 DEF AllOrNothing, OpenInv
<1>9. AllOrNothing'
  BY <1>2, <1>6, <1>7, <1>8 DEF AllOrNothing
<1>10. OpenInv'
  <2> SUFFICES ASSUME NEW x \in Txs
               PROVE  /\ staged[x] = IF status'[x] = "open" THEN written[x] ELSE 0
                      /\ status'[x] = "nil" <=> x[2] = 0 \/ x[2] > begun'[x[1]]
                      /\ x[2] > begun'[x[1]] => written[x] = 0
    BY <1>2 DEF OpenInv
  <2>1. CASE x = n
    <3>1. begun'[s] = begun[s] + 1
      BY <1>2 DEF TxTypes
    <3> QED BY <1>1, <1>7, <1>8, <2>1, <3>1
  <2>2. CASE x # n /\ x[1] = s
    <3>1. x[2] # begun[s] + 1
      BY <1>4, <2>2 DEF n
    <3>2. begun'[s] = begun[s] + 1
      BY <1>2 DEF TxTypes
    <3> QED BY <1>1, <1>4, <1>6, <2>2, <3>1, <3>2 DEF OpenInv
  <2>3. CASE x # n /\ x[1] # s
    <3>1. begun'[x[1]] = begun[x[1]]
      BY <1>2, <1>4, <2>3 DEF TxTypes
    <3> QED BY <1>6, <2>3, <3>1 DEF OpenInv
  <2> QED BY <2>1, <2>2, <2>3
<1>11. \A x \in Txs : x[1] # s \/ x[2] <= begun[s] => status'[x] = status[x]
  BY <1>1, <1>6
<1> QED BY <1>2, <1>3, <1>5, <1>7, <1>9, <1>10, <1>11

(* The end of a transaction keeps all it holds, or nothing. *)
LEMMA EndsKeeps ==
  ASSUME TxTypes, AllOrNothing, OpenInv, NEW x \in Txs, status[x] = "open",
         NEW how \in {"committed", "undone"}, Ends(x, how)
  PROVE  /\ TxTypes' /\ AllOrNothing' /\ OpenInv'
         /\ status' = [status EXCEPT ![x] = how] /\ begun' = begun
<1>1. TxTypes'
  BY DEF TxTypes, Ends
<1>2. AllOrNothing' /\ OpenInv'
  BY DEF TxTypes, AllOrNothing, OpenInv, Ends
<1> QED BY <1>1, <1>2 DEF Ends

(* Every step of a session or a transaction keeps the invariant. *)
LEMMA StepKeepsIInv ==
  ASSUME NEW s \in All, IInv, Step(s)
  PROVE  IInv'
<1> USE SormAssumption
<1>0. /\ TxTypes /\ AllOrNothing /\ OpenInv /\ PcInv /\ ReturnTells
      /\ process \in {"up", "exited"}
      /\ pc \in [Transactions -> {"begin", "fs", "deferred", "returned"}]
      /\ ret \in [Transactions -> {"none", "nil", "err", "panic"}]
      /\ self \in [Transactions -> BOOLEAN]
      /\ \A t \in Transactions : t \in All
  BY DEF IInv, Inv, TypeOK, TxTypes, All
<1>a. /\ Tx(s) \in Txs /\ Tx(s)[1] = s /\ Tx(s)[2] = begun[s] /\ begun[s] \in Nat
      /\ \A t \in Transactions : Own(t) = Tx(s) <=> t = s /\ begun[s] = 1
  BY <1>0, TxParts DEF TxTypes
<1>b. \A t \in Transactions : Own(t) \in Txs /\ Own(t)[1] = t /\ Own(t)[2] = 1 /\ Own(t)' = Own(t)
  BY <1>0, TxParts DEF TxTypes, Own
<1>c. ASSUME TxTypes', AllOrNothing', OpenInv', PcInv', ReturnTells',
             process' \in {"up", "exited"},
             pc' \in [Transactions -> {"begin", "fs", "deferred", "returned"}],
             ret' \in [Transactions -> {"none", "nil", "err", "panic"}],
             self' \in [Transactions -> BOOLEAN]
      PROVE  IInv'
  BY <1>c DEF IInv, Inv, TypeOK, TxTypes
<1>d. ASSUME Exit, UNCHANGED <<pc, ret, self>> PROVE IInv'
  BY <1>d, ExitKeepsIInv
<1>1. CASE Exec(s)
  <2>1. CASE Exit
    BY <1>1, <1>d, <2>1 DEF Exec
  <2>2. CASE ~Exit
    <3>1. /\ written' = [written EXCEPT ![Tx(s)] = @ + 1]
          /\ status[Tx(s)] \in {"open", "nil"}
          /\ IF status[Tx(s)] = "open"
             THEN staged' = [staged EXCEPT ![Tx(s)] = @ + 1] /\ UNCHANGED durable
             ELSE durable' = [durable EXCEPT ![Tx(s)] = @ + 1] /\ UNCHANGED staged
          /\ UNCHANGED <<process, begun, status, pc, ret, self>>
      BY <1>1, <2>2 DEF Exec, DB
    <3>2. TxTypes'
      BY <1>0, <1>a, <3>1 DEF TxTypes
    <3>3. AllOrNothing' /\ OpenInv'
      BY <1>0, <1>a, <3>1 DEF TxTypes, AllOrNothing, OpenInv
    <3>4. PcInv' /\ ReturnTells'
      BY <1>0, <1>b, <3>1 DEF PcInv, ReturnTells
    <3> QED BY <1>0, <1>c, <3>1, <3>2, <3>3, <3>4
  <2> QED BY <2>1, <2>2
<1>2. CASE QueryFails(s)
  BY <1>2, <1>d DEF QueryFails
<1>3. ASSUME Opens(s), UNCHANGED <<ret, self>>, process = "up",
             \/ UNCHANGED pc /\ (s \in Transactions => pc[s] = "fs")
             \/ s \in Transactions /\ pc[s] = "begin" /\ pc' = [pc EXCEPT ![s] = "fs"]
      PROVE  IInv'
  <2>1. /\ TxTypes' /\ AllOrNothing' /\ OpenInv'
        /\ \A x \in Txs : x[1] # s \/ x[2] <= begun[s] => status'[x] = status[x]
        /\ begun' = [begun EXCEPT ![s] = begun[s] + 1]
        /\ begun[s] = 0 => status'[Own(s)] = "open"
    BY <1>0, <1>3, OpensKeeps
  <2>2. process' = process
    BY <1>3 DEF Opens
  <2>3. \A t \in Transactions :
          /\ t # s \/ begun[s] # 0 => status'[Own(t)] = status[Own(t)]
          /\ begun'[t] = IF t = s THEN begun[t] + 1 ELSE begun[t]
          /\ begun[t] \in Nat
    BY <1>0, <1>a, <1>b, <2>1 DEF TxTypes
  <2>4. \A t \in Transactions : pc[t] = "begin" <=> begun[t] = 0
    BY <1>0 DEF PcInv
  <2>5. PcInv'
    BY <1>0, <1>3, <1>b, <2>1, <2>3 DEF PcInv
  <2>6. ReturnTells'
    BY <1>0, <1>3, <1>b, <2>1, <2>3, <2>4 DEF ReturnTells
  <2>7. pc' \in [Transactions -> {"begin", "fs", "deferred", "returned"}]
    BY <1>0, <1>3
  <2> QED BY <1>0, <1>3, <1>c, <2>1, <2>2, <2>5, <2>6, <2>7
<1>4. CASE Begin(s)
  <2>1. CASE Exit
    BY <1>4, <1>d, <2>1 DEF Begin
  <2>2. CASE Opens(s)
    BY <1>3, <1>4, <2>2 DEF Begin, Uses
  <2> QED BY <1>4, <2>1, <2>2 DEF Begin
<1>5. ASSUME NEW how \in {"committed", "undone"}, End(s, how) PROVE IInv'
  <2>0. /\ self' = [t \in Transactions |-> self[t] \/ Own(t) = Tx(s)]
        /\ UNCHANGED <<pc, ret>>
        /\ s \in Transactions => pc[s] = "fs"
        /\ \A t \in Transactions : self'[t] <=> self[t] \/ (t = s /\ begun[s] = 1)
    BY <1>5, <1>a DEF End, Uses
  <2>1. CASE status[Tx(s)] = "open" /\ Ends(Tx(s), how) /\ UNCHANGED process
    <3>1. /\ TxTypes' /\ AllOrNothing' /\ OpenInv'
          /\ status' = [status EXCEPT ![Tx(s)] = how] /\ begun' = begun
      BY <1>0, <1>a, <2>1, EndsKeeps
    <3>2. \A t \in Transactions :
            status'[Own(t)] = IF t = s /\ begun[s] = 1 THEN how ELSE status[Own(t)]
      BY <1>0, <1>a, <1>b, <3>1 DEF TxTypes
    <3>3. PcInv' /\ ReturnTells'
      BY <1>0, <1>b, <2>0, <3>1, <3>2 DEF PcInv, ReturnTells
    <3> QED BY <1>0, <1>c, <2>0, <2>1, <3>1, <3>3
  <2>2. CASE Exit
    <3>1. TxTypes' /\ AllOrNothing' /\ OpenInv'
      BY <1>0, <2>2 DEF Exit, TxTypes, AllOrNothing, OpenInv
    <3>2. \A t \in Transactions :
            status'[Own(t)] = IF status[Own(t)] = "open" THEN "undone" ELSE status[Own(t)]
      BY <1>b, <2>2 DEF Exit
    <3>3. begun' = begun /\ process' = "exited"
      BY <2>2 DEF Exit
    <3>4. PcInv' /\ ReturnTells'
      BY <1>0, <1>b, <2>0, <3>2, <3>3 DEF PcInv, ReturnTells
    <3> QED BY <1>0, <1>c, <2>0, <3>1, <3>3, <3>4
  <2> QED BY <1>5, <2>1, <2>2 DEF End
<1>6. CASE s \in Transactions /\ BeginTransaction(s)
  <2>1. CASE Opens(s) /\ Goto(s, "fs")
    BY <1>3, <1>6, <2>1 DEF BeginTransaction, Goto
  <2>2. CASE Exit /\ UNCHANGED pc
    BY <1>6, <1>d, <2>2 DEF BeginTransaction
  <2> QED BY <1>6, <2>1, <2>2 DEF BeginTransaction
<1>7. ASSUME s \in Transactions, NEW how \in {"nil", "err", "panic"}, FsEnds(s, how)
      PROVE  IInv'
  <2>1. /\ pc[s] = "fs" /\ pc' = [pc EXCEPT ![s] = "deferred"] /\ ret' = [ret EXCEPT ![s] = how]
        /\ UNCHANGED <<process, begun, status, written, staged, durable, self>>
    BY <1>7 DEF FsEnds, Goto, txs
  <2>2. TxTypes' /\ AllOrNothing' /\ OpenInv'
    BY <1>0, <2>1 DEF TxTypes, AllOrNothing, OpenInv
  <2>3. PcInv' /\ ReturnTells'
    BY <1>0, <1>7, <1>b, <2>1 DEF PcInv, ReturnTells
  <2> QED BY <1>0, <1>7, <1>c, <2>1, <2>2, <2>3
<1>8. CASE s \in Transactions /\ Deferred(s)
  <2>0. /\ pc[s] = "deferred" /\ pc' = [pc EXCEPT ![s] = "returned"]
        /\ UNCHANGED <<process, self>> /\ Own(s) \in Txs
        /\ ret[s] # "none" /\ (status[Own(s)] = "committed" => self[s])
        /\ \A t \in Transactions : Own(t) = Own(s) <=> t = s
    BY <1>0, <1>8, <1>b DEF Deferred, Goto, PcInv
  <2>1. status[Own(s)] # "nil"
    <3>1. begun[s] # 0 /\ begun[s] \in Nat
      BY <1>0, <1>8, <1>a, <2>0 DEF PcInv
    <3> QED BY <1>0, <1>8, <1>b, <3>1 DEF OpenInv
  <2>2. ASSUME NEW how \in {"committed", "undone"}, status[Own(s)] = "open", Ends(Own(s), how),
               \/ how = Fate(ret[s]) /\ UNCHANGED ret
               \/ how = "undone" /\ ret' = [ret EXCEPT ![s] = IF @ = "nil" THEN "err" ELSE @]
        PROVE  IInv'
    <3>1. /\ TxTypes' /\ AllOrNothing' /\ OpenInv'
          /\ status' = [status EXCEPT ![Own(s)] = how] /\ begun' = begun
      BY <1>0, <2>0, <2>2, EndsKeeps
    <3>2. \A t \in Transactions : status'[Own(t)] = IF t = s THEN how ELSE status[Own(t)]
      BY <1>0, <1>b, <2>0, <3>1 DEF TxTypes
    <3>3. PcInv'
      BY <1>0, <1>b, <1>8, <2>0, <2>2, <3>1, <3>2 DEF PcInv
    <3>4. ReturnTells'
      BY <1>0, <1>b, <1>8, <2>0, <2>2, <3>2 DEF ReturnTells, Fate
    <3>5. ret' \in [Transactions -> {"none", "nil", "err", "panic"}]
      BY <1>0, <2>2
    <3> QED BY <1>0, <1>8, <1>c, <2>0, <3>1, <3>3, <3>4, <3>5
  <2>3. CASE /\ status[Own(s)] # "open" /\ UNCHANGED txs
             /\ ret' = [ret EXCEPT ![s] = IF @ = "nil" THEN "err" ELSE @]
    <3>1. UNCHANGED <<begun, status, written, staged, durable>>
      BY <2>3 DEF txs
    <3>2. TxTypes' /\ AllOrNothing' /\ OpenInv'
      BY <1>0, <3>1 DEF TxTypes, AllOrNothing, OpenInv
    <3>3. status[Own(s)] \in {"committed", "undone"}
      BY <1>0, <2>0, <2>1, <2>3 DEF TxTypes
    <3>4. PcInv' /\ ReturnTells'
      BY <1>0, <1>8, <1>b, <2>0, <2>3, <3>1, <3>3 DEF PcInv, ReturnTells
    <3> QED BY <1>0, <1>8, <1>c, <2>0, <2>3, <3>2, <3>4
  <2> QED BY <1>0, <1>8, <2>2, <2>3 DEF Deferred, Fate
<1> QED BY <1>1, <1>2, <1>4, <1>5, <1>6, <1>7, <1>8 DEF Step

LEMMA NextKeepsIInv == IInv /\ [Next]_vars => IInv'
<1> SUFFICES ASSUME IInv, [Next]_vars PROVE IInv'
  OBVIOUS
<1>1. CASE \E s \in All : Step(s)
  BY <1>1, StepKeepsIInv
<1>2. CASE UNCHANGED vars
  BY <1>2 DEF vars, txs, IInv, Inv, TypeOK, AllOrNothing, OpenInv, PcInv, ReturnTells
<1> QED BY <1>1, <1>2 DEF Next, Terminated

(* The invariant holds in every state of sessions and transactions. *)
THEOREM Invariance == Spec => []IInv
<1>1. Init => IInv
  BY InitIInv
<1>2. IInv /\ [Next]_vars => IInv'
  BY NextKeepsIInv
<1> QED BY <1>1, <1>2, PTL DEF Spec

(* The database keeps all the statements of a committed transaction and none of *)
(* another, whatever fails: SORM/session/transaction.go, logger/log.go.         *)
THEOREM Atomicity == Spec => []Inv
BY Invariance, PTL DEF IInv

(* What Engine.Transaction returns tells the fate of its statements. *)
THEOREM ReturnsTell == Spec => []ReturnTells
BY Invariance, PTL DEF IInv

-----------------------------------------------------------------------------
(* Migrate.                                                                *)

(* A migration takes only steps that any transaction may take. *)
LEMMA MigrateIsAStep ==
  ASSUME NEW m \in Migrations, MigrateStep(m)
  PROVE  Step(m) \/ UNCHANGED vars
<1> USE MigrateAssumption DEF MigrateStep, Step
<1>1. CASE MigrateBegins(m)
  BY <1>1 DEF MigrateBegins
<1>2. CASE HasTable(m)
  BY <1>2 DEF HasTable
<1>3. CASE ReadColumns(m)
  BY <1>3 DEF ReadColumns
<1>4. CASE AddColumn(m) \/ Replace(m)
  BY <1>4 DEF AddColumn, Replace, Alters
<1>5. CASE MigrateDone(m)
  BY <1>5 DEF MigrateDone
<1>6. CASE MigrateReturns(m)
  BY <1>6 DEF MigrateReturns
<1> QED BY <1>1, <1>2, <1>3, <1>4, <1>5, <1>6

LEMMA MigrateNextIsNext == [MigrateNext]_mvars => [Next]_vars
<1> SUFFICES ASSUME MigrateNext \/ UNCHANGED mvars PROVE Next \/ UNCHANGED vars
  OBVIOUS
<1>1. CASE \E m \in Migrations : MigrateStep(m)
  BY <1>1, MigrateIsAStep, MigrateAssumption DEF Next, All
<1>2. CASE \E s \in All \ Migrations : Step(s)
  BY <1>2 DEF Next
<1>3. CASE Terminated \/ UNCHANGED mvars
  BY <1>3 DEF Terminated, mvars
<1> QED BY <1>1, <1>2, <1>3 DEF MigrateNext

(* Engine.Migrate uses sessions and transactions as anybody does: what holds of *)
(* them holds next to it, and of its own transaction too.                       *)
THEOREM MigrateIsATransaction == MigrateSpec => Spec /\ []IInv
<1>1. MigrateInit => Init
  BY DEF MigrateInit
<1>2. [MigrateNext]_mvars => [Next]_vars
  BY MigrateNextIsNext
<1> QED BY <1>1, <1>2, Invariance, PTL DEF Spec, MigrateSpec

(* The steps of others leave the transaction of a migration alone, unless the *)
(* process exits.                                                             *)
LEMMA OthersLeaveItAlone ==
  ASSUME IInv, NEW s \in All, Step(s), NEW m \in Transactions, m # s
  PROVE  /\ pc'[m] = pc[m] /\ ret'[m] = ret[m]
         /\ process' = "up" => /\ process = "up" /\ begun'[m] = begun[m]
                              /\ status'[Own(m)] = status[Own(m)]
<1>0. /\ m \in All /\ TxTypes
      /\ pc \in [Transactions -> {"begin", "fs", "deferred", "returned"}]
      /\ ret \in [Transactions -> {"none", "nil", "err", "panic"}]
  BY DEF All, IInv, Inv, TypeOK, TxTypes
<1>a. /\ Own(m) \in Txs /\ Own(m) # Tx(s) /\ Own(m) # Own(s) /\ Own(m)[1] = m
      /\ Own(m) # <<s, begun[s] + 1>>
  <2>1. /\ Own(m) \in Txs /\ Own(m)[1] = m
        /\ Tx(s)[1] = s /\ Own(s)[1] = s /\ <<s, begun[s] + 1>>[1] = s
    BY <1>0, TxParts DEF TxTypes
  <2> QED BY <2>1
<1>1. CASE Exec(s) \/ QueryFails(s)
  BY <1>1 DEF Exec, QueryFails, Uses, Exit
<1>2. CASE Begin(s)
  BY <1>0, <1>2, <1>a DEF Begin, Opens, Uses, Exit, TxTypes
<1>3. CASE End(s, "committed") \/ End(s, "undone")
  BY <1>0, <1>3, <1>a DEF End, Ends, Uses, Exit, TxTypes
<1>4. CASE BeginTransaction(s)
  BY <1>0, <1>4, <1>a DEF BeginTransaction, Opens, Goto, Exit, TxTypes
<1>5. CASE \E how \in {"nil", "err", "panic"} : FsEnds(s, how)
  BY <1>0, <1>5 DEF FsEnds, Goto, txs
<1>6. CASE Deferred(s)
  BY <1>0, <1>6, <1>a DEF Deferred, Goto, Ends, txs, TxTypes
<1> QED BY <1>1, <1>2, <1>3, <1>4, <1>5, <1>6 DEF Step

LEMMA MigrateInvInit == MigrateInit => MigrateInv /\ MigrateTypeOK
BY MigrateAssumption DEF MigrateInit, Init, MigrateInv, MigrateTypeOK, NoTable

LEMMA MigrateTypeKept == MigrateTypeOK /\ [MigrateNext]_mvars => MigrateTypeOK'
<1> SUFFICES ASSUME MigrateTypeOK, [MigrateNext]_mvars PROVE MigrateTypeOK'
  OBVIOUS
<1> USE MigrateAssumption DEF MigrateTypeOK
<1>1. ASSUME NEW m \in Migrations, MigrateStep(m) PROVE MigrateTypeOK'
  <2>1. CASE AddColumn(m) \/ Replace(m)
    BY <2>1 DEF AddColumn, Replace, Alters
  <2>2. CASE MigrateBegins(m) \/ HasTable(m) \/ ReadColumns(m) \/ MigrateDone(m)
    BY <2>2 DEF MigrateBegins, HasTable, ReadColumns, MigrateDone, schema
  <2>3. CASE MigrateReturns(m)
    BY <2>3 DEF MigrateReturns
  <2> QED BY <1>1, <2>1, <2>2, <2>3 DEF MigrateStep
<1>2. CASE UNCHANGED schema
  BY <1>2 DEF schema
<1> QED BY <1>1, <1>2 DEF MigrateNext, mvars, schema

(* What a migration's own steps do to its transaction and its view. *)
LEMMA OwnStep ==
  ASSUME IInv, MigrateInv, MigrateTypeOK, NEW m \in Migrations, MigrateStep(m)
  PROVE  /\ process' = "up" /\ pc'[m] \in {"fs", "deferred"} =>
              begun'[m] = 1 /\ status'[Own(m)] = "open"
         /\ pc'[m] = "deferred" /\ ret'[m] = "nil" => view'[m] = Fields
         /\ \A o \in Migrations \ {m} : view'[o] = view[o]
         /\ table' # table => table' = Fields
         /\ pc[m] # "returned" /\ pc'[m] = "returned" /\ ret'[m] = "nil" => table' = Fields
<1> USE MigrateAssumption DEF MigrateInv, MigrateTypeOK
<1>0. /\ m \in Transactions /\ m \in All /\ TxTypes
      /\ pc \in [Transactions -> {"begin", "fs", "deferred", "returned"}]
      /\ ret \in [Transactions -> {"none", "nil", "err", "panic"}]
      /\ AllOrNothing /\ OpenInv /\ PcInv
  BY DEF All, IInv, Inv, TypeOK, TxTypes
<1>a. Own(m) \in Txs /\ Own(m)' = Own(m) /\ Tx(m) = <<m, begun[m]>> /\ Own(m) = <<m, 1>>
  BY <1>0, TxParts DEF TxTypes, Own, Tx
<1>1. CASE MigrateBegins(m)
  <2>1. begun[m] = 0 /\ pc[m] = "begin" /\ process = "up"
    BY <1>0, <1>1 DEF MigrateBegins, BeginTransaction, PcInv
  <2>2. CASE Exit /\ UNCHANGED pc
    BY <1>0, <1>1, <2>1, <2>2 DEF MigrateBegins, BeginTransaction, Exit
  <2>3. CASE Opens(m) /\ pc' = [pc EXCEPT ![m] = "fs"]
    <3>1. status'[Own(m)] = "open" /\ begun' = [begun EXCEPT ![m] = begun[m] + 1]
      BY <1>0, <2>1, <2>3, OpensKeeps
    <3>2. begun'[m] = 1
      BY <1>0, <2>1, <3>1 DEF TxTypes
    <3>3. pc'[m] = "fs" /\ table' = table /\ \A o \in Migrations \ {m} : view'[o] = view[o]
      BY <1>0, <1>1, <2>3 DEF MigrateBegins
    <3> QED BY <3>1, <3>2, <3>3
  <2> QED BY <1>1, <2>2, <2>3 DEF MigrateBegins, BeginTransaction, Goto
<1>2. CASE HasTable(m)
  BY <1>0, <1>2 DEF HasTable, FsEnds, Goto, Uses, txs, vars
<1>3. CASE ReadColumns(m)
  BY <1>0, <1>3 DEF ReadColumns, QueryFails, Uses, vars, txs, Exit
<1>4. CASE AddColumn(m) \/ Replace(m)
  BY <1>0, <1>4, <1>a DEF AddColumn, Replace, Alters, Exec, Uses, DB, Exit
<1>5. CASE MigrateDone(m)
  BY <1>0, <1>5 DEF MigrateDone, FsEnds, Goto, txs, schema
<1>6. CASE MigrateReturns(m)
  <2>1. /\ pc[m] = "deferred" /\ pc'[m] = "returned" /\ UNCHANGED view
        /\ process = "up" /\ status[Own(m)] = "open"
    BY <1>0, <1>6 DEF MigrateReturns, Deferred, Goto
  <2>2. table' = IF status'[Own(m)] = "committed" THEN view[m] ELSE table
    BY <1>6, <2>1 DEF MigrateReturns
  <2>3. \/ status'[Own(m)] = Fate(ret[m]) /\ ret' = ret
        \/ status'[Own(m)] = "undone" /\ ret'[m] # "nil"
    BY <1>0, <1>6, <1>a, <2>1 DEF MigrateReturns, Deferred, Ends, TxTypes
  <2> QED BY <1>0, <2>1, <2>2, <2>3 DEF Fate
<1> QED BY <1>1, <1>2, <1>3, <1>4, <1>5, <1>6 DEF MigrateStep

LEMMA MigrateInvKept ==
  IInv /\ MigrateInv /\ MigrateTypeOK /\ [MigrateNext]_mvars => MigrateInv'
<1> SUFFICES ASSUME IInv, MigrateInv, MigrateTypeOK, [MigrateNext]_mvars PROVE MigrateInv'
  OBVIOUS
<1>0. Migrations \subseteq Transactions /\ Migrations \subseteq All
  BY MigrateAssumption DEF All
<1>1. ASSUME NEW m \in Migrations, MigrateStep(m) PROVE MigrateInv'
  <2>1. CASE Step(m)
    BY <1>0, <1>1, <2>1, OwnStep, OthersLeaveItAlone DEF MigrateInv
  <2>2. CASE UNCHANGED vars
    BY <1>0, <1>1, <2>2, OwnStep DEF MigrateInv, vars, txs
  <2> QED BY <1>1, <2>1, <2>2, MigrateIsAStep
<1>2. ASSUME NEW s \in All \ Migrations, Step(s), UNCHANGED schema PROVE MigrateInv'
  BY <1>0, <1>2, OthersLeaveItAlone DEF MigrateInv, schema
<1>3. CASE UNCHANGED mvars
  BY <1>3 DEF MigrateInv, mvars, vars, txs
<1> QED BY <1>1, <1>2, <1>3 DEF MigrateNext, Terminated, mvars, schema

(* Migrate changes the table of its model at once, to the fields of the model, or *)
(* not at all, and not at all unless its transaction returns nil, whatever fails  *)
(* in it and in other sessions: SORM/sorm.go:106-142.                             *)
THEOREM WholeMigration == MigrateSpec => MigratesWhole
<1> DEFINE Whole ==
      /\ table' # table => table' = Fields
      /\ \A m \in Migrations :
           pc[m] # "returned" /\ pc'[m] = "returned" /\ ret'[m] = "nil" => table' = Fields
<1>1. MigrateInit => MigrateInv /\ MigrateTypeOK
  BY MigrateInvInit
<1>2. IInv /\ MigrateInv /\ MigrateTypeOK /\ [MigrateNext]_mvars
        => MigrateInv' /\ MigrateTypeOK'
  BY MigrateInvKept, MigrateTypeKept
<1>3. IInv /\ MigrateInv /\ MigrateTypeOK /\ [MigrateNext]_mvars => [Whole]_mvars
  <2> SUFFICES ASSUME IInv, MigrateInv, MigrateTypeOK, [MigrateNext]_mvars
               PROVE  [Whole]_mvars
    OBVIOUS
  <2>0. Migrations \subseteq Transactions /\ Migrations \subseteq All
    BY MigrateAssumption DEF All
  <2>1. ASSUME NEW m \in Migrations, MigrateStep(m) PROVE Whole
    <3>1. CASE Step(m)
      BY <2>0, <2>1, <3>1, OwnStep, OthersLeaveItAlone
    <3>2. CASE UNCHANGED vars
      BY <2>1, <3>2, OwnStep DEF vars
    <3> QED BY <2>1, <3>1, <3>2, MigrateIsAStep
  <2>2. ASSUME NEW s \in All \ Migrations, Step(s), UNCHANGED schema PROVE Whole
    BY <2>0, <2>2, OthersLeaveItAlone DEF schema
  <2>3. CASE UNCHANGED mvars
    BY <2>3
  <2> QED BY <2>1, <2>2, <2>3 DEF MigrateNext, Terminated, mvars, schema
<1> QED BY <1>1, <1>2, <1>3, MigrateIsATransaction, PTL DEF MigrateSpec, MigratesWhole

-----------------------------------------------------------------------------
(* Sequences put together from pieces, by induction over their number.     *)

LEMMA LeastOf ==
  ASSUME NEW S \in SUBSET Nat, S # {}
  PROVE  \E m \in S : \A n \in S : m <= n
<1>1. PICK m \in S : \A n \in S : <<n, m>> \notin OpToRel(<, Nat)
  BY NatLessThanWellFounded, WFMin
<1>2. ASSUME NEW n \in S PROVE m <= n
  <2>1. ~ (n < m)
    BY <1>1 DEF OpToRel
  <2> QED BY <2>1
<1> QED BY <1>2

LEMMA Induction ==
  ASSUME NEW S \in SUBSET Nat, 0 \in S, \A n \in S : n + 1 \in S
  PROVE  S = Nat
<1> SUFFICES ASSUME Nat \ S # {} PROVE FALSE
  OBVIOUS
<1>1. PICK m \in Nat \ S : \A n \in Nat \ S : m <= n
  BY LeastOf
<1>2. m - 1 \in Nat /\ m - 1 \in S
  BY <1>1
<1> QED BY <1>1, <1>2

(* The beginnings of s put together, as FlattenSeq does. *)
IsFlat(f, s, n) ==
  /\ DOMAIN f = 1..n
  /\ \A i \in 1..n : f[i] = IF i = 1 THEN s[i] ELSE f[i - 1] \o s[i]

Flat(s) ==
  CHOOSE f : f = [i \in 1..Len(s) |-> IF i = 1 THEN s[i] ELSE f[i - 1] \o s[i]]

LEMMA FlatExists ==
  ASSUME NEW T, NEW s \in Seq(Seq(T))
  PROVE  IsFlat(Flat(s), s, Len(s)) /\ \A i \in 1..Len(s) : Flat(s)[i] \in Seq(T)
<1> DEFINE Upto(f, n) == [i \in 1..n |-> IF i = 1 THEN s[i] ELSE f[i - 1] \o s[i]]
           S == {n \in Nat : n <= Len(s) => \E f \in [1..n -> Seq(T)] : f = Upto(f, n)}
<1>0. Len(s) \in Nat /\ \A i \in 1..Len(s) : s[i] \in Seq(T)
  OBVIOUS
<1>1. 0 \in S
  <2> DEFINE e == [i \in 1..0 |-> <<>>]
  <2>1. e \in [1..0 -> Seq(T)] /\ e = Upto(e, 0)
    OBVIOUS
  <2> QED BY <2>1
<1>2. ASSUME NEW n \in S PROVE n + 1 \in S
  <2>0. n \in Nat /\ n + 1 \in Nat
    OBVIOUS
  <2> SUFFICES ASSUME n + 1 <= Len(s) PROVE \E g \in [1..(n + 1) -> Seq(T)] : g = Upto(g, n + 1)
    BY <2>0
  <2>1. PICK f \in [1..n -> Seq(T)] : f = Upto(f, n)
    <3>1. n <= Len(s) => \E f \in [1..n -> Seq(T)] : f = Upto(f, n)
      OBVIOUS
    <3>2. n <= Len(s)
      BY <1>0, <2>0
    <3> HIDE DEF Upto
    <3> QED BY <3>1, <3>2
  <2> DEFINE v == IF n = 0 THEN s[1] ELSE f[n] \o s[n + 1]
             g == [i \in 1..(n + 1) |-> IF i = n + 1 THEN v ELSE f[i]]
  <2>2. v \in Seq(T)
    <3>1. s[n + 1] \in Seq(T)
      BY <1>0, <2>0
    <3>2. CASE n = 0
      BY <3>1, <3>2
    <3>3. CASE n # 0
      <4>1. f[n] \in Seq(T)
        BY <2>0, <3>3
      <4> QED BY <3>1, <3>3, <4>1, ConcatProperties
    <3> QED BY <3>2, <3>3
  <2>3. g \in [1..(n + 1) -> Seq(T)]
    <3> HIDE DEF v
    <3> QED BY <2>0, <2>2
  <2>4. ASSUME NEW i \in 1..(n + 1)
        PROVE  g[i] = IF i = 1 THEN s[i] ELSE g[i - 1] \o s[i]
    <3>1. CASE i = n + 1
      <4>1. CASE n = 0
        BY <3>1, <4>1
      <4>2. CASE n # 0
        <5>1. n \in 1..(n + 1) /\ n # n + 1 /\ i - 1 = n /\ i # 1
          BY <2>0, <3>1, <4>2
        <5>2. g[n] = f[n]
          BY <5>1
        <5> QED BY <3>1, <4>2, <5>1, <5>2
      <4> QED BY <4>1, <4>2
    <3>2. CASE i # n + 1
      <4>0. i \in 1..n
        BY <2>0, <3>2
      <4>1. f[i] = IF i = 1 THEN s[i] ELSE f[i - 1] \o s[i]
        BY <2>1, <4>0
      <4>2. g[i] = f[i]
        BY <3>2
      <4>3. i # 1 => g[i - 1] = f[i - 1]
        BY <2>0, <4>0
      <4> HIDE DEF g
      <4> QED BY <4>1, <4>2, <4>3
    <3> QED BY <3>1, <3>2
  <2>5. g = Upto(g, n + 1)
    <3>1. DOMAIN g = 1..(n + 1) /\ g = [i \in 1..(n + 1) |-> g[i]]
      OBVIOUS
    <3> HIDE DEF g
    <3> QED BY <2>4, <3>1
  <2> QED BY <2>3, <2>5
<1>3. S = Nat
  <2> HIDE DEF S
  <2>1. S \in SUBSET Nat
    BY DEF S
  <2> QED BY <1>1, <1>2, <2>1, Induction
<1>4. PICK f \in [1..Len(s) -> Seq(T)] : f = Upto(f, Len(s))
  <2>1. Len(s) <= Len(s) => \E f \in [1..Len(s) -> Seq(T)] : f = Upto(f, Len(s))
    <3>1. \A n \in S : n <= Len(s) => \E f \in [1..n -> Seq(T)] : f = Upto(f, n)
      OBVIOUS
    <3> HIDE DEF Upto, S
    <3> QED BY <1>0, <1>3, <3>1
  <2>2. Len(s) <= Len(s)
    BY <1>0
  <2> HIDE DEF Upto
  <2> QED BY <2>1, <2>2
<1>5. Flat(s) = Upto(Flat(s), Len(s))
  BY <1>4 DEF Flat
<1> DEFINE F == Flat(s)
<1>6. IsFlat(F, s, Len(s))
  <2>1. F = Upto(F, Len(s))
    BY <1>5
  <2> HIDE DEF F
  <2> QED BY <2>1 DEF IsFlat
<1> DEFINE R == {n \in Nat : n + 1 <= Len(s) => F[n + 1] \in Seq(T)}
<1>7. R = Nat
  <2> HIDE DEF F
  <2>1. 0 \in R
    <3>1. 0 + 1 = 1
      OBVIOUS
    <3>2. ASSUME 1 <= Len(s) PROVE F[1] \in Seq(T)
      <4>1. 1 \in 1..Len(s)
        BY <1>0, <3>2
      <4> QED BY <1>0, <1>6, <4>1 DEF IsFlat
    <3> QED BY <3>1, <3>2
  <2>2. ASSUME NEW n \in R PROVE n + 1 \in R
    <3>1. n \in Nat /\ n + 1 \in Nat
      OBVIOUS
    <3>2. ASSUME (n + 1) + 1 <= Len(s) PROVE F[(n + 1) + 1] \in Seq(T)
      <4> DEFINE i == (n + 1) + 1
      <4>1. i \in 1..Len(s) /\ i # 1 /\ i - 1 = n + 1 /\ F[n + 1] \in Seq(T) /\ s[i] \in Seq(T)
        BY <1>0, <3>1, <3>2
      <4> HIDE DEF i
      <4>2. F[i] = F[n + 1] \o s[i]
        BY <1>6, <4>1 DEF IsFlat
      <4>3. F[i] \in Seq(T)
        BY <4>1, <4>2, ConcatProperties
      <4> QED BY <4>3 DEF i
    <3> QED BY <3>1, <3>2
  <2> HIDE DEF R
  <2>3. R \in SUBSET Nat
    BY DEF R
  <2> QED BY <2>1, <2>2, <2>3, Induction
<1>8. ASSUME NEW i \in 1..Len(s) PROVE F[i] \in Seq(T)
  <2>1. \A n \in R : n + 1 <= Len(s) => F[n + 1] \in Seq(T)
    OBVIOUS
  <2>2. i - 1 \in Nat /\ (i - 1) + 1 = i /\ i <= Len(s)
    BY <1>0
  <2> HIDE DEF F, R
  <2> QED BY <1>7, <2>1, <2>2
<1> QED BY <1>6, <1>8 DEF F

LEMMA FlatUnique ==
  ASSUME NEW s, NEW t, NEW f, NEW g, NEW n \in Nat, NEW m \in Nat,
         IsFlat(f, s, n), IsFlat(g, t, m), n <= m,
         \A i \in 1..n : s[i] = t[i]
  PROVE  \A i \in 1..n : f[i] = g[i]
<1> DEFINE S == {j \in Nat : j + 1 <= n => f[j + 1] = g[j + 1]}
<1>1. 0 \in S
  <2>1. ASSUME 1 <= n PROVE f[1] = g[1]
    <3>1. 1 \in 1..n /\ 1 \in 1..m
      BY <2>1
    <3> QED BY <3>1 DEF IsFlat
  <2>2. 0 + 1 = 1
    OBVIOUS
  <2> QED BY <2>1, <2>2
<1>2. ASSUME NEW j \in S PROVE j + 1 \in S
  <2>1. j \in Nat /\ j + 1 \in Nat
    OBVIOUS
  <2>2. ASSUME (j + 1) + 1 <= n PROVE f[(j + 1) + 1] = g[(j + 1) + 1]
    <3> DEFINE i == (j + 1) + 1
    <3>1. i \in 1..n /\ i \in 1..m /\ i # 1 /\ i - 1 = j + 1 /\ f[j + 1] = g[j + 1]
      BY <2>1, <2>2
    <3> HIDE DEF i
    <3>2. f[i] = f[i - 1] \o s[i] /\ g[i] = g[i - 1] \o t[i]
      BY <3>1 DEF IsFlat
    <3>3. s[i] = t[i] /\ f[i - 1] = g[i - 1]
      BY <3>1
    <3> QED BY <3>2, <3>3 DEF i
  <2> QED BY <2>1, <2>2
<1>3. S = Nat
  <2> HIDE DEF S
  <2>1. S \in SUBSET Nat
    BY DEF S
  <2> QED BY <1>1, <1>2, <2>1, Induction
<1>4. ASSUME NEW i \in 1..n PROVE f[i] = g[i]
  <2>1. \A j \in S : j + 1 <= n => f[j + 1] = g[j + 1]
    OBVIOUS
  <2>2. i - 1 \in Nat /\ (i - 1) + 1 = i /\ i <= n
    OBVIOUS
  <2> HIDE DEF S
  <2> QED BY <1>3, <2>1, <2>2
<1> QED BY <1>4

LEMMA FlattenOfNone == FlattenSeq(<<>>) = <<>>
<1>1. Len(<<>>) = 0
  BY EmptySeq
<1> QED BY <1>1, Zenon DEF FlattenSeq

LEMMA FlattenIsSeq ==
  ASSUME NEW T, NEW s \in Seq(Seq(T))
  PROVE  FlattenSeq(s) \in Seq(T)
<1>1. CASE Len(s) = 0
  <2>1. s = <<>>
    BY <1>1
  <2> QED BY <2>1, FlattenOfNone, EmptySeq
<1>2. CASE Len(s) # 0
  <2>1. FlattenSeq(s) = Flat(s)[Len(s)]
    BY <1>2 DEF FlattenSeq, Flat
  <2>2. Len(s) \in 1..Len(s)
    BY <1>2
  <2> QED BY <2>1, <2>2, FlatExists
<1> QED BY <1>1, <1>2

(* One more piece is put at the end. *)
LEMMA FlattenOfAppend ==
  ASSUME NEW T, NEW s \in Seq(Seq(T)), NEW x \in Seq(T)
  PROVE  FlattenSeq(Append(s, x)) = FlattenSeq(s) \o x
<1> DEFINE t == Append(s, x)
<1>1. t \in Seq(Seq(T)) /\ Len(t) = Len(s) + 1 /\ Len(s) \in Nat /\ t[Len(s) + 1] = x
  OBVIOUS
<1>2. \A i \in 1..Len(s) : s[i] = t[i]
  OBVIOUS
<1> HIDE DEF t
<1>3. FlattenSeq(t) = Flat(t)[Len(s) + 1]
  <2>1. Len(t) # 0
    BY <1>1
  <2> QED BY <1>1, <2>1 DEF FlattenSeq, Flat
<1>4. IsFlat(Flat(t), t, Len(s) + 1)
  BY <1>1, FlatExists
<1>5. CASE Len(s) = 0
  <2>1. s = <<>>
    BY <1>5
  <2>2. Flat(t)[1] = t[1] /\ t[1] = x
    BY <1>1, <1>4, <1>5 DEF IsFlat
  <2>3. <<>> \o x = x
    BY ConcatEmptySeq
  <2> QED BY <1>3, <1>5, <2>1, <2>2, <2>3, FlattenOfNone DEF t
<1>6. CASE Len(s) # 0
  <2>1. Len(s) + 1 \in 1..(Len(s) + 1) /\ Len(s) + 1 # 1 /\ (Len(s) + 1) - 1 = Len(s)
    BY <1>1, <1>6
  <2>2. Flat(t)[Len(s) + 1] = Flat(t)[Len(s)] \o x
    BY <1>1, <1>4, <2>1 DEF IsFlat
  <2>3. IsFlat(Flat(s), s, Len(s))
    BY FlatExists
  <2>4. Len(s) \in 1..Len(s)
    BY <1>1, <1>6
  <2>5. \A i \in 1..Len(s) : Flat(s)[i] = Flat(t)[i]
    <3> DEFINE F == Flat(s)  G == Flat(t)  n == Len(s)  m == Len(s) + 1
    <3>1. n \in Nat /\ m \in Nat /\ n <= m
      BY <1>1
    <3>2. IsFlat(F, s, n) /\ IsFlat(G, t, m) /\ \A i \in 1..n : s[i] = t[i]
      BY <1>2, <1>4, <2>3
    <3> HIDE DEF F, G, n, m
    <3>3. \A i \in 1..n : F[i] = G[i]
      BY <3>1, <3>2, FlatUnique
    <3> QED BY <3>3 DEF F, G, n
  <2>6. Flat(s)[Len(s)] = Flat(t)[Len(s)]
    BY <2>4, <2>5
  <2>7. FlattenSeq(s) = Flat(s)[Len(s)]
    BY <1>6 DEF FlattenSeq, Flat
  <2> QED BY <1>3, <2>2, <2>6, <2>7 DEF t
<1> QED BY <1>5, <1>6

(* What two lists put together is what one does, then what the other does. *)
LEMMA FlattenOfConcat ==
  ASSUME NEW T, NEW s \in Seq(Seq(T)), NEW t \in Seq(Seq(T))
  PROVE  FlattenSeq(s \o t) = FlattenSeq(s) \o FlattenSeq(t)
<1> DEFINE S == {n \in Nat : \A u \in Seq(Seq(T)) :
                   Len(u) = n => FlattenSeq(s \o u) = FlattenSeq(s) \o FlattenSeq(u)}
<1>0. FlattenSeq(s) \in Seq(T)
  BY FlattenIsSeq
<1>1. 0 \in S
  <2>1. ASSUME NEW u \in Seq(Seq(T)), Len(u) = 0
        PROVE  FlattenSeq(s \o u) = FlattenSeq(s) \o FlattenSeq(u)
    <3>1. u = <<>>
      BY <2>1
    <3>2. s \o <<>> = s /\ FlattenSeq(s) \o <<>> = FlattenSeq(s)
      BY <1>0, ConcatEmptySeq
    <3> QED BY <3>1, <3>2, FlattenOfNone
  <2> QED BY <2>1
<1>2. ASSUME NEW n \in S PROVE n + 1 \in S
  <2>1. ASSUME NEW u \in Seq(Seq(T)), Len(u) = n + 1
        PROVE  FlattenSeq(s \o u) = FlattenSeq(s) \o FlattenSeq(u)
    <3> DEFINE v == SubSeq(u, 1, n)  x == u[n + 1]
    <3>0. n \in Nat
      OBVIOUS
    <3>1. v \in Seq(Seq(T)) /\ Len(v) = n /\ x \in Seq(T) /\ u = Append(v, x)
      BY <2>1, <3>0
    <3> HIDE DEF v, x
    <3>2. s \o u = Append(s \o v, x) /\ s \o v \in Seq(Seq(T))
      BY <3>1
    <3>3. FlattenSeq(s \o v) = FlattenSeq(s) \o FlattenSeq(v)
      BY <3>1
    <3>4. FlattenSeq(u) = FlattenSeq(v) \o x /\ FlattenSeq(v) \in Seq(T)
      BY <3>1, FlattenOfAppend, FlattenIsSeq
    <3>5. FlattenSeq(s \o u) = FlattenSeq(s \o v) \o x
      BY <3>1, <3>2, FlattenOfAppend
    <3>6. (FlattenSeq(s) \o FlattenSeq(v)) \o x = FlattenSeq(s) \o (FlattenSeq(v) \o x)
      <4> DEFINE a == FlattenSeq(s)  b == FlattenSeq(v)
      <4>1. a \in Seq(T) /\ b \in Seq(T) /\ x \in Seq(T)
        BY <1>0, <3>1, <3>4
      <4> HIDE DEF a, b
      <4>2. (a \o b) \o x = a \o (b \o x)
        BY <4>1, ConcatAssociative
      <4> QED BY <4>2 DEF a, b
    <3> QED BY <3>3, <3>4, <3>5, <3>6
  <2>2. n + 1 \in Nat
    OBVIOUS
  <2> HIDE DEF S
  <2> QED BY <2>1, <2>2 DEF S
<1>3. S = Nat
  <2> HIDE DEF S
  <2>1. S \in SUBSET Nat
    BY DEF S
  <2> QED BY <1>1, <1>2, <2>1, Induction
<1>4. Len(t) \in S
  BY <1>3
<1> QED BY <1>4

LEMMA FunctionIsSeq ==
  ASSUME NEW S, NEW n \in Nat, NEW f \in [1..n -> S]
  PROVE  f \in Seq(S) /\ Len(f) = n
OBVIOUS

(* The pieces m has for the elements of a list, put together. *)
Mapped(m, s) == FlattenSeq([i \in 1..Len(s) |-> m[s[i]]])

LEMMA MappedIsSeq ==
  ASSUME NEW K, NEW T, NEW m \in [K -> Seq(T)], NEW s \in Seq(K)
  PROVE  Mapped(m, s) \in Seq(T)
<1> DEFINE f == [i \in 1..Len(s) |-> m[s[i]]]
<1>1. Len(s) \in Nat /\ f \in [1..Len(s) -> Seq(T)]
  OBVIOUS
<1> HIDE DEF f
<1>2. f \in Seq(Seq(T))
  BY <1>1, FunctionIsSeq
<1> QED BY <1>2, FlattenIsSeq DEF f, Mapped

LEMMA MappedConcat ==
  ASSUME NEW K, NEW T, NEW m \in [K -> Seq(T)], NEW s \in Seq(K), NEW t \in Seq(K)
  PROVE  Mapped(m, s \o t) = Mapped(m, s) \o Mapped(m, t)
<1> DEFINE F(u) == [i \in 1..Len(u) |-> m[u[i]]]
<1>1. ASSUME NEW u \in Seq(K) PROVE F(u) \in Seq(Seq(T)) /\ Len(F(u)) = Len(u)
  <2>1. Len(u) \in Nat /\ F(u) \in [1..Len(u) -> Seq(T)]
    OBVIOUS
  <2> HIDE DEF F
  <2> QED BY <2>1, FunctionIsSeq
<1>2. /\ Len(s) \in Nat /\ Len(t) \in Nat
      /\ s \o t \in Seq(K) /\ Len(s \o t) = Len(s) + Len(t)
      /\ \A i \in 1..(Len(s) + Len(t)) :
           (s \o t)[i] = IF i <= Len(s) THEN s[i] ELSE t[i - Len(s)]
  BY ConcatProperties
<1>3. ASSUME NEW i \in 1..(Len(s) + Len(t))
      PROVE  F(s \o t)[i] = IF i <= Len(F(s)) THEN F(s)[i] ELSE F(t)[i - Len(F(s))]
  <2>1. F(s \o t)[i] = m[(s \o t)[i]] /\ Len(F(s)) = Len(s)
    BY <1>2
  <2>2. CASE i <= Len(s)
    <3>1. F(s)[i] = m[s[i]]
      BY <1>2, <2>2
    <3> HIDE DEF F
    <3> QED BY <1>2, <2>1, <2>2, <3>1
  <2>3. CASE ~ (i <= Len(s))
    <3>1. i - Len(s) \in 1..Len(t)
      BY <1>2, <2>3
    <3>2. F(t)[i - Len(s)] = m[t[i - Len(s)]]
      BY <3>1
    <3> HIDE DEF F
    <3> QED BY <1>2, <2>1, <2>3, <3>2
  <2> QED BY <2>2, <2>3
<1> DEFINE a == F(s)  b == F(t)  c == F(s \o t)
<1>4. /\ a \in Seq(Seq(T)) /\ b \in Seq(Seq(T)) /\ c \in Seq(Seq(T))
      /\ Len(c) = Len(a) + Len(b)
      /\ \A i \in 1..(Len(a) + Len(b)) : c[i] = IF i <= Len(a) THEN a[i] ELSE b[i - Len(a)]
  <2> HIDE DEF F
  <2> QED BY <1>1, <1>2, <1>3
<1> HIDE DEF a, b, c
<1>5. /\ a \o b \in Seq(Seq(T)) /\ Len(a \o b) = Len(a) + Len(b)
      /\ \A i \in 1..(Len(a) + Len(b)) :
           (a \o b)[i] = IF i <= Len(a) THEN a[i] ELSE b[i - Len(a)]
  BY <1>4, ConcatProperties
<1>6. c = a \o b
  <2>1. Len(a) \in Nat /\ Len(b) \in Nat
    BY <1>4
  <2>2. \A i \in 1..Len(c) : c[i] = (a \o b)[i]
    BY <1>4, <1>5
  <2> QED BY <1>4, <1>5, <2>2, SeqEqual
<1>7. FlattenSeq(c) = FlattenSeq(a) \o FlattenSeq(b)
  BY <1>4, <1>6, FlattenOfConcat
<1> QED BY <1>7 DEF a, b, c, Mapped

LEMMA MappedOne ==
  ASSUME NEW K, NEW T, NEW m \in [K -> Seq(T)], NEW k \in K
  PROVE  Mapped(m, <<k>>) = m[k]
<1> DEFINE f == [i \in 1..Len(<<k>>) |-> m[<<k>>[i]]]
<1>1. Len(<<k>>) = 1 /\ <<k>>[1] = k /\ m[k] \in Seq(T)
  OBVIOUS
<1>2. f \in [1..1 -> Seq(T)] /\ f[1] = m[k]
  BY <1>1
<1> HIDE DEF f
<1>3. f \in Seq(Seq(T)) /\ Len(f) = 1
  BY <1>2, FunctionIsSeq
<1>4. <<>> \in Seq(Seq(T)) /\ f = Append(<<>>, m[k])
  BY <1>2, <1>3, EmptySeq
<1>5. FlattenSeq(f) = FlattenSeq(<<>>) \o m[k]
  BY <1>1, <1>4, FlattenOfAppend
<1>6. <<>> \o m[k] = m[k]
  BY <1>1, ConcatEmptySeq
<1> QED BY <1>5, <1>6, FlattenOfNone DEF f, Mapped

-----------------------------------------------------------------------------
(* Clauses and the variables of a text.                                    *)

Chained == {"where", "limit", "orderBy"}

LEMMA PartOfSet ==
  ASSUME NEW c, NEW k, NEW a, NEW j
  PROVE  PartOf(Set(c, k, a), j) = IF j = k THEN <<<<k, a>>>> ELSE PartOf(c, j)
BY DEF PartOf, Set

LEMMA NothingSet == ASSUME NEW k PROVE PartOf(<<>>, k) = <<>>
<1>1. DOMAIN <<>> = {}
  OBVIOUS
<1> QED BY <1>1 DEF PartOf

PartsSet(c) == {<<k, c[k]>> : k \in DOMAIN c}

LEMMA BuildIsMapped ==
  ASSUME NEW c, NEW K, NEW ks \in Seq(K)
  PROVE  /\ [k \in K |-> PartOf(c, k)] \in [K -> Seq(PartsSet(c))]
         /\ Build(c, ks) = Mapped([k \in K |-> PartOf(c, k)], ks)
<1>1. ASSUME NEW k PROVE PartOf(c, k) \in Seq(PartsSet(c))
  <2>1. CASE k \in DOMAIN c
    <3>1. <<k, c[k]>> \in PartsSet(c)
      BY <2>1 DEF PartsSet
    <3> QED BY <2>1, <3>1 DEF PartOf
  <2>2. CASE k \notin DOMAIN c
    BY <2>2, EmptySeq DEF PartOf
  <2> QED BY <2>1, <2>2
<1> DEFINE m == [k \in K |-> PartOf(c, k)]
<1>2. m \in [K -> Seq(PartsSet(c))]
  BY <1>1
<1>3. \A i \in 1..Len(ks) : m[ks[i]] = PartOf(c, ks[i])
  OBVIOUS
<1> HIDE DEF m
<1>4. [i \in 1..Len(ks) |-> m[ks[i]]] = [i \in 1..Len(ks) |-> PartOf(c, ks[i])]
  BY <1>3
<1>5. Build(c, ks) = Mapped(m, ks)
  BY <1>4 DEF Build, Mapped
<1> QED BY <1>2, <1>5 DEF m

LEMMA BuildIsSeq ==
  ASSUME NEW c, NEW K, NEW ks \in Seq(K)
  PROVE  Build(c, ks) \in Seq(PartsSet(c))
<1> DEFINE m == [k \in K |-> PartOf(c, k)]
<1>1. m \in [K -> Seq(PartsSet(c))] /\ Build(c, ks) = Mapped(m, ks)
  BY BuildIsMapped
<1> HIDE DEF m
<1> QED BY <1>1, MappedIsSeq

LEMMA BuildOfOne == ASSUME NEW c, NEW k PROVE Build(c, <<k>>) = PartOf(c, k)
<1> DEFINE m == [j \in {k} |-> PartOf(c, j)]
<1>1. <<k>> \in Seq({k}) /\ k \in {k} /\ m[k] = PartOf(c, k)
  OBVIOUS
<1>2. m \in [{k} -> Seq(PartsSet(c))] /\ Build(c, <<k>>) = Mapped(m, <<k>>)
  BY <1>1, BuildIsMapped
<1> HIDE DEF m
<1>3. Mapped(m, <<k>>) = m[k]
  BY <1>1, <1>2, MappedOne
<1> QED BY <1>1, <1>2, <1>3

LEMMA BuildOfConcat ==
  ASSUME NEW c, NEW K, NEW ks \in Seq(K), NEW ls \in Seq(K)
  PROVE  Build(c, ks \o ls) = Build(c, ks) \o Build(c, ls)
<1> DEFINE m == [k \in K |-> PartOf(c, k)]
<1>1. ks \o ls \in Seq(K)
  BY ConcatProperties
<1>2. /\ m \in [K -> Seq(PartsSet(c))]
      /\ Build(c, ks) = Mapped(m, ks) /\ Build(c, ls) = Mapped(m, ls)
      /\ Build(c, ks \o ls) = Mapped(m, ks \o ls)
  BY <1>1, BuildIsMapped
<1> HIDE DEF m
<1>3. Mapped(m, ks \o ls) = Mapped(m, ks) \o Mapped(m, ls)
  <2> DEFINE P == PartsSet(c)
  <2>1. m \in [K -> Seq(P)]
    BY <1>2
  <2> HIDE DEF P
  <2> QED BY <2>1, MappedConcat
<1> QED BY <1>2, <1>3

SameClauses(c, d) == \A k \in Chained : PartOf(c, k) = PartOf(d, k)

HeadThenClauses(c, d, head, tab, takes) ==
  Build(Set(c, head, tab), <<head>> \o takes) = <<<<head, tab>>>> \o Build(d, takes)

(* The clauses built after a head are those that were given. *)
LEMMA HeadAndClauses ==
  ASSUME NEW c, NEW d, NEW head, NEW tab, NEW takes \in Seq(Chained), head \notin Chained,
         SameClauses(c, d)
  PROVE  HeadThenClauses(c, d, head, tab, takes)
<1> DEFINE e == Set(c, head, tab)  K == Chained \cup {head}
<1>1. <<head>> \in Seq(K) /\ takes \in Seq(K)
  OBVIOUS
<1>2. Build(e, <<head>> \o takes) = Build(e, <<head>>) \o Build(e, takes)
  <2> HIDE DEF e, K
  <2> QED BY <1>1, BuildOfConcat
<1>3. Build(e, <<head>>) = <<<<head, tab>>>>
  BY BuildOfOne, PartOfSet
<1>4. Build(e, takes) = Build(d, takes)
  <2>1. ASSUME NEW i \in 1..Len(takes) PROVE PartOf(e, takes[i]) = PartOf(d, takes[i])
    <3>1. takes[i] \in Chained
      OBVIOUS
    <3>2. PartOf(e, takes[i]) = PartOf(c, takes[i])
      BY <3>1, PartOfSet
    <3> HIDE DEF e
    <3> QED BY <3>1, <3>2 DEF SameClauses
  <2> HIDE DEF e
  <2> QED BY <2>1 DEF Build
<1> QED BY <1>2, <1>3, <1>4 DEF HeadThenClauses

LEMMA VarsIsMapped ==
  ASSUME NEW T, NEW s \in Seq(T)
  PROVE  /\ [p \in T |-> VarsOf(p)] \in [T -> Seq(T)]
         /\ Vars(s) = Mapped([p \in T |-> VarsOf(p)], s)
<1> DEFINE m == [p \in T |-> VarsOf(p)]
<1>1. m \in [T -> Seq(T)]
  BY EmptySeq DEF VarsOf
<1>2. \A i \in 1..Len(s) : m[s[i]] = VarsOf(s[i])
  OBVIOUS
<1> HIDE DEF m
<1>3. [i \in 1..Len(s) |-> m[s[i]]] = [i \in 1..Len(s) |-> VarsOf(s[i])]
  BY <1>2
<1>4. Vars(s) = Mapped(m, s)
  BY <1>3 DEF Vars, Mapped
<1> QED BY <1>1, <1>4 DEF m

LEMMA VarsIsSeq == ASSUME NEW T, NEW s \in Seq(T) PROVE Vars(s) \in Seq(T)
<1> DEFINE m == [p \in T |-> VarsOf(p)]
<1>1. m \in [T -> Seq(T)] /\ Vars(s) = Mapped(m, s)
  BY VarsIsMapped
<1> HIDE DEF m
<1>2. Mapped(m, s) \in Seq(T)
  BY <1>1, MappedIsSeq
<1> QED BY <1>1, <1>2

LEMMA VarsOfNone == Vars(<<>>) = <<>>
<1>1. [i \in 1..Len(<<>>) |-> VarsOf(<<>>[i])] = <<>>
  OBVIOUS
<1> QED BY <1>1, FlattenOfNone DEF Vars

(* The variables of a text are those of its parts, wherever it is divided. *)
LEMMA VarsOfConcat ==
  ASSUME NEW T, NEW s \in Seq(T), NEW t \in Seq(T)
  PROVE  Vars(s \o t) = Vars(s) \o Vars(t)
<1> DEFINE m == [p \in T |-> VarsOf(p)]
<1>1. s \o t \in Seq(T)
  BY ConcatProperties
<1>2. /\ m \in [T -> Seq(T)] /\ Vars(s) = Mapped(m, s) /\ Vars(t) = Mapped(m, t)
      /\ Vars(s \o t) = Mapped(m, s \o t)
  BY <1>1, VarsIsMapped
<1> HIDE DEF m
<1> QED BY <1>2, MappedConcat

-----------------------------------------------------------------------------
(* The session.                                                            *)

(* Before anything is asked of the session it holds nothing. *)
LEMMA SessionInitInv == SessionInit => StatementInv
<1> SUFFICES ASSUME SessionInit PROVE StatementInv
  OBVIOUS
<1> USE SessionAssumption DEF SessionInit, NoOp, Nothing
<1>0. DOMAIN <<>> = {}
  OBVIOUS
<1>1. SessionTypeOK
  BY <1>0, EmptySeq DEF SessionTypeOK
<1>2. VarsMatch /\ StatementIsGiven
  BY VarsOfNone DEF VarsMatch, StatementIsGiven
<1>3. OpInv
  BY EmptySeq DEF OpInv
<1>4. AsGiven
  BY EmptySeq DEF AsGiven
<1>5. HeadSet
  BY DEF HeadSet
<1> QED BY <1>1, <1>2, <1>3, <1>4, <1>5 DEF StatementInv, SessionInv

(* A statement is sent: nothing is left of it. *)
LEMMA SendsKeeps ==
  ASSUME StatementInv, NEW T, NEW parts \in Seq(T), Sends(parts, parts),
         refTable' \in Types \cup {Nil}, OpInv',
         op'.kind = "insert" => op'.next <= Len(op'.values),
         op'.next \in 1..(MaxValues + 1)
  PROVE  StatementInv'
<1> USE SessionAssumption DEF StatementInv, SessionInv
<1>0. /\ sent' = [sql |-> sql \o parts, vars |-> sqlVars \o Vars(parts), should |-> raws \o parts]
      /\ sql' = <<>> /\ sqlVars' = <<>> /\ clause' = <<>> /\ given' = <<>> /\ raws' = <<>>
      /\ DOMAIN <<>> = {}
  BY DEF Sends, NoVars
<1>1. SessionTypeOK'
  BY <1>0, EmptySeq DEF SessionTypeOK, OpInv
<1>2. VarsMatch'
  <2> DEFINE U == T \cup {<<"raw", 1>>}
  <2>1. sql \in Seq(U) /\ parts \in Seq(U)
    BY DEF AsGiven
  <2>2. Vars(sql \o parts) = Vars(sql) \o Vars(parts)
    <3> HIDE DEF U
    <3> QED BY <2>1, VarsOfConcat
  <2>3. sqlVars = Vars(sql)
    BY DEF VarsMatch
  <2>4. sent'.vars = Vars(sent'.sql)
    BY <1>0, <2>2, <2>3
  <2>5. sqlVars' = Vars(sql')
    BY <1>0, VarsOfNone
  <2> QED BY <2>4, <2>5 DEF VarsMatch
<1>3. StatementIsGiven'
  BY <1>0 DEF StatementIsGiven, AsGiven
<1>4. AsGiven'
  BY <1>0, EmptySeq DEF AsGiven
<1>5. HeadSet'
  <2>1. op'.kind = "insert" => ~ (op'.next > Len(op'.values))
    BY DEF OpInv
  <2> QED BY <2>1 DEF HeadSet
<1> QED BY <1>1, <1>2, <1>3, <1>4, <1>5

(* The same, when the operation whose hooks may run is not changed. *)
LEMMA UserSendsKeeps ==
  ASSUME StatementInv, UserCode(op), NEW T, NEW parts \in Seq(T), Sends(parts, parts),
         refTable' \in Types \cup {Nil}, op' = op
  PROVE  StatementInv'
<1>1. OpInv' /\ op'.next \in 1..(MaxValues + 1)
  BY DEF StatementInv, SessionInv, SessionTypeOK, OpInv
<1>2. op'.kind = "insert" => op'.next <= Len(op'.values)
  BY DEF UserCode
<1> QED BY <1>1, <1>2, SendsKeeps

(* What a chain method is given, the session holds. *)
LEMMA ChainKeeps ==
  ASSUME StatementInv, NEW kind \in Chained, NEW arg, Chain(kind, arg)
  PROVE  StatementInv'
<1> USE SessionAssumption DEF StatementInv, SessionInv, Chain
<1>1. SessionTypeOK'
  <2>1. DOMAIN clause' = DOMAIN clause \cup {kind} /\ DOMAIN given' = DOMAIN given \cup {kind}
    BY DEF Set
  <2> QED BY <2>1 DEF SessionTypeOK, Chained
<1>2. VarsMatch' /\ StatementIsGiven'
  BY VarsOfNone DEF VarsMatch, StatementIsGiven, Nothing
<1>3. OpInv'
  BY DEF OpInv
<1>4. AsGiven'
  <2>1. ASSUME NEW k \in {"where", "limit", "orderBy"}
        PROVE  PartOf(clause', k) = PartOf(given', k)
    <3>1. PartOf(clause, k) = PartOf(given, k)
      BY DEF AsGiven
    <3>2. /\ PartOf(clause', k) = IF k = kind THEN <<<<kind, arg>>>> ELSE PartOf(clause, k)
          /\ PartOf(given', k) = IF k = kind THEN <<<<kind, arg>>>> ELSE PartOf(given, k)
      BY PartOfSet
    <3> QED BY <3>1, <3>2
  <2> QED BY <2>1 DEF AsGiven
<1>5. HeadSet'
  BY DEF HeadSet, UserCode, OpInv
<1> QED BY <1>1, <1>2, <1>3, <1>4, <1>5

(* Find, Update, Delete and Count send their own head and the clauses given. *)
LEMMA OperationKeeps ==
  ASSUME StatementInv, UserCode(op), NEW head, head \notin Chained, NEW tab,
         NEW takes \in Seq(Chained), Operation(head, tab, takes),
         refTable' \in Types \cup {Nil}, op' = op
  PROVE  StatementInv'
<1> DEFINE c == Set(clause, head, tab)  ks == <<head>> \o takes
<1>1. SameClauses(clause, given)
  BY DEF StatementInv, AsGiven, Chained, SameClauses
<1>2. Build(c, ks) = <<<<head, tab>>>> \o Build(given, takes)
  <2>1. HeadThenClauses(clause, given, head, tab, takes)
    BY <1>1, HeadAndClauses
  <2> QED BY <2>1 DEF HeadThenClauses
<1>3. ks \in Seq(Chained \cup {head})
  OBVIOUS
<1> HIDE DEF c, ks
<1> DEFINE parts == Build(c, ks)
<1>4. parts \in Seq(PartsSet(c))
  BY <1>3, BuildIsSeq
<1>5. Sends(parts, parts)
  BY <1>2 DEF Operation, c, ks
<1> HIDE DEF parts
<1> QED BY <1>4, <1>5, UserSendsKeeps

LEMMA FindKeeps ==
  ASSUME StatementInv, NEW ty \in Structs, NEW first \in BOOLEAN, Find(ty, first)
  PROVE  StatementInv'
<1> DEFINE c == Limited(clause, first)  d == Limited(given, first)
           takes == <<"where", "orderBy", "limit">>
           e == Set(c, "select", Parse(ty))  ks == <<"select">> \o takes
<1>1. SameClauses(c, d)
  <2>1. ASSUME NEW k \in Chained PROVE PartOf(c, k) = PartOf(d, k)
    <3>1. PartOf(clause, k) = PartOf(given, k)
      BY DEF StatementInv, AsGiven, Chained
    <3>2. /\ PartOf(Set(clause, "limit", 1), k) =
               IF k = "limit" THEN <<<<"limit", 1>>>> ELSE PartOf(clause, k)
          /\ PartOf(Set(given, "limit", 1), k) =
               IF k = "limit" THEN <<<<"limit", 1>>>> ELSE PartOf(given, k)
      BY PartOfSet
    <3> QED BY <3>1, <3>2 DEF Limited
  <2> QED BY <2>1 DEF SameClauses
<1>2. takes \in Seq(Chained) /\ ks \in Seq(Chained \cup {"select"}) /\ "select" \notin Chained
  BY DEF Chained
<1>3. Build(e, ks) = <<<<"select", Parse(ty)>>>> \o Build(d, takes)
  <2> HIDE DEF c, d, takes
  <2> QED BY <1>1, <1>2, HeadAndClauses DEF HeadThenClauses
<1>4. refTable' = ty /\ ty \in Types
  BY SessionAssumption DEF Find, Model
<1>5. Sends(Build(e, ks), Build(e, ks))
  BY <1>3, <1>4 DEF Find
<1> HIDE DEF c, d, e, ks, takes
<1> DEFINE parts == Build(e, ks)
<1>6. parts \in Seq(PartsSet(e)) /\ Sends(parts, parts)
  BY <1>2, <1>5, BuildIsSeq
<1> HIDE DEF parts
<1>7. CASE ty \in HasAfterQuery
  <2>1. op' = [NoOp EXCEPT !.kind = "find"]
    BY <1>7 DEF Find
  <2>2. op'.kind = "find" /\ op'.next = 1 /\ op' \in [kind : {"none", "insert", "find"}, values : Seq(Types), next : Nat]
    BY <2>1, EmptySeq DEF NoOp
  <2>3. OpInv' /\ op'.next \in 1..(MaxValues + 1)
    BY <2>2, SessionAssumption DEF OpInv
  <2> QED BY <1>4, <1>6, <2>2, <2>3, SendsKeeps
<1>8. CASE ty \notin HasAfterQuery
  <2>1. op' = op /\ UserCode(op)
    BY <1>8 DEF Find
  <2> QED BY <1>4, <1>6, <2>1, UserSendsKeeps
<1> QED BY <1>7, <1>8

LEMMA InsertSendsKeeps == StatementInv /\ InsertSends => StatementInv'
<1> SUFFICES ASSUME StatementInv, InsertSends PROVE StatementInv'
  OBVIOUS
<1> DEFINE c == Set(clause, "values", op.values)  ks == <<"insert", "values">>
           parts == Build(c, ks)
<1>1. Build(c, <<"insert">>) = PartOf(clause, "insert")
  BY BuildOfOne, PartOfSet
<1>2. Build(c, <<"values">>) = <<<<"values", op.values>>>>
  BY BuildOfOne, PartOfSet
<1>3. PartOf(clause, "insert") = <<<<"insert", Parse(Last(op.values))>>>>
  BY DEF StatementInv, HeadSet, InsertSends
<1>4. /\ <<"insert">> \in Seq({"insert", "values"}) /\ <<"values">> \in Seq({"insert", "values"})
      /\ ks \in Seq({"insert", "values"}) /\ ks = <<"insert">> \o <<"values">>
  OBVIOUS
<1>5. parts = Build(c, <<"insert">>) \o Build(c, <<"values">>)
  <2> DEFINE K == {"insert", "values"}  a == <<"insert">>  b == <<"values">>
  <2>1. a \in Seq(K) /\ b \in Seq(K) /\ ks = a \o b
    BY <1>4
  <2> HIDE DEF c, K, a, b, ks
  <2>2. Build(c, a \o b) = Build(c, a) \o Build(c, b)
    BY <2>1, BuildOfConcat
  <2> QED BY <2>1, <2>2 DEF a, b
<1>6. parts = <<<<"insert", Parse(Last(op.values))>>, <<"values", op.values>>>>
  <2> HIDE DEF parts, c
  <2>1. parts = <<<<"insert", Parse(Last(op.values))>>>> \o <<<<"values", op.values>>>>
    BY <1>1, <1>2, <1>3, <1>5
  <2>2. ASSUME NEW a, NEW b PROVE <<a>> \o <<b>> = <<a, b>>
    <3> DEFINE T == {a, b}  s == <<a>>  t == <<b>>
    <3>1. /\ s \in Seq(T) /\ t \in Seq(T) /\ <<a, b>> \in Seq(T)
          /\ Len(s) = 1 /\ Len(t) = 1 /\ s[1] = a /\ t[1] = b
      OBVIOUS
    <3> HIDE DEF T, s, t
    <3>2. s \o t \in Seq(T) /\ Len(s \o t) = 2 /\ (s \o t)[1] = a /\ (s \o t)[2] = b
      BY <3>1, ConcatProperties
    <3>3. s \o t = <<a, b>>
      <4>1. \A i \in 1..2 : (s \o t)[i] = <<a, b>>[i]
        <5>1. \A i \in 1..2 : i = 1 \/ i = 2
          OBVIOUS
        <5> QED BY <3>2, <5>1
      <4>2. Len(<<a, b>>) = 2
        OBVIOUS
      <4> QED BY <3>1, <3>2, <4>1, <4>2, SeqEqual
    <3> QED BY <3>3 DEF s, t
  <2> QED BY <2>1, <2>2
<1>7. parts \in Seq(PartsSet(c))
  <2> HIDE DEF c, ks
  <2> QED BY <1>4, BuildIsSeq
<1>8. Sends(parts, parts)
  BY <1>6 DEF InsertSends
<1> HIDE DEF parts, c, ks
<1>9. op' = NoOp /\ refTable' = refTable
  BY DEF InsertSends
<1>10. /\ op'.kind = "none" /\ op'.next = 1 /\ OpInv' /\ op'.next \in 1..(MaxValues + 1)
       /\ refTable' \in Types \cup {Nil}
  BY <1>9, EmptySeq, SessionAssumption DEF NoOp, OpInv, StatementInv, SessionInv, SessionTypeOK
<1> QED BY <1>7, <1>8, <1>10, SendsKeeps

(* The steps that send nothing and are given nothing. *)
LEMMA RawKeeps == StatementInv /\ Raw => StatementInv'
<1> SUFFICES ASSUME StatementInv, Raw PROVE StatementInv'
  OBVIOUS
<1> USE SessionAssumption DEF StatementInv, SessionInv, Raw
<1> DEFINE r == <<"raw", 1>>
<1>0. sql \in Seq({r}) /\ r \in {r} /\ sql' = Append(sql, r) /\ sqlVars' = Append(sqlVars, r)
  BY DEF AsGiven
<1>1. SessionTypeOK'
  <2>1. Len(sql') = Len(sql) + 1 /\ Len(sql) \in Nat
    BY <1>0
  <2> QED BY <2>1 DEF SessionTypeOK
<1>2. VarsMatch' /\ StatementIsGiven'
  <2>1. Vars(sql \o <<r>>) = Vars(sql) \o Vars(<<r>>)
    <3>1. <<r>> \in Seq({r})
      OBVIOUS
    <3> HIDE DEF r
    <3> QED BY <1>0, <3>1, VarsOfConcat
  <2>2. Vars(<<r>>) = <<r>>
    <3> DEFINE m == [p \in {r} |-> VarsOf(p)]
    <3>1. <<r>> \in Seq({r}) /\ r \in {r} /\ m[r] = VarsOf(r)
      OBVIOUS
    <3>2. VarsOf(r) = <<r>>
      BY DEF VarsOf
    <3> HIDE DEF r
    <3>3. m \in [{r} -> Seq({r})] /\ Vars(<<r>>) = Mapped(m, <<r>>)
      BY <3>1, VarsIsMapped
    <3> HIDE DEF m
    <3>4. Mapped(m, <<r>>) = m[r]
      BY <3>1, <3>3, MappedOne
    <3> QED BY <3>1, <3>2, <3>3, <3>4
  <2>3. sqlVars = Vars(sql) /\ Vars(sql) \in Seq({r})
    <3>1. sqlVars = Vars(sql)
      BY DEF VarsMatch
    <3>2. Vars(sql) \in Seq({r})
      BY <1>0, VarsIsSeq
    <3> QED BY <3>1, <3>2
  <2> HIDE DEF r
  <2>4. sql' = sql \o <<r>> /\ sqlVars' = sqlVars \o <<r>>
    <3>1. ASSUME NEW T, NEW s \in Seq(T), NEW x \in T PROVE Append(s, x) = s \o <<x>>
      OBVIOUS
    <3> QED BY <1>0, <2>3, <3>1
  <2>5. sqlVars' = Vars(sql')
    BY <2>1, <2>2, <2>3, <2>4
  <2> QED BY <2>5, VarsOfNone DEF VarsMatch, StatementIsGiven, Nothing
<1>3. OpInv'
  BY DEF OpInv
<1>4. AsGiven'
  BY DEF AsGiven
<1>5. HeadSet'
  BY DEF HeadSet, UserCode, OpInv
<1> QED BY <1>1, <1>2, <1>3, <1>4, <1>5

LEMMA UserModelKeeps ==
  ASSUME StatementInv, NEW ty \in Types, UserModel(ty)
  PROVE  StatementInv'
<1> USE SessionAssumption DEF StatementInv, SessionInv, UserModel, Model
<1>1. SessionTypeOK' /\ OpInv' /\ AsGiven'
  BY DEF SessionTypeOK, OpInv, AsGiven
<1>2. VarsMatch' /\ StatementIsGiven'
  BY VarsOfNone DEF VarsMatch, StatementIsGiven, Nothing
<1>3. HeadSet'
  BY DEF HeadSet
<1> QED BY <1>1, <1>2, <1>3

LEMMA FindReturnsKeeps == StatementInv /\ FindReturns => StatementInv'
<1> SUFFICES ASSUME StatementInv, FindReturns PROVE StatementInv'
  OBVIOUS
<1> USE SessionAssumption DEF StatementInv, SessionInv, FindReturns, session
<1>1. SessionTypeOK' /\ OpInv' /\ AsGiven'
  BY EmptySeq DEF SessionTypeOK, OpInv, AsGiven, NoOp
<1>2. VarsMatch' /\ StatementIsGiven'
  BY VarsOfNone DEF VarsMatch, StatementIsGiven, Nothing
<1>3. HeadSet'
  BY DEF HeadSet, NoOp
<1> QED BY <1>1, <1>2, <1>3

LEMMA InsertKeeps ==
  ASSUME StatementInv, NEW n \in 1..MaxValues, NEW values \in [1..n -> Types], Insert(values)
  PROVE  StatementInv'
<1> USE SessionAssumption DEF StatementInv, SessionInv, Insert, session
<1>1. values \in Seq(Types) /\ Len(values) = n
  BY FunctionIsSeq
<1>2. op'.kind = "insert" /\ op'.values = values /\ op'.next = 1
  BY DEF NoOp
<1>3. SessionTypeOK' /\ OpInv'
  <2>2. op' \in [kind : {"none", "insert", "find"}, values : Seq(Types), next : Nat]
    BY <1>1 DEF NoOp
  <2>3. 1 \in 1..(MaxValues + 1) /\ 1 \in 1..(Len(values) + 1) /\ Len(values) \in 1..MaxValues
    BY <1>1
  <2>4. SessionTypeOK'
    BY <1>2, <2>3 DEF SessionTypeOK
  <2>5. OpInv'
    BY <1>2, <2>2, <2>3 DEF OpInv
  <2> QED BY <2>4, <2>5
<1>4. VarsMatch' /\ StatementIsGiven'
  BY VarsOfNone DEF VarsMatch, StatementIsGiven, Nothing
<1>5. AsGiven'
  BY DEF AsGiven
<1>6. HeadSet'
  <2>1. ~ (1 > Len(values))
    BY <1>1
  <2> QED BY <1>2, <2>1 DEF HeadSet
<1> QED BY <1>3, <1>4, <1>5, <1>6

LEMMA InsertValueKeeps == StatementInv /\ InsertValue => StatementInv'
<1> SUFFICES ASSUME StatementInv, InsertValue PROVE StatementInv'
  OBVIOUS
<1> USE SessionAssumption DEF StatementInv, SessionInv, InsertValue, Model
<1>0. /\ op \in [kind : {"none", "insert", "find"}, values : Seq(Types), next : Nat]
      /\ op.kind = "insert" /\ op.next \in 1..Len(op.values) /\ Len(op.values) \in 1..MaxValues
      /\ op' = [op EXCEPT !.next = @ + 1]
  BY DEF OpInv
<1>1. /\ op' \in [kind : {"none", "insert", "find"}, values : Seq(Types), next : Nat]
      /\ op'.kind = "insert" /\ op'.values = op.values /\ op'.next = op.next + 1
  BY <1>0
<1>2. refTable' = op.values[op.next] /\ refTable' \in Types
  BY <1>0
<1>3. SessionTypeOK'
  <2>1. DOMAIN clause' = DOMAIN clause \cup {"insert"}
    BY DEF Set
  <2> QED BY <1>0, <1>1, <1>2, <2>1 DEF SessionTypeOK
<1>4. VarsMatch' /\ StatementIsGiven'
  BY VarsOfNone DEF VarsMatch, StatementIsGiven, Nothing
<1>5. OpInv'
  BY <1>0, <1>1 DEF OpInv
<1>6. \A k : PartOf(clause', k) =
        IF k = "insert" THEN <<<<"insert", Parse(refTable')>>>> ELSE PartOf(clause, k)
  BY PartOfSet
<1>7. AsGiven'
  BY <1>6 DEF AsGiven
<1>8. HeadSet'
  <2> SUFFICES ASSUME op'.next > Len(op'.values)
               PROVE  PartOf(clause', "insert") = <<<<"insert", Parse(Last(op'.values))>>>>
    BY DEF HeadSet, Parse
  <2>1. op.next = Len(op.values)
    BY <1>0, <1>1
  <2>2. Last(op'.values) = refTable'
    BY <1>1, <1>2, <2>1 DEF Last
  <2> QED BY <1>6, <2>2
<1> QED BY <1>3, <1>4, <1>5, <1>7, <1>8

(* A step that changes nothing. *)
LEMMA SessionStutters == StatementInv /\ UNCHANGED sessionVars => StatementInv'
BY DEF StatementInv, SessionInv, sessionVars, session, SessionTypeOK, VarsMatch,
       StatementIsGiven, OpInv, AsGiven, HeadSet

LEMMA SessionNextInv == StatementInv /\ [SessionNext]_sessionVars => StatementInv'
<1> SUFFICES ASSUME StatementInv, [SessionNext]_sessionVars PROVE StatementInv'
  OBVIOUS
<1>0. refTable \in Types \cup {Nil}
  BY DEF StatementInv, SessionInv, SessionTypeOK
<1>1. CASE Where \/ Limit \/ OrderBy
  BY <1>1, ChainKeeps DEF Where, Limit, OrderBy, Chained
<1>2. ASSUME NEW ty \in Types, UserModel(ty) PROVE StatementInv'
  BY <1>2, UserModelKeeps
<1>3. CASE Raw
  BY <1>3, RawKeeps
<1>4. CASE ExecRaw
  <2>1. Sends(<<>>, <<>>) /\ UserCode(op) /\ op' = op /\ refTable' \in Types \cup {Nil}
    BY <1>0, <1>4 DEF ExecRaw
  <2> DEFINE parts == <<>>  T == {}
  <2>2. parts \in Seq(T) /\ Sends(parts, parts)
    BY <2>1, EmptySeq
  <2> HIDE DEF parts, T
  <2> QED BY <2>1, <2>2, UserSendsKeeps
<1>5. CASE TableOperation
  <2> DEFINE parts == <<<<"raw", Parse(refTable)>>>>  T == {<<"raw", Parse(refTable)>>}
  <2>1. parts \in Seq(T) /\ Sends(parts, parts) /\ UserCode(op) /\ op' = op
    BY <1>5 DEF TableOperation
  <2>2. refTable' \in Types \cup {Nil}
    BY <1>0, <1>5 DEF TableOperation
  <2> HIDE DEF parts, T
  <2> QED BY <2>1, <2>2, UserSendsKeeps
<1>6. <<"where">> \in Seq(Chained) /\ {"update", "count", "delete"} \cap Chained = {}
  BY DEF Chained
<1>7. CASE Update
  <2>1. /\ Operation("update", Parse(refTable), <<"where">>) /\ "update" \notin Chained
        /\ UserCode(op) /\ op' = op /\ refTable' \in Types \cup {Nil}
    BY <1>0, <1>6, <1>7 DEF Update
  <2> QED BY <1>6, <2>1, OperationKeeps
<1>8. CASE Count
  <2>1. /\ Operation("count", Parse(refTable), <<"where">>) /\ "count" \notin Chained
        /\ UserCode(op) /\ op' = op /\ refTable' \in Types \cup {Nil}
    BY <1>0, <1>6, <1>8 DEF Count
  <2> QED BY <1>6, <2>1, OperationKeeps
<1>9. ASSUME NEW ty \in Types, Delete(ty) PROVE StatementInv'
  <2>1. /\ Operation("delete", Parse(ty), <<"where">>) /\ "delete" \notin Chained
        /\ UserCode(op) /\ op' = op /\ refTable' \in Types \cup {Nil}
    BY <1>0, <1>6, <1>9 DEF Delete
  <2> QED BY <1>6, <2>1, OperationKeeps
<1>10. ASSUME NEW ty \in Structs, NEW first \in BOOLEAN, Find(ty, first) PROVE StatementInv'
  BY <1>10, FindKeeps
<1>11. CASE FindReturns
  BY <1>11, FindReturnsKeeps
<1>12. ASSUME NEW n \in 1..MaxValues, NEW values \in [1..n -> Types], Insert(values)
       PROVE  StatementInv'
  BY <1>12, InsertKeeps
<1>13. CASE InsertValue
  BY <1>13, InsertValueKeeps
<1>14. CASE InsertSends
  BY <1>14, InsertSendsKeeps
<1>15. CASE UNCHANGED sessionVars
  BY <1>15, SessionStutters
<1> QED
  BY <1>1, <1>2, <1>3, <1>4, <1>5, <1>7, <1>8, <1>9, <1>10, <1>11, <1>12, <1>13, <1>14, <1>15
  DEF SessionNext

(* What the session holds is what it was given since the last statement, the head
   of an Insert is that of its last value once its hooks have returned, and what
   was sent last is what it should be. *)
THEOREM SessionInvariance == SessionSpec => []StatementInv
<1>1. SessionInit => StatementInv
  BY SessionInitInv
<1>2. StatementInv /\ [SessionNext]_sessionVars => StatementInv'
  BY SessionNextInv
<1> QED BY <1>1, <1>2, PTL DEF SessionSpec

(* A placeholder takes the variable given with its own part: a session sends a
   statement with the variables of its own parts, in their order, for any number
   of values, raw texts and statements sent by hooks (raw.go, Raw and Clear). *)
THEOREM OwnVariables == SessionSpec => []SessionInv
<1>1. StatementInv => SessionInv
  BY DEF StatementInv
<1> QED BY <1>1, SessionInvariance, PTL

(* Each statement consists of the raw texts left, the head of its operation for
   its own table and the clauses given for it, whatever the hooks sent in the
   middle of the operation (record.go, clause.go, raw.go). *)
THEOREM OwnStatement == SessionSpec => []StatementIsGiven
<1>1. StatementInv => StatementIsGiven
  BY DEF StatementInv
<1> QED BY <1>1, SessionInvariance, PTL
=============================================================================
