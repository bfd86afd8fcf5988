--------------------------- MODULE SormTransaction ---------------------------
(***************************************************************************)
(* Sessions of one SORM Engine and their transactions: SORM/session/raw.go *)
(* and transaction.go, and Engine.Transaction of SORM/sorm.go.  Sessions   *)
(* are used by goroutines of their own, by hand or inside Transaction.     *)
(*                                                                         *)
(* The database is external: a statement, a commit or a rollback succeeds, *)
(* or fails when Fails.  logger.Error is log.Fatal: the process exits, and *)
(* the database undoes what was not committed.                             *)
(***************************************************************************)
EXTENDS Naturals

CONSTANTS
  Sessions,      \* used by hand
  Transactions,  \* those of a call of Engine.Transaction each
  MaxWrites,     \* bound on the statements of each between two Begins
  MaxBegins,     \* bound on the transactions each begins
  Fails

ASSUME SormAssumption ==
  /\ Sessions \cap Transactions = {}
  /\ MaxWrites \in [Sessions \cup Transactions -> Nat]
  /\ MaxBegins \in Nat \ {0}
  /\ Fails \in BOOLEAN

All == Sessions \cup Transactions

\* The transactions each session begins, in their order, and before them, as
\* number 0, the database itself.
Txs == All \X (0..MaxBegins)

VARIABLES
  process,  \* "up" or "exited"
  begun,    \* the number of the last transaction of each session, its tx; 0 is nil
  status,   \* of each transaction: "nil", "open", or ended: "committed", "undone"
  written,  \* statements its session executed while it was the last
  staged,   \* those the open transaction holds
  durable,  \* those the database keeps
  pc,       \* of the goroutines in Transaction
  ret,      \* how fs, then Transaction returned: "none", "nil", "err", "panic"
  self      \* history: fs ended the transaction of Transaction itself

txs == <<begun, status, written, staged, durable>>
vars == <<process, txs, pc, ret, self>>

TypeOK ==
  /\ process \in {"up", "exited"}
  /\ begun \in [All -> 0..MaxBegins]
  /\ status \in [Txs -> {"nil", "open", "committed", "undone"}]
  /\ {written, staged, durable} \subseteq [Txs -> Nat]
  /\ pc \in [Transactions -> {"begin", "fs", "deferred", "returned"}]
  /\ ret \in [Transactions -> {"none", "nil", "err", "panic"}]
  /\ self \in [Transactions -> BOOLEAN]

Init ==
  /\ process = "up"
  /\ begun = [s \in All |-> 0]
  /\ status = [x \in Txs |-> "nil"]
  /\ written = [x \in Txs |-> 0] /\ staged = written /\ durable = written
  /\ pc = [t \in Transactions |-> "begin"]
  /\ ret = [t \in Transactions |-> "none"]
  /\ self = [t \in Transactions |-> FALSE]

\* Session.tx, and the tx Engine.Transaction keeps: that of its own Begin.
Tx(s) == <<s, begun[s]>>
Own(t) == <<t, 1>>

\* logger.Error: the process is gone, and with it every open transaction.
Exit ==
  /\ process' = "exited"
  /\ status' = [x \in Txs |-> IF status[x] = "open" THEN "undone" ELSE status[x]]
  /\ staged' = [x \in Txs |-> 0]
  /\ UNCHANGED <<begun, written, durable>>

\* db.Begin.  The transaction the session had before stays as it is.
Opens(s) ==
  /\ begun[s] < MaxBegins
  /\ begun' = [begun EXCEPT ![s] = @ + 1]
  /\ status' = [status EXCEPT ![<<s, begun[s] + 1>>] = "open"]
  /\ UNCHANGED <<process, written, staged, durable>>

\* The end of transaction x by the database.
Ends(x, how) ==
  /\ status' = [status EXCEPT ![x] = how]
  /\ durable' = [durable EXCEPT ![x] = IF how = "committed" THEN @ + staged[x] ELSE @]
  /\ staged' = [staged EXCEPT ![x] = 0]
  /\ UNCHANGED <<begun, written>>

Uses(s) == process = "up" /\ (s \in Transactions => pc[s] = "fs")

-----------------------------------------------------------------------------
(* Session.                                                                *)

\* DB(): tx when there is one, even one that has ended; else the database itself.
\* Mutant: always the database.
Direct(s) == <<s, 0>>
DB(s) == Tx(s)

\* A transaction that has ended refuses every statement.
Refused(s) == status[DB(s)] \in {"committed", "undone"} \/ Fails

\* Session.Exec, which logs an error of the database.
Exec(s) ==
  /\ Uses(s) /\ written[Tx(s)] < MaxWrites[s]
  /\ \/ /\ status[DB(s)] \in {"open", "nil"}
        /\ written' = [written EXCEPT ![Tx(s)] = @ + 1]
        /\ IF status[DB(s)] = "open"
           THEN staged' = [staged EXCEPT ![DB(s)] = @ + 1] /\ UNCHANGED durable
           ELSE durable' = [durable EXCEPT ![DB(s)] = @ + 1] /\ UNCHANGED staged
        /\ UNCHANGED <<process, begun, status>>
     \/ Refused(s) /\ Exit
  /\ UNCHANGED <<pc, ret, self>>

\* So does Session.Query, which writes nothing.
QueryFails(s) ==
  /\ Uses(s) /\ Refused(s) /\ Exit
  /\ UNCHANGED <<pc, ret, self>>

\* Session.Begin, by hand or by fs, also while another transaction of the session is
\* open: Commit and Rollback then no longer reach that one.
Begin(s) ==
  /\ Uses(s)
  /\ Opens(s) \/ (Fails /\ Exit)
  /\ UNCHANGED <<pc, ret, self>>

\* Session.Commit and Rollback, after a Begin; fs may call them too.
End(s, how) ==
  /\ Uses(s) /\ begun[s] > 0
  /\ \/ status[Tx(s)] = "open" /\ Ends(Tx(s), how) /\ UNCHANGED process
     \/ (status[Tx(s)] # "open" \/ Fails) /\ Exit
  /\ self' = [t \in Transactions |-> self[t] \/ Own(t) = Tx(s)]
  /\ UNCHANGED <<pc, ret>>

-----------------------------------------------------------------------------
(* Engine.Transaction.                                                     *)

Goto(t, p) == pc' = [pc EXCEPT ![t] = p]

BeginTransaction(t) ==
  /\ process = "up" /\ pc[t] = "begin"
  /\ \/ Opens(t) /\ Goto(t, "fs")
     \/ Fails /\ Exit /\ UNCHANGED pc
  /\ UNCHANGED <<ret, self>>

\* fs returns a result ("nil") or an error, or panics.
FsEnds(t, how) ==
  /\ process = "up" /\ pc[t] = "fs"
  /\ ret' = [ret EXCEPT ![t] = how]
  /\ Goto(t, "deferred")
  /\ UNCHANGED <<process, txs, self>>

\* What the deferred function does after fs.  Mutant: it commits unless fs
\* panicked.
CommitsErrors(how) == IF how = "panic" THEN "undone" ELSE "committed"
Fate(how) == IF how = "nil" THEN "committed" ELSE "undone"

\* It ends its own transaction, whatever fs has made of the session's tx.  The commit
\* fails when fs ended that transaction itself, or in the database, which then undoes
\* it; err tells.  The error of the rollback is dropped.
Deferred(t) ==
  /\ process = "up" /\ pc[t] = "deferred"
  /\ IF status[Own(t)] = "open"
     THEN \/ Ends(Own(t), Fate(ret[t])) /\ UNCHANGED ret
          \/ /\ Fails /\ Ends(Own(t), "undone")
             /\ ret' = [ret EXCEPT ![t] = IF @ = "nil" THEN "err" ELSE @]
     ELSE /\ ret' = [ret EXCEPT ![t] = IF @ = "nil" THEN "err" ELSE @]
          /\ UNCHANGED txs
  /\ Goto(t, "returned")
  /\ UNCHANGED <<process, self>>

\* Nobody is left to do anything.
Terminated ==
  /\ process = "exited" \/ (Sessions = {} /\ \A t \in Transactions : pc[t] = "returned")
  /\ UNCHANGED vars

Step(s) ==
  \/ Exec(s) \/ QueryFails(s) \/ Begin(s)
  \/ End(s, "committed") \/ End(s, "undone")
  \/ /\ s \in Transactions
     /\ \/ BeginTransaction(s) \/ Deferred(s)
        \/ \E how \in {"nil", "err", "panic"} : FsEnds(s, how)

Next == (\E s \in All : Step(s)) \/ Terminated

Spec == Init /\ [][Next]_vars

-----------------------------------------------------------------------------
(* Properties.                                                             *)

\* The database keeps all the statements of a transaction that was committed and
\* none of another, be it undone, open or left behind by a later Begin, also when the
\* failure of some session makes the process exit in the middle; a statement on a
\* session without one is kept at once.
AllOrNothing ==
  \A x \in Txs :
    durable[x] = IF status[x] \in {"committed", "nil"} THEN written[x] ELSE 0

Inv == TypeOK /\ AllOrNothing

\* The return of Transaction tells the fate of the transaction it began: committed
\* when it is nil; undone when it is an error or a panic, unless fs had committed it
\* itself; never left open, not even when fs begins another one.  Of that other one,
\* and of the statements fs executes in it, the return tells nothing.
ReturnTells ==
  \A t \in Transactions : pc[t] = "returned" =>
    /\ ret[t] = "nil" => status[Own(t)] = "committed"
    /\ ret[t] # "nil" => \/ status[Own(t)] = "undone"
                         \/ self[t] /\ status[Own(t)] = "committed"

\* The inductive invariant behind them: an open transaction holds all that was
\* written in it, none that has ended holds anything, those begun are the first
\* ones, and a call of Transaction has its own from begin on, which only fs commits
\* before it returns.
OpenInv ==
  \A x \in Txs :
    /\ staged[x] = IF status[x] = "open" THEN written[x] ELSE 0
    /\ status[x] = "nil" <=> x[2] = 0 \/ x[2] > begun[x[1]]
    /\ x[2] > begun[x[1]] => written[x] = 0

PcInv ==
  \A t \in Transactions :
    /\ pc[t] = "begin" <=> begun[t] = 0
    /\ pc[t] = "deferred" => ret[t] # "none"
    /\ pc[t] \in {"fs", "deferred"} /\ status[Own(t)] = "committed" => self[t]

IInv == Inv /\ OpenInv /\ PcInv /\ ReturnTells
=============================================================================
