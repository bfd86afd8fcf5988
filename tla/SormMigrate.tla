----------------------------- MODULE SormMigrate -----------------------------
(***************************************************************************)
(* Engine.Migrate of SORM/sorm.go: a transaction whose function adds to    *)
(* the table of a model the columns it lacks and drops those the model     *)
(* does not have, next to the sessions and transactions of the others      *)
(* (SormTransaction).  The database runs the migrations of the table one   *)
(* after another and keeps a change of it only with its transaction.       *)
(***************************************************************************)
EXTENDS SormTransaction

CONSTANTS
  Migrations,  \* those of Transactions that are calls of Migrate
  Columns,
  Fields       \* the columns of the model

ASSUME MigrateAssumption ==
  /\ Migrations \subseteq Transactions
  /\ Fields \subseteq Columns /\ Fields # {}

\* A table has columns.
NoTable == {}

VARIABLES
  table,  \* the columns of the table in the database, or NoTable
  view,   \* what the transaction of each migration sees of it
  step    \* of each: "has", "columns", "change"

mvars == <<vars, table, view, step>>
schema == <<table, view, step>>

MigrateTypeOK ==
  /\ table \in SUBSET Columns
  /\ view \in [Migrations -> SUBSET Columns]
  /\ step \in [Migrations -> {"has", "columns", "change"}]

MigrateInit ==
  /\ Init
  /\ table \in SUBSET Columns
  /\ view = [m \in Migrations |-> NoTable]
  /\ step = [m \in Migrations |-> "has"]

MigrateBegins(m) ==
  /\ \A o \in Migrations : status[Own(o)] # "open"
  /\ BeginTransaction(m)
  /\ view' = [view EXCEPT ![m] = table]
  /\ UNCHANGED <<table, step>>

\* HasTable takes an error of its query for the absence of the table; to create it
\* Migrate then asks for the model of the interface value itself, which panics.
HasTable(m) ==
  /\ Uses(m) /\ step[m] = "has"
  /\ \/ /\ view[m] # NoTable
        /\ step' = [step EXCEPT ![m] = "columns"]
        /\ UNCHANGED vars
     \/ /\ view[m] = NoTable \/ Fails
        /\ FsEnds(m, "panic") /\ UNCHANGED step
  /\ UNCHANGED <<table, view>>

ReadColumns(m) ==
  /\ Uses(m) /\ step[m] = "columns"
  /\ \/ QueryFails(m) /\ UNCHANGED step
     \/ step' = [step EXCEPT ![m] = "change"] /\ UNCHANGED vars
  /\ UNCHANGED <<table, view>>

\* A statement that leaves the table with these columns.
Alters(m, columns) ==
  /\ Uses(m) /\ step[m] = "change"
  /\ Exec(m)
  /\ IF process' = "exited"
     THEN UNCHANGED <<table, view>>
     ELSE /\ view' = [view EXCEPT ![m] = columns]
          /\ table' = IF status[DB(m)] = "open" THEN table ELSE columns
  /\ UNCHANGED step

AddColumn(m) == \E c \in Fields \ view[m] : Alters(m, view[m] \cup {c})

\* Copying the fields to another table and giving it the name is one Exec.
Replace(m) == Fields \subseteq view[m] /\ Fields # view[m] /\ Alters(m, Fields)

MigrateDone(m) ==
  /\ step[m] = "change" /\ view[m] = Fields
  /\ FsEnds(m, "nil")
  /\ UNCHANGED schema

\* Transaction ends; what it returns is dropped, Migrate returns nil.
MigrateReturns(m) ==
  /\ Deferred(m)
  /\ table' = IF status[Own(m)] = "open" /\ status'[Own(m)] = "committed" THEN view[m] ELSE table
  /\ UNCHANGED <<view, step>>

MigrateStep(m) ==
  \/ MigrateBegins(m) \/ HasTable(m) \/ ReadColumns(m)
  \/ AddColumn(m) \/ Replace(m) \/ MigrateDone(m) \/ MigrateReturns(m)

MigrateNext ==
  \/ \E m \in Migrations : MigrateStep(m)
  \/ \E s \in All \ Migrations : Step(s) /\ UNCHANGED schema
  \/ Terminated /\ UNCHANGED schema

MigrateSpec == MigrateInit /\ [][MigrateNext]_mvars

-----------------------------------------------------------------------------
(* Properties.                                                             *)

\* sorm.go:101-105, Migrate adds and deletes columns: however it ends, by an error,
\* a panic, a failing commit or the exit of the process because of another session,
\* the table goes in one step from what it was to the fields of the model, and it
\* has them when the transaction of a Migrate returns nil.
MigratesWhole ==
  [][/\ table' # table => table' = Fields
     /\ \A m \in Migrations :
          pc[m] # "returned" /\ pc'[m] = "returned" /\ ret'[m] = "nil" => table' = Fields]_mvars

\* What its proof needs: while the process is up the transaction of a migration is
\* open as long as Migrate runs, and when it is to be committed its view is the model.
MigrateInv ==
  \A m \in Migrations :
    /\ process = "up" /\ pc[m] \in {"fs", "deferred"} =>
         begun[m] = 1 /\ status[Own(m)] = "open"
    /\ pc[m] = "deferred" /\ ret[m] = "nil" => view[m] = Fields
=============================================================================
