----------------------------- MODULE SormSession -----------------------------
(***************************************************************************)
(* The statement a SORM Session puts together: the chain methods, the      *)
(* operations on records and tables, raw statements, and the hooks that    *)
(* use the session in the middle of an operation (SORM/session, clause,    *)
(* schema).  One goroutine uses a session, so that what no hook can        *)
(* interrupt is one step.                                                  *)
(*                                                                         *)
(* The parts of a statement are pairs of a kind and an argument.  What the *)
(* database does with a statement, and that one it refuses ends the        *)
(* process, is in SormTransaction.                                         *)
(***************************************************************************)
EXTENDS Naturals, SequencesExt

CONSTANTS
  Types,       \* of the values given to the session; a pointer has one of its own
  Structs,     \* those that are not pointers: a Find is given a slice of them
  TypeName,    \* the struct's name
  TableName,   \* what the method TableName gives, of the types that have it
  HasBeforeInsert, HasAfterQuery,  \* types with the hook, or whose pointer has it
  Conditions,  \* given to Where
  MaxValues,   \* bound on the values of an Insert
  MaxRaw,      \* bound on the raw texts waiting to be executed
  Nil

ASSUME SessionAssumption ==
  /\ Structs \cup HasBeforeInsert \cup HasAfterQuery \subseteq Types
  /\ DOMAIN TypeName = Types /\ DOMAIN TableName \subseteq Types
  /\ Nil \notin Types
  /\ MaxValues \in Nat \ {0} /\ MaxRaw \in Nat

VARIABLES
  sql,       \* Session.sql: the parts of the text
  sqlVars,   \* Session.sqlVars: the parts whose variables it holds
  clause,    \* Session.clause: kind -> argument, of the kinds that are set
  refTable,  \* Session.refTable: the type it was made for, or Nil
  op,        \* the operation whose hooks may run
  \* read by the properties only
  given,     \* what the chain methods were given since the last statement
  raws,      \* the raw texts since then
  sent       \* the statement sent by the last step, and what it should be

session == <<sql, sqlVars, clause, refTable>>
sessionVars == <<session, op, given, raws, sent>>

Nothing == [sql |-> <<>>, vars |-> <<>>, should |-> <<>>]
NoOp == [kind |-> "none", values |-> <<>>, next |-> 1]

SessionInit ==
  /\ sql = <<>> /\ sqlVars = <<>> /\ clause = <<>>
  /\ refTable = Nil /\ op = NoOp
  /\ given = <<>> /\ raws = <<>> /\ sent = Nothing

-----------------------------------------------------------------------------
(* Clauses.                                                                *)

\* Build: the parts of these kinds, in order, that are set in c.
PartOf(c, kind) == IF kind \in DOMAIN c THEN <<<<kind, c[kind]>>>> ELSE <<>>
Build(c, kinds) == FlattenSeq([i \in 1..Len(kinds) |-> PartOf(c, kinds[i])])

Set(c, kind, arg) == [k \in DOMAIN c \cup {kind} |-> IF k = kind THEN arg ELSE c[k]]

\* The variables of a text, in order: the generators of the other kinds than these
\* return none.
VarsOf(part) == IF part[1] \in {"raw", "values", "where", "update"} THEN <<part>> ELSE <<>>
Vars(parts) == FlattenSeq([i \in 1..Len(parts) |-> VarsOf(parts[i])])

-----------------------------------------------------------------------------
(* The session.                                                            *)

\* The code that runs is the user's, or that of a hook: BeforeInsert of the next
\* value, before Insert sets anything for it, or AfterQuery of a row, after the
\* statement of Find.  Mutant: BeforeInsert runs after it.
AfterSet(o) ==
  o.kind = "insert" => o.next > 1 /\ o.values[o.next - 1] \in HasBeforeInsert
UserCode(o) ==
  o.kind = "insert" => o.next <= Len(o.values) /\ o.values[o.next] \in HasBeforeInsert

\* Parse: the name of the table of a type.
Parse(ty) == IF ty \in DOMAIN TableName THEN TableName[ty] ELSE TypeName[ty]

\* Model parses a type when it is another than before.
Model(ty) == refTable' = ty

\* The variables after Clear.  Mutant: it forgets them.
KeptVars == sqlVars
NoVars == <<>>

\* Raw(parts), then Exec, Query or QueryRow, which Clear.
Sends(parts, should) ==
  /\ sent' = [sql |-> sql \o parts, vars |-> sqlVars \o Vars(parts), should |-> raws \o should]
  /\ sql' = <<>> /\ sqlVars' = NoVars /\ clause' = <<>>
  /\ given' = <<>> /\ raws' = <<>>

Chain(kind, arg) ==
  /\ UserCode(op)
  /\ clause' = Set(clause, kind, arg)
  /\ given' = Set(given, kind, arg) /\ sent' = Nothing
  /\ UNCHANGED <<sql, sqlVars, refTable, op, raws>>

Where == \E c \in Conditions : Chain("where", c)
Limit == Chain("limit", 1)
OrderBy == Chain("orderBy", 1)

UserModel(ty) ==
  /\ UserCode(op) /\ Model(ty)
  /\ sent' = Nothing
  /\ UNCHANGED <<sql, sqlVars, clause, op, given, raws>>

Raw ==
  /\ UserCode(op) /\ Len(sql) < MaxRaw
  /\ sql' = Append(sql, <<"raw", 1>>) /\ sqlVars' = Append(sqlVars, <<"raw", 1>>)
  /\ raws' = Append(raws, <<"raw", 1>>) /\ sent' = Nothing
  /\ UNCHANGED <<clause, refTable, op, given>>

\* Exec, Query or QueryRow of what Raw has left; the clauses are not used.
ExecRaw ==
  /\ UserCode(op) /\ sql # <<>>
  /\ Sends(<<>>, <<>>)
  /\ UNCHANGED <<refTable, op>>

-----------------------------------------------------------------------------
(* Tables.  Without a refTable the operations that need one panic, before  *)
(* they change anything.                                                   *)

\* CreateTable, DropTable and HasTable.
TableOperation ==
  /\ UserCode(op) /\ refTable # Nil
  /\ LET parts == <<<<"raw", Parse(refTable)>>>> IN Sends(parts, parts)
  /\ UNCHANGED <<refTable, op>>

-----------------------------------------------------------------------------
(* Records.                                                                *)

\* What Find, Update, Delete and Count send: a head of their own, and the clauses
\* they take, set earlier by the chain methods.
Operation(head, table, takes) ==
  Sends(Build(Set(clause, head, table), <<head>> \o takes),
        <<<<head, table>>>> \o Build(given, takes))

Update ==
  /\ UserCode(op) /\ refTable # Nil
  /\ Operation("update", Parse(refTable), <<"where">>)
  /\ UNCHANGED <<refTable, op>>

Count ==
  /\ UserCode(op) /\ refTable # Nil
  /\ Operation("count", Parse(refTable), <<"where">>)
  /\ UNCHANGED <<refTable, op>>

\* Delete is given the name of the table.
Delete(ty) ==
  /\ UserCode(op)
  /\ Operation("delete", Parse(ty), <<"where">>)
  /\ UNCHANGED <<refTable, op>>

\* First begins with Limit(1).
Limited(c, first) == IF first THEN Set(c, "limit", 1) ELSE c

\* Find, and First: the hook of every row may run
\* until it returns.  A hook's own Find is of a type without that hook.
Find(ty, first) ==
  /\ UserCode(op) /\ (op # NoOp => ty \notin HasAfterQuery)
  /\ Model(ty)
  /\ LET takes == <<"where", "orderBy", "limit">>
     IN  Sends(Build(Set(Limited(clause, first), "select", Parse(refTable')), <<"select">> \o takes),
               <<<<"select", Parse(ty)>>>> \o Build(Limited(given, first), takes))
  /\ op' = IF ty \in HasAfterQuery THEN [NoOp EXCEPT !.kind = "find"] ELSE op

\* After its rows, or when one cannot be scanned.
FindReturns ==
  /\ op.kind = "find"
  /\ op' = NoOp /\ sent' = Nothing
  /\ UNCHANGED <<session, given, raws>>

\* Insert, not from a hook.
Insert(values) ==
  /\ op = NoOp
  /\ op' = [NoOp EXCEPT !.kind = "insert", !.values = values] /\ sent' = Nothing
  /\ UNCHANGED <<session, given, raws>>

\* The hook of the next value has returned, or there is none.
InsertValue ==
  /\ op.kind = "insert" /\ op.next <= Len(op.values)
  /\ Model(op.values[op.next])
  /\ clause' = Set(clause, "insert", Parse(refTable'))
  /\ op' = [op EXCEPT !.next = @ + 1] /\ sent' = Nothing
  /\ UNCHANGED <<sql, sqlVars, given, raws>>

InsertSends ==
  /\ op.kind = "insert" /\ op.next > Len(op.values)
  /\ Sends(Build(Set(clause, "values", op.values), <<"insert", "values">>),
           <<<<"insert", Parse(Last(op.values))>>, <<"values", op.values>>>>)
  /\ op' = NoOp
  /\ UNCHANGED refTable

SessionNext ==
  \/ Where \/ Limit \/ OrderBy
  \/ \E ty \in Types : UserModel(ty) \/ Delete(ty)
  \/ Raw \/ ExecRaw \/ TableOperation \/ Update \/ Count
  \/ \E ty \in Structs, first \in BOOLEAN : Find(ty, first)
  \/ FindReturns
  \/ \E n \in 1..MaxValues : \E values \in [1..n -> Types] : Insert(values)
  \/ InsertValue \/ InsertSends

SessionSpec == SessionInit /\ [][SessionNext]_sessionVars

-----------------------------------------------------------------------------
(* Properties.                                                             *)

SessionTypeOK ==
  /\ DOMAIN clause \subseteq {"insert", "where", "limit", "orderBy"}
  /\ DOMAIN given \subseteq {"where", "limit", "orderBy"}
  /\ refTable \in Types \cup {Nil}
  /\ op.kind \in {"none", "insert", "find"} /\ op.next \in 1..(MaxValues + 1)
  /\ Len(sql) <= MaxRaw

\* A placeholder takes the variable given with its own part: a statement is sent
\* with the variables of its parts, in their order, and none of another statement.
VarsMatch == sqlVars = Vars(sql) /\ sent.vars = Vars(sent.sql)

SessionInv == SessionTypeOK /\ VarsMatch

\* raw.go:71-72, a session sends many statements: each consists of the raw texts
\* left since the one before, the operation's own head for its own table, and the
\* clauses given since the one before that the operation takes, the last of each
\* kind.  Nothing of an earlier statement gets into it and nothing of its own is
\* lost, whatever statements the hooks of the operation send in its middle.
StatementIsGiven == sent.sql = sent.should

-----------------------------------------------------------------------------
(* What is inductive of them, for the proofs.                              *)

\* The operation whose hooks may run.
OpInv ==
  /\ op \in [kind : {"none", "insert", "find"}, values : Seq(Types), next : Nat]
  /\ op.kind = "insert" =>
       Len(op.values) \in 1..MaxValues /\ op.next \in 1..(Len(op.values) + 1)

\* Of the kinds the chain methods set, the session holds what they were given.
AsGiven ==
  /\ sql = raws /\ sql \in Seq({<<"raw", 1>>})
  /\ \A k \in {"where", "limit", "orderBy"} : PartOf(clause, k) = PartOf(given, k)

\* Once the last hook has returned, the head of an Insert is that of its last value.
HeadSet ==
  op.kind = "insert" /\ op.next > Len(op.values) =>
    PartOf(clause, "insert") = <<<<"insert", Parse(Last(op.values))>>>>

StatementInv == SessionInv /\ StatementIsGiven /\ OpInv /\ AsGiven /\ HeadSet
=============================================================================
