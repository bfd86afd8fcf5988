------------------------------ MODULE Discovery ------------------------------
(***************************************************************************)
(* Service discovery of the SuRPC clients: SuRegistryDiscovery             *)
(* (xclient/discovery_su.go) on top of MultiServerDiscovery                *)
(* (xclient/discovery.go).  Goroutines call Get and GetAll concurrently;   *)
(* each refreshes the list first and picks from it in a second critical    *)
(* section of mu.  The registry is seen through its answers only.          *)
(***************************************************************************)
EXTENDS Naturals, Sequences, FiniteSets, SequencesExt

CONSTANTS
  Addrs,
  Blank,     \* the empty address
  Users,     \* goroutines using the discovery
  Updates,   \* lists that are given to Update by hand
  MaxIndex,  \* bound on the random initial index
  Fails,     \* the registry may fail to answer
  NoOne

ASSUME DiscoveryAssumption ==
  /\ IsFiniteSet(Addrs) /\ Blank \notin Addrs /\ NoOne \notin Users
  /\ Updates \subseteq Seq(Addrs)
  /\ MaxIndex \in Nat
  /\ Fails \in BOOLEAN

VARIABLES
  servers,     \* d.servers
  index,       \* d.index
  fresh,       \* lastUpdate is not older than timeout
  mu,          \* the goroutine in the http.Get of Refresh, or NoOne
  pc,
  result,      \* what each got: a list of addresses, empty on an error
  \* history, read by the properties only
  fetched,     \* answers of the registry since the list last went stale
  round        \* the positions of the last Len(servers) round-robin picks

list == <<servers, index, fresh, mu>>
history == <<fetched, round>>
vars == <<list, pc, result, history>>

TypeOK ==
  /\ servers \in Seq(Addrs \cup {Blank})
  /\ index \in Nat
  /\ fresh \in BOOLEAN
  /\ mu \in Users \cup {NoOne}
  /\ pc \in [Users -> {"idle", "refresh", "fetch", "pick"}]
  /\ result \in [Users -> Seq(Addrs \cup {Blank})]
  /\ \A u \in Users : mu = u <=> pc[u] = "fetch"
  /\ fetched \in Nat
  /\ round \in Seq(Nat)

Init ==
  /\ servers = <<>> /\ index \in 0..MaxIndex
  /\ fresh = FALSE /\ mu = NoOne
  /\ pc = [u \in Users |-> "idle"]
  /\ result = [u \in Users |-> <<>>]
  /\ fetched = 0 /\ round = <<>>

Goto(u, p) == pc' = [pc EXCEPT ![u] = p]

\* mu.Lock and Unlock.  Mutants: Refresh does not lock; it never unlocks.
NoLock == TRUE
Free == mu = NoOne
StayLocked == UNCHANGED mu
Unlock == mu' = NoOne

-----------------------------------------------------------------------------
(* SuRegistryDiscovery.                                                    *)

\* timeout has passed since lastUpdate.
GoStale ==
  /\ fresh
  /\ fresh' = FALSE
  /\ fetched' = 0
  /\ UNCHANGED <<servers, index, mu, pc, result, round>>

\* Get or GetAll is called; both begin with Refresh.
Ask(u) ==
  /\ pc[u] = "idle"
  /\ Goto(u, "refresh")
  /\ result' = [result EXCEPT ![u] = <<>>]
  /\ UNCHANGED <<list, history>>

\* Refresh: nothing to do, or the request to the registry, made holding mu.
Refresh(u) ==
  /\ pc[u] = "refresh" /\ Free
  /\ IF fresh THEN Goto(u, "pick") /\ UNCHANGED mu
              ELSE Goto(u, "fetch") /\ mu' = u
  /\ UNCHANGED <<servers, index, fresh, result, history>>

\* The answer names any servers.  It is split at commas, one element even when it is empty; the new
\* list begins with as many blanks, and the addresses are appended to them.
Parsed(names) ==
  LET n == IF names = {} THEN 1 ELSE Cardinality(names)
  IN  [i \in 1..n |-> Blank] \o SetToSeq(names)

FetchSucceeds(u) ==
  /\ pc[u] = "fetch"
  /\ \E names \in SUBSET Addrs : servers' = Parsed(names)
  /\ fresh' = TRUE /\ Unlock
  /\ Goto(u, "pick")
  /\ fetched' = fetched + 1 /\ round' = <<>>
  /\ UNCHANGED <<index, result>>

FetchFails(u) ==
  /\ Fails /\ pc[u] = "fetch"
  /\ Unlock
  /\ result' = [result EXCEPT ![u] = <<>>]
  /\ Goto(u, "idle")
  /\ UNCHANGED <<servers, index, fresh, history>>

\* Update, by hand.
Update(s) ==
  /\ mu = NoOne
  /\ servers' = s /\ fresh' = TRUE
  /\ round' = <<>>
  /\ UNCHANGED <<index, mu, pc, result, fetched>>

-----------------------------------------------------------------------------
(* MultiServerDiscovery.                                                   *)

Return(u, r) ==
  /\ result' = [result EXCEPT ![u] = r]
  /\ Goto(u, "idle")

\* Get without servers is an error.
GetNone(u) ==
  /\ pc[u] = "pick" /\ mu = NoOne /\ servers = <<>>
  /\ Return(u, <<>>)
  /\ UNCHANGED <<list, history>>

GetRandom(u) ==
  /\ pc[u] = "pick" /\ mu = NoOne
  /\ \E i \in 1..Len(servers) : Return(u, <<servers[i]>>)
  /\ UNCHANGED <<list, history>>

\* The last n elements of s, or all.
LastOf(s, n) == SubSeq(s, IF Len(s) > n THEN Len(s) - n + 1 ELSE 1, Len(s))

\* The index after a pick among n.  Mutant: it skips one.
SkipOne(n) == (index + 2) % n
NextIndex(n) == (index + 1) % n

GetRobin(u) ==
  /\ pc[u] = "pick" /\ mu = NoOne /\ servers # <<>>
  /\ LET n == Len(servers)
         i == index % n
     IN  /\ Return(u, <<servers[i + 1]>>)
         /\ index' = NextIndex(n)
         /\ round' = LastOf(Append(round, i), n)
  /\ UNCHANGED <<servers, fresh, mu, fetched>>

GetAll(u) ==
  /\ pc[u] = "pick" /\ mu = NoOne
  /\ Return(u, servers)
  /\ UNCHANGED <<list, history>>

-----------------------------------------------------------------------------

Answer(u) == FetchSucceeds(u) \/ FetchFails(u)
Pick(u) == GetNone(u) \/ GetRandom(u) \/ GetRobin(u) \/ GetAll(u)

Next ==
  \/ GoStale
  \/ \E u \in Users : Ask(u) \/ Refresh(u) \/ Answer(u) \/ Pick(u)
  \/ \E s \in Updates : Update(s)

Spec == Init /\ [][Next]_vars

\* The goroutines run, mu is starvation free and the registry answers.
FairSpec ==
  Spec /\ \A u \in Users : SF_vars(Refresh(u)) /\ WF_vars(Answer(u)) /\ SF_vars(Pick(u))

-----------------------------------------------------------------------------
(* Properties.                                                             *)

\* The registry is asked once while the list is fresh, however many goroutines
\* find it stale at the same time.
OneFetch == fetched <= 1

Inv == TypeOK /\ OneFetch

\* With what makes it inductive: nobody asks a registry that has answered, nor
\* while the list is fresh.
FetchInv ==
  /\ Inv
  /\ fetched = 1 => fresh
  /\ mu # NoOne => ~fresh

\* discovery.go:19, each pick takes the next server: between two changes of the
\* list any Len(servers) picks in a row, by any goroutines, are all different.
RoundRobin == IsInjective(round)

\* What makes it inductive: the picks count back from the index.
Back(x, k, n) == IF x >= k THEN x - k ELSE x - k + n
CountBack(r, x, n) ==
  /\ Len(r) <= n
  /\ r # <<>> => x < n
  /\ \A j \in 1..Len(r) : r[j] = Back(x, Len(r) - j + 1, n)
RoundInv == CountBack(round, index, Len(servers))

\* Get and GetAll return as long as the registry answers somehow.
EveryGetReturns == \A u \in Users : pc[u] = "refresh" ~> pc[u] = "idle"
=============================================================================
