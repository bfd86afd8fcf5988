------------------------------ MODULE Registry ------------------------------
(***************************************************************************)
(* The SuRPC registry (SuRPC/registry/registry.go) and the heartbeats of   *)
(* the servers.  POST handlers run putServer under mu; GET handlers run    *)
(* aliveServers, which iterates over the map and deletes from it without   *)
(* mu.  The handlers of different requests run concurrently.               *)
(*                                                                         *)
(* Time is discrete.  Instead of a clock the model keeps the age of each   *)
(* ServerItem (time.Now() minus start), which stops growing at Timeout.    *)
(***************************************************************************)
EXTENDS Naturals, FiniteSets

CONSTANTS
  Servers,
  Gets,      \* GET handlers that may run at the same time
  Timeout,   \* SuRegistry.timeout, in ticks; 0: items never expire
  Interval,  \* ticks between two heartbeats
  Absent, NoOne

ASSUME RegistryAssumption ==
  /\ Timeout \in Nat /\ Interval \in Nat \ {0}
  /\ Absent \notin Nat /\ NoOne \notin Servers

VARIABLES
  age,      \* of the item of each server, Absent when the map has none
  mu,       \* the server whose POST holds it, or NoOne
  beat,     \* where the heartbeat of each server stands
  since,    \* ticks since its ticker fired, at most Interval
  found,    \* putServer found an item for it
  get,      \* where each GET handler stands
  must,     \* registered when its iteration began, and not deleted since
  visited,  \* produced by its iteration so far
  expired,  \* the server it is about to delete, or NoOne
  listed,   \* the alive servers it has seen
  answer,   \* what it last answered
  crashed,  \* the runtime ended the process: concurrent map accesses
  late      \* history: a heartbeat came late, or failed

items == <<age, mu>>
beats == <<beat, since, found>>
gets == <<get, must, visited, expired, listed, answer>>
fate == <<crashed, late>>
vars == <<items, beats, gets, fate>>

TypeOK ==
  /\ age \in [Servers -> 0..Timeout \cup {Absent}]
  /\ mu \in Servers \cup {NoOne}
  /\ beat \in [Servers -> {"start", "waiting", "post", "put", "stopped"}]
  /\ since \in [Servers -> 0..Interval]
  /\ found \in [Servers -> BOOLEAN]
  /\ get \in [Gets -> {"idle", "loop", "delete"}]
  /\ {must, visited, listed, answer} \subseteq [Gets -> SUBSET Servers]
  /\ expired \in [Gets -> Servers \cup {NoOne}]
  /\ {crashed, late} \subseteq BOOLEAN
  /\ \A s \in Servers : mu = s <=> beat[s] = "put"
  /\ \A h \in Gets : expired[h] # NoOne <=> get[h] = "delete"

Init ==
  /\ age = [s \in Servers |-> Absent] /\ mu = NoOne
  /\ beat = [s \in Servers |-> "start"]
  /\ since = [s \in Servers |-> 0] /\ found = [s \in Servers |-> FALSE]
  /\ get = [h \in Gets |-> "idle"]
  /\ must = [h \in Gets |-> {}] /\ visited = must /\ listed = must /\ answer = must
  /\ expired = [h \in Gets |-> NoOne]
  /\ crashed = FALSE /\ late = FALSE

Registered == {s \in Servers : age[s] # Absent}

\* Mutants: an item expires a tick early, or never.
AliveUntilBefore(s) == Timeout = 0 \/ age[s] + 1 < Timeout
AliveAlways(s) == TRUE
Alive(s) == Timeout = 0 \/ age[s] < Timeout
AtMost(n, bound) == IF n > bound THEN bound ELSE n

\* Heartbeats that are in time are sent and served within their tick.
Due(s) == beat[s] \in {"start", "post", "put"} \/ (beat[s] = "waiting" /\ since[s] = Interval)

Tick ==
  /\ late' = (late \/ \E s \in Servers : Due(s))
  /\ age' = [s \in Servers |-> IF age[s] = Absent THEN Absent ELSE AtMost(age[s] + 1, Timeout)]
  /\ since' = [s \in Servers |-> AtMost(since[s] + 1, Interval)]
  /\ UNCHANGED <<mu, beat, found, gets, crashed>>

-----------------------------------------------------------------------------
(* Heartbeat, and the POST handler it reaches.                             *)

\* The first heartbeat, or a tick of the ticker.
SendHeartBeat(s) ==
  /\ beat[s] = "start" \/ (beat[s] = "waiting" /\ since[s] = Interval)
  /\ beat' = [beat EXCEPT ![s] = "post"]
  /\ since' = [since EXCEPT ![s] = 0]
  /\ UNCHANGED <<items, found, gets, fate>>

\* An error ends the loop of Heartbeat for good.
HeartBeatFails(s) ==
  /\ beat[s] = "post"
  /\ beat' = [beat EXCEPT ![s] = "stopped"]
  /\ late' = TRUE
  /\ UNCHANGED <<items, since, found, gets, crashed>>

\* mu is free.  Mutant: it is not taken.
NoLock == TRUE
Free == mu = NoOne

\* The map with a fresh item for s.  Mutant: only when there was one.
UpdatedOnly(s) == IF age[s] = Absent THEN age ELSE [age EXCEPT ![s] = 0]
Stored(s) == [age EXCEPT ![s] = 0]

\* putServer up to its lookup in the map ...
PutLookup(s) ==
  /\ beat[s] = "post" /\ Free /\ ~crashed
  /\ mu' = s
  /\ found' = [found EXCEPT ![s] = age[s] # Absent]
  /\ beat' = [beat EXCEPT ![s] = "put"]
  /\ UNCHANGED <<age, since, gets, fate>>

\* ... and from there.  If the item has gone meanwhile the second lookup returns
\* nil: the handler panics, net/http drops the connection, the heartbeat fails.
PutStore(s) ==
  /\ beat[s] = "put" /\ ~crashed
  /\ mu' = NoOne
  /\ IF found[s] /\ age[s] = Absent
     THEN beat' = [beat EXCEPT ![s] = "stopped"] /\ UNCHANGED age
     ELSE /\ age' = Stored(s)
          /\ beat' = [beat EXCEPT ![s] = "waiting"]
  /\ UNCHANGED <<since, found, gets, fate>>

-----------------------------------------------------------------------------
(* The GET handler: aliveServers.                                          *)

BeginGet(h) ==
  /\ get[h] = "idle" /\ ~crashed
  /\ get' = [get EXCEPT ![h] = "loop"]
  /\ must' = [must EXCEPT ![h] = Registered]
  /\ visited' = [visited EXCEPT ![h] = {}]
  /\ listed' = [listed EXCEPT ![h] = {}]
  /\ UNCHANGED <<items, beats, expired, answer, fate>>

\* The alive servers with one more.
Listing(h, s) == listed[h] \cup {s}

\* One iteration; an item added meanwhile may or may not be produced.
Visit(h, s) ==
  /\ get[h] = "loop" /\ ~crashed
  /\ s \in Registered \ visited[h]
  /\ visited' = [visited EXCEPT ![h] = @ \cup {s}]
  /\ IF Alive(s)
     THEN /\ listed' = [listed EXCEPT ![h] = Listing(h, s)]
          /\ UNCHANGED <<get, expired>>
     ELSE /\ expired' = [expired EXCEPT ![h] = s]
          /\ get' = [get EXCEPT ![h] = "delete"]
          /\ UNCHANGED listed
  /\ UNCHANGED <<items, beats, must, answer, fate>>

Delete(h) ==
  /\ get[h] = "delete" /\ ~crashed
  /\ age' = [age EXCEPT ![expired[h]] = Absent]
  /\ must' = [g \in Gets |-> must[g] \ {expired[h]}]
  /\ expired' = [expired EXCEPT ![h] = NoOne]
  /\ get' = [get EXCEPT ![h] = "loop"]
  /\ UNCHANGED <<mu, beats, visited, listed, answer, fate>>

Answer(h) ==
  /\ get[h] = "loop" /\ must[h] \subseteq visited[h] /\ ~crashed
  /\ answer' = [answer EXCEPT ![h] = listed[h]]
  /\ get' = [get EXCEPT ![h] = "idle"]
  /\ must' = [must EXCEPT ![h] = {}] /\ visited' = [visited EXCEPT ![h] = {}]
  /\ listed' = [listed EXCEPT ![h] = {}]
  /\ UNCHANGED <<items, beats, expired, fate>>

-----------------------------------------------------------------------------

\* The Go runtime ends the process when it notices a write to the map (a new
\* item, a deletion) at the time of another access to it.
MapWriters ==
  {s \in Servers : beat[s] = "put" /\ ~found[s]} \cup {h \in Gets : get[h] = "delete"}
MapUsers ==
  {s \in Servers : beat[s] = "put"} \cup {h \in Gets : get[h] \in {"loop", "delete"}}

\* The map and the handlers are gone with the process.
Crash ==
  /\ ~crashed
  /\ \E w \in MapWriters, u \in MapUsers : w # u
  /\ crashed' = TRUE
  /\ age' = [s \in Servers |-> Absent] /\ mu' = NoOne
  /\ beat' = [s \in Servers |-> IF beat[s] = "put" THEN "stopped" ELSE beat[s]]
  /\ get' = [h \in Gets |-> "idle"]
  /\ must' = [h \in Gets |-> {}] /\ visited' = must' /\ listed' = must'
  /\ expired' = [h \in Gets |-> NoOne]
  /\ UNCHANGED <<since, found, answer, late>>

GetStep(h) == BeginGet(h) \/ (\E s \in Servers : Visit(h, s)) \/ Delete(h) \/ Answer(h)

Next ==
  \/ Tick \/ Crash
  \/ \E s \in Servers : SendHeartBeat(s) \/ HeartBeatFails(s) \/ PutLookup(s) \/ PutStore(s)
  \/ \E h \in Gets : GetStep(h)

Spec == Init /\ [][Next]_vars

\* Time passes, tickers fire, handlers run, mu is starvation free, and clients
\* keep asking for the list.
FairSpec ==
  /\ Spec
  /\ WF_vars(Tick)
  /\ \A s \in Servers : /\ WF_vars(SendHeartBeat(s)) /\ WF_vars(PutStore(s))
                        /\ SF_vars(PutLookup(s))
                        /\ WF_vars(crashed /\ HeartBeatFails(s))
  /\ \A h \in Gets : WF_vars(GetStep(h))

-----------------------------------------------------------------------------
(* Properties.                                                             *)

\* As long as heartbeats come in time, and more often than items expire, every
\* GET answers with all the servers that were registered when it began, however
\* it interleaves with other GETs and with POSTs, and no registration is lost;
\* the runtime can stop the process only while a server registers for the first
\* time and a GET iterates.
LiveServersListed ==
  [][~late =>
       IF ~crashed'
       THEN /\ \A h \in Gets : get[h] = "loop" /\ get'[h] = "idle" => must[h] \subseteq answer'[h]
            /\ \A s \in Servers : age[s] # Absent => age'[s] # Absent
       ELSE \/ crashed
            \/ \E s \in Servers, h \in Gets :
                 beat[s] = "put" /\ age[s] = Absent /\ get[h] = "loop"]_vars

\* A server whose heartbeats go on is registered again and again, even after
\* its item expired, or was deleted although a heartbeat had just renewed it.
RegisteredAgain ==
  \A s \in Servers : []<>(age[s] # Absent \/ beat[s] = "stopped" \/ crashed)

\* A server whose heartbeats have stopped is one day listed no more.
StoppedIsDropped ==
  \A s \in Servers :
    beat[s] = "stopped" ~> [](crashed \/ \A h \in Gets : s \notin answer[h])

-----------------------------------------------------------------------------
(* The inductive invariant behind LiveServersListed.                       *)

\* An item is no older than the ticker, or than an interval while the heartbeat is
\* on its way, and so no iteration finds an expired one.
PunctualInv ==
  ~ late /\ ~ crashed =>
    /\ \A s \in Servers :
         /\ beat[s] # "stopped"
         /\ beat[s] = "put" => (found[s] <=> age[s] # Absent)
         /\ age[s] # Absent =>
              /\ beat[s] # "start" /\ age[s] <= Interval
              /\ beat[s] = "waiting" => age[s] <= since[s]
    /\ \A h \in Gets : get[h] # "delete" /\ visited[h] \subseteq listed[h]
=============================================================================
