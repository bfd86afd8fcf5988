--------------------------- MODULE RegistryProofs ---------------------------
(***************************************************************************)
(* Proofs about Registry for any servers, any number of GETs at a time, a  *)
(* timeout and an interval of any length.                                  *)
(***************************************************************************)
EXTENDS Registry, TLAPS

BeatPc == {"start", "waiting", "post", "put", "stopped"}

(* TypeOK, part by part. *)
Types ==
  /\ age \in [Servers -> 0..Timeout \cup {Absent}] /\ mu \in Servers \cup {NoOne}
  /\ beat \in [Servers -> BeatPc] /\ since \in [Servers -> 0..Interval]
  /\ found \in [Servers -> BOOLEAN] /\ get \in [Gets -> {"idle", "loop", "delete"}]
  /\ must \in [Gets -> SUBSET Servers] /\ visited \in [Gets -> SUBSET Servers]
  /\ listed \in [Gets -> SUBSET Servers] /\ answer \in [Gets -> SUBSET Servers]
  /\ expired \in [Gets -> Servers \cup {NoOne}]
  /\ crashed \in BOOLEAN /\ late \in BOOLEAN

Places ==
  /\ \A s \in Servers : mu = s <=> beat[s] = "put"
  /\ \A h \in Gets : expired[h] # NoOne <=> get[h] = "delete"

LEMMA TypeParts == TypeOK <=> Types /\ Places
BY DEF TypeOK, Types, Places, BeatPc

LEMMA TypePartsNext == TypeOK' <=> Types' /\ Places'
BY DEF TypeOK, Types, Places, BeatPc

LEMMA Capped ==
  ASSUME NEW bound \in Nat, NEW n \in 0..bound
  PROVE  AtMost(n + 1, bound) \in 0..bound /\ AtMost(n + 1, bound) <= n + 1
BY DEF AtMost

(* Items, heartbeats and lookups keep their types, and mu its one holder. *)
LEMMA TypesKept == TypeOK /\ [Next]_vars => TypeOK'
<1> SUFFICES ASSUME TypeOK, [Next]_vars PROVE Types' /\ Places'
  BY TypePartsNext
<1>0. Types /\ Places
  BY TypeParts
<1> USE RegistryAssumption
<1>1. CASE Tick
  <2>1. age' \in [Servers -> 0..Timeout \cup {Absent}]
    <3>1. ASSUME NEW s \in Servers, age[s] # Absent PROVE AtMost(age[s] + 1, Timeout) \in 0..Timeout
      BY <1>0, <3>1, Capped DEF Types
    <3> QED BY <1>1, <3>1 DEF Tick
  <2>2. since' \in [Servers -> 0..Interval]
    <3>1. ASSUME NEW s \in Servers PROVE AtMost(since[s] + 1, Interval) \in 0..Interval
      BY <1>0, Capped DEF Types
    <3> QED BY <1>1, <3>1 DEF Tick
  <2>3. late' \in BOOLEAN /\ UNCHANGED <<mu, beat, found, gets, crashed>>
    BY <1>0, <1>1 DEF Tick, Types
  <2> QED BY <1>0, <2>1, <2>2, <2>3 DEF Types, Places, gets
<1>2. ASSUME NEW s \in Servers, SendHeartBeat(s) PROVE Types' /\ Places'
  <2>1. /\ beat' = [beat EXCEPT ![s] = "post"] /\ since' = [since EXCEPT ![s] = 0]
        /\ beat[s] # "put" /\ UNCHANGED <<items, found, gets, fate>>
    BY <1>2 DEF SendHeartBeat
  <2>2. beat' \in [Servers -> BeatPc] /\ since' \in [Servers -> 0..Interval]
    BY <1>0, <2>1 DEF Types, BeatPc
  <2>3. Places'
    BY <1>0, <2>1 DEF Types, Places, items, gets
  <2> QED BY <1>0, <2>1, <2>2, <2>3 DEF Types, items, gets, fate
<1>3. ASSUME NEW s \in Servers, HeartBeatFails(s) PROVE Types' /\ Places'
  <2>1. /\ beat' = [beat EXCEPT ![s] = "stopped"] /\ late' = TRUE
        /\ beat[s] # "put" /\ UNCHANGED <<items, since, found, gets, crashed>>
    BY <1>3 DEF HeartBeatFails
  <2>2. beat' \in [Servers -> BeatPc]
    BY <1>0, <2>1 DEF Types, BeatPc
  <2>3. Places'
    BY <1>0, <2>1 DEF Types, Places, items, gets
  <2> QED BY <1>0, <2>1, <2>2, <2>3 DEF Types, items, gets
<1>4. ASSUME NEW s \in Servers, PutLookup(s) PROVE Types' /\ Places'
  <2>1. /\ beat' = [beat EXCEPT ![s] = "put"] /\ mu' = s /\ mu = NoOne
        /\ found' = [found EXCEPT ![s] = age[s] # Absent] /\ UNCHANGED <<age, since, gets, fate>>
    BY <1>4 DEF PutLookup, Free
  <2>2. beat' \in [Servers -> BeatPc] /\ found' \in [Servers -> BOOLEAN]
    BY <1>0, <2>1 DEF Types, BeatPc
  <2>3. Places'
    BY <1>0, <2>1 DEF Types, Places, gets
  <2> QED BY <1>0, <2>1, <2>2, <2>3 DEF Types, gets, fate
<1>5. ASSUME NEW s \in Servers, PutStore(s) PROVE Types' /\ Places'
  <2>1. /\ beat[s] = "put" /\ mu' = NoOne /\ UNCHANGED <<since, found, gets, fate>>
        /\ age' \in {age, [age EXCEPT ![s] = 0]}
        /\ \E p \in {"stopped", "waiting"} : beat' = [beat EXCEPT ![s] = p]
    BY <1>5 DEF PutStore, Stored
  <2>2. beat' \in [Servers -> BeatPc] /\ age' \in [Servers -> 0..Timeout \cup {Absent}]
    BY <1>0, <2>1 DEF Types, BeatPc
  <2>3. Places'
    BY <1>0, <2>1 DEF Types, Places, gets
  <2> QED BY <1>0, <2>1, <2>2, <2>3 DEF Types, gets, fate
<1>6. ASSUME NEW h \in Gets, BeginGet(h) PROVE Types' /\ Places'
  <2>1. /\ get[h] = "idle" /\ get' = [get EXCEPT ![h] = "loop"]
        /\ must' = [must EXCEPT ![h] = Registered] /\ visited' = [visited EXCEPT ![h] = {}]
        /\ listed' = [listed EXCEPT ![h] = {}] /\ UNCHANGED <<items, beats, expired, answer, fate>>
    BY <1>6 DEF BeginGet
  <2>2. /\ get' \in [Gets -> {"idle", "loop", "delete"}]
        /\ must' \in [Gets -> SUBSET Servers] /\ visited' \in [Gets -> SUBSET Servers]
        /\ listed' \in [Gets -> SUBSET Servers]
    BY <1>0, <2>1 DEF Types, Registered
  <2>3. Places'
    BY <1>0, <2>1 DEF Types, Places, items, beats
  <2> QED BY <1>0, <2>1, <2>2, <2>3 DEF Types, items, beats, fate
<1>7. ASSUME NEW h \in Gets, NEW s \in Servers, Visit(h, s) PROVE Types' /\ Places'
  <2>1. /\ get[h] = "loop" /\ visited' = [visited EXCEPT ![h] = @ \cup {s}]
        /\ UNCHANGED <<items, beats, must, answer, fate>>
        /\ \/ listed' = [listed EXCEPT ![h] = @ \cup {s}] /\ UNCHANGED <<get, expired>>
           \/ /\ expired' = [expired EXCEPT ![h] = s] /\ get' = [get EXCEPT ![h] = "delete"]
              /\ UNCHANGED listed
    BY <1>7 DEF Visit, Listing
  <2>2. /\ get' \in [Gets -> {"idle", "loop", "delete"}] /\ visited' \in [Gets -> SUBSET Servers]
        /\ listed' \in [Gets -> SUBSET Servers] /\ expired' \in [Gets -> Servers \cup {NoOne}]
    BY <1>0, <2>1 DEF Types
  <2>3. Places'
    BY <1>0, <2>1 DEF Types, Places, items, beats
  <2> QED BY <1>0, <2>1, <2>2, <2>3 DEF Types, items, beats, fate
<1>8. ASSUME NEW h \in Gets, Delete(h) PROVE Types' /\ Places'
  <2>1. /\ get[h] = "delete" /\ age' = [age EXCEPT ![expired[h]] = Absent]
        /\ must' = [g \in Gets |-> must[g] \ {expired[h]}]
        /\ expired' = [expired EXCEPT ![h] = NoOne] /\ get' = [get EXCEPT ![h] = "loop"]
        /\ UNCHANGED <<mu, beats, visited, listed, answer, fate>>
    BY <1>8 DEF Delete
  <2>2. /\ age' \in [Servers -> 0..Timeout \cup {Absent}] /\ must' \in [Gets -> SUBSET Servers]
        /\ get' \in [Gets -> {"idle", "loop", "delete"}]
        /\ expired' \in [Gets -> Servers \cup {NoOne}]
    BY <1>0, <2>1 DEF Types
  <2>3. Places'
    BY <1>0, <2>1 DEF Types, Places, beats
  <2> QED BY <1>0, <2>1, <2>2, <2>3 DEF Types, beats, fate
<1>9. ASSUME NEW h \in Gets, Answer(h) PROVE Types' /\ Places'
  <2>1. /\ get[h] = "loop" /\ get' = [get EXCEPT ![h] = "idle"]
        /\ answer' = [answer EXCEPT ![h] = listed[h]] /\ must' = [must EXCEPT ![h] = {}]
        /\ visited' = [visited EXCEPT ![h] = {}] /\ listed' = [listed EXCEPT ![h] = {}]
        /\ UNCHANGED <<items, beats, expired, fate>>
    BY <1>9 DEF Answer
  <2>2. /\ get' \in [Gets -> {"idle", "loop", "delete"}] /\ answer' \in [Gets -> SUBSET Servers]
        /\ must' \in [Gets -> SUBSET Servers] /\ visited' \in [Gets -> SUBSET Servers]
        /\ listed' \in [Gets -> SUBSET Servers]
    BY <1>0, <2>1 DEF Types
  <2>3. Places'
    BY <1>0, <2>1 DEF Types, Places, items, beats
  <2> QED BY <1>0, <2>1, <2>2, <2>3 DEF Types, items, beats, fate
<1>10. CASE Crash
  <2>1. /\ crashed' = TRUE /\ age' = [s \in Servers |-> Absent] /\ mu' = NoOne
        /\ beat' = [s \in Servers |-> IF beat[s] = "put" THEN "stopped" ELSE beat[s]]
        /\ get' = [h \in Gets |-> "idle"] /\ expired' = [h \in Gets |-> NoOne]
        /\ must' = [h \in Gets |-> {}] /\ visited' = must' /\ listed' = must'
        /\ UNCHANGED <<since, found, answer, late>>
    BY <1>10 DEF Crash
  <2>2. /\ age' \in [Servers -> 0..Timeout \cup {Absent}] /\ beat' \in [Servers -> BeatPc]
        /\ get' \in [Gets -> {"idle", "loop", "delete"}] /\ must' \in [Gets -> SUBSET Servers]
        /\ expired' \in [Gets -> Servers \cup {NoOne}]
    BY <1>0, <2>1 DEF Types, BeatPc
  <2>3. Places'
    BY <1>0, <2>1 DEF Types, Places
  <2> QED BY <1>0, <2>1, <2>2, <2>3 DEF Types
<1>11. CASE UNCHANGED vars
  BY <1>0, <1>11 DEF Types, Places, vars, items, beats, gets, fate
<1> QED BY <1>1, <1>2, <1>3, <1>4, <1>5, <1>6, <1>7, <1>8, <1>9, <1>10, <1>11 DEF Next, GetStep

LEMMA InitTypes == Init => TypeOK
<1> SUFFICES ASSUME Init PROVE Types /\ Places
  BY TypeParts
<1>1. /\ age \in [Servers -> 0..Timeout \cup {Absent}] /\ mu \in Servers \cup {NoOne}
      /\ beat \in [Servers -> BeatPc] /\ found \in [Servers -> BOOLEAN]
  BY DEF Init, BeatPc
<1>2. since \in [Servers -> 0..Interval]
  <2>1. 0 \in 0..Interval
    BY RegistryAssumption
  <2> QED BY <2>1 DEF Init
<1>3. /\ get \in [Gets -> {"idle", "loop", "delete"}]
      /\ expired \in [Gets -> Servers \cup {NoOne}]
      /\ crashed \in BOOLEAN /\ late \in BOOLEAN
  BY DEF Init
<1>4. /\ must \in [Gets -> SUBSET Servers] /\ visited \in [Gets -> SUBSET Servers]
      /\ listed \in [Gets -> SUBSET Servers] /\ answer \in [Gets -> SUBSET Servers]
  <2>1. [h \in Gets |-> {}] \in [Gets -> SUBSET Servers]
    OBVIOUS
  <2>2. /\ must = [h \in Gets |-> {}] /\ visited = must /\ listed = must /\ answer = must
    BY DEF Init
  <2> QED BY <2>1, <2>2
<1>5. Places
  BY RegistryAssumption DEF Init, Places
<1> QED BY <1>1, <1>2, <1>3, <1>4, <1>5 DEF Types

(* mu has the server whose POST is between its two lookups, and every GET that  *)
(* is about to delete a server has found it expired.                            *)
THEOREM RegistryTypes == Spec => []TypeOK
BY InitTypes, TypesKept, PTL DEF Spec

-----------------------------------------------------------------------------
(* Heartbeats in time.                                                     *)

(* A server beats more often than its item expires. *)
BeatsInTime == Timeout = 0 \/ Interval < Timeout

LEMMA PunctualInit == Init => PunctualInv
<1> SUFFICES ASSUME Init PROVE PunctualInv
  OBVIOUS
<1>1. /\ \A s \in Servers : age[s] = Absent /\ beat[s] = "start"
      /\ \A h \in Gets : get[h] = "idle" /\ visited[h] = listed[h]
  BY DEF Init
<1> QED BY <1>1 DEF PunctualInv

(* While heartbeats are in time, no iteration finds an expired item. *)
LEMMA AllAlive ==
  ASSUME TypeOK, PunctualInv, ~ late, ~ crashed, BeatsInTime,
         NEW s \in Servers, age[s] # Absent
  PROVE  Alive(s)
<1>1. age[s] \in Nat /\ age[s] <= Interval
  BY RegistryAssumption DEF TypeOK, PunctualInv
<1> QED BY <1>1, RegistryAssumption DEF Alive, BeatsInTime

(* Neither a late heartbeat nor a crash is forgotten. *)
LEMMA FateKept ==
  ASSUME [Next]_vars PROVE (late => late') /\ (crashed => crashed')
<1>1. CASE Tick BY <1>1 DEF Tick
<1>2. CASE Crash BY <1>2 DEF Crash
<1>3. ASSUME NEW s \in Servers,
             SendHeartBeat(s) \/ HeartBeatFails(s) \/ PutLookup(s) \/ PutStore(s)
      PROVE  (late => late') /\ (crashed => crashed')
  BY <1>3 DEF SendHeartBeat, HeartBeatFails, PutLookup, PutStore, fate
<1>4. ASSUME NEW h \in Gets, GetStep(h) PROVE UNCHANGED fate
  BY <1>4 DEF GetStep, BeginGet, Visit, Delete, Answer
<1>5. CASE UNCHANGED vars BY <1>5 DEF vars, fate
<1> QED BY <1>1, <1>2, <1>3, <1>4, <1>5 DEF Next, fate

(* The two parts of PunctualInv. *)
InTime(s) ==
  /\ beat[s] # "stopped"
  /\ beat[s] = "put" => (found[s] <=> age[s] # Absent)
  /\ age[s] # Absent =>
       /\ beat[s] # "start" /\ age[s] <= Interval
       /\ beat[s] = "waiting" => age[s] <= since[s]

AllListed(h) == get[h] # "delete" /\ visited[h] \subseteq listed[h]

LEMMA PunctualKept ==
  ASSUME BeatsInTime
  PROVE  TypeOK /\ PunctualInv /\ [Next]_vars => PunctualInv'
<1> SUFFICES ASSUME TypeOK, PunctualInv, [Next]_vars, ~ late', ~ crashed'
             PROVE  (\A s \in Servers : InTime(s)') /\ (\A h \in Gets : AllListed(h)')
  BY DEF PunctualInv, InTime, AllListed
<1>0. /\ ~ late /\ ~ crashed
      /\ \A s \in Servers : InTime(s)
      /\ \A h \in Gets : AllListed(h)
  BY FateKept DEF PunctualInv, InTime, AllListed
<1>t. Types /\ Places
  BY TypeParts
<1>s. ASSUME UNCHANGED <<age, beats>> PROVE \A s \in Servers : InTime(s)'
  BY <1>0, <1>s DEF beats, InTime
<1>g. ASSUME UNCHANGED gets PROVE \A h \in Gets : AllListed(h)'
  BY <1>0, <1>g DEF gets, AllListed
<1>1. CASE Tick
  <2>1. (\A s \in Servers : ~ Due(s)) /\ UNCHANGED <<beat, found, gets>>
    BY <1>1 DEF Tick
  <2>2. ASSUME NEW s \in Servers PROVE InTime(s)'
    <3>1. /\ beat'[s] = beat[s] /\ ~ Due(s) /\ beat[s] # "stopped"
          /\ beat[s] \in BeatPc /\ age[s] \in Nat \cup {Absent}
          /\ since[s] \in 0..Interval /\ Interval \in Nat
      <4>1. age[s] \in Nat \cup {Absent} /\ beat[s] \in BeatPc /\ since[s] \in 0..Interval
        BY <1>t, RegistryAssumption DEF Types
      <4> QED BY <1>0, <2>1, <4>1, RegistryAssumption DEF InTime
    <3>2. beat[s] = "waiting" /\ since[s] # Interval
      BY <3>1 DEF Due, BeatPc
    <3>3. since'[s] = since[s] + 1 /\ since[s] + 1 <= Interval
      BY <1>1, <3>1, <3>2 DEF Tick, AtMost
    <3>4. CASE age[s] = Absent
      <4>1. age'[s] = Absent
        BY <1>1, <3>4 DEF Tick
      <4> QED BY <3>1, <3>2, <4>1 DEF InTime
    <3>5. CASE age[s] # Absent
      <4>1. age[s] \in 0..Timeout /\ age[s] <= since[s]
        BY <1>0, <1>t, <3>2, <3>5 DEF Types, InTime
      <4>2. age'[s] \in Nat /\ age'[s] <= age[s] + 1
        BY <1>1, <3>5, <4>1, Capped, RegistryAssumption DEF Tick
      <4>3. age'[s] <= since'[s] /\ age'[s] <= Interval
        BY <3>1, <3>3, <4>1, <4>2
      <4> QED BY <3>1, <3>2, <4>3 DEF InTime
    <3> QED BY <3>4, <3>5
  <2> QED BY <1>g, <2>1, <2>2
<1>2. ASSUME NEW s \in Servers, SendHeartBeat(s) PROVE \A t \in Servers : InTime(t)'
  <2>1. /\ beat' = [beat EXCEPT ![s] = "post"] /\ since' = [since EXCEPT ![s] = 0]
        /\ UNCHANGED <<age, found>> /\ age[s] \in {Absent} \cup 0..Interval
    BY <1>0, <1>t, <1>2, RegistryAssumption DEF SendHeartBeat, items, InTime, Types
  <2>2. beat \in [Servers -> BeatPc] /\ since \in [Servers -> 0..Interval]
    BY <1>t DEF Types
  <2>3. InTime(s)'
    BY <2>1, <2>2, RegistryAssumption DEF InTime
  <2>4. ASSUME NEW t \in Servers \ {s} PROVE InTime(t)'
    BY <1>0, <2>1, <2>2 DEF InTime
  <2> QED BY <2>3, <2>4
<1>4. ASSUME NEW s \in Servers, PutLookup(s) PROVE \A t \in Servers : InTime(t)'
  <2>1. /\ beat[s] = "post" /\ beat' = [beat EXCEPT ![s] = "put"]
        /\ found' = [found EXCEPT ![s] = age[s] # Absent] /\ UNCHANGED <<age, since>>
    BY <1>4 DEF PutLookup
  <2>2. beat \in [Servers -> BeatPc] /\ found \in [Servers -> BOOLEAN]
    BY <1>t DEF Types
  <2>3. InTime(s)'
    BY <1>0, <2>1, <2>2 DEF InTime
  <2>4. ASSUME NEW t \in Servers \ {s} PROVE InTime(t)'
    BY <1>0, <2>1, <2>2 DEF InTime
  <2> QED BY <2>3, <2>4
<1>5. ASSUME NEW s \in Servers, PutStore(s) PROVE \A t \in Servers : InTime(t)'
  <2>1. /\ age' = [age EXCEPT ![s] = 0] /\ beat' = [beat EXCEPT ![s] = "waiting"]
        /\ UNCHANGED <<since, found>>
    BY <1>0, <1>5 DEF PutStore, Stored, InTime
  <2>2. /\ beat \in [Servers -> BeatPc] /\ since[s] \in 0..Interval
        /\ age \in [Servers -> 0..Timeout \cup {Absent}]
    BY <1>t DEF Types
  <2>3. InTime(s)'
    <3>1. age'[s] = 0 /\ beat'[s] = "waiting" /\ since'[s] = since[s]
      BY <2>1, <2>2
    <3>2. 0 <= since[s] /\ 0 <= Interval
      BY <2>2, RegistryAssumption
    <3> QED BY <3>1, <3>2 DEF InTime
  <2>4. ASSUME NEW t \in Servers \ {s} PROVE InTime(t)'
    <3>1. age'[t] = age[t] /\ beat'[t] = beat[t]
      BY <2>1, <2>2
    <3> QED BY <1>0, <2>1, <3>1 DEF InTime
  <2> QED BY <2>3, <2>4
<1>6. ASSUME NEW h \in Gets, BeginGet(h) PROVE \A g \in Gets : AllListed(g)'
  <2>1. /\ get' = [get EXCEPT ![h] = "loop"] /\ visited' = [visited EXCEPT ![h] = {}]
        /\ listed' = [listed EXCEPT ![h] = {}]
    BY <1>6 DEF BeginGet
  <2> QED BY <1>0, <1>t, <2>1 DEF AllListed, Types
<1>7. ASSUME NEW h \in Gets, NEW s \in Servers, Visit(h, s) PROVE \A g \in Gets : AllListed(g)'
  <2>1. Alive(s)
    BY <1>0, <1>7, AllAlive DEF Visit, Registered
  <2>2. /\ visited' = [visited EXCEPT ![h] = @ \cup {s}] /\ get' = get
        /\ listed' = [listed EXCEPT ![h] = @ \cup {s}]
    BY <1>7, <2>1 DEF Visit, Listing
  <2> QED BY <1>0, <1>t, <2>2 DEF AllListed, Types
<1>8. ASSUME NEW h \in Gets, Delete(h) PROVE FALSE
  BY <1>0, <1>8 DEF Delete, AllListed
<1>9. ASSUME NEW h \in Gets, Answer(h) PROVE \A g \in Gets : AllListed(g)'
  <2>1. /\ get' = [get EXCEPT ![h] = "idle"] /\ visited' = [visited EXCEPT ![h] = {}]
        /\ listed' = [listed EXCEPT ![h] = {}]
    BY <1>9 DEF Answer
  <2> QED BY <1>0, <1>t, <2>1 DEF AllListed, Types
<1>10. ASSUME NEW s \in Servers,
              SendHeartBeat(s) \/ HeartBeatFails(s) \/ PutLookup(s) \/ PutStore(s)
       PROVE  (\A t \in Servers : InTime(t)') /\ (\A h \in Gets : AllListed(h)')
  <2>1. UNCHANGED gets /\ ~ HeartBeatFails(s)
    BY <1>10 DEF SendHeartBeat, HeartBeatFails, PutLookup, PutStore
  <2> QED BY <1>g, <1>2, <1>4, <1>5, <1>10, <2>1
<1>11. ASSUME NEW h \in Gets, GetStep(h)
       PROVE  (\A t \in Servers : InTime(t)') /\ (\A g \in Gets : AllListed(g)')
  <2>1. ~ Delete(h)
    BY <1>8
  <2>2. UNCHANGED <<age, beats>>
    BY <1>11, <2>1 DEF GetStep, BeginGet, Visit, Answer, items
  <2> QED BY <1>s, <1>6, <1>7, <1>9, <1>11, <2>1, <2>2 DEF GetStep
<1>12. ~ Crash
  BY DEF Crash
<1>13. CASE UNCHANGED vars
  BY <1>s, <1>g, <1>13 DEF vars, items
<1> QED BY <1>1, <1>10, <1>11, <1>12, <1>13 DEF Next

(* What a step may do while heartbeats come in time. *)
LEMMA ListsTheLiving ==
  ASSUME BeatsInTime, TypeOK, PunctualInv, [Next]_vars, ~ late
  PROVE  IF ~ crashed'
         THEN /\ \A h \in Gets :
                   get[h] = "loop" /\ get'[h] = "idle" => must[h] \subseteq answer'[h]
              /\ \A s \in Servers : age[s] # Absent => age'[s] # Absent
         ELSE \/ crashed
              \/ \E s \in Servers, h \in Gets :
                   beat[s] = "put" /\ age[s] = Absent /\ get[h] = "loop"
<1>t. Types /\ Places
  BY TypeParts
<1>1. ASSUME ~ crashed', NEW s \in Servers, age[s] # Absent PROVE age'[s] # Absent
  <2>0. ~ crashed /\ age[s] \in 0..Timeout /\ Absent \notin Nat /\ Timeout \in Nat
    BY <1>t, <1>1, FateKept, RegistryAssumption DEF Types
  <2>1. CASE Tick
    <3>1. age'[s] = AtMost(age[s] + 1, Timeout)
      BY <1>1, <2>1 DEF Tick
    <3>2. AtMost(age[s] + 1, Timeout) \in Nat
      BY <2>0, Capped
    <3> QED BY <2>0, <3>1, <3>2
  <2>2. ASSUME NEW t \in Servers,
               SendHeartBeat(t) \/ HeartBeatFails(t) \/ PutLookup(t) \/ PutStore(t)
        PROVE  age'[s] # Absent
    <3>1. age' = age \/ age' = [age EXCEPT ![t] = 0]
      BY <2>2 DEF SendHeartBeat, HeartBeatFails, PutLookup, PutStore, Stored, items
    <3> QED BY <1>t, <1>1, <2>0, <3>1 DEF Types
  <2>3. ASSUME NEW h \in Gets, GetStep(h) PROVE age'[s] # Absent
    <3>1. ~ Delete(h)
      BY <2>0 DEF Delete, PunctualInv
    <3>2. age' = age
      BY <2>3, <3>1 DEF GetStep, BeginGet, Visit, Answer, items
    <3> QED BY <1>1, <3>2
  <2>4. ~ Crash
    BY <1>1 DEF Crash
  <2>5. CASE UNCHANGED vars
    BY <1>1, <2>5 DEF vars, items
  <2> QED BY <2>1, <2>2, <2>3, <2>4, <2>5 DEF Next
<1>2. ASSUME ~ crashed', NEW h \in Gets, get[h] = "loop", get'[h] = "idle"
      PROVE  must[h] \subseteq answer'[h]
  <2>0. ~ crashed /\ get \in [Gets -> {"idle", "loop", "delete"}]
    BY <1>t, <1>2, FateKept DEF Types
  <2>1. ASSUME NEW g \in Gets, GetStep(g) PROVE Answer(h)
    <3>1. CASE BeginGet(g)
      BY <1>2, <2>0, <3>1 DEF BeginGet
    <3>2. ASSUME NEW s \in Servers, Visit(g, s) PROVE FALSE
      <4>1. get' \in {get, [get EXCEPT ![g] = "delete"]}
        BY <3>2 DEF Visit
      <4> QED BY <1>2, <2>0, <4>1
    <3>3. CASE Delete(g)
      BY <1>2, <2>0, <3>3 DEF Delete
    <3>4. CASE Answer(g)
      <4>1. g = h
        BY <1>2, <2>0, <3>4 DEF Answer
      <4> QED BY <3>4, <4>1
    <3> QED BY <2>1, <3>1, <3>2, <3>3, <3>4 DEF GetStep
  <2>2. ASSUME NEW s \in Servers,
               SendHeartBeat(s) \/ HeartBeatFails(s) \/ PutLookup(s) \/ PutStore(s)
        PROVE  FALSE
    BY <1>2, <2>2 DEF SendHeartBeat, HeartBeatFails, PutLookup, PutStore, gets
  <2>3. ~ Tick /\ ~ Crash /\ ~ UNCHANGED vars
    BY <1>2 DEF Tick, Crash, vars, gets
  <2>4. Answer(h)
    BY <2>1, <2>2, <2>3 DEF Next
  <2>5. must[h] \subseteq visited[h] /\ answer'[h] = listed[h]
    BY <1>t, <2>4 DEF Answer, Types
  <2> QED BY <2>0, <2>5 DEF PunctualInv
<1>3. ASSUME crashed', ~ crashed
      PROVE  \E s \in Servers, h \in Gets :
               beat[s] = "put" /\ age[s] = Absent /\ get[h] = "loop"
  <2>1. Crash
    <3>1. ASSUME NEW s \in Servers,
                 SendHeartBeat(s) \/ HeartBeatFails(s) \/ PutLookup(s) \/ PutStore(s)
          PROVE  FALSE
      BY <1>3, <3>1 DEF SendHeartBeat, HeartBeatFails, PutLookup, PutStore, fate
    <3>2. ASSUME NEW h \in Gets, GetStep(h) PROVE FALSE
      BY <1>3, <3>2 DEF GetStep, BeginGet, Visit, Delete, Answer, fate
    <3>3. ~ Tick /\ ~ UNCHANGED vars
      BY <1>3 DEF Tick, vars, fate
    <3> QED BY <3>1, <3>2, <3>3 DEF Next
  <2>2. PICK w \in MapWriters, u \in MapUsers : w # u
    BY <2>1 DEF Crash
  <2>3. \A h \in Gets : get[h] # "delete"
    BY <1>3 DEF PunctualInv
  <2>4. w \in Servers /\ beat[w] = "put" /\ age[w] = Absent
    BY <1>3, <2>3 DEF MapWriters, PunctualInv
  <2>5. ASSUME u \in Servers, beat[u] = "put" PROVE FALSE
    BY <1>t, <2>2, <2>4, <2>5 DEF Places
  <2>6. u \in Gets /\ get[u] = "loop"
    BY <2>3, <2>5 DEF MapUsers
  <2> QED BY <2>4, <2>6
<1> QED BY <1>1, <1>2, <1>3

(* While heartbeats are in time and items outlive an interval (or never       *)
(* expire), every list of aliveServers has all the servers registered when it *)
(* began, no registration is lost, and the runtime ends the process only when *)
(* a first registration meets an iteration.                                   *)
THEOREM PunctualServersListed ==
  ASSUME BeatsInTime PROVE Spec => LiveServersListed
<1>1. Spec => [](TypeOK /\ PunctualInv)
  <2>1. Init => TypeOK /\ PunctualInv
    BY InitTypes, PunctualInit
  <2>2. TypeOK /\ PunctualInv /\ [Next]_vars => (TypeOK /\ PunctualInv)'
    BY TypesKept, PunctualKept
  <2> QED BY <2>1, <2>2, PTL DEF Spec
<1> DEFINE Step ==
      ~ late =>
         IF ~ crashed'
         THEN /\ \A h \in Gets :
                   get[h] = "loop" /\ get'[h] = "idle" => must[h] \subseteq answer'[h]
              /\ \A s \in Servers : age[s] # Absent => age'[s] # Absent
         ELSE \/ crashed
              \/ \E s \in Servers, h \in Gets :
                   beat[s] = "put" /\ age[s] = Absent /\ get[h] = "loop"
<1>2. TypeOK /\ PunctualInv /\ [Next]_vars => [Step]_vars
  BY ListsTheLiving
<1>3. Spec => [][Step]_vars
  BY <1>1, <1>2, PTL DEF Spec
<1> QED BY <1>3 DEF LiveServersListed
=============================================================================
