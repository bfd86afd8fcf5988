---------------------------- MODULE CacheCluster ----------------------------
(***************************************************************************)
(* CCache as a cluster: on every node a Group (CCache/ccache.go) over its  *)
(* main cache and its singleflight group, and an HTTPPool                  *)
(* (CCache/http.go) that asks the owner of a name for it and serves the    *)
(* requests of the others.  A Get runs in a goroutine; one that asks a     *)
(* peer makes the goroutine of the peer's handler run another Get there,   *)
(* which may ask on.                                                       *)
(*                                                                         *)
(* The singleflight groups of all nodes are one SingleFlight: its Keys are *)
(* the pairs of a node and a name, its Callers the goroutines, and fn is   *)
(* what this module describes.  Of the cache only the names it holds are   *)
(* kept: which it evicts depends on the sizes of the values (LruCache).    *)
(* The getter and the network are external.                                *)
(***************************************************************************)
EXTENDS SingleFlight

CONSTANTS
  Nodes,
  Names,    \* what the users call keys
  Rings,    \* the owners, name -> node, by the orders of adding the peers
  NoRing,
  Gets,     \* Gets made by the users of the cluster
  At,       \* the node at which each is made
  NameOf,   \* the name it asks for
  Sent,     \* name -> what the handler of a peer reads when it is asked for
  MaxHops   \* bound on the handlers a Get makes run; the next request fails

\* A goroutine: the Get it runs for, the requests between them, its node.
Tasks == {<<g, 0, At[g]>> : g \in Gets} \cup (Gets \X (1..MaxHops) \X Nodes)
Node(t) == t[3]

\* httpGetter.Get escapes the name as a query, and the handler takes it from the
\* path: a blank arrives as a plus.
Name(t) == IF t[2] = 0 THEN NameOf[t[1]] ELSE Sent[NameOf[t[1]]]

ASSUME ClusterAssumption ==
  /\ Callers = Tasks /\ Keys = Nodes \X Names /\ MayPanic = TRUE
  /\ Rings \subseteq [Names -> Nodes] /\ NoRing \notin Rings
  /\ At \in [Gets -> Nodes] /\ NameOf \in [Gets -> Names] /\ MaxHops \in Nat
  /\ Sent \in [Names -> Names] /\ \A k \in Names : Sent[Sent[k]] = Sent[k]

VARIABLES
  ring,    \* the owners by the HTTPPool of each node, NoRing before the first Set
  cached,  \* the names in the main cache of each node
  stage,   \* where in fn each goroutine is
  peer     \* the node PickPeer told it to ask, its own when there is none

cvars == <<vars, ring, cached, stage, peer>>
rest == <<ring, cached, peer>>

ClusterInit ==
  /\ key = [t \in Tasks |-> <<Node(t), Name(t)>>] /\ Init
  /\ ring = [n \in Nodes |-> NoRing]
  /\ cached = [n \in Nodes |-> {}]
  /\ stage = [t \in Tasks |-> "lookup"]
  /\ peer = [t \in Tasks |-> Node(t)]

\* HTTPPool.Set, at any time and any number of times: a goroutine that has picked
\* its peer keeps it.  Of two points with one hash the peer added last has it, and main
\* adds the peers in the order of a map's iteration.  A pool made with a number of
\* replicas of its own does not keep it, and its ring stays empty.
Set(n) ==
  /\ \E r \in Rings : ring' = [ring EXCEPT ![n] = r]
  /\ UNCHANGED <<vars, cached, stage, peer>>

-----------------------------------------------------------------------------
(* Group.Get hands fn to Do: mainCache, load, getLocally, getFromPeer.     *)

Begin(g) == Start(<<g, 0, At[g]>>) /\ UNCHANGED <<rest, stage>>

\* Do, but for fn.
Do(t) ==
  /\ Join(t) \/ Lead(t) \/ Done(t) \/ Delete(t) \/ WaitReturns(t)
  /\ UNCHANGED <<rest, stage>>

In(t, s) == pc[t] = "fn" /\ stage[t] = s
Goes(t, s) == stage' = [stage EXCEPT ![t] = s]
Gives(t, v) == FnReturns(t) /\ val'[t] = v /\ UNCHANGED stage

\* mainCache.get.  Mutant: it always misses.
Misses(t) == FALSE
Hit(t) == Name(t) \in cached[Node(t)]

Lookup(t) ==
  /\ In(t, "lookup")
  /\ IF Hit(t) THEN Gives(t, "value") ELSE Goes(t, "pick") /\ UNCHANGED vars
  /\ UNCHANGED rest

\* PickPeer finds another node to ask, by the ring there is now.  Mutant: the node
\* itself may be it.
Owner(t) == ring[Node(t)][Name(t)]
AnyPeer(t) == ring[Node(t)] # NoRing
HasPeer(t) == ring[Node(t)] # NoRing /\ Owner(t) # Node(t)
Handler(t, n) == <<t[1], t[2] + 1, n>>
Asked(t) == Handler(t, peer[t])

\* The handler of the peer runs as soon as the request reaches it.
PickPeer(t) ==
  /\ In(t, "pick")
  /\ IF HasPeer(t)
     THEN Goes(t, "ask") /\ peer' = [peer EXCEPT ![t] = Owner(t)]
     ELSE Goes(t, "getter") /\ UNCHANGED peer
  /\ IF HasPeer(t) /\ t[2] < MaxHops THEN Start(Handler(t, Owner(t))) ELSE UNCHANGED vars
  /\ UNCHANGED <<ring, cached>>

\* The getter fails or returns a value (or panics) ...
GetLocally(t) ==
  /\ In(t, "getter")
  /\ \/ Gives(t, "error")
     \/ Goes(t, "populate") /\ UNCHANGED vars
  /\ UNCHANGED rest

GetterPanics(t) == In(t, "getter") /\ FnPanics(t) /\ UNCHANGED <<rest, stage>>

\* ... which goes into the cache, with whatever that evicts, even itself.
PopulateCache(t) ==
  /\ In(t, "populate")
  /\ \E kept \in SUBSET (cached[Node(t)] \cup {Name(t)}) :
       cached' = [cached EXCEPT ![Node(t)] = kept]
  /\ Gives(t, "value") /\ UNCHANGED <<ring, peer>>

\* httpGetter.Get: the handler answered with an error, or its connection broke
\* because it panicked ...
PeerErrs(t) ==
  /\ In(t, "ask")
  /\ t[2] = MaxHops \/ Asked(t) \in {u \in Tasks : ret[u] = "error" \/ pc[u] = "panicked"}
  /\ Gives(t, "error") /\ UNCHANGED rest

\* ... or the request failed, whatever becomes of the handler ...
RequestFails(t) == In(t, "ask") /\ Gives(t, "error") /\ UNCHANGED rest

\* ... or the answer is a value, which proto.Unmarshal is to store in a nil
\* Response: it panics.
PeerAnswers(t) ==
  /\ In(t, "ask") /\ t[2] < MaxHops
  /\ ret[Asked(t)] = "value"
  /\ FnPanics(t) /\ UNCHANGED <<rest, stage>>

-----------------------------------------------------------------------------

TaskStep(t) ==
  \/ Do(t) \/ Lookup(t) \/ PickPeer(t) \/ GetLocally(t) \/ PopulateCache(t)
  \/ PeerErrs(t) \/ PeerAnswers(t)

ClusterNext ==
  \/ \E n \in Nodes : Set(n)
  \/ \E g \in Gets : Begin(g)
  \/ \E t \in Tasks : TaskStep(t) \/ GetterPanics(t) \/ RequestFails(t)

ClusterSpec == ClusterInit /\ [][ClusterNext]_cvars

\* Goroutines run as long as one can, getters return and answers arrive; http.Get
\* waits for them without a limit.  No goroutine takes steps for ever, so that it is
\* enough that one of them runs.
ClusterFairSpec == ClusterSpec /\ WF_cvars(\E t \in Tasks : TaskStep(t))

-----------------------------------------------------------------------------
(* Properties.                                                             *)

ClusterTypeOK ==
  /\ TypeOK
  /\ ring \in [Nodes -> Rings \cup {NoRing}]
  /\ cached \in [Nodes -> SUBSET Names]
  /\ stage \in [Tasks -> {"lookup", "pick", "getter", "populate", "ask"}]
  /\ peer \in [Tasks -> Nodes]

\* Two of these goroutines, which have asked a peer for one name, were told different
\* owners of it, by rings that differ or between which a Set came.
ToldApart(S) ==
  \E t, u \in S :
    stage[t] = "ask" /\ stage[u] = "ask" /\ Name(t) = Name(u) /\ peer[t] # peer[u]

\* http.go:147, a node does not ask itself; and no Get waits for itself by way of its
\* handlers, not even when the handler reads another name than was asked for, unless
\* two of its own goroutines were told different owners.
NoSelfWait ==
  \A t \in Tasks : pc[t] = "wait" /\ callOf[t][1] = t[1] =>
    ToldApart({u \in Tasks : u[1] = t[1] /\ Name(u) = Name(t)})

\* Do waits for the goroutine that leads, http.Get for the handler of the peer.
WaitsFor(t) == IF pc[t] = "wait" THEN callOf[t] ELSE Asked(t)
Blocked(t) ==
  \/ pc[t] = "wait" /\ ~Over(callOf[t])
  \/ In(t, "ask") /\ t[2] < MaxHops /\ pc[Asked(t)] \notin {"returned", "panicked"}

\* No goroutines of any Gets wait for one another in a circle, through singleflight and
\* handlers, unless two of the circle were told different owners of one name: while all
\* the rings in use name one owner for each name there is no circle, and Set makes one
\* only if the owner changes for goroutines that are waiting.
NoDeadlock ==
  \A S \in SUBSET {t \in Tasks : Blocked(t)} :
    S # {} /\ (\A t \in S : WaitsFor(t) \in S) => ToldApart(S)

Inv == ClusterTypeOK /\ NoSelfWait /\ NoDeadlock

\* ccache.go:70, the value comes from the cache if it is there: neither the getter
\* nor a peer is asked for a name the node has cached, although time passes
\* between the miss and the question.
NeverLoadsCached ==
  \A t \in Tasks : pc[t] = "fn" /\ stage[t] \in {"getter", "populate", "ask"}
                     => Name(t) \notin cached[Node(t)]

\* The inductive invariant behind it: the goroutines that have missed are those
\* that lead, so that no other can fill the cache under them.
MissInv ==
  /\ key = [t \in Tasks |-> <<Node(t), Name(t)>>]
  /\ cached \in [Nodes -> SUBSET Names]
  /\ stage \in [Tasks -> {"lookup", "pick", "getter", "populate", "ask"}]
  /\ \A t \in Tasks :
       /\ pc[t] \in {"idle", "enter"} => stage[t] = "lookup"
       /\ pc[t] = "fn" /\ stage[t] # "lookup" => Name(t) \notin cached[Node(t)]

\* The inductive invariant behind NoSelfWait: a Get has one goroutine for each number
\* of requests, and those of fewer requests have asked the node of the next one.
Running(t) == pc[t] # "idle"
HasAsked(t) == stage[t] = "ask" /\ pc[t] \notin {"idle", "enter", "wait"}

ChainInv ==
  /\ peer \in [Tasks -> Nodes]
  /\ \A t \in Tasks : stage[t] = "ask" => peer[t] # Node(t)
  /\ \A t \in Tasks : pc[t] = "wait" => pc[callOf[t]] \notin {"idle", "enter", "wait"}
  /\ \A t, u \in Tasks : Running(t) /\ Running(u) /\ t[1] = u[1] =>
       /\ t[2] = u[2] => t = u
       /\ t[2] < u[2] => HasAsked(t)
       /\ u[2] = t[2] + 1 => peer[t] = Node(u)
  /\ \A u \in Tasks : Running(u) => \A h \in 0..(u[2] - 1) :
       \E t \in Tasks : Running(t) /\ t[1] = u[1] /\ t[2] = h

\* A goroutine waits for ever: what it waits for, and so on, ends with a call that a
\* panic left in the map, or does not end.
LeftByPanic(t) == pc[t] = "wait" /\ pc[callOf[t]] = "panicked"
WaitsForEver(t) ==
  \E S \in SUBSET {u \in Tasks : Blocked(u)} :
    /\ t \in S /\ \A u \in S : LeftByPanic(u) \/ WaitsFor(u) \in S
    /\ (\E u \in S : LeftByPanic(u)) \/ ToldApart(S)

\* Every Get that begins returns, through any number of nodes and of Sets, or panics,
\* but for those left in the end waiting, directly or through others, for a call a
\* panic has left behind or for a circle of goroutines that were told different owners.
EveryGetReturns ==
  \A g \in Gets :
    LET t == <<g, 0, At[g]>> IN
    <>[](pc[t] \in {"idle", "returned", "panicked"} \/ WaitsForEver(t))
=============================================================================
