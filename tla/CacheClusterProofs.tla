------------------------- MODULE CacheClusterProofs -------------------------
(***************************************************************************)
(* Proofs about SingleFlight for any sets of goroutines and keys, with and *)
(* without panics of fn, and about CacheCluster for any nodes, names,      *)
(* rings and Gets: what is proved of one singleflight group holds of those *)
(* of the whole cluster, no node loads what it has cached, and Gets wait   *)
(* in a circle only if some were told different owners.                    *)
(***************************************************************************)
EXTENDS CacheCluster, TLAPS

-----------------------------------------------------------------------------
(* One singleflight group.                                                 *)

(* Before the first Do the map is empty and nobody leads. *)
LEMMA InitIInv == Init => IInv
BY CallersAssumption DEF Init, IInv, TypeOK, LeaderInv, ResultInv

(* Every step of Do keeps the invariant. *)
LEMMA NextKeepsIInv == IInv /\ [Next]_vars => IInv'
<1> USE CallersAssumption
<1> SUFFICES ASSUME IInv, [Next]_vars PROVE IInv'
  OBVIOUS
<1> USE DEF IInv
<1>1. ASSUME NEW g \in Callers, Start(g) PROVE IInv'
  <2>1. TypeOK'
    BY <1>1 DEF Start, Goto, TypeOK
  <2>2. LeaderInv'
    BY <1>1 DEF Start, Goto, LeaderInv
  <2>3. ResultInv'
    BY <1>1 DEF Start, Goto, LeaderInv, ResultInv
  <2> QED BY <2>1, <2>2, <2>3
<1>2. ASSUME NEW g \in Callers, Join(g) PROVE IInv'
  <2>1. TypeOK'
    BY <1>2 DEF Join, InFlight, Goto, TypeOK
  <2>2. LeaderInv'
    BY <1>2 DEF Join, InFlight, Goto, TypeOK, LeaderInv
  <2>3. ResultInv'
    BY <1>2 DEF Join, InFlight, Goto, TypeOK, LeaderInv, ResultInv
  <2> QED BY <2>1, <2>2, <2>3
<1>3. ASSUME NEW g \in Callers, Lead(g) PROVE IInv'
  <2>1. TypeOK'
    BY <1>3 DEF Lead, InFlight, Goto, TypeOK
  <2>2. LeaderInv'
    BY <1>3 DEF Lead, InFlight, Goto, TypeOK, LeaderInv
  <2>3. ResultInv'
    BY <1>3 DEF Lead, InFlight, Goto, ResultInv
  <2> QED BY <2>1, <2>2, <2>3
<1>4. ASSUME NEW g \in Callers, FnReturns(g) PROVE IInv'
  <2>1. TypeOK'
    BY <1>4 DEF FnReturns, Goto, TypeOK
  <2>2. LeaderInv'
    BY <1>4 DEF FnReturns, Goto, LeaderInv
  <2>3. ResultInv'
    BY <1>4 DEF FnReturns, Goto, TypeOK, ResultInv
  <2> QED BY <2>1, <2>2, <2>3
<1>5. ASSUME NEW g \in Callers, FnPanics(g) PROVE IInv'
  <2>1. TypeOK'
    BY <1>5 DEF FnPanics, Goto, TypeOK
  <2>2. LeaderInv'
    BY <1>5 DEF FnPanics, Goto, LeaderInv
  <2>3. ResultInv'
    BY <1>5 DEF FnPanics, Goto, ResultInv
  <2> QED BY <2>1, <2>2, <2>3
<1>6. ASSUME NEW g \in Callers, Done(g) PROVE IInv'
  <2>1. TypeOK'
    BY <1>6 DEF Done, Goto, TypeOK
  <2>2. LeaderInv'
    BY <1>6 DEF Done, Goto, LeaderInv
  <2>3. ResultInv'
    BY <1>6 DEF Done, Goto, ResultInv
  <2> QED BY <2>1, <2>2, <2>3
<1>7. ASSUME NEW g \in Callers, Delete(g) PROVE IInv'
  <2>1. TypeOK'
    BY <1>7 DEF Delete, Without, Goto, TypeOK
  <2>2. LeaderInv'
    BY <1>7 DEF Delete, Without, Goto, TypeOK, LeaderInv
  <2>3. ResultInv'
    BY <1>7 DEF Delete, Without, Goto, TypeOK, LeaderInv, ResultInv
  <2> QED BY <2>1, <2>2, <2>3
<1>8. ASSUME NEW g \in Callers, WaitReturns(g) PROVE IInv'
  <2>1. TypeOK'
    BY <1>8 DEF WaitReturns, Over, Goto, TypeOK
  <2>2. LeaderInv'
    BY <1>8 DEF WaitReturns, Over, Goto, LeaderInv
  <2>3. ResultInv'
    BY <1>8 DEF WaitReturns, Over, Goto, TypeOK, ResultInv
  <2> QED BY <2>1, <2>2, <2>3
<1>9. ASSUME UNCHANGED vars PROVE IInv'
  BY <1>9 DEF vars, TypeOK, LeaderInv, ResultInv
<1> QED BY <1>1, <1>2, <1>3, <1>4, <1>5, <1>6, <1>7, <1>8, <1>9 DEF Next, DoStep,
   Terminated

(* The map and the goroutines agree on who leads, in every reachable state. *)
THEOREM Invariance == Spec => []IInv
BY InitIInv, NextKeepsIInv, PTL DEF Spec

(* fn runs once at a time for a key. *)
THEOREM OnceAtATime == Spec => []OneExecution
<1>1. IInv => OneExecution
  BY DEF IInv, LeaderInv, OneExecution
<1> QED BY <1>1, Invariance, PTL

(* Do returns what an execution for its key gave, as all that share it do. *)
THEOREM ResultIsShared == Spec => []SharedResult
<1>1. IInv => SharedResult
  BY DEF IInv, TypeOK, LeaderInv, ResultInv, SharedResult
<1> QED BY <1>1, Invariance, PTL

(* No Do shares an execution led by a Do that had returned before it began. *)
THEOREM FreshAfterReturn == Spec => []NoReuseAfterReturn
<1>1. IInv => NoReuseAfterReturn
  BY DEF IInv, ResultInv, NoReuseAfterReturn
<1> QED BY <1>1, Invariance, PTL

-----------------------------------------------------------------------------
(* The groups of a cluster.                                                *)

RingOK == ring \in [Nodes -> Rings \cup {NoRing}]

LEMMA TaskParts ==
  ASSUME NEW t \in Tasks
  PROVE  /\ t[1] \in Gets /\ t[2] \in 0..MaxHops /\ t = <<t[1], t[2], t[3]>>
         /\ Node(t) \in Nodes /\ Name(t) \in Names
BY ClusterAssumption DEF Tasks, Node, Name

LEMMA RingKept == RingOK /\ [ClusterNext]_cvars => RingOK'
<1> SUFFICES ASSUME RingOK, [ClusterNext]_cvars PROVE RingOK'
  OBVIOUS
<1> USE DEF RingOK
<1>1. CASE \E n \in Nodes : Set(n)
  BY <1>1 DEF Set
<1>2. CASE \E g \in Gets : Begin(g)
  BY <1>2 DEF Begin, rest
<1>3. ASSUME NEW t \in Tasks, TaskStep(t) \/ GetterPanics(t) \/ RequestFails(t)
      PROVE  UNCHANGED ring
  BY <1>3 DEF TaskStep, GetterPanics, RequestFails, Do, Lookup, PickPeer, GetLocally,
              PopulateCache, PeerErrs, PeerAnswers, rest
<1>4. CASE UNCHANGED cvars
  BY <1>4 DEF cvars
<1> QED BY <1>1, <1>2, <1>3, <1>4 DEF ClusterNext

(* The handler of a request is a goroutine of the node that owns the name. *)
LEMMA AskedIsTask ==
  ASSUME RingOK, NEW t \in Tasks, HasPeer(t), t[2] < MaxHops
  PROVE  Handler(t, Owner(t)) \in Tasks
<1>1. Owner(t) \in Nodes
  BY TaskParts, ClusterAssumption DEF RingOK, HasPeer, Owner
<1>2. t[1] \in Gets /\ t[2] + 1 \in 1..MaxHops
  BY TaskParts, ClusterAssumption
<1> QED BY <1>1, <1>2 DEF Handler, Tasks

(* Whatever a cluster does, its singleflight groups take the steps of Do. *)
LEMMA ClusterNextIsNext == RingOK /\ [ClusterNext]_cvars => [Next]_vars
<1> SUFFICES ASSUME RingOK, ClusterNext PROVE Next \/ UNCHANGED vars
  BY DEF cvars
<1> USE ClusterAssumption DEF Next, DoStep
<1>1. CASE \E n \in Nodes : Set(n)
  BY <1>1 DEF Set
<1>2. ASSUME NEW g \in Gets, Begin(g) PROVE Next
  <2>1. <<g, 0, At[g]>> \in Callers
    BY DEF Tasks
  <2> QED BY <1>2, <2>1 DEF Begin
<1>3. ASSUME NEW t \in Tasks, TaskStep(t) \/ GetterPanics(t) \/ RequestFails(t)
      PROVE  Next \/ UNCHANGED vars
  <2>1. CASE Do(t)
    BY <2>1 DEF Do
  <2>2. CASE Lookup(t) \/ GetLocally(t) \/ PopulateCache(t) \/ PeerErrs(t) \/ RequestFails(t)
    BY <2>2 DEF Lookup, GetLocally, PopulateCache, PeerErrs, RequestFails, Gives
  <2>3. CASE PickPeer(t)
    BY <2>3, AskedIsTask DEF PickPeer
  <2>4. CASE PeerAnswers(t) \/ GetterPanics(t)
    BY <2>4 DEF PeerAnswers, GetterPanics
  <2> QED BY <1>3, <2>1, <2>2, <2>3, <2>4 DEF TaskStep
<1> QED BY <1>1, <1>2, <1>3 DEF ClusterNext

(* The cluster implements SingleFlight: the goroutines of users and handlers are *)
(* its callers, the names on each node its keys.                                *)
THEOREM ClusterIsSingleFlight == ClusterSpec => Spec
<1>1. ClusterInit => Init /\ RingOK
  BY DEF ClusterInit, RingOK
<1>2. RingOK /\ [ClusterNext]_cvars => RingOK'
  BY RingKept
<1>3. RingOK /\ [ClusterNext]_cvars => [Next]_vars
  BY ClusterNextIsNext
<1> QED BY <1>1, <1>2, <1>3, PTL DEF ClusterSpec, Spec

(* On every node of a cluster a name is loaded once at a time, those who wait   *)
(* for a load share its result, and no Get shares a load led by one that had    *)
(* returned before.                                                             *)
THEOREM ClusterShares ==
  ClusterSpec => [](OneExecution /\ SharedResult /\ NoReuseAfterReturn)
BY ClusterIsSingleFlight, OnceAtATime, ResultIsShared, FreshAfterReturn, PTL

-----------------------------------------------------------------------------
(* No node loads what it has cached.                                       *)

LEMMA MissInvInit == ClusterInit => MissInv
BY ClusterAssumption, TaskParts DEF ClusterInit, Init, MissInv

(* A goroutine that does not fill a cache keeps what the others have missed. *)
LEMMA MissInvKept ==
  IInv /\ RingOK /\ MissInv /\ [ClusterNext]_cvars => MissInv'
<1> SUFFICES ASSUME IInv, RingOK, MissInv, [ClusterNext]_cvars PROVE MissInv'
  OBVIOUS
<1> USE ClusterAssumption
<1>0. /\ pc \in [Tasks -> {"idle", "enter", "fn", "done", "delete", "wait", "returned", "panicked"}]
      /\ OneExecution
  BY DEF IInv, TypeOK, LeaderInv, OneExecution
<1>1. CASE \E n \in Nodes : Set(n)
  BY <1>1 DEF Set, MissInv, vars
<1>2. CASE \E g \in Gets : Begin(g)
  BY <1>0, <1>2 DEF Begin, Start, Goto, MissInv, rest
<1>3. ASSUME NEW t \in Tasks, TaskStep(t) \/ GetterPanics(t) \/ RequestFails(t)
      PROVE  MissInv'
  <2>1. CASE Do(t)
    BY <1>0, <2>1 DEF Do, Join, Lead, Done, Delete, WaitReturns, Goto, MissInv, rest
  <2>2. CASE Lookup(t)
    BY <1>0, <2>2 DEF Lookup, Hit, In, Gives, Goes, FnReturns, Goto, MissInv, rest, vars
  <2>3. CASE PickPeer(t)
    BY <1>0, <2>3 DEF PickPeer, In, Goes, Start, Goto, MissInv, rest, vars
  <2>4. CASE GetLocally(t)
    BY <1>0, <2>4 DEF GetLocally, In, Gives, Goes, FnReturns, Goto, MissInv, rest, vars
  <2>5. CASE PopulateCache(t)
    <3>1. \A u \in Tasks : pc[u] = "fn" /\ Node(u) = Node(t) /\ Name(u) = Name(t) => u = t
      BY <1>0, <2>5 DEF PopulateCache, In, OneExecution, MissInv
    <3>2. PICK kept \in SUBSET (cached[Node(t)] \cup {Name(t)}) :
            cached' = [cached EXCEPT ![Node(t)] = kept]
      BY <2>5 DEF PopulateCache
    <3>3. /\ pc' = [pc EXCEPT ![t] = "done"] /\ stage' = stage /\ key' = key
      BY <2>5 DEF PopulateCache, Gives, FnReturns, Goto
    <3>4. cached' \in [Nodes -> SUBSET Names]
      BY <3>2, TaskParts DEF MissInv
    <3>5. ASSUME NEW u \in Tasks, pc'[u] = "fn", stage'[u] # "lookup"
          PROVE  Name(u) \notin cached'[Node(u)]
      <4>1. u # t /\ pc[u] = "fn" /\ Name(u) \notin cached[Node(u)]
        BY <1>0, <3>3, <3>5 DEF MissInv
      <4>2. Node(u) # Node(t) \/ Name(u) # Name(t)
        BY <3>1, <4>1
      <4> QED BY <3>2, <4>1, <4>2, TaskParts DEF MissInv
    <3> QED BY <1>0, <3>3, <3>4, <3>5 DEF MissInv
  <2>6. CASE PeerErrs(t) \/ RequestFails(t)
    BY <1>0, <2>6 DEF PeerErrs, RequestFails, In, Gives, FnReturns, Goto, MissInv, rest
  <2>7. CASE PeerAnswers(t) \/ GetterPanics(t)
    BY <1>0, <2>7 DEF PeerAnswers, GetterPanics, In, FnPanics, Goto, MissInv, rest
  <2> QED BY <1>3, <2>1, <2>2, <2>3, <2>4, <2>5, <2>6, <2>7 DEF TaskStep
<1>4. CASE UNCHANGED cvars
  BY <1>4 DEF cvars, vars, MissInv
<1> QED BY <1>1, <1>2, <1>3, <1>4 DEF ClusterNext

(* A node asks neither its getter nor a peer for a name it has cached. *)
THEOREM NoLoadOfCached == ClusterSpec => []NeverLoadsCached
<1>1. ClusterInit => MissInv /\ RingOK
  BY MissInvInit DEF ClusterInit, RingOK
<1>2. IInv /\ RingOK /\ MissInv /\ [ClusterNext]_cvars => MissInv' /\ RingOK'
  BY MissInvKept, RingKept
<1>3. MissInv => NeverLoadsCached
  BY DEF MissInv, NeverLoadsCached
<1> QED BY <1>1, <1>2, <1>3, ClusterIsSingleFlight, Invariance, PTL DEF ClusterSpec

-----------------------------------------------------------------------------
(* No Get waits for itself.                                                *)

LEMMA ChainInvInit == ClusterInit => ChainInv
BY ClusterAssumption, TaskParts DEF ClusterInit, Init, ChainInv, Running

(* What the steps of goroutines that have begun do to the chains of requests:  *)
(* they never go back, and wait only for a call that is led.                   *)
LEMMA ChainKeeps ==
  ASSUME ChainInv, pc \in [Tasks -> {"idle", "enter", "fn", "done", "delete", "wait",
                                    "returned", "panicked"}],
         stage \in [Tasks -> {"lookup", "pick", "getter", "populate", "ask"}],
         UNCHANGED peer,
         \A t \in Tasks : Running(t)' <=> Running(t),
         \A t \in Tasks : HasAsked(t) => HasAsked(t)',
         \A t \in Tasks : stage'[t] = "ask" => stage[t] = "ask",
         \A t \in Tasks : pc'[t] = "wait" => pc'[callOf'[t]] \notin {"idle", "enter", "wait"}
  PROVE  ChainInv'
<1>1. \A t \in Tasks : peer'[t] = peer[t] /\ Node(t)' = Node(t)
  BY DEF Node
<1>2. peer' \in [Tasks -> Nodes] /\ \A t \in Tasks : stage'[t] = "ask" => peer'[t] # Node(t)'
  BY <1>1 DEF ChainInv
<1>3. \A t, u \in Tasks : Running(t)' /\ Running(u)' /\ t[1] = u[1] =>
        /\ t[2] = u[2] => t = u
        /\ t[2] < u[2] => HasAsked(t)'
        /\ u[2] = t[2] + 1 => peer'[t] = Node(u)'
  BY <1>1 DEF ChainInv
<1>4. \A u \in Tasks : Running(u)' => \A h \in 0..(u[2] - 1) :
        \E t \in Tasks : Running(t)' /\ t[1] = u[1] /\ t[2] = h
  BY DEF ChainInv
<1> QED BY <1>2, <1>3, <1>4 DEF ChainInv

LEMMA ChainInvKept ==
  IInv /\ RingOK /\ MissInv /\ ChainInv /\ [ClusterNext]_cvars => ChainInv'
<1> SUFFICES ASSUME IInv, RingOK, MissInv, ChainInv, [ClusterNext]_cvars PROVE ChainInv'
  OBVIOUS
<1> USE ClusterAssumption
<1>0. /\ pc \in [Tasks -> {"idle", "enter", "fn", "done", "delete", "wait", "returned", "panicked"}]
      /\ stage \in [Tasks -> {"lookup", "pick", "getter", "populate", "ask"}]
      /\ callOf \in [Tasks -> Tasks \cup {NoCall}] /\ NoCall \notin Tasks
      /\ key \in [Tasks -> Nodes \X Names]
      /\ m \in [Nodes \X Names -> Tasks \cup {NoCall}]
  BY CallersAssumption DEF IInv, TypeOK, MissInv
<1>a. /\ peer \in [Tasks -> Nodes]
      /\ \A t \in Tasks : stage[t] = "ask" => peer[t] # Node(t)
      /\ \A t \in Tasks : pc[t] = "wait" => pc[callOf[t]] \notin {"idle", "enter", "wait"}
  BY DEF ChainInv
<1>b. /\ \A t, u \in Tasks : Running(t) /\ Running(u) /\ t[1] = u[1] =>
           /\ t[2] = u[2] => t = u
           /\ t[2] < u[2] => HasAsked(t)
           /\ u[2] = t[2] + 1 => peer[t] = Node(u)
      /\ \A u \in Tasks : Running(u) => \A h \in 0..(u[2] - 1) :
           \E t \in Tasks : Running(t) /\ t[1] = u[1] /\ t[2] = h
  BY DEF ChainInv
<1>c. \A t \in Tasks : pc[t] = "wait" => callOf[t] \in Tasks
  BY <1>0 DEF IInv, LeaderInv
<1>1. ASSUME NEW t \in Tasks, UNCHANGED <<peer, stage>>,
             \E q \in {"enter", "fn", "done", "delete", "wait", "returned", "panicked"} :
               /\ pc' = [pc EXCEPT ![t] = q]
               /\ q \in {"enter", "wait"} => pc[t] \in {"enter", "wait"},
             pc[t] # "idle",
             \A u \in Tasks : pc'[u] = "wait" => pc'[callOf'[u]] \notin {"idle", "enter", "wait"}
      PROVE  ChainInv'
  <2>1. \A u \in Tasks : (Running(u)' <=> Running(u)) /\ (HasAsked(u) => HasAsked(u)')
    BY <1>0, <1>1 DEF Running, HasAsked
  <2> QED BY <1>0, <1>1, <2>1, ChainKeeps
<1>2. ASSUME NEW t \in Tasks, UNCHANGED <<peer, stage, callOf>>, pc[t] # "idle",
             \E q \in {"fn", "done", "delete", "returned", "panicked"} : pc' = [pc EXCEPT ![t] = q]
      PROVE  ChainInv'
  <2>1. \A u \in Tasks : pc'[u] = "wait" => pc'[callOf'[u]] \notin {"idle", "enter", "wait"}
    BY <1>0, <1>2, <1>a, <1>c
  <2> QED BY <1>1, <1>2, <2>1
<1>3. ASSUME NEW t \in Tasks, Do(t) PROVE ChainInv'
  <2>1. CASE Join(t)
    <3>1. /\ pc[t] = "enter" /\ pc' = [pc EXCEPT ![t] = "wait"] /\ UNCHANGED <<peer, stage>>
          /\ callOf' = [callOf EXCEPT ![t] = m[key[t]]] /\ m[key[t]] # NoCall
      BY <1>3, <2>1 DEF Do, Join, InFlight, Goto, rest
    <3>2. m[key[t]] \in Tasks /\ pc[m[key[t]]] \in {"fn", "done", "delete", "panicked"}
      BY <1>0, <3>1 DEF IInv, LeaderInv
    <3>3. \A u \in Tasks : pc'[u] = "wait" => pc'[callOf'[u]] \notin {"idle", "enter", "wait"}
      BY <1>0, <1>a, <1>c, <3>1, <3>2
    <3> QED BY <1>1, <3>1, <3>3
  <2>2. CASE Lead(t)
    <3>1. /\ pc[t] = "enter" /\ pc' = [pc EXCEPT ![t] = "fn"] /\ UNCHANGED <<peer, stage>>
          /\ callOf' = [callOf EXCEPT ![t] = t]
      BY <1>3, <2>2 DEF Do, Lead, Goto, rest
    <3>2. \A u \in Tasks : pc'[u] = "wait" => pc'[callOf'[u]] \notin {"idle", "enter", "wait"}
      BY <1>0, <1>a, <1>c, <3>1
    <3> QED BY <1>1, <3>1, <3>2
  <2>3. CASE Done(t) \/ Delete(t) \/ WaitReturns(t)
    <3>1. /\ pc[t] # "idle" /\ UNCHANGED <<peer, stage, callOf>>
          /\ \E q \in {"delete", "returned"} : pc' = [pc EXCEPT ![t] = q]
      BY <1>3, <2>3 DEF Do, Done, Delete, WaitReturns, Goto, rest
    <3> QED BY <1>2, <3>1
  <2> QED BY <1>3, <2>1, <2>2, <2>3 DEF Do
<1>4. ASSUME NEW t \in Tasks, pc[t] = "fn", FnReturns(t) \/ FnPanics(t), UNCHANGED <<peer, stage>>
      PROVE  ChainInv'
  <2>1. UNCHANGED callOf /\ \E q \in {"done", "panicked"} : pc' = [pc EXCEPT ![t] = q]
    BY <1>4 DEF FnReturns, FnPanics, Goto
  <2> QED BY <1>2, <1>4, <2>1
<1>5. ASSUME NEW t \in Tasks, pc[t] = "fn", UNCHANGED <<vars, peer>>,
             \E s \in {"pick", "populate", "getter"} : stage' = [stage EXCEPT ![t] = s],
             stage[t] # "ask"
      PROVE  ChainInv'
  <2>1. \A u \in Tasks : /\ Running(u)' <=> Running(u)
                         /\ HasAsked(u) => HasAsked(u)'
                         /\ stage'[u] = "ask" => stage[u] = "ask"
    BY <1>0, <1>5 DEF Running, HasAsked, vars
  <2>2. \A u \in Tasks : pc'[u] = "wait" => pc'[callOf'[u]] \notin {"idle", "enter", "wait"}
    BY <1>5, <1>a DEF vars
  <2> QED BY <1>0, <1>5, <2>1, <2>2, ChainKeeps
<1>6. ASSUME NEW t \in Tasks, PickPeer(t), HasPeer(t), t[2] < MaxHops PROVE ChainInv'
  <2> DEFINE v == Handler(t, Owner(t))
  <2>1. /\ v \in Tasks /\ v[1] = t[1] /\ v[2] = t[2] + 1 /\ Node(v) = Owner(t) /\ t[2] \in Nat
        /\ Owner(t) \in Nodes /\ Owner(t) # Node(t)
    <3>1. v \in Tasks /\ v[1] = t[1] /\ v[2] = t[2] + 1 /\ v[3] = Owner(t) /\ t[2] \in Nat
      BY <1>6, AskedIsTask, TaskParts DEF Handler
    <3>2. Node(v) \in Nodes
      BY <3>1, TaskParts
    <3> QED BY <1>6, <3>1, <3>2 DEF Node, HasPeer
  <2>2. /\ pc[t] = "fn" /\ stage[t] = "pick" /\ stage' = [stage EXCEPT ![t] = "ask"]
        /\ peer' = [peer EXCEPT ![t] = Owner(t)]
        /\ pc[v] = "idle" /\ pc' = [pc EXCEPT ![v] = "enter"] /\ UNCHANGED <<ring, cached, callOf>>
    BY <1>6 DEF PickPeer, In, Goes, Start, Goto
  <2> HIDE DEF v
  <2>3. \A u \in Tasks : /\ Running(u)' <=> Running(u) \/ u = v
                         /\ HasAsked(u) => HasAsked(u)'
                         /\ peer'[u] = IF u = t THEN Owner(t) ELSE peer[u]
                         /\ Node(u)' = Node(u)
    <3>1. \A u \in Tasks : (Running(u)' <=> Running(u) \/ u = v) /\ (HasAsked(u) => HasAsked(u)')
      BY <1>0, <2>1, <2>2 DEF Running, HasAsked
    <3>2. \A u \in Tasks : /\ peer'[u] = IF u = t THEN Owner(t) ELSE peer[u]
                           /\ Node(u)' = Node(u)
      BY <1>a, <2>2 DEF Node
    <3> QED BY <3>1, <3>2
  <2>4. Running(t) /\ ~ HasAsked(t) /\ HasAsked(t)' /\ t # v
    BY <1>0, <2>1, <2>2 DEF Running, HasAsked
  <2>5. ASSUME NEW u \in Tasks, Running(u), u[1] = t[1]
        PROVE  u[2] <= t[2] /\ (u[2] = t[2] => u = t) /\ (u[2] < t[2] => HasAsked(u))
    BY <1>b, <2>4, <2>5, <2>1, TaskParts
  <2>6. /\ peer' \in [Tasks -> Nodes]
        /\ \A u \in Tasks : stage'[u] = "ask" => peer'[u] # Node(u)'
    BY <1>0, <1>a, <2>1, <2>2, <2>3
  <2>7. \A u \in Tasks : pc'[u] = "wait" => pc'[callOf'[u]] \notin {"idle", "enter", "wait"}
    BY <1>0, <1>a, <1>c, <2>1, <2>2
  <2>8. ASSUME NEW w \in Tasks, NEW u \in Tasks, Running(w)', Running(u)', w[1] = u[1]
        PROVE  /\ w[2] = u[2] => w = u
               /\ w[2] < u[2] => HasAsked(w)'
               /\ u[2] = w[2] + 1 => peer'[w] = Node(u)'
    <3>1. w[2] \in Nat /\ u[2] \in Nat
      BY TaskParts
    <3>2. CASE w # v /\ u # v
      <4>1. Running(w) /\ Running(u)
        BY <2>3, <2>8, <3>2
      <4>2. w = t => ~ (u[2] = w[2] + 1)
        BY <2>1, <2>5, <2>8, <3>1, <4>1
      <4> QED BY <1>b, <2>3, <2>8, <4>1, <4>2
    <3>3. CASE w = v /\ u # v
      BY <2>1, <2>3, <2>5, <2>8, <3>1, <3>3
    <3>4. CASE w # v /\ u = v
      <4>1. w[2] <= t[2] /\ (w[2] = t[2] => w = t) /\ (w[2] < t[2] => HasAsked(w))
        BY <2>1, <2>3, <2>5, <2>8, <3>4
      <4>2. u[2] = w[2] + 1 => w = t
        BY <2>1, <3>1, <3>4, <4>1
      <4> QED BY <2>1, <2>3, <2>4, <3>1, <3>4, <4>1, <4>2
    <3>5. CASE w = v /\ u = v
      BY <3>1, <3>5
    <3> QED BY <3>2, <3>3, <3>4, <3>5
  <2>9. ASSUME NEW u \in Tasks, Running(u)', NEW h \in 0..(u[2] - 1)
        PROVE  \E w \in Tasks : Running(w)' /\ w[1] = u[1] /\ w[2] = h
    <3>1. CASE u # v
      BY <1>b, <2>3, <2>9, <3>1
    <3>2. CASE u = v /\ h = t[2]
      BY <2>1, <2>3, <2>4, <3>2
    <3>3. CASE u = v /\ h # t[2]
      <4>1. h \in 0..(t[2] - 1)
        BY <2>1, <3>3
      <4> QED BY <1>b, <2>1, <2>3, <2>4, <3>3, <4>1
    <3> QED BY <3>1, <3>2, <3>3
  <2> QED BY <2>6, <2>7, <2>8, <2>9 DEF ChainInv
<1>7. ASSUME NEW t \in Tasks, PickPeer(t), HasPeer(t), ~ (t[2] < MaxHops) PROVE ChainInv'
  <2>0. Owner(t) \in Nodes /\ Owner(t) # Node(t)
    BY <1>7, TaskParts DEF HasPeer, Owner, RingOK
  <2>1. /\ pc[t] = "fn" /\ stage[t] = "pick" /\ stage' = [stage EXCEPT ![t] = "ask"]
        /\ peer' = [peer EXCEPT ![t] = Owner(t)] /\ UNCHANGED <<pc, callOf>>
    BY <1>7 DEF PickPeer, In, Goes, vars
  <2>2. \A u \in Tasks : /\ Running(u)' <=> Running(u)
                         /\ HasAsked(u) => HasAsked(u)'
                         /\ u # t => peer'[u] = peer[u]
                         /\ Node(u)' = Node(u)
    BY <1>0, <1>a, <2>1 DEF Running, HasAsked, Node
  <2>3. /\ peer' \in [Tasks -> Nodes]
        /\ \A u \in Tasks : stage'[u] = "ask" => peer'[u] # Node(u)'
    BY <1>0, <1>a, <2>0, <2>1, <2>2
  <2>a. \A u \in Tasks : Running(u) /\ u[1] = t[1] => ~ (u[2] = t[2] + 1)
    <3>1. Running(t) /\ ~ HasAsked(t) /\ t[2] \in Nat
      BY <2>1, TaskParts DEF Running, HasAsked
    <3>2. \A u \in Tasks : u[2] \in Nat
      BY TaskParts
    <3> QED BY <1>b, <3>1, <3>2
  <2>4. \A w, u \in Tasks : Running(w)' /\ Running(u)' /\ w[1] = u[1] =>
          /\ w[2] = u[2] => w = u
          /\ w[2] < u[2] => HasAsked(w)'
          /\ u[2] = w[2] + 1 => peer'[w] = Node(u)'
    BY <1>b, <2>2, <2>a
  <2>5. \A u \in Tasks : Running(u)' => \A h \in 0..(u[2] - 1) :
          \E w \in Tasks : Running(w)' /\ w[1] = u[1] /\ w[2] = h
    BY <1>b, <2>2
  <2> QED BY <1>a, <2>1, <2>3, <2>4, <2>5 DEF ChainInv
<1>8. ASSUME NEW t \in Tasks, TaskStep(t) \/ GetterPanics(t) \/ RequestFails(t) PROVE ChainInv'
  <2>1. CASE Do(t)
    BY <1>3, <2>1
  <2>2. CASE (Lookup(t) /\ Hit(t)) \/ PopulateCache(t) \/ PeerErrs(t) \/ RequestFails(t)
             \/ PeerAnswers(t) \/ GetterPanics(t)
    <3>1. pc[t] = "fn" /\ (FnReturns(t) \/ FnPanics(t)) /\ UNCHANGED <<peer, stage>>
      BY <2>2 DEF Lookup, PopulateCache, PeerErrs, RequestFails, PeerAnswers, GetterPanics, In,
                  Gives, rest
    <3> QED BY <1>4, <3>1
  <2>3. CASE Lookup(t) /\ ~ Hit(t)
    BY <1>5, <2>3 DEF Lookup, In, Goes, rest
  <2>4. CASE GetLocally(t)
    <3>1. CASE Gives(t, "error")
      BY <1>4, <2>4, <3>1 DEF GetLocally, In, Gives, rest
    <3>2. CASE Goes(t, "populate") /\ UNCHANGED vars
      BY <1>5, <2>4, <3>2 DEF GetLocally, In, Goes, rest
    <3> QED BY <2>4, <3>1, <3>2 DEF GetLocally
  <2>5. CASE PickPeer(t) /\ ~ HasPeer(t)
    BY <1>5, <2>5 DEF PickPeer, In, Goes, rest
  <2>6. CASE PickPeer(t) /\ HasPeer(t)
    BY <1>6, <1>7, <2>6
  <2> QED BY <1>8, <2>1, <2>2, <2>3, <2>4, <2>5, <2>6 DEF TaskStep
<1>9. ASSUME NEW n \in Nodes, Set(n) PROVE ChainInv'
  <2>1. UNCHANGED <<peer, stage, pc, callOf>>
    BY <1>9 DEF Set, vars
  <2>2. \A u \in Tasks : Running(u)' = Running(u) /\ HasAsked(u)' = HasAsked(u)
    BY <2>1 DEF Running, HasAsked
  <2> QED BY <1>0, <1>a, <2>1, <2>2, ChainKeeps
<1>10. ASSUME NEW g \in Gets, Begin(g) PROVE ChainInv'
  <2> DEFINE t == <<g, 0, At[g]>>
  <2>1. /\ t \in Tasks /\ t[1] = g /\ t[2] = 0
        /\ pc[t] = "idle" /\ pc' = [pc EXCEPT ![t] = "enter"] /\ UNCHANGED <<peer, stage, callOf>>
    BY <1>10 DEF Begin, Start, Goto, rest, Tasks
  <2>2. \A u \in Tasks : u[1] = g /\ u[2] = 0 => u = t
    BY DEF Tasks
  <2> HIDE DEF t
  <2>3. ASSUME NEW u \in Tasks, Running(u), u[1] = g PROVE FALSE
    <3>1. CASE u[2] = 0
      BY <2>1, <2>2, <2>3, <3>1 DEF Running
    <3>2. CASE u[2] # 0
      <4>1. 0 \in 0..(u[2] - 1)
        BY <3>2, TaskParts
      <4>2. PICK w \in Tasks : Running(w) /\ w[1] = g /\ w[2] = 0
        BY <1>b, <2>3, <4>1
      <4> QED BY <2>1, <2>2, <4>2 DEF Running
    <3> QED BY <3>1, <3>2
  <2>4. \A u \in Tasks : /\ peer'[u] = peer[u] /\ Node(u)' = Node(u)
                         /\ Running(u)' <=> Running(u) \/ u = t
                         /\ HasAsked(u)' = HasAsked(u)
    BY <1>0, <2>1 DEF Node, Running, HasAsked
  <2>5. \A u \in Tasks : pc'[u] = "wait" => pc'[callOf'[u]] \notin {"idle", "enter", "wait"}
    BY <1>0, <1>a, <1>c, <2>1
  <2>6. \A w, u \in Tasks : Running(w)' /\ Running(u)' /\ w[1] = u[1] =>
          /\ w[2] = u[2] => w = u
          /\ w[2] < u[2] => HasAsked(w)'
          /\ u[2] = w[2] + 1 => peer'[w] = Node(u)'
    <3>1. \A u \in Tasks : u[2] \in Nat
      BY TaskParts
    <3> QED BY <1>b, <2>1, <2>3, <2>4, <3>1
  <2>7. \A u \in Tasks : Running(u)' => \A h \in 0..(u[2] - 1) :
          \E w \in Tasks : Running(w)' /\ w[1] = u[1] /\ w[2] = h
    <3>1. \A h \in 0..(t[2] - 1) : FALSE
      BY <2>1
    <3> QED BY <1>b, <2>4, <3>1
  <2>8. /\ peer' \in [Tasks -> Nodes]
        /\ \A u \in Tasks : stage'[u] = "ask" => peer'[u] # Node(u)'
    BY <1>a, <2>1, <2>4
  <2> QED BY <2>5, <2>6, <2>7, <2>8 DEF ChainInv
<1>11. CASE UNCHANGED cvars
  <2>1. UNCHANGED <<peer, stage, pc, callOf>>
    BY <1>11 DEF cvars, vars
  <2>2. \A u \in Tasks : Running(u)' = Running(u) /\ HasAsked(u)' = HasAsked(u)
    BY <2>1 DEF Running, HasAsked
  <2> QED BY <1>0, <1>a, <2>1, <2>2, ChainKeeps
<1> QED BY <1>8, <1>9, <1>10, <1>11 DEF ClusterNext

(* In a circle of waiting goroutines there is one that asks a peer; the handler asks  *)
(* on, or waits for one that does, and its request is for the name it was asked for,   *)
(* of which its own node was the owner when it was asked and is not when it asks.      *)
LEMMA CircleToldApart == IInv /\ RingOK /\ MissInv /\ ChainInv => NoDeadlock
<1> SUFFICES ASSUME IInv, RingOK, MissInv, ChainInv,
                    NEW S \in SUBSET {t \in Tasks : Blocked(t)}, S # {},
                    \A t \in S : WaitsFor(t) \in S
             PROVE  ToldApart(S)
  BY DEF NoDeadlock
<1>0. \A t \in S : t \in Tasks /\ Blocked(t) /\ WaitsFor(t) \in S
  OBVIOUS
<1> DEFINE Asks(t) == In(t, "ask") /\ t[2] < MaxHops
<1>1. ASSUME NEW t \in S
      PROVE  \E u \in S : Asks(u) /\ Node(u) = Node(t) /\ Name(u) = Name(t)
  <2>1. CASE pc[t] = "wait"
    <3>1. WaitsFor(t) = callOf[t] /\ callOf[t] \in S
      BY <1>0, <2>1 DEF WaitsFor
    <3>2. Asks(callOf[t])
      BY <1>0, <2>1, <3>1 DEF ChainInv, Blocked
    <3>3. key[callOf[t]] = key[t]
      BY <1>0, <2>1, ClusterAssumption DEF IInv, LeaderInv
    <3>4. Node(callOf[t]) = Node(t) /\ Name(callOf[t]) = Name(t)
      BY <1>0, <3>1, <3>3 DEF MissInv
    <3> QED BY <3>1, <3>2, <3>4
  <2>2. CASE pc[t] # "wait"
    BY <1>0, <2>2 DEF Blocked
  <2> QED BY <2>1, <2>2
<1>2. ASSUME NEW t \in S, Asks(t)
      PROVE  \E u \in S : Asks(u) /\ Node(u) = peer[t] /\ Name(u) = Sent[NameOf[t[1]]]
  <2>1. Asked(t) \in S
    BY <1>0, <1>2 DEF WaitsFor, In
  <2>2. Node(Asked(t)) = peer[t] /\ Name(Asked(t)) = Sent[NameOf[t[1]]]
    <3>1. t[2] + 1 # 0
      BY <1>0, TaskParts, ClusterAssumption
    <3> QED BY <3>1 DEF Asked, Handler, Node, Name
  <2> QED BY <1>1, <2>1, <2>2
<1>3. PICK t \in S : Asks(t)
  BY <1>1
<1>4. PICK u \in S : Asks(u) /\ Node(u) = peer[t] /\ Name(u) = Sent[NameOf[t[1]]]
  BY <1>2, <1>3
<1>5. PICK v \in S : Asks(v) /\ Node(v) = peer[u] /\ Name(v) = Sent[NameOf[u[1]]]
  BY <1>2, <1>4
<1>6. Name(v) = Name(u)
  <2>1. NameOf[t[1]] \in Names
    BY <1>0, TaskParts, ClusterAssumption
  <2>2. Sent[Name(u)] = Name(u)
    BY <1>4, <2>1, ClusterAssumption
  <2> QED BY <1>5, <2>2 DEF Name
<1>7. stage[u] = "ask" /\ stage[v] = "ask" /\ peer[v] # Node(v)
  BY <1>0, <1>4, <1>5 DEF ChainInv, In
<1> QED BY <1>5, <1>6, <1>7 DEF ToldApart

(* A goroutine of a Get waits for a load led by another goroutine of the same Get, *)
(* through any number of handlers, only if two of them that asked for the name were *)
(* told different owners of it (http.go:147: a node does not ask itself), and no     *)
(* goroutines of whatever Gets wait for one another in a circle unless two of them    *)
(* were, whenever and however often Set replaces the rings.  The invariant also       *)
(* gives the types.                                                                   *)
THEOREM NoCircle == ClusterSpec => []Inv
<1>1. ClusterInit => MissInv /\ RingOK /\ ChainInv
  BY MissInvInit, ChainInvInit DEF ClusterInit, RingOK
<1>2. /\ IInv /\ RingOK /\ MissInv /\ ChainInv /\ [ClusterNext]_cvars
      => MissInv' /\ RingOK' /\ ChainInv'
  BY MissInvKept, RingKept, ChainInvKept
<1>3. IInv /\ RingOK /\ MissInv /\ ChainInv => Inv
  <2> SUFFICES ASSUME IInv, RingOK, MissInv, ChainInv PROVE ClusterTypeOK /\ NoSelfWait
    BY CircleToldApart DEF Inv
  <2>1. ClusterTypeOK
    BY DEF ClusterTypeOK, IInv, MissInv, RingOK, ChainInv
  <2>2. ASSUME NEW t \in Tasks, pc[t] = "wait", callOf[t][1] = t[1] 
        PROVE  ToldApart({q \in Tasks : q[1] = t[1] /\ Name(q) = Name(t)})
    <3> DEFINE u == callOf[t]
    <3>1. u \in Tasks /\ Running(u) /\ Running(t) /\ u # t /\ ~ HasAsked(t)
      <4>1. Callers = Tasks /\ callOf[t] \in Callers \cup {NoCall}
        BY ClusterAssumption DEF IInv, TypeOK
      <4>2. callOf[t] # NoCall
        BY <2>2, <4>1 DEF IInv, LeaderInv
      <4>3. pc[u] \notin {"idle", "enter", "wait"}
        BY <2>2 DEF ChainInv
      <4>4. u \in Tasks /\ u # t
        BY <2>2, <4>1, <4>2, <4>3
      <4> HIDE DEF u
      <4> QED BY <2>2, <4>3, <4>4 DEF Running, HasAsked
    <3>2. Node(u) = Node(t) /\ Name(u) = Name(t)
      <4>1. key[u] = key[t]
        BY <2>2, ClusterAssumption DEF IInv, LeaderInv
      <4> QED BY <3>1, <4>1 DEF MissInv
    <3>3. t[2] \in Nat /\ u[2] \in Nat /\ u[1] = t[1]
      BY <2>2, <3>1, TaskParts
    <3> HIDE DEF u
    <3>4. u[2] < t[2] /\ HasAsked(u) /\ stage[u] = "ask" /\ peer[u] # Node(u)
      BY <3>1, <3>3 DEF ChainInv, HasAsked
    <3>5. PICK w \in Tasks : Running(w) /\ w[1] = t[1] /\ w[2] = u[2] + 1
      <4>1. CASE t[2] = u[2] + 1
        BY <3>1, <3>3, <4>1
      <4>2. CASE t[2] # u[2] + 1
        <5>1. u[2] + 1 \in 0..(t[2] - 1)
          BY <3>3, <3>4, <4>2
        <5> QED BY <3>1, <5>1 DEF ChainInv
      <4> QED BY <4>1, <4>2
    <3>6. Node(w) = peer[u] /\ Node(w) # Node(t)
      BY <3>1, <3>2, <3>3, <3>4, <3>5 DEF ChainInv
    <3>7. stage[w] = "ask" /\ peer[w] # Node(w)
      <4>1. w # t
        BY <3>6
      <4>2. w[2] < t[2]
        BY <3>1, <3>3, <3>4, <3>5, <4>1 DEF ChainInv
      <4> QED BY <3>1, <3>5, <4>2 DEF ChainInv, HasAsked
    <3>8. Name(w) = Name(t)
      BY <3>3, <3>4, <3>5 DEF Name
    <3> QED BY <3>1, <3>2, <3>3, <3>4, <3>5, <3>6, <3>7, <3>8 DEF ToldApart
  <2> QED BY <2>1, <2>2 DEF NoSelfWait
<1> QED BY <1>1, <1>2, <1>3, ClusterIsSingleFlight, Invariance, PTL DEF ClusterSpec

(* Peers are told by one of the rings there are. *)
ToldByARing ==
  \A t \in Tasks : stage[t] = "ask" => \E r \in Rings : peer[t] = r[Name(t)]

LEMMA ToldKept ==
  /\ RingOK /\ MissInv /\ ChainInv /\ ToldByARing /\ [ClusterNext]_cvars
  => ToldByARing'
<1> SUFFICES ASSUME RingOK, MissInv, ChainInv, ToldByARing, [ClusterNext]_cvars
             PROVE  ToldByARing'
  OBVIOUS
<1>0. /\ stage \in [Tasks -> {"lookup", "pick", "getter", "populate", "ask"}]
      /\ peer \in [Tasks -> Nodes] /\ ring \in [Nodes -> Rings \cup {NoRing}]
  BY DEF MissInv, ChainInv, RingOK
<1>1. ASSUME UNCHANGED peer, \A t \in Tasks : stage'[t] = "ask" => stage[t] = "ask"
      PROVE  ToldByARing'
  BY <1>1 DEF ToldByARing, Name
<1>2. CASE (\E n \in Nodes : Set(n)) \/ (\E g \in Gets : Begin(g)) \/ UNCHANGED cvars
  BY <1>1, <1>2 DEF Set, Begin, cvars, rest
<1>3. ASSUME NEW t \in Tasks, TaskStep(t) \/ GetterPanics(t) \/ RequestFails(t)
      PROVE  ToldByARing'
  <2>1. CASE PickPeer(t) /\ HasPeer(t)
    <3>1. /\ stage' = [stage EXCEPT ![t] = "ask"] /\ peer' = [peer EXCEPT ![t] = Owner(t)]
          /\ ring[Node(t)] \in Rings /\ Owner(t) = ring[Node(t)][Name(t)]
      BY <1>0, <2>1, TaskParts DEF PickPeer, Goes, HasPeer, Owner
    <3> QED BY <1>0, <3>1 DEF ToldByARing, Name
  <2>2. CASE PickPeer(t) /\ ~ HasPeer(t)
    BY <1>0, <1>1, <2>2 DEF PickPeer, Goes
  <2>3. CASE Do(t) \/ Lookup(t) \/ GetLocally(t) \/ PopulateCache(t) \/ PeerErrs(t)
             \/ PeerAnswers(t) \/ GetterPanics(t) \/ RequestFails(t)
    <3>1. UNCHANGED peer
      BY <2>3 DEF Do, Lookup, GetLocally, PopulateCache, PeerErrs, PeerAnswers, GetterPanics,
                  RequestFails, rest
    <3>2. \/ UNCHANGED stage
          \/ \E s \in {"pick", "populate"} : stage' = [stage EXCEPT ![t] = s]
      BY <2>3 DEF Do, Lookup, GetLocally, PopulateCache, PeerErrs, PeerAnswers, GetterPanics,
                  RequestFails, Gives, Goes
    <3> QED BY <1>0, <1>1, <3>1, <3>2
  <2> QED BY <1>3, <2>1, <2>2, <2>3 DEF TaskStep
<1> QED BY <1>2, <1>3 DEF ClusterNext

(* What the owner of the names can do about circles: as long as every Set of every  *)
(* node gives the same ring (consistent_hash.go:41, the same peers without a         *)
(* collision), no goroutines wait for one another in a circle, and no Get waits for  *)
(* itself.                                                                           *)
NoCircleAtAll ==
  /\ \A S \in SUBSET {t \in Tasks : Blocked(t)} :
       S # {} => \E t \in S : WaitsFor(t) \notin S
  /\ \A t \in Tasks : pc[t] = "wait" => callOf[t][1] # t[1]

THEOREM OneRingNoCircle ==
  (\A r, q \in Rings : r = q) => (ClusterSpec => []NoCircleAtAll)
<1> SUFFICES ASSUME \A r, q \in Rings : r = q PROVE ClusterSpec => []NoCircleAtAll
  OBVIOUS
<1>1. ClusterInit => MissInv /\ RingOK /\ ChainInv /\ ToldByARing
  BY MissInvInit, ChainInvInit DEF ClusterInit, RingOK, ToldByARing
<1>2. /\ IInv /\ RingOK /\ MissInv /\ ChainInv /\ ToldByARing /\ [ClusterNext]_cvars
      => MissInv' /\ RingOK' /\ ChainInv' /\ ToldByARing'
  BY MissInvKept, RingKept, ChainInvKept, ToldKept
<1>3. Inv /\ ToldByARing => NoCircleAtAll
  <2>1. ASSUME ToldByARing, NEW S \in SUBSET Tasks, ToldApart(S) PROVE FALSE
    BY <2>1 DEF ToldByARing, ToldApart
  <2> QED BY <2>1 DEF Inv, NoSelfWait, NoDeadlock, NoCircleAtAll
<1> QED BY <1>1, <1>2, <1>3, NoCircle, ClusterIsSingleFlight, Invariance, PTL DEF ClusterSpec
=============================================================================
