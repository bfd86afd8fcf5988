--------------------------- MODULE ConsistentHash ---------------------------
(***************************************************************************)
(* consistenthash.Map of CCache: the ring of hashes by which all nodes     *)
(* agree who owns a key.  The hash function is arbitrary, so that points   *)
(* of different nodes may collide; only the hash of a key matters to Get.  *)
(***************************************************************************)
EXTENDS Integers, Sequences, SequencesExt

CONSTANTS
  Nodes,
  Replicas,  \* points of each node on the ring
  MaxHash,   \* bound on the hash values
  MaxAdded,  \* bound on the nodes given to one Add
  MaxKeys    \* bound on Len(keys) before an Add

Hashes == 0..MaxHash
Points == Nodes \X (0..(Replicas - 1))

ASSUME RingAssumption ==
  /\ Replicas \in Nat \ {0} /\ MaxHash \in Nat /\ MaxAdded \in Nat /\ MaxKeys \in Nat

VARIABLES
  hash,     \* point -> its hash, constant
  keys,     \* the hashes of the points, ascending
  hashMap,  \* hash -> node
  nodes     \* history: the nodes added

ringVars == <<hash, keys, hashMap, nodes>>

RingTypeOK ==
  /\ hash \in [Points -> Hashes]
  /\ keys \in Seq(Hashes)
  /\ \A i, j \in 1..Len(keys) : i <= j => keys[i] <= keys[j]
  /\ hashMap \in [ToSet(keys) -> Nodes]
  /\ nodes \subseteq Nodes

RingInit ==
  /\ hash \in [Points -> Hashes]
  /\ keys = <<>> /\ hashMap = <<>>
  /\ nodes = {}

\* sort.Ints: at place r is the number of which there are r or more up to it, and
\* fewer below it.  Mutant: it is forgotten.
Unsorted(s) == s
Ascending(s) ==
  [r \in 1..Len(s) |->
     CHOOSE h \in ToSet(s) : /\ Cardinality({i \in 1..Len(s) : s[i] <= h}) >= r
                            /\ Cardinality({i \in 1..Len(s) : s[i] < h}) < r]

\* The hashes of the nodes of added, in the order they are appended.
Hashed(added) ==
  [m \in 1..(Len(added) * Replicas) |->
     hash[added[((m - 1) \div Replicas) + 1], (m - 1) % Replicas]]

\* The nodes of added, in this order: a point overwrites the entry of an earlier
\* one with the same hash.
LastWins(added) ==
  [h \in ToSet(keys) \cup ToSet(Hashed(added)) |->
     LET at == {j \in 1..Len(added) : \E i \in 0..(Replicas - 1) : hash[added[j], i] = h}
     IN  IF at = {} THEN hashMap[h] ELSE added[Max(at)]]

AddNodes(added) ==
  /\ keys' = Ascending(keys \o Hashed(added))
  /\ hashMap' = LastWins(added)
  /\ nodes' = nodes \cup ToSet(added)
  /\ UNCHANGED hash

\* HTTPPool.Set begins with a new Map.
NewMap ==
  /\ keys' = <<>> /\ hashMap' = <<>> /\ nodes' = {}
  /\ UNCHANGED hash

\* sort.Search(len(s), s[i] >= h), by bisection of the places w[1] to w[2] - 1, from
\* 0.  Mutant: it looks for s[i] > h.
SearchAfter(s, h) ==
  LET from[w \in (0..Len(s)) \X (0..Len(s))] ==
        LET mid == (w[1] + w[2]) \div 2 IN
        IF w[1] >= w[2] THEN w[1]
        ELSE IF s[mid + 1] > h THEN from[<<w[1], mid>>] ELSE from[<<mid + 1, w[2]>>]
  IN  from[<<0, Len(s)>>]
Search(s, h) ==
  LET from[w \in (0..Len(s)) \X (0..Len(s))] ==
        LET mid == (w[1] + w[2]) \div 2 IN
        IF w[1] >= w[2] THEN w[1]
        ELSE IF s[mid + 1] >= h THEN from[<<w[1], mid>>] ELSE from[<<mid + 1, w[2]>>]
  IN  from[<<0, Len(s)>>]

\* Map.Get: the node of a key with hash h; the ring is not empty.
NodeOf(h) == hashMap[keys[(Search(keys, h) % Len(keys)) + 1]]

RingNext ==
  \/ \E n \in 1..MaxAdded : \E added \in [1..n -> Nodes] :
       IsInjective(added) /\ Len(keys) <= MaxKeys /\ AddNodes(added)
  \/ nodes # {} /\ NewMap

RingSpec == RingInit /\ [][RingNext]_ringVars

-----------------------------------------------------------------------------
(* Properties.                                                             *)

\* The hash of the first point at or after h, or of the first of all.
Nearest(h) ==
  LET all == {hash[p] : p \in nodes \X (0..(Replicas - 1))}
      from == IF \E x \in all : x >= h THEN {x \in all : x >= h} ELSE all
  IN  CHOOSE x \in from : \A y \in from : x <= y

\* Get returns a node that owns the nearest point on the ring, computed from the
\* set of nodes alone.  So two Maps with the same nodes agree on every key,
\* whatever the order of their additions, unless points of different nodes have
\* one hash.
NearestOwner ==
  nodes # {} => \A h \in Hashes :
    \E i \in 0..(Replicas - 1) : NodeOf(h) \in nodes /\ hash[NodeOf(h), i] = Nearest(h)

Inv == RingTypeOK /\ NearestOwner

\* A node that is added takes keys over; no key moves between the others.
MovesOnlyToAdded ==
  [][\A added \in UNION {[1..n -> Nodes] : n \in 1..MaxAdded} :
       nodes # {} /\ AddNodes(added) =>
         \A h \in Hashes : NodeOf(h)' \in {NodeOf(h)} \cup ToSet(added)]_ringVars

-----------------------------------------------------------------------------
(* The inductive invariant behind Inv and MovesOnlyToAdded.                *)

\* The keys are the hashes of the nodes' points, and the map has for each of them
\* a node with that point.
PointsInv ==
  /\ RingTypeOK
  /\ ToSet(keys) = {hash[p] : p \in nodes \X (0..(Replicas - 1))}
  /\ \A x \in ToSet(keys) :
       hashMap[x] \in nodes /\ \E i \in 0..(Replicas - 1) : hash[hashMap[x], i] = x
=============================================================================
