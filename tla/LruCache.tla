------------------------------ MODULE LruCache ------------------------------
(***************************************************************************)
(* lru.Cache of CCache: a doubly linked list, most recently used entry in  *)
(* front, a map from keys to its elements, and the bytes they account for. *)
(* A value is modelled by its length.  The eviction loop of Add removes an *)
(* entry a step; the cache has one user at a time (cache.mu, cache.go).    *)
(***************************************************************************)
EXTENDS Integers, Sequences, SequencesExt

CONSTANTS
  Keys,
  KeyLen,    \* len(key) of each key
  ValueLens, \* the lengths values may have
  MaxBytes   \* 0: no limit

ASSUME CacheAssumption ==
  /\ KeyLen \in [Keys -> Nat]
  /\ ValueLens \subseteq Nat
  /\ MaxBytes \in Int

VARIABLES
  linkedList, \* entries [key, len], the front first
  cache,      \* the keys the map has an element for
  usedBytes,
  pc,         \* "ready", or "evict" inside the loop of Add
  got,        \* what a Get just returned, [key, len], len -1 when it missed; else <<>>
  \* history, read by the properties only
  last,       \* the length last added for each key, -1 before any
  recency,    \* all keys ever added, last used first, evicted or not
  evicted     \* size of the entry Add evicted last, 0: none since it began

vars == <<linkedList, cache, usedBytes, pc, got, last, recency, evicted>>

Size(e) == KeyLen[e.key] + e.len
KeysOf(s) == [i \in 1..Len(s) |-> s[i].key]

TypeOK ==
  /\ linkedList \in Seq([key : Keys, len : ValueLens])
  /\ cache \in SUBSET Keys
  /\ usedBytes \in Nat
  /\ pc \in {"ready", "evict"}
  /\ got \in [key : Keys, len : ValueLens \cup {-1}] \cup {<<>>}
  /\ last \in [Keys -> ValueLens \cup {-1}]
  /\ recency \in Seq(Keys)
  /\ evicted \in Nat

Init ==
  /\ linkedList = <<>> /\ cache = {} /\ usedBytes = 0
  /\ pc = "ready" /\ got = <<>>
  /\ last = [k \in Keys |-> -1] /\ recency = <<>> /\ evicted = 0

\* The element the map has for k, by its place in the list.
Element(k) == CHOOSE i \in 1..Len(linkedList) : linkedList[i].key = k

\* The value Get returns.
Found(k) == linkedList[Element(k)].len

\* What an addition adds to usedBytes.  Mutant: an update counts in full.
GrowthInFull(k, n) == KeyLen[k] + n
Growth(k, n) == IF k \in cache THEN n - Found(k) ELSE KeyLen[k] + n

\* k as the last used.
Used(k) ==
  <<k>> \o IF \E i \in 1..Len(recency) : recency[i] = k
           THEN RemoveAt(recency, CHOOSE i \in 1..Len(recency) : recency[i] = k)
           ELSE recency

Get(k) ==
  /\ pc = "ready"
  /\ IF k \in cache
     THEN /\ linkedList' = <<linkedList[Element(k)]>> \o RemoveAt(linkedList, Element(k))
          /\ got' = [key |-> k, len |-> Found(k)]
          /\ recency' = Used(k)
     ELSE /\ got' = [key |-> k, len |-> -1]
          /\ UNCHANGED <<linkedList, recency>>
  /\ UNCHANGED <<cache, usedBytes, pc, last, evicted>>

\* Add up to its loop.
Add(k, n) ==
  /\ pc = "ready"
  /\ linkedList' = <<[key |-> k, len |-> n]>> \o
                   IF k \in cache THEN RemoveAt(linkedList, Element(k)) ELSE linkedList
  /\ usedBytes' = usedBytes + Growth(k, n)
  /\ cache' = cache \cup {k}
  /\ pc' = "evict"
  /\ last' = [last EXCEPT ![k] = n]
  /\ recency' = Used(k)
  /\ evicted' = 0 /\ got' = <<>>

\* The condition of the loop.  Mutant: off by one.
OverByTwo == MaxBytes # 0 /\ usedBytes > MaxBytes + 1
Over == MaxBytes # 0 /\ usedBytes > MaxBytes

\* The element at the back.  Mutant: the one at the front.
Newest == 1
Oldest == Len(linkedList)

\* The map without k, and what an eviction frees.  Mutant: the bytes of the
\* key are forgotten.
Unmapped(k) == cache \ {k}
ValueOnly(e) == e.len
Freed(e) == Size(e)

\* RemoveOldest; it does nothing to an empty list.
RemoveBack ==
  IF linkedList = <<>> THEN UNCHANGED <<linkedList, cache, usedBytes>>
  ELSE /\ linkedList' = RemoveAt(linkedList, Oldest)
       /\ cache' = Unmapped(linkedList[Oldest].key)
       /\ usedBytes' = usedBytes - Freed(linkedList[Oldest])

EvictOne ==
  /\ pc = "evict" /\ Over
  /\ RemoveBack
  /\ evicted' = IF linkedList = <<>> THEN 0 ELSE Size(linkedList[Oldest])
  /\ UNCHANGED <<pc, got, last, recency>>

AddReturns ==
  /\ pc = "evict" /\ ~Over
  /\ pc' = "ready"
  /\ UNCHANGED <<linkedList, cache, usedBytes, got, last, recency, evicted>>

\* The exported RemoveOldest.
RemoveOldest ==
  /\ pc = "ready"
  /\ RemoveBack
  /\ evicted' = 0 /\ got' = <<>>
  /\ UNCHANGED <<pc, last, recency>>

Next ==
  \/ \E k \in Keys : Get(k) \/ (\E n \in ValueLens : Add(k, n))
  \/ EvictOne \/ AddReturns \/ RemoveOldest

Spec == Init /\ [][Next]_vars

\* The goroutine inside Add runs on.
FairSpec == Spec /\ WF_vars(EvictOne \/ AddReturns)

-----------------------------------------------------------------------------
(* Properties.                                                             *)

\* The bytes of the first entries of a list, of all its entries.
Sums(s) == LET sum[i \in 0..Len(s)] == IF i = 0 THEN 0 ELSE sum[i - 1] + Size(s[i]) IN sum
Bytes(s) == Sums(s)[Len(s)]

\* The three views of the content stay the same after any sequence of additions,
\* updates and evictions: the bytes accounted for are those of the entries, and
\* the map and the list have the same keys, each once; and between two operations
\* the limit is kept.  As long as the cache is over a limit there is an entry to
\* remove: lru.go:90, RemoveOldest does nothing to an empty list, and the loop of
\* Add would go round for ever.
Consistent ==
  /\ TypeOK
  /\ usedBytes = Bytes(linkedList)
  /\ cache = ToSet(KeysOf(linkedList)) /\ IsInjective(KeysOf(linkedList))
  /\ pc = "ready" /\ MaxBytes > 0 => usedBytes <= MaxBytes
  /\ MaxBytes > 0 /\ Over => linkedList # <<>>

\* The cache holds the most recently used keys, in that order, with the values
\* last added, and evicts no key before one used longer ago, and none that would
\* have fitted: so a Get finds the value last added for its key, or nothing if
\* there was no room for that.
MostRecentKept ==
  /\ IsPrefix(KeysOf(linkedList), recency)
  /\ \A e \in ToSet(linkedList) : e.len = last[e.key]
  /\ got # <<>> => got.len = IF got.key \in ToSet(KeysOf(linkedList)) THEN last[got.key] ELSE -1
  /\ evicted # 0 => usedBytes + evicted > MaxBytes

\* The loop of Add ends, whatever was added, updated and removed before.
AddEnds == pc = "evict" ~> pc = "ready"

-----------------------------------------------------------------------------
(* The inductive invariant behind Consistent and MostRecentKept.           *)

\* No key is twice in the order of use, and no Get returns within an addition.
IInv ==
  /\ Consistent /\ MostRecentKept
  /\ IsInjective(recency)
  /\ pc = "evict" => got = <<>>
=============================================================================
