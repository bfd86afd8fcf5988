--------------------------- MODULE MCCacheCluster ---------------------------
(* CacheCluster for TLC: two nodes and two Gets.                             *)
EXTENDS CacheCluster, TLC

CONSTANTS n1, n2, blank, plus, g1, g2

\* The two names hash so that each node owns one; a point of n2 near "plus" has
\* the hash of one of n1.
MCRings == {(blank :> n2) @@ (plus :> n) : n \in Nodes}

\* "a b" is sent to a peer as "a+b".
MCSent == (blank :> plus) @@ (plus :> plus)

\* The first Get asks n2, whose handler is asked for the other name and may ask
\* n1 for it, where the second one loads it.
MCAt == (g1 :> n1) @@ (g2 :> n1)
MCNameOf == (g1 :> blank) @@ (g2 :> plus)

MCTasks == Tasks
MCKeys == Nodes \X Names
=============================================================================
