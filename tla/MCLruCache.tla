----------------------------- MODULE MCLruCache -----------------------------
(* LruCache for TLC: three keys of different lengths. *)
EXTENDS LruCache, TLC

CONSTANTS k1, k2, k3

MCKeyLen == (k1 :> 1) @@ (k2 :> 1) @@ (k3 :> 2)
=============================================================================
