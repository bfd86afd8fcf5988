----------------------------- MODULE MCXClient -----------------------------
(* XClient for TLC: a Broadcast to two servers, and a caller of one of them. *)
EXTENDS XClient, TLC

CONSTANTS a1, a2, b1, b2, c1

MCAddrOf == (b1 :> a1) @@ (b2 :> a2) @@ (c1 :> a1)
=============================================================================
