---------------------------- MODULE MCDiscovery ----------------------------
(* Discovery for TLC: two servers, lists given by hand that shrink and grow. *)
EXTENDS Discovery, TLC

CONSTANTS a1, a2

MCUpdates == {<<>>, <<a1>>, <<a2, a1>>}
=============================================================================
