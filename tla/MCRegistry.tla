----------------------------- MODULE MCRegistry -----------------------------
(* Registry for TLC: the constants are given in the .cfg. *)
EXTENDS Registry, TLC
=============================================================================
