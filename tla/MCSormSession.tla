---------------------------- MODULE MCSormSession ----------------------------
(* SormSession for TLC: a struct with hooks, by value and by pointer, whose  *)
(* TableName has a pointer receiver, and another struct without hooks.       *)
EXTENDS SormSession, TLC

CONSTANTS user, userPointer, order

MCTypeName == (user :> "User") @@ (userPointer :> "User") @@ (order :> "Order")
MCTableName == userPointer :> "users"
=============================================================================
