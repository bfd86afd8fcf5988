------------------------------ MODULE MCRpcDial ------------------------------
(* RpcDial for TLC: Faults is given in the .cfg; Init takes every Option. *)
EXTENDS RpcDial, TLC
=============================================================================
