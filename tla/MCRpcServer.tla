---------------------------- MODULE MCRpcServer ----------------------------
(* RpcServer for TLC: the constants are given in the .cfg. *)
EXTENDS RpcServer, TLC

=============================================================================
