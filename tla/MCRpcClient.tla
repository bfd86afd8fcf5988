---------------------------- MODULE MCRpcClient ----------------------------
(* RpcClient for TLC: the constants are model values given in the .cfg. *)
EXTENDS RpcClient, TLC

=============================================================================
