----------------------------- MODULE MCTcpRpc -----------------------------
(* A small instance of TcpRpc. *)
EXTENDS TcpRpc

CONSTANT c1
=============================================================================
