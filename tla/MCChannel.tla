----------------------------- MODULE MCChannel -----------------------------
(* A small instance of Channel. *)
EXTENDS Channel, TLC

Sends == ("opener" :> 2) @@ ("acceptor" :> 1)
=============================================================================
