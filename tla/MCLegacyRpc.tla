---------------------------- MODULE MCLegacyRpc ----------------------------
(* A small instance of LegacyRpc: the handler of c1 calls back (c2), so that the reply *)
(* waits for the one worker of n2, which waits for it.                                 *)
EXTENDS LegacyRpc, TLC

CONSTANTS n1, n2, c1, c2, t1

BackCaller == (c1 :> n1) @@ (c2 :> n2)
BackCallee == (c1 :> n2) @@ (c2 :> n1)
BackParent == (c1 :> User) @@ (c2 :> c1)
=============================================================================
