----------------------------- MODULE MCUdpRpc -----------------------------
(* Small instances of UdpRpc. *)
EXTENDS UdpRpc, TLC

CONSTANTS n1, n2, c1, c2, c3, t1

\* Two application threads of n1 call n2; the network may duplicate the request
\* of one of them.
PairCaller == (c1 :> n1) @@ (c2 :> n1)
PairCallee == (c1 :> n2) @@ (c2 :> n2)
PairParent == (c1 :> User) @@ (c2 :> User)
PairArrivals == (c1 :> 2) @@ (c2 :> 1)

\* c1 goes from n1 to n2, its handler calls back (c2), and the handler of c2 calls
\* n2 again (c3), whose one worker is still inside the handler of c1.
ChainCaller == (c1 :> n1) @@ (c2 :> n2) @@ (c3 :> n1)
ChainCallee == (c1 :> n2) @@ (c2 :> n1) @@ (c3 :> n2)
ChainParent == (c1 :> User) @@ (c2 :> c1) @@ (c3 :> c2)
ChainArrivals == [c \in Calls |-> 1]
=============================================================================
