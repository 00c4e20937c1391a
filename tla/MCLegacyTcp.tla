---------------------------- MODULE MCLegacyTcp ----------------------------
(* A small instance of LegacyTcp. *)
EXTENDS LegacyTcp, TLC

CONSTANTS k1, k2

\* A PUT, or a frame, of two units, and a shorter PUT.
Sizes == (k1 :> 2) @@ (k2 :> 1) @@ (Old :> 2)

\* A GET or a second PUT while a PUT of the same file is under way, and a stream.
Together == {(k1 :> "put") @@ (k2 :> "get"), (k1 :> "put") @@ (k2 :> "put"),
             (k1 :> "stream") @@ (k2 :> "none")}
=============================================================================
