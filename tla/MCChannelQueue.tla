--------------------------- MODULE MCChannelQueue ---------------------------
(* A small instance of ChannelQueue. *)
EXTENDS ChannelQueue, TLC

CONSTANTS g1, g2, g3
=============================================================================
