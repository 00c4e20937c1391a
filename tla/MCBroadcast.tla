---------------------------- MODULE MCBroadcast ----------------------------
(* A small instance of Broadcast: the name of one peer contains another's. *)
EXTENDS Broadcast, TLC

CONSTANTS cam, camLobby

MCMatches == (cam :> {cam, camLobby}) @@ (camLobby :> {camLobby})
=============================================================================
