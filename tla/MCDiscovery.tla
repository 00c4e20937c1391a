---------------------------- MODULE MCDiscovery ----------------------------
(* Small instances of Discovery: two other nodes, one of them named with a dot. *)
EXTENDS Discovery, TLC

CONSTANTS cam, camLobby, me, t1, t2

\* "cam" is the first label of "cam.lobby", and a substring of it.
MCLabel   == (cam :> cam) @@ (camLobby :> cam) @@ (me :> me)
MCMatches == (cam :> {cam, camLobby}) @@ (camLobby :> {camLobby}) @@ (me :> {me})

\* The node "cam" restarts at the same endpoint, and loses its address; "cam.lobby" sends
\* no instance id after it moved to another one.
First     == [instance |-> 1, endpoint |-> 1]
MCRecords == (cam :> {First, [instance |-> 2, endpoint |-> 1],
                      [instance |-> 2, endpoint |-> NoAddress]}) @@
             (camLobby :> {First, [instance |-> NoInstance, endpoint |-> 2]}) @@
             (me :> {First})

Interchangeable == Permutations({t1, t2})
=============================================================================
