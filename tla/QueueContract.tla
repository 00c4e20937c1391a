--------------------------- MODULE QueueContract ---------------------------
(***************************************************************************)
(* What the receive queue of a channel promises those who read it: it      *)
(* hands out the payloads that put() accepted, the oldest first and each   *)
(* once.  It holds no more than its bound; to accept one more it may lose  *)
(* the oldest one, but only if it was made to (drop_oldest) and only while *)
(* it is full.  Payloads are numbered in the order of put().               *)
(***************************************************************************)
EXTENDS Naturals, Sequences, FiniteSets

CONSTANT Payloads  \* numbers of payloads

VARIABLES size,   \* the bound; 0 is none
          lossy,  \* made with drop_oldest
          held,   \* accepted, and neither returned nor lost
          given,  \* what readers were given, in order
          lost,
          shut,   \* closed
          over    \* a reader was told so

contractVars == <<size, lossy, held, given, lost, shut, over>>

Init ==
  /\ size \in Nat /\ lossy \in BOOLEAN
  /\ held = {} /\ given = <<>> /\ lost = {}
  /\ shut = FALSE /\ over = FALSE

\* p is newer than every payload so far.
Fresh(p) ==
  /\ \A q \in held \cup lost : q < p
  /\ \A i \in DOMAIN given : given[i] < p

Oldest(p) == p \in held /\ \A q \in held : p <= q

\* A put() that was waiting for room is accepted after close() too; nothing waits in
\* a lossy queue.
Accept(p) ==
  /\ Fresh(p)
  /\ size > 0 => Cardinality(held) < size
  /\ ~(shut /\ lossy)
  /\ held' = held \cup {p}
  /\ UNCHANGED <<size, lossy, given, lost, shut, over>>

\* p takes the place of q.
Replace(p, q) ==
  /\ Fresh(p) /\ Oldest(q)
  /\ lossy /\ ~shut
  /\ size > 0 /\ Cardinality(held) = size
  /\ held' = (held \ {q}) \cup {p}
  /\ lost' = lost \cup {q}
  /\ UNCHANGED <<size, lossy, given, shut, over>>

Give(p) ==
  /\ Oldest(p)
  /\ held' = held \ {p}
  /\ given' = Append(given, p)
  /\ UNCHANGED <<size, lossy, lost, shut, over>>

Shut ==
  /\ ~shut
  /\ shut' = TRUE
  /\ UNCHANGED <<size, lossy, held, given, lost, over>>

\* A reader is told that the queue is closed.  In a lossy queue nothing is held then,
\* and nothing will be.
End ==
  /\ shut
  /\ lossy => held = {}
  /\ over' = TRUE
  /\ UNCHANGED <<size, lossy, held, given, lost, shut>>

Next ==
  \/ \E p \in Payloads : Accept(p) \/ Give(p) \/ \E q \in Payloads : Replace(p, q)
  \/ Shut \/ End

Spec == Init /\ [][Next]_contractVars
=============================================================================
