---------------------------- MODULE RpcContract ----------------------------
(***************************************************************************)
(* What a unicast remote call promises its caller, whatever transport      *)
(* carries it: every call is opened once and closed once, with one         *)
(* outcome.  A returned value or a remote error is one that a run of the   *)
(* handler produced for THIS call; an exception raised before the request  *)
(* left (the transport refused it, the peer is unknown) means the handler  *)
(* never ran and never will; a timeout promises nothing.                   *)
(***************************************************************************)
CONSTANT Calls

VARIABLES status,    \* status[c]: "idle", "open" or "closed"
          outcome,   \* outcome[c]: what the caller was told
          produced   \* produced[c]: the kinds of answer c's handler has given

contractVars == <<status, outcome, produced>>

Kinds    == {"value", "error"}
Unsent   == {"raised", "not_found"}
Outcomes == Kinds \cup Unsent \cup {"none", "timeout"}

Init ==
  /\ status   = [c \in Calls |-> "idle"]
  /\ outcome  = [c \in Calls |-> "none"]
  /\ produced = [c \in Calls |-> {}]

\* The caller enters call().
Open(c) ==
  /\ status[c] = "idle"
  /\ status' = [status EXCEPT ![c] = "open"]
  /\ UNCHANGED <<outcome, produced>>

\* A handler run for c ends; it may run again, and even after the caller left.
Produce(c, k) ==
  /\ status[c] # "idle"
  /\ outcome[c] \notin Unsent
  /\ produced' = [produced EXCEPT ![c] = @ \cup {k}]
  /\ UNCHANGED <<status, outcome>>

\* call() returns or raises.
Close(c, o) ==
  /\ status[c] = "open"
  /\ o \in Kinds => o \in produced[c]
  /\ o \in Unsent => produced[c] = {}
  /\ status'  = [status EXCEPT ![c] = "closed"]
  /\ outcome' = [outcome EXCEPT ![c] = o]
  /\ UNCHANGED produced

\* call() finds no such peer, before it opens anything.
Refuse(c) ==
  /\ status[c] = "idle"
  /\ status'  = [status EXCEPT ![c] = "closed"]
  /\ outcome' = [outcome EXCEPT ![c] = "not_found"]
  /\ UNCHANGED produced

Next ==
  \E c \in Calls :
    \/ Open(c)
    \/ Refuse(c)
    \/ \E k \in Kinds : Produce(c, k)
    \/ \E o \in Outcomes \ {"none"} : Close(c, o)

Spec == Init /\ [][Next]_contractVars
=============================================================================
