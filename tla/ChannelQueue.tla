---------------------------- MODULE ChannelQueue ----------------------------
(***************************************************************************)
(* The receive queue of a channel in core.py (_ChannelQueue): a deque and  *)
(* one condition variable, filled by the UDP receive thread, read by any   *)
(* number of threads and closed once.  A critical section is one action;   *)
(* the state between two of them is who waits on the condition.  Payloads  *)
(* are numbered in the order in which put() is called with them.           *)
(***************************************************************************)
EXTENDS Integers, Sequences, FiniteSets

CONSTANTS Getters,   \* threads that call get()
          Sizes,     \* values of max_queue_size; 0 is unbounded
          MaxPuts    \* bound: calls of put()

ASSUME QueueAssumption == Sizes \subseteq Nat /\ MaxPuts \in Nat

VARIABLES
  maxsize, policy,  \* the arguments of the constructor
  items,    \* the deque
  closed,   \* _closed
  next,     \* the payload of the next put(), or of the one that is waiting
  blocked,  \* put() is waiting for room
  mode,     \* mode[g]: "idle", or inside get() without or with a timeout
  awake,    \* getters that were notified and have not run since
  taken,    \* payloads that get() returned, in order (history)
  evicted,  \* payloads that drop_oldest removed (history)
  ended     \* a get() has raised "Channel is closed" (history)

putter  == <<next, blocked>>
readers == <<mode, awake>>
history == <<taken, evicted, ended>>
vars == <<maxsize, policy, items, closed, putter, readers, history>>

Sentinel == 0    \* _CHANNEL_CLOSED
Policies == {"drop_oldest", "block"}

Init ==
  /\ maxsize \in Sizes /\ policy \in Policies
  /\ items = <<>> /\ closed = FALSE
  /\ next = 1 /\ blocked = FALSE
  /\ mode = [g \in Getters |-> "idle"] /\ awake = {}
  /\ taken = <<>> /\ evicted = {} /\ ended = FALSE

Full == maxsize > 0 /\ Len(items) >= maxsize
Asleep == {g \in Getters \ awake : mode[g] # "idle"}

-----------------------------------------------------------------------------
(* put() and close() *)

\* Mutant: put() does not notify.
NotifyNobody == UNCHANGED awake

\* notify(): one waiter, if there is one.
Notify == IF Asleep = {} THEN UNCHANGED awake
          ELSE \E g \in Asleep : awake' = awake \cup {g}

\* Mutant: close() wakes one waiter.
CloseWakingOne ==
  /\ ~closed
  /\ closed' = TRUE
  /\ items' = Append(items, Sentinel)
  /\ Notify
  /\ UNCHANGED <<maxsize, policy, putter, mode, history>>

\* The payload goes in at the end of queue q, and put() returns.
Deliver(q) ==
  /\ items' = Append(q, next)
  /\ next' = next + 1
  /\ blocked' = FALSE
  /\ Notify
  /\ UNCHANGED <<maxsize, policy, closed, mode, taken, ended>>

Calling == ~blocked /\ next <= MaxPuts

\* put() after close() returns at once.
PutRefused ==
  /\ Calling /\ closed
  /\ next' = next + 1
  /\ UNCHANGED <<maxsize, policy, items, closed, blocked, readers, history>>

\* Mutant: put() does not look at _closed.
PutUnchecked == Calling /\ ~Full /\ Deliver(items) /\ UNCHANGED evicted

PutWithRoom == Calling /\ ~closed /\ ~Full /\ Deliver(items) /\ UNCHANGED evicted

\* Mutant: the newest entry makes room.
PutEvictingNewest ==
  /\ Calling /\ ~closed /\ Full /\ policy = "drop_oldest"
  /\ Deliver(SubSeq(items, 1, Len(items) - 1))
  /\ evicted' = evicted \cup {items[Len(items)]}

\* drop_oldest: the head makes room.
PutEvicting ==
  /\ Calling /\ ~closed /\ Full /\ policy = "drop_oldest"
  /\ Deliver(Tail(items))
  /\ evicted' = evicted \cup {Head(items)}

\* block: put() waits, and with it the receive thread of the node.
PutBlocks ==
  /\ Calling /\ ~closed /\ Full /\ policy = "block"
  /\ blocked' = TRUE
  /\ UNCHANGED <<maxsize, policy, items, closed, next, readers, history>>

\* The wait polls for room every 50 ms and does not look at _closed again.
PutResumes == blocked /\ ~Full /\ Deliver(items) /\ UNCHANGED evicted

\* close(): a sentinel, whatever the bound, and notify_all().
Close ==
  /\ ~closed
  /\ closed' = TRUE
  /\ items' = Append(items, Sentinel)
  /\ awake' = {g \in Getters : mode[g] # "idle"}
  /\ UNCHANGED <<maxsize, policy, putter, mode, history>>

-----------------------------------------------------------------------------
(* get() *)

\* get() of g leaves the queue alone; m is "idle" when it returns or raises.
Leave(g, m) ==
  /\ mode' = [mode EXCEPT ![g] = m]
  /\ awake' = awake \ {g}
  /\ UNCHANGED <<maxsize, policy, items, closed, putter, taken, evicted>>

\* The head is taken out; the sentinel raises.
TakeHead(g) ==
  /\ items # <<>>
  /\ items' = Tail(items)
  /\ taken' = IF Head(items) = Sentinel THEN taken ELSE Append(taken, Head(items))
  /\ ended' = (ended \/ Head(items) = Sentinel)
  /\ mode' = [mode EXCEPT ![g] = "idle"]
  /\ awake' = awake \ {g}
  /\ UNCHANGED <<maxsize, policy, closed, putter, evicted>>

\* get() is called: it returns or raises at once, or starts to wait.
Get(g) ==
  /\ mode[g] = "idle"
  /\ \/ TakeHead(g)
     \/ items = <<>> /\ closed /\ Leave(g, "idle") /\ ended' = TRUE
     \/ /\ items = <<>> /\ ~closed
        /\ \E m \in {"untimed", "timed"} : Leave(g, m)
        /\ UNCHANGED ended

\* A waiting get() runs again: without a timeout when it was notified, with one
\* also after a slice of 100 ms.  Only get() without a timeout looks at _closed.
Recheck(g) ==
  /\ \/ mode[g] = "untimed" /\ g \in awake
     \/ mode[g] = "timed"
  /\ \/ TakeHead(g)
     \/ /\ items = <<>> /\ mode[g] = "untimed" /\ closed
        /\ Leave(g, "idle")
        /\ ended' = TRUE
     \/ /\ items = <<>> /\ g \in awake /\ ~(mode[g] = "untimed" /\ closed)
        /\ Leave(g, mode[g])
        /\ UNCHANGED ended

\* The time of get(timeout) is over and the queue is empty: queue.Empty.
Expire(g) ==
  /\ mode[g] = "timed" /\ items = <<>>
  /\ Leave(g, "idle")
  /\ UNCHANGED ended

-----------------------------------------------------------------------------
Next ==
  \/ PutRefused \/ PutWithRoom \/ PutEvicting \/ PutBlocks \/ PutResumes \/ Close
  \/ \E g \in Getters : Get(g) \/ Recheck(g) \/ Expire(g)

Spec == Init /\ [][Next]_vars

\* Waiting readers run when they were notified and when their wait times out.
\* Nobody has to call put(), get() or close(), and a put() that waits for room may
\* wait for ever.
LiveSpec ==
  /\ Spec
  /\ \A g \in Getters : WF_vars(Recheck(g)) /\ WF_vars(Expire(g))

-----------------------------------------------------------------------------
(* Properties *)

TypeOK ==
  /\ maxsize \in Sizes /\ policy \in Policies
  /\ items \in Seq(Nat) /\ closed \in BOOLEAN
  /\ next \in Nat \ {0} /\ blocked \in BOOLEAN
  /\ mode \in [Getters -> {"idle", "untimed", "timed"}] /\ awake \in SUBSET Getters
  /\ taken \in Seq(Nat) /\ evicted \in SUBSET Nat /\ ended \in BOOLEAN

\* The queue keeps the order of put(): what get() has returned is older than what
\* is in the deque, and neither holds a payload twice.
InOrder ==
  /\ \A i, j \in DOMAIN taken : i < j => taken[i] < taken[j]
  /\ \A i \in DOMAIN taken : 0 < taken[i] /\ taken[i] < next
  /\ \A i \in DOMAIN items : items[i] < next
  /\ \A i, j \in DOMAIN items :
       i < j /\ items[i] # Sentinel /\ items[j] # Sentinel => items[i] < items[j]
  /\ \A i \in DOMAIN taken, j \in DOMAIN items :
       items[j] # Sentinel => taken[i] < items[j]

\* max_queue_size bounds the deque, except for the one sentinel that close() adds.
Bounded ==
  maxsize > 0 => Len(items) <= maxsize + (IF closed THEN 1 ELSE 0)

\* Only drop_oldest loses payloads, always the oldest; while the queue is open every
\* other one was returned or waits in the deque.
Evictions ==
  /\ evicted # {} => policy = "drop_oldest" /\ maxsize > 0
  /\ \A p \in evicted : p < next /\ \A j \in DOMAIN items : items[j] # Sentinel => p < items[j]

Accounted ==
  ~closed => \A p \in 1 .. next - 1 :
    \/ p \in evicted
    \/ \E i \in DOMAIN taken : taken[i] = p
    \/ \E i \in DOMAIN items : items[i] = p

\* The sentinel is in the deque from close() until a get() takes it; under
\* drop_oldest nothing comes after it.
SentinelLast ==
  /\ ~closed => ~ended /\ \A i \in DOMAIN items : items[i] # Sentinel
  /\ blocked => policy = "block"
  /\ closed /\ ended /\ policy = "drop_oldest" => items = <<>>
  /\ closed /\ policy = "drop_oldest" =>
       \A i \in DOMAIN items : items[i] = Sentinel => i = Len(items)
  /\ closed /\ ~ended => \E i \in DOMAIN items : items[i] = Sentinel

\* notify() wakes one reader for each payload and close() all of them, and that is
\* enough: while anyone sleeps there are as many readers awake as there are payloads,
\* so no payload lies in wait of a reader that nobody will wake; and nobody sleeps
\* without a timeout in a closed queue.
NoLostWakeup ==
  /\ Asleep # {} => Len(items) <= Cardinality(awake)
  /\ closed => \A g \in Getters : mode[g] = "untimed" => g \in awake

\* What holds of the queue at any time.
Consistent ==
  TypeOK /\ InOrder /\ Bounded /\ Evictions /\ Accounted /\ SentinelLast /\ NoLostWakeup

\* The queue implements the contract of QueueContract: the oldest payload first, each
\* once, a loss only under drop_oldest and only while it is full.  "subsequent get()
\* raises" (core.py:218): once one get() has said that the channel is closed no later
\* one returns a payload; under "block" a put() that was waiting may still add one.
Contract == INSTANCE QueueContract
              WITH Payloads <- 1 .. MaxPuts,
                   size  <- maxsize,
                   lossy <- policy = "drop_oldest",
                   held  <- {items[i] : i \in DOMAIN items} \ {Sentinel},
                   given <- taken,
                   lost  <- evicted,
                   shut  <- closed,
                   over  <- ended

ImplementsQueue == Contract!Spec

\* close() wakes every reader that waits without a timeout (not those with one: the
\* first of them takes the sentinel, the others wait their time out).
CloseWakesReaders ==
  \A g \in Getters : closed /\ mode[g] = "untimed" ~> mode[g] = "idle"

\* No wakeup is lost: payloads do not lie in the queue while a reader sleeps.
ReadersAreServed ==
  \A g \in Getters : items # <<>> /\ mode[g] # "idle" ~> items = <<>> \/ mode[g] = "idle"
=============================================================================
