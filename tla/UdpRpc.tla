------------------------------- MODULE UdpRpc -------------------------------
(***************************************************************************)
(* Unicast RPC over UDP between PeerLink nodes: the calling threads, the   *)
(* pending-call table, the UDP receive thread, the RPC executor and the    *)
(* part of stop() that matters to them.                                    *)
(*                                                                         *)
(* `requests` and `replies` hold every datagram ever sent.  The network    *)
(* may deliver one late, again, or never: receiving leaves it in the set,  *)
(* and nothing obliges a receive.  MaxArrivals bounds how often the        *)
(* request of one call is delivered.                                       *)
(***************************************************************************)
EXTENDS Naturals, Sequences, FiniteSets

CONSTANTS Nodes,        \* the PeerLink processes
          Threads,      \* the worker threads of each node's executor
          Calls,        \* call ids (uuid4: never reused)
          Caller,       \* Caller[c]: the node that makes call c
          Callee,       \* Callee[c]: the node its target name resolves to
          Parent,       \* Parent[c]: the call whose handler makes c, or User
          User,         \* c is made by a thread of the application
          NoCall,       \* no call id
          Oversize,     \* calls forced on UDP whose request exceeds the limit
          Bulky,        \* calls whose answer exceeds the limit or has no JSON
          Stoppable,    \* nodes on which the application calls stop()
          MaxArrivals   \* bound: deliveries of each call's request datagram

ASSUME ConstantsAssumption ==
  /\ Caller \in [Calls -> Nodes]
  /\ Callee \in [Calls -> Nodes]
  /\ Parent \in [Calls -> Calls \cup {User}]
  /\ Oversize \subseteq Calls
  /\ Bulky \subseteq Calls
  /\ Stoppable \subseteq Nodes
  /\ MaxArrivals \in [Calls -> Nat]

ASSUME NamesAssumption == NoCall \notin Calls /\ User \notin Calls

\* Discovery ignores the node's own record, and a handler calls from its node.
ASSUME TopologyAssumption ==
  \A c \in Calls : /\ Caller[c] # Callee[c]
                   /\ Parent[c] # User => Callee[Parent[c]] = Caller[c]

VARIABLES
  phase,     \* phase[c]: where the thread that makes call c is
  outcome,   \* outcome[c]: how call() ended
  pending,   \* pending[n]: the keys of node n's _pending table
  slot,      \* slot[c]: _Pending.result
  event,     \* event[c]: _Pending.event is set
  requests,  \* calls whose request datagram was handed to the network
  replies,   \* <<call, kind>> of every reply datagram handed to the network
  rx,        \* rx[n]: what node n's UDP receive thread holds
  queue,     \* queue[n]: the executor's work queue
  job,       \* job[n][t]: what worker t of node n runs
  life,      \* life[n]: "up", "draining" (stop() began), "stopped"
  arrivals,  \* arrivals[c]: deliveries of c's request so far
  runs,      \* runs[c]: how many times a worker took c (history)
  produced   \* produced[c]: the kinds of answer c's handler gave (history)

callerVars == <<phase, outcome, pending>>
cellVars   == <<slot, event>>
netVars    == <<requests, replies, arrivals>>
poolVars   == <<queue, job>>
history    == <<runs, produced>>
vars == <<callerVars, cellVars, netVars, rx, poolVars, life, history>>

Kinds    == {"value", "error"}
Phases   == {"idle", "registered", "waiting", "woken", "expired", "done"}
Outcomes == Kinds \cup {"none", "timeout", "raised", "not_found"}
Lives    == {"up", "draining", "stopped"}

IdleJob == [call |-> NoCall, nested |-> NoCall, reply |-> "none"]
Jobs    == [call : Calls \cup {NoCall}, nested : Calls \cup {NoCall},
            reply : Kinds \cup {"none"}]
IdleRx  == [call |-> NoCall, reply |-> "none", stored |-> FALSE]
Rxs     == [call : Calls \cup {NoCall}, reply : Kinds \cup {"none"},
            stored : BOOLEAN]

Elements(s) == {s[i] : i \in DOMAIN s}

Init ==
  /\ phase    = [c \in Calls |-> "idle"]
  /\ outcome  = [c \in Calls |-> "none"]
  /\ pending  = [n \in Nodes |-> {}]
  /\ slot     = [c \in Calls |-> "none"]
  /\ event    = [c \in Calls |-> FALSE]
  /\ requests = {}
  /\ replies  = {}
  /\ rx       = [n \in Nodes |-> IdleRx]
  /\ queue    = [n \in Nodes |-> <<>>]
  /\ job      = [n \in Nodes |-> [t \in Threads |-> IdleJob]]
  /\ life     = [n \in Nodes |-> "up"]
  /\ arrivals = [c \in Calls |-> 0]
  /\ runs     = [c \in Calls |-> 0]
  /\ produced = [c \in Calls |-> {}]

-----------------------------------------------------------------------------
(* The calling thread: PeerLink._call_one and _call_over_udp. *)

\* The handler in j is inside a nested call() that has not returned.
Blocked(j) == j.nested # NoCall /\ phase[j.nested] # "done"

\* j runs the handler of call c and is free to make a call of its own.
Running(j, c) == j.call = c /\ j.reply = "none" /\ ~Blocked(j)

\* resolve() found no peer: PeerNotFound, before anything is registered.
NotFound(c) ==
  /\ phase[c] = "idle"
  /\ \/ Parent[c] = User
     \/ \E t \in Threads : Running(job[Caller[c]][t], Parent[c])
  /\ phase'   = [phase EXCEPT ![c] = "done"]
  /\ outcome' = [outcome EXCEPT ![c] = "not_found"]
  /\ UNCHANGED <<pending, cellVars, netVars, rx, poolVars, life, history>>

\* A fresh _Pending goes into the table, under the lock.
Register(c) ==
  /\ phase[c] = "idle"
  /\ phase'   = [phase EXCEPT ![c] = "registered"]
  /\ pending' = [pending EXCEPT ![Caller[c]] = @ \cup {c}]
  /\ UNCHANGED <<outcome, cellVars, netVars, rx, queue, life, history>>

RegisterFromUser(c) ==
  /\ Parent[c] = User
  /\ Register(c)
  /\ UNCHANGED job

RegisterFromHandler(c, t) ==
  /\ Running(job[Caller[c]][t], Parent[c])
  /\ Register(c)
  /\ job' = [job EXCEPT ![Caller[c]][t].nested = c]

\* UDPTransport.send raises: no socket any more, or too many bytes.
Unsendable(c) == life[Caller[c]] = "stopped" \/ c \in Oversize

SendRequest(c) ==
  /\ phase[c] = "registered"
  /\ ~Unsendable(c)
  /\ phase'    = [phase EXCEPT ![c] = "waiting"]
  /\ requests' = requests \cup {c}
  /\ UNCHANGED <<outcome, pending, cellVars, replies, arrivals, rx, poolVars,
                 life, history>>

\* Mutant: the checks come after sendto().
FailToSendLate(c) ==
  /\ phase[c] = "registered"
  /\ Unsendable(c)
  /\ phase'    = [phase EXCEPT ![c] = "done"]
  /\ outcome'  = [outcome EXCEPT ![c] = "raised"]
  /\ pending'  = [pending EXCEPT ![Caller[c]] = @ \ {c}]
  /\ requests' = requests \cup {c}
  /\ UNCHANGED <<cellVars, replies, arrivals, rx, poolVars, life, history>>

\* The except branch: take the entry out again and re-raise.
FailToSend(c) ==
  /\ phase[c] = "registered"
  /\ Unsendable(c)
  /\ phase'   = [phase EXCEPT ![c] = "done"]
  /\ outcome' = [outcome EXCEPT ![c] = "raised"]
  /\ pending' = [pending EXCEPT ![Caller[c]] = @ \ {c}]
  /\ UNCHANGED <<cellVars, netVars, rx, poolVars, life, history>>

\* event.wait() returns True.
Wake(c) ==
  /\ phase[c] = "waiting"
  /\ event[c]
  /\ phase' = [phase EXCEPT ![c] = "woken"]
  /\ UNCHANGED <<outcome, pending, cellVars, netVars, rx, poolVars, life, history>>

\* Mutant: event.wait() is given no timeout.
ExpireNever(c) == phase[c] = "waiting" /\ FALSE /\ UNCHANGED vars

\* event.wait() returns False: its time is over, even if the event is set just then.
Expire(c) ==
  /\ phase[c] = "waiting"
  /\ phase' = [phase EXCEPT ![c] = "expired"]
  /\ UNCHANGED <<outcome, pending, cellVars, netVars, rx, poolVars, life, history>>

\* Mutant: a timed-out call leaves its entry in the table.
ReturnLeaky(c) ==
  /\ phase[c] \in {"woken", "expired"}
  /\ phase'   = [phase EXCEPT ![c] = "done"]
  /\ pending' = IF phase[c] = "expired" THEN pending
                ELSE [pending EXCEPT ![Caller[c]] = @ \ {c}]
  /\ outcome' = [outcome EXCEPT ![c] = IF phase[c] = "expired" THEN "timeout" ELSE slot[c]]
  /\ UNCHANGED <<cellVars, netVars, rx, poolVars, life, history>>

\* Pop the entry under the lock, read its result, return or raise.
Return(c) ==
  /\ phase[c] \in {"woken", "expired"}
  /\ phase'   = [phase EXCEPT ![c] = "done"]
  /\ pending' = [pending EXCEPT ![Caller[c]] = @ \ {c}]
  /\ outcome' = [outcome EXCEPT ![c] =
                   IF phase[c] = "expired" \/ slot[c] = "none"
                   THEN "timeout" ELSE slot[c]]
  /\ UNCHANGED <<cellVars, netVars, rx, poolVars, life, history>>

-----------------------------------------------------------------------------
(* The UDP receive thread: _recv_loop, _on_udp_message, _complete_pending. *)

Receiving(n) == life[n] # "stopped" /\ rx[n] = IdleRx

\* A request is submitted to the executor.  Once stop() has shut the executor
\* down, submit raises, and _recv_loop swallows that: the request is dropped.
ReceiveRequest(c) ==
  LET n == Callee[c] IN
  /\ c \in requests
  /\ arrivals[c] < MaxArrivals[c]
  /\ Receiving(n)
  /\ arrivals' = [arrivals EXCEPT ![c] = @ + 1]
  /\ queue' = IF life[n] = "up" THEN [queue EXCEPT ![n] = Append(@, c)] ELSE queue
  /\ UNCHANGED <<callerVars, cellVars, requests, replies, rx, job, life, history>>

\* Mutant: the reply completes some call in flight, not the one with its id.
ReceiveReplyAnyId(c, k) ==
  LET n == Caller[c] IN
  /\ <<c, k>> \in replies
  /\ Receiving(n)
  /\ \E d \in pending[n] :
       rx' = [rx EXCEPT ![n] = [call |-> d, reply |-> k, stored |-> FALSE]]
  /\ UNCHANGED <<callerVars, cellVars, netVars, poolVars, life, history>>

\* A reply is looked up under the lock; one that is no longer awaited is ignored.
ReceiveReply(c, k) ==
  LET n == Caller[c] IN
  /\ <<c, k>> \in replies
  /\ Receiving(n)
  /\ c \in pending[n]
  /\ rx' = [rx EXCEPT ![n] = [call |-> c, reply |-> k, stored |-> FALSE]]
  /\ UNCHANGED <<callerVars, cellVars, netVars, poolVars, life, history>>

\* Mutants: the event is set first; replies are completed on an idle worker.
StoreReplyLate(n) ==
  /\ rx[n].call # NoCall
  /\ ~rx[n].stored
  /\ event' = [event EXCEPT ![rx[n].call] = TRUE]
  /\ rx'    = [rx EXCEPT ![n].stored = TRUE]
  /\ UNCHANGED <<callerVars, slot, netVars, poolVars, life, history>>

StoreReplyInPool(n) ==
  /\ rx[n].call # NoCall
  /\ ~rx[n].stored
  /\ \E t \in Threads : job[n][t] = IdleJob
  /\ slot' = [slot EXCEPT ![rx[n].call] = rx[n].reply]
  /\ rx'   = [rx EXCEPT ![n].stored = TRUE]
  /\ UNCHANGED <<callerVars, event, netVars, poolVars, life, history>>

\* pending.result = msg, outside the lock: the caller may have left meanwhile.
StoreReply(n) ==
  /\ rx[n].call # NoCall
  /\ ~rx[n].stored
  /\ slot' = [slot EXCEPT ![rx[n].call] = rx[n].reply]
  /\ rx'   = [rx EXCEPT ![n].stored = TRUE]
  /\ UNCHANGED <<callerVars, event, netVars, poolVars, life, history>>

\* pending.event.set()
SetEvent(n) ==
  /\ rx[n].call # NoCall
  /\ rx[n].stored
  /\ event' = [event EXCEPT ![rx[n].call] = TRUE]
  /\ rx'    = [rx EXCEPT ![n] = IdleRx]
  /\ UNCHANGED <<callerVars, slot, netVars, poolVars, life, history>>

-----------------------------------------------------------------------------
(* The executor: _dispatch_rpc and _invoke_handler on a worker thread. *)

\* Work queued before stop() is still taken after it: shutdown(wait=False).
Take(n, t) ==
  /\ job[n][t] = IdleJob
  /\ queue[n] # <<>>
  /\ job'   = [job EXCEPT ![n][t] = [IdleJob EXCEPT !.call = Head(queue[n])]]
  /\ queue' = [queue EXCEPT ![n] = Tail(@)]
  /\ runs'  = [runs EXCEPT ![Head(queue[n])] = @ + 1]
  /\ UNCHANGED <<callerVars, cellVars, netVars, rx, life, produced>>

\* The handler returns, or raises (or is not registered): a reply of kind k.
Finish(n, t, k) ==
  /\ job[n][t].call # NoCall
  /\ Running(job[n][t], job[n][t].call)
  /\ job' = [job EXCEPT ![n][t].reply = k]
  /\ produced' = [produced EXCEPT ![job[n][t].call] = @ \cup {k}]
  /\ UNCHANGED <<callerVars, cellVars, netVars, rx, queue, life, runs>>

\* json.dumps and UDPTransport.send; what they raise is logged or lost with the
\* future, and no reply leaves.
Answer(n, t) ==
  LET j == job[n][t] IN
  /\ j.call # NoCall
  /\ j.reply # "none"
  /\ job' = [job EXCEPT ![n][t] = IdleJob]
  /\ replies' = IF life[n] = "stopped" \/ j.call \in Bulky
                THEN replies ELSE replies \cup {<<j.call, j.reply>>}
  /\ UNCHANGED <<callerVars, cellVars, requests, arrivals, rx, queue, life, history>>

-----------------------------------------------------------------------------
(* stop(): the executor is shut down first, the UDP socket closed later. *)

\* Mutant: shutdown(wait=False, cancel_futures=True).
CancelExecutor(n) ==
  /\ n \in Stoppable
  /\ life[n] = "up"
  /\ life'  = [life EXCEPT ![n] = "draining"]
  /\ queue' = [queue EXCEPT ![n] = <<>>]
  /\ UNCHANGED <<callerVars, cellVars, netVars, rx, job, history>>

ShutDownExecutor(n) ==
  /\ n \in Stoppable
  /\ life[n] = "up"
  /\ life' = [life EXCEPT ![n] = "draining"]
  /\ UNCHANGED <<callerVars, cellVars, netVars, rx, poolVars, history>>

CloseSocket(n) ==
  /\ life[n] = "draining"
  /\ life' = [life EXCEPT ![n] = "stopped"]
  /\ UNCHANGED <<callerVars, cellVars, netVars, rx, poolVars, history>>

-----------------------------------------------------------------------------
CallerStep(c) == SendRequest(c) \/ FailToSend(c) \/ Wake(c) \/ Expire(c) \/ Return(c)

CallStep(c) ==
  \/ NotFound(c)
  \/ RegisterFromUser(c)
  \/ \E t \in Threads : RegisterFromHandler(c, t)
  \/ CallerStep(c)
  \/ ReceiveRequest(c)
  \/ \E k \in Kinds : ReceiveReply(c, k)

NodeStep(n) ==
  \/ StoreReply(n)
  \/ SetEvent(n)
  \/ \E t \in Threads : \/ Take(n, t)
                        \/ \E k \in Kinds : Finish(n, t, k)
                        \/ Answer(n, t)
  \/ ShutDownExecutor(n)
  \/ CloseSocket(n)

Next == (\E c \in Calls : CallStep(c)) \/ (\E n \in Nodes : NodeStep(n))

Spec == Init /\ [][Next]_vars

\* Threads that run code of the library are scheduled; event.wait() has a
\* timeout.  Nothing here says that a handler of the application ever returns,
\* that a datagram arrives, or that anyone calls or stops.
LibraryFairness ==
  /\ \A c \in Calls : WF_vars(CallerStep(c))
  /\ \A n \in Nodes : WF_vars(StoreReply(n) \/ SetEvent(n))

\* Workers are scheduled, and handlers return unless they wait for a call.
HandlerFairness ==
  \A n \in Nodes, t \in Threads :
    WF_vars(Take(n, t) \/ (\E k \in Kinds : Finish(n, t, k)) \/ Answer(n, t))

LiveSpec == Spec /\ LibraryFairness

-----------------------------------------------------------------------------
(* Properties *)

TypeOK ==
  /\ phase    \in [Calls -> Phases]
  /\ outcome  \in [Calls -> Outcomes]
  /\ pending  \in [Nodes -> SUBSET Calls]
  /\ slot     \in [Calls -> Kinds \cup {"none"}]
  /\ event    \in [Calls -> BOOLEAN]
  /\ requests \in SUBSET Calls
  /\ replies  \in SUBSET (Calls \X Kinds)
  /\ rx       \in [Nodes -> Rxs]
  /\ queue    \in [Nodes -> Seq(Calls)]
  /\ job      \in [Nodes -> [Threads -> Jobs]]
  /\ life     \in [Nodes -> Lives]
  /\ arrivals \in [Calls -> Nat]
  /\ runs     \in [Calls -> Nat]
  /\ produced \in [Calls -> SUBSET Kinds]

\* The pending table holds exactly the calls between registration and return:
\* an oversized or refused send, a timeout or a late reply leaves no entry behind
\* (_call_over_udp pops on every path).
InFlight(n) == {c \in Calls : Caller[c] = n /\ phase[c] \notin {"idle", "done"}}
PendingIsInFlight == \A n \in Nodes : pending[n] = InFlight(n)

\* A caller that event.wait() woke finds a reply: the result is stored before the
\* event is set, so "fired and reply is None" never becomes a bogus timeout.  And no
\* wakeup is lost: where a result was stored the event is set, or the receive thread
\* is on its way to set it.
Announced(c) == event[c] \/ LET r == rx[Caller[c]] IN r.call = c /\ r.stored
WakeupCarriesReply ==
  \A c \in Calls : /\ phase[c] = "woken" => slot[c] # "none"
                   /\ slot[c] # "none" => Announced(c)

\* What a caller is told was produced for its own call, and a call that raised
\* before sending never ran: never another call's answer, however late, duplicated
\* or reordered the datagrams are.  Nothing removes duplicates, but the executor
\* adds none: a handler runs no more often than its request was delivered.
Genuine ==
  \A c \in Calls :
    /\ outcome[c] \in Kinds => outcome[c] \in produced[c]
    /\ outcome[c] \in {"raised", "not_found"} => runs[c] = 0
    /\ runs[c] <= arrivals[c]

\* The inductive invariant behind the three properties above that are proved
\* (PendingIsInFlight, WakeupCarriesReply, Genuine) and behind the refinement:
\* what is on its way to a caller can be traced back to a run of its handler,
\* and that run to a request the caller managed to send.
RequestsWereSent ==
  \A c \in requests :
    /\ phase[c] \notin {"idle", "registered"}
    /\ outcome[c] \notin {"raised", "not_found"}

WorkWasRequested ==
  /\ \A n \in Nodes : \A c \in Elements(queue[n]) : c \in requests /\ Callee[c] = n
  /\ \A n \in Nodes, t \in Threads :
       LET c == job[n][t].call IN c # NoCall => c \in requests /\ Callee[c] = n
  /\ \A c \in Calls : runs[c] > 0 \/ produced[c] # {} => c \in requests

AnswersWereProduced ==
  /\ \A n \in Nodes, t \in Threads :
       LET j == job[n][t] IN
       j.call # NoCall /\ j.reply # "none" => j.reply \in produced[j.call]
  /\ \A r \in replies : r[2] \in produced[r[1]]
  /\ \A n \in Nodes : rx[n].call # NoCall => rx[n].reply \in produced[rx[n].call]
  /\ \A c \in Calls : slot[c] # "none" => slot[c] \in produced[c]

EventsFollowReplies ==
  /\ \A n \in Nodes :
       rx[n].call # NoCall /\ rx[n].stored => slot[rx[n].call] # "none"
  /\ \A c \in Calls : event[c] \/ phase[c] = "woken" => slot[c] # "none"

OutcomesAreEarned ==
  \A c \in Calls :
    /\ phase[c] # "done" => outcome[c] = "none"
    /\ outcome[c] \in Kinds => outcome[c] \in produced[c]

\* A request that was delivered is run once, and none is lost before stop().
Places(s, c) == {i \in DOMAIN s : s[i] = c}

RunsWereDelivered ==
  \A c \in Calls : LET taken == runs[c] + Cardinality(Places(queue[Callee[c]], c)) IN
    /\ taken <= arrivals[c]
    /\ life[Callee[c]] = "up" => taken = arrivals[c]

RepliesAreAnnounced ==
  /\ \A n \in Nodes : rx[n].call # NoCall => Caller[rx[n].call] = n
  /\ \A c \in Calls : slot[c] # "none" => Announced(c)

Consistent ==
  /\ TypeOK
  /\ PendingIsInFlight
  /\ RequestsWereSent
  /\ WorkWasRequested
  /\ AnswersWereProduced
  /\ EventsFollowReplies
  /\ OutcomesAreEarned
  /\ RunsWereDelivered
  /\ RepliesAreAnnounced

\* stop(): "Graceful teardown: unregister mDNS, close sockets, drain executor"
\* (node.py:252): when it has returned, no accepted request is left to run.
StopDrainsExecutor ==
  \A n \in Nodes : life[n] = "stopped" =>
    /\ queue[n] = <<>>
    /\ \A t \in Threads : job[n][t].call = NoCall

\* Every call returns, even if no handler ever does and nothing is delivered.
EveryCallReturns == \A c \in Calls : phase[c] = "registered" ~> phase[c] = "done"

\* A reply the receive thread found a caller for reaches that caller's event
\* although every worker may be stuck in a handler: replies need no worker.
RepliesNeedNoWorker ==
  \A c \in Calls : rx[Caller[c]].call = c ~> event[c]

\* If handlers return, a request accepted by the executor is run, also when stop() follows and also
\* when every worker is inside a handler that waits for calls back to this node.
Accepted(c)  == c \in Elements(queue[Callee[c]])
Executing(c) == \E t \in Threads : job[Callee[c]][t].call = c
AcceptedRuns == HandlerFairness => \A c \in Calls : Accepted(c) ~> Executing(c)

\* Together, calls implement the contract of RpcContract.
Status(p) == IF p = "idle" THEN "idle" ELSE IF p = "done" THEN "closed" ELSE "open"

Contract == INSTANCE RpcContract
              WITH status <- [c \in Calls |-> Status(phase[c])]

ImplementsContract == Contract!Spec
=============================================================================
