----------------------------- MODULE LegacyRpc -----------------------------
(***************************************************************************)
(* Unicast RPC in core.py: _call_one, the receive thread, the executor on  *)
(* which requests and replies alike are handled, and stop().  It differs   *)
(* from UdpRpc (node.py) in that a reply needs a free worker, that stop()  *)
(* waits for the executor before it closes the socket, and in what it does *)
(* with messages that are too large.                                       *)
(*                                                                         *)
(* `net` holds every datagram ever sent: each may arrive late, again or    *)
(* never.  MaxQueue bounds the work queue of an executor.                  *)
(***************************************************************************)
EXTENDS Naturals, Sequences

CONSTANTS Nodes, Calls,
          Threads,    \* the workers of each executor
          Caller, Callee, Parent, User, NoCall,   \* as in UdpRpc
          Stoppable,  \* nodes on which the application or a handler calls stop()
          MaxQueue    \* bound: work items that wait in an executor

ASSUME LegacyAssumption ==
  /\ Caller \in [Calls -> Nodes] /\ Callee \in [Calls -> Nodes]
  /\ Parent \in [Calls -> Calls \cup {User}]
  /\ NoCall \notin Calls /\ User \notin Calls
  /\ Stoppable \subseteq Nodes /\ MaxQueue \in Nat
  /\ Threads # {}  \* ThreadPoolExecutor refuses max_workers < 1

Kinds   == {"value", "error"}

VARIABLES
  phase,    \* phase[c]: where the thread that makes call c is
  outcome,  \* outcome[c]: how call() ended
  result,   \* result[c]: PendingCall.result; its event is set when there is one
  pending,  \* pending[n]: the keys of _pending
  net,      \* datagrams sent: [call, answer], where a request has answer "none"
  queue,    \* queue[n]: the work queue of the executor
  job,      \* job[n][w]: the item worker w handles, the call() its handler is in or
            \* was in last, and the reply it has ready
  life,     \* life[n]: "up", "stopping" or "stopped"
  stopper,  \* stopper[n]: workers of n whose handler called stop()
  produced, \* produced[c]: the kinds of answer c's handler gave (history)
  handed    \* answers given to sendto() while the socket was open (history)

callerVars == <<phase, outcome, result, pending>>
vars == <<callerVars, net, queue, job, life, stopper, produced, handed>>

Item(c, k) == [call |-> c, answer |-> k]
NoItem     == Item(NoCall, "none")
Idle       == [item |-> NoItem, nested |-> NoCall, reply |-> "none"]

Init ==
  /\ phase = [c \in Calls |-> "idle"] /\ outcome = [c \in Calls |-> "none"]
  /\ result = [c \in Calls |-> "none"] /\ pending = [n \in Nodes |-> {}]
  /\ net = {} /\ queue = [n \in Nodes |-> <<>>]
  /\ job = [n \in Nodes |-> [w \in Threads |-> Idle]]
  /\ life = [n \in Nodes |-> "up"] /\ stopper = [n \in Nodes |-> {}]
  /\ produced = [c \in Calls |-> {}] /\ handed = {}

-----------------------------------------------------------------------------
(* The caller: _call_one *)

Blocked(j) == j.nested # NoCall /\ phase[j.nested] # "done"
InStop(n, w) == life[n] = "stopping" /\ w \in stopper[n]

\* The handler of call c runs on worker w of node n, and neither waits for a call() nor
\* is inside stop().
Handling(n, w, c) ==
  LET j == job[n][w] IN
  j.item = Item(c, "none") /\ j.reply = "none" /\ ~Blocked(j) /\ ~InStop(n, w)

\* No such peer, or a new entry in the table.
Begin(c) ==
  /\ phase[c] = "idle"
  /\ \/ /\ phase' = [phase EXCEPT ![c] = "done"]
        /\ outcome' = [outcome EXCEPT ![c] = "not_found"]
        /\ UNCHANGED pending
     \/ /\ phase' = [phase EXCEPT ![c] = "registered"]
        /\ pending' = [pending EXCEPT ![Caller[c]] = @ \cup {c}]
        /\ UNCHANGED outcome
  /\ UNCHANGED <<result, net, queue, life, stopper, produced, handed>>

BeginFromUser(c) == Parent[c] = User /\ Begin(c) /\ UNCHANGED job

BeginFromHandler(c, w) ==
  /\ Parent[c] # User /\ Handling(Caller[c], w, Parent[c])
  /\ Begin(c)
  /\ job' = [job EXCEPT ![Caller[c]][w].nested = c]

SendRequest(c) ==
  /\ phase[c] = "registered" /\ life[Caller[c]] # "stopped"
  /\ phase' = [phase EXCEPT ![c] = "waiting"]
  /\ net' = net \cup {Item(c, "none")}
  /\ UNCHANGED <<outcome, result, pending, queue, job, life, stopper, produced, handed>>

\* Mutant: the size is checked after sendto().
FailAfterSending(c) ==
  /\ phase[c] = "registered"
  /\ phase' = [phase EXCEPT ![c] = "done"]
  /\ outcome' = [outcome EXCEPT ![c] = "raised"]
  /\ net' = net \cup {Item(c, "none")}
  /\ UNCHANGED <<result, pending, queue, job, life, stopper, produced, handed>>

\* The request is above MAX_DATAGRAM (its entry is taken out again) or above
\* MAX_SAFE_UDP_PAYLOAD, or sendto() fails (its entry stays).
FailToSend(c) ==
  /\ phase[c] = "registered"
  /\ phase' = [phase EXCEPT ![c] = "done"]
  /\ outcome' = [outcome EXCEPT ![c] = "raised"]
  /\ \/ pending' = [pending EXCEPT ![Caller[c]] = @ \ {c}]
     \/ UNCHANGED pending
  /\ UNCHANGED <<result, net, queue, job, life, stopper, produced, handed>>

\* Mutant: the entry stays.
ReturnLeaky(c, o) ==
  /\ phase[c] = "waiting"
  /\ phase' = [phase EXCEPT ![c] = "done"]
  /\ outcome' = [outcome EXCEPT ![c] = o]
  /\ UNCHANGED <<result, pending, net, queue, job, life, stopper, produced, handed>>

\* The entry is popped and the result read; it is a timeout unless the wait ended
\* because of the event.
Return(c, o) ==
  /\ phase[c] = "waiting"
  /\ phase' = [phase EXCEPT ![c] = "done"]
  /\ outcome' = [outcome EXCEPT ![c] = o]
  /\ pending' = [pending EXCEPT ![Caller[c]] = @ \ {c}]
  /\ UNCHANGED <<result, net, queue, job, life, stopper, produced, handed>>

ReturnResult(c) == result[c] # "none" /\ Return(c, result[c])

\* Mutant: event.wait() has no timeout.
NoTimeout(c) == FALSE /\ Return(c, "timeout")

\* event.wait() returned False.
Expire(c) == Return(c, "timeout")

-----------------------------------------------------------------------------
(* The receive thread and the workers *)

Destination(m) == IF m.answer = "none" THEN Callee[m.call] ELSE Caller[m.call]

\* _server_loop submits the message; it ends when stop() begins.
Receive(n) ==
  /\ life[n] = "up" /\ Len(queue[n]) < MaxQueue
  /\ \E m \in net : Destination(m) = n /\ queue' = [queue EXCEPT ![n] = Append(@, m)]
  /\ UNCHANGED <<callerVars, net, job, life, stopper, produced, handed>>

Take(n, w) ==
  /\ job[n][w] = Idle /\ queue[n] # <<>>
  /\ job' = [job EXCEPT ![n][w].item = Head(queue[n])]
  /\ queue' = [queue EXCEPT ![n] = Tail(@)]
  /\ UNCHANGED <<callerVars, net, life, stopper, produced, handed>>

\* _handle_message, a reply: stored if somebody still waits for it.
Complete(n, w) ==
  LET i == job[n][w].item IN
  /\ i # NoItem /\ i.answer # "none"
  /\ result' = IF i.call \in pending[n] THEN [result EXCEPT ![i.call] = i.answer] ELSE result
  /\ job' = [job EXCEPT ![n][w] = Idle]
  /\ UNCHANGED <<phase, outcome, pending, net, queue, life, stopper, produced, handed>>

\* _dispatch_rpc: the handler ends, and its answer is encoded.  One that is too large
\* becomes an error; one that json cannot encode raises on the worker, with no reply.
HandlerEnds(n, w) ==
  LET c == job[n][w].item.call IN
  /\ job[n][w].item # NoItem /\ Handling(n, w, c)
  /\ \/ \E k \in Kinds :
          /\ job' = [job EXCEPT ![n][w].reply = k]
          /\ produced' = [produced EXCEPT ![c] = @ \cup {k}]
     \/ job' = [job EXCEPT ![n][w] = Idle] /\ UNCHANGED produced
  /\ UNCHANGED <<callerVars, net, queue, life, stopper, handed>>

\* sendto(): the answer leaves, or OSError is caught and it is lost; on a closed socket
\* it always is.
Reply(n, w) ==
  LET j == job[n][w]
      answer == Item(j.item.call, j.reply) IN
  /\ j.reply # "none"
  /\ \/ life[n] # "stopped" /\ net' \in {net, net \cup {answer}} /\ handed' = handed \cup {answer}
     \/ life[n] = "stopped" /\ UNCHANGED <<net, handed>>
  /\ job' = [job EXCEPT ![n][w] = Idle]
  /\ UNCHANGED <<callerVars, queue, life, stopper, produced>>

-----------------------------------------------------------------------------
(* stop() *)

StopBegins(n) ==
  /\ n \in Stoppable /\ life[n] = "up"
  /\ life' = [life EXCEPT ![n] = "stopping"]
  /\ UNCHANGED <<callerVars, net, queue, job, stopper, produced, handed>>

\* A handler calls stop(), also while another thread is inside it.
StopFromHandler(n, w) ==
  /\ n \in Stoppable /\ life[n] # "stopped"
  /\ \E c \in Calls : Handling(n, w, c)
  /\ life' = [life EXCEPT ![n] = "stopping"]
  /\ stopper' = [stopper EXCEPT ![n] = @ \cup {w}]
  /\ UNCHANGED <<callerVars, net, queue, job, produced, handed>>

CloseSocket(n) ==
  /\ life' = [life EXCEPT ![n] = "stopped"]
  /\ UNCHANGED <<callerVars, net, queue, job, stopper, produced, handed>>

\* Mutant: shutdown(wait=False).
StopAtOnce(n) == life[n] = "stopping" /\ CloseSocket(n)

\* shutdown(wait=True) has returned, and the socket is closed.
StopEnds(n) ==
  /\ life[n] = "stopping" /\ queue[n] = <<>> /\ \A w \in Threads : job[n][w] = Idle
  /\ CloseSocket(n)

\* On a worker shutdown(wait=True) raises when it comes to join its own thread; the
\* error is swallowed and the socket closed, whatever is queued or still runs.
StopGivesUp(n) == life[n] = "stopping" /\ stopper[n] # {} /\ CloseSocket(n)

-----------------------------------------------------------------------------
CallStep(c) ==
  \/ BeginFromUser(c)
  \/ \E w \in Threads : BeginFromHandler(c, w)
  \/ SendRequest(c) \/ FailToSend(c) \/ ReturnResult(c) \/ Expire(c)

Work(n, w) == Take(n, w) \/ Complete(n, w) \/ HandlerEnds(n, w) \/ Reply(n, w)

Next ==
  \/ \E c \in Calls : CallStep(c)
  \/ \E n \in Nodes : \/ Receive(n) \/ StopBegins(n) \/ StopEnds(n) \/ StopGivesUp(n)
                      \/ \E w \in Threads : Work(n, w) \/ StopFromHandler(n, w)

Spec == Init /\ [][Next]_vars

\* event.wait() has a timeout, and the threads of the library are scheduled.  (A stop()
\* that gives up may join other workers first, but each of them ends if handlers do.)
LiveSpec ==
  /\ Spec
  /\ \A c \in Calls : WF_vars(SendRequest(c) \/ FailToSend(c) \/ ReturnResult(c) \/ Expire(c))
  /\ \A n \in Nodes : WF_vars(StopEnds(n) \/ StopGivesUp(n))

\* Threads are scheduled, and a handler returns unless it waits for a call.
HandlerFairness == \A n \in Nodes, w \in Threads : WF_vars(Work(n, w))

-----------------------------------------------------------------------------
(* Properties *)

Items == [call : Calls, answer : Kinds \cup {"none"}]
Jobs  == [item : Items \cup {NoItem}, nested : Calls \cup {NoCall}, reply : Kinds \cup {"none"}]

TypeOK ==
  /\ phase \in [Calls -> {"idle", "registered", "waiting", "done"}]
  /\ outcome \in [Calls -> Kinds \cup {"none", "timeout", "raised", "not_found"}]
  /\ result \in [Calls -> Kinds \cup {"none"}]
  /\ pending \in [Nodes -> SUBSET Calls]
  /\ net \subseteq Items /\ queue \in [Nodes -> Seq(Items)]
  /\ job \in [Nodes -> [Threads -> Jobs]]
  /\ life \in [Nodes -> {"up", "stopping", "stopped"}]
  /\ stopper \in [Nodes -> SUBSET Threads]
  /\ produced \in [Calls -> SUBSET Kinds] /\ handed \subseteq Items

\* Only a request that raised leaves an entry behind in _pending.
TableHoldsOpenCalls ==
  \A n \in Nodes, c \in Calls :
    /\ Caller[c] = n /\ phase[c] \in {"registered", "waiting"} => c \in pending[n]
    /\ c \in pending[n] =>
         Caller[c] = n /\ (phase[c] \in {"registered", "waiting"} \/ outcome[c] = "raised")

\* What is on its way was sent and produced for the call it names.
Sent(m)    == m \in net
Carried(m) == Sent(Item(m.call, "none")) /\ (m.answer # "none" => m.answer \in produced[m.call])
NetTraced ==
  \A m \in net : /\ Carried(m)
                 /\ phase[m.call] \notin {"idle", "registered"}
                 /\ outcome[m.call] \notin {"raised", "not_found"}
WorkTraced ==
  /\ \A n \in Nodes : \A i \in DOMAIN queue[n] : queue[n][i] \in net
  /\ \A n \in Nodes, w \in Threads : LET j == job[n][w] IN
       /\ j.item # NoItem => j.item \in net
       /\ j.reply # "none" => /\ j.item # NoItem /\ j.item.answer = "none"
                              /\ j.reply \in produced[j.item.call]
CallsTraced ==
  \A c \in Calls : /\ result[c] # "none" => result[c] \in produced[c]
                   /\ outcome[c] # "none" <=> phase[c] = "done"
                   /\ produced[c] # {} => Item(c, "none") \in net
Traceable == NetTraced /\ WorkTraced /\ CallsTraced

\* A worker without an item is blank, and a handler's call() has begun.
WorkersMatchCalls ==
  \A n \in Nodes, w \in Threads : LET j == job[n][w] IN
    /\ j.item = NoItem => j = Idle
    /\ j.nested # NoCall => phase[j.nested] # "idle"

\* stop() is never stuck: shutdown(wait=True) can return, or a worker it waits for has a
\* step, or one is in a call() that its timeout or a failing send can end, or in stop()
\* itself, where it gives up.  This is so although nobody receives replies any more and
\* handlers wait for them.
WorkerGoesOn(n, w) ==
  LET j == job[n][w] IN
  \/ j = Idle /\ queue[n] # <<>>
  \/ j.item.answer # "none" \/ j.reply # "none"
  \/ j.item # NoItem /\ Handling(n, w, j.item.call)
CallCanEnd(n, w) ==
  LET c == job[n][w].nested IN c # NoCall /\ phase[c] \in {"registered", "waiting"}
StopGoesOn ==
  \A n \in Nodes : life[n] = "stopping" =>
    \/ queue[n] = <<>> /\ \A w \in Threads : job[n][w] = Idle
    \/ \E w \in Threads : WorkerGoesOn(n, w) \/ CallCanEnd(n, w) \/ InStop(n, w)

\* The table, the traces behind the refinement, and why stop() comes to its end.
Consistent == TypeOK /\ TableHoldsOpenCalls /\ Traceable /\ WorkersMatchCalls /\ StopGoesOn

\* stop() drains: on a node that stopped, no handler ever gave an answer for which the
\* socket was no longer open, whenever its request came and its worker ran, unless stop()
\* was called by a handler too, and gave up waiting.
StopDrains ==
  \A c \in Calls : LET n == Callee[c] IN
    life[n] = "stopped" /\ stopper[n] = {} => \A k \in produced[c] : Item(c, k) \in handed

\* If handlers return, so does stop(), also when it begins while handlers wait for
\* replies that nobody will receive any more, or that lie behind them in the work
\* queue: their calls time out.
StopReturns ==
  HandlerFairness => \A n \in Nodes : life[n] = "stopping" ~> life[n] = "stopped"

\* Calls implement the contract of RpcContract.
Status(p) == IF p = "idle" THEN "idle" ELSE IF p = "done" THEN "closed" ELSE "open"
Contract == INSTANCE RpcContract WITH status <- [c \in Calls |-> Status(phase[c])]
ImplementsContract == Contract!Spec
=============================================================================
