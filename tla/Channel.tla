------------------------------ MODULE Channel ------------------------------
(***************************************************************************)
(* One datagram channel between two nodes of core.py: open_channel() and   *)
(* the handshake, data with or without sequence numbers, recv(), close()   *)
(* and the on_disconnect callbacks.  Every table of a node is keyed by the *)
(* channel id, so channels do not meet there.                              *)
(*                                                                         *)
(* `net` holds every datagram ever sent: each may arrive late, again or    *)
(* never.  Data is ingested on the receive thread, everything else waits   *)
(* in the executor, which is one more way to arrive late.  A queue is the  *)
(* unbounded one of ChannelQueue; readers keep a reference to the object   *)
(* they wait on, so queues are numbered as they are made.                  *)
(***************************************************************************)
EXTENDS Integers, Sequences

CONSTANTS Watchers,   \* nodes whose application calls set_on_disconnect()
          Receivers,  \* nodes whose application calls recv()
          MaxOpens,   \* bound: deliveries of the channel_open datagram
          MaxQueues,  \* bound: queue objects
          MaxSends,   \* MaxSends[n], bound: calls of send() at node n
          MaxCallbacks, \* bound: callbacks set and not replaced or cleared
          MaxBacklog  \* bound: payloads waiting in a queue

Nodes == {"opener", "acceptor"}
Peer(n) == IF n = "opener" THEN "acceptor" ELSE "opener"

ASSUME ChannelAssumption ==
  /\ MaxOpens \in Nat /\ MaxQueues \in Nat /\ MaxBacklog \in Nat /\ MaxCallbacks \in Nat
  /\ MaxSends \in [Nodes -> Nat]

VARIABLES
  ordering,  \* the argument of open_channel()
  offered,   \* the ordering the acceptor registered the name with, or "none"
  opening,   \* where open_channel() is
  acked,     \* its event is set
  opens,     \* deliveries of channel_open
  workers,   \* workers of the acceptor that have registered it and not yet answered
  net,       \* datagrams sent
  node,      \* node[n]: what node n holds for the channel, see Blank
  store      \* the queue objects

params  == <<ordering, offered>>
attempt == <<opening, acked>>
serving == <<opens, workers>>
vars == <<params, attempt, serving, net, node, store>>

Orderings == {"raw", "sequence"}
None     == 0   \* no queue
Sentinel == 0   \* _CHANNEL_CLOSED in a queue

\* stray (history): nobody will close it, as it was replaced in its table or made for
\* a channel that was closed already.
NewQueue(stray) == [items |-> <<>>, closed |-> FALSE, stray |-> stray]

Blank ==
  [queue |-> None, seqIn |-> 0, seqOut |-> 0, \* _channel_queues, _last_seq_in, _seq_out
   callback |-> FALSE, awaited |-> FALSE,     \* _disconnect_callbacks, _ack_events
   dead |-> FALSE,                            \* it is in _channel_closed
   objects |-> 0,                             \* Channel objects that were not closed
   reader |-> "idle", on |-> None,            \* a thread in recv(), and its queue
   sent |-> 0,                                \* payloads sent, which numbers them
   last |-> 0,                                \* history: what recv() returned last
   due |-> 0, late |-> FALSE, fired |-> 0]    \* history: callbacks set and not replaced or
                                              \* cleared; the last one was set when the
                                              \* channel had ended; callbacks called

Msg(to, kind)          == [to |-> to, kind |-> kind, seq |-> 0, payload |-> 0]
Data(to, seq, payload) == [to |-> to, kind |-> "data", seq |-> seq, payload |-> payload]

Init ==
  /\ ordering \in Orderings /\ offered \in Orderings \cup {"none"}
  /\ opening = "idle" /\ acked = FALSE
  /\ opens = 0 /\ workers = 0
  /\ net = {} /\ node = [n \in Nodes |-> Blank] /\ store = <<>>

-----------------------------------------------------------------------------
(* The tables *)

\* A fresh queue and fresh sequence windows for the channel at node n.
Register(n) ==
  LET q == node[n].queue IN
  /\ Len(store) < MaxQueues
  /\ node' = [node EXCEPT ![n].queue = Len(store) + 1, ![n].seqIn = 0, ![n].seqOut = 0,
                          ![n].awaited = (n = "opener")]
  /\ store' = Append([k \in DOMAIN store |-> [store[k] EXCEPT !.stray = @ \/ k = q]],
                     NewQueue(node[n].dead))

\* Mutants: the callback stays in its table; so does the queue.
ForgetAllButCallback(s) ==
  [s EXCEPT !.queue = None, !.seqIn = 0, !.seqOut = 0, !.awaited = FALSE,
            !.dead = TRUE, !.fired = @ + (IF s.callback THEN 1 ELSE 0)]
ForgetAllButQueue(s) ==
  [s EXCEPT !.seqIn = 0, !.seqOut = 0, !.awaited = FALSE, !.callback = FALSE,
            !.dead = TRUE, !.fired = @ + (IF s.callback THEN 1 ELSE 0)]

\* _unregister_channel_local: every entry of state s goes, and the callback that was
\* there is called.
Forget(s) ==
  [s EXCEPT !.queue = None, !.seqIn = 0, !.seqOut = 0, !.awaited = FALSE,
            !.callback = FALSE, !.dead = TRUE, !.fired = @ + (IF s.callback THEN 1 ELSE 0)]

\* Mutant: the queue is not closed.
LeaveQueueOpen(n) == UNCHANGED store

\* The queue that was in the table is closed.
CloseQueue(n) ==
  store' = [k \in DOMAIN store |->
              IF k # node[n].queue THEN store[k]
              ELSE [store[k] EXCEPT !.items = Append(@, Sentinel), !.closed = TRUE]]

Unregister(n) == node' = [node EXCEPT ![n] = Forget(@)] /\ CloseQueue(n)

-----------------------------------------------------------------------------
(* open_channel() at the opener *)

\* Register, then send.  A request above MAX_SAFE_UDP_PAYLOAD raises and leaves the
\* entries in the tables.
OpenChannel ==
  /\ opening = "idle"
  /\ Register("opener")
  /\ \/ opening' = "waiting" /\ net' = net \cup {Msg("acceptor", "open")}
     \/ opening' = "refused" /\ UNCHANGED net
  /\ UNCHANGED <<params, acked, serving>>

\* The caller gets its Channel.
OpenReturns ==
  /\ opening = "waiting"
  /\ opening' = "open"
  /\ node' = [node EXCEPT !["opener"].awaited = FALSE, !["opener"].objects = @ + 1]
  /\ UNCHANGED <<params, acked, serving, net, store>>

\* event.wait() returned True, perhaps for a channel the peer has closed meanwhile.
OpenAcked == acked /\ OpenReturns

\* Mutant: event.wait() has no timeout.
OpenNeverExpires == FALSE /\ UNCHANGED vars

\* It returned False: forget the channel.  The peer is not told.
OpenExpires ==
  /\ opening = "waiting"
  /\ opening' = "expired"
  /\ Unregister("opener")
  /\ UNCHANGED <<params, acked, serving, net>>

\* channel_ack: the event is set if it is still in the table.
HandleAck ==
  /\ Msg("opener", "ack") \in net
  /\ node["opener"].awaited
  /\ acked' = TRUE
  /\ UNCHANGED <<params, opening, serving, net, node, store>>

-----------------------------------------------------------------------------
(* channel_open at the acceptor, on a worker of its executor *)

ArrivalOfOpen ==
  /\ Msg("acceptor", "open") \in net
  /\ opens < MaxOpens
  /\ opens' = opens + 1
  /\ UNCHANGED <<params, attempt>>

\* No handler, or one registered with another ordering: channel_close.
RejectOpen ==
  /\ ArrivalOfOpen
  /\ offered # ordering
  /\ net' = net \cup {Msg("opener", "close")}
  /\ UNCHANGED <<workers, node, store>>

\* Mutant: the orderings are not compared.
AcceptAnyOrdering ==
  /\ ArrivalOfOpen
  /\ Register("acceptor")
  /\ workers' = workers + 1
  /\ UNCHANGED net

\* Also for a channel that is open already, or that was closed here before.
AcceptOpen ==
  /\ ArrivalOfOpen
  /\ offered = ordering
  /\ Register("acceptor")
  /\ workers' = workers + 1
  /\ UNCHANGED net

\* channel_ack is sent, once, and the handler gets a Channel of its own.
SendAck ==
  /\ workers > 0
  /\ workers' = workers - 1
  /\ net' = net \cup {Msg("opener", "ack")}
  /\ node' = [node EXCEPT !["acceptor"].objects = @ + 1]
  /\ UNCHANGED <<params, attempt, opens, store>>

\* sendto() raises, or later the handler does: the channel is forgotten.
AcceptFails ==
  /\ \/ workers > 0 /\ workers' = workers - 1
     \/ node["acceptor"].objects > 0 /\ UNCHANGED workers
  /\ Unregister("acceptor")
  /\ UNCHANGED <<params, attempt, opens, net>>

-----------------------------------------------------------------------------
(* The open channel *)

\* send().  Only the object's own _closed is looked at, which a close by the peer does
\* not set; the numbers then start again.  A payload that is too large raises after it
\* took a number: for the peer, a datagram that is lost.
Send(n) ==
  LET s == node[n]
      seq == IF ordering = "sequence" THEN s.seqOut + 1 ELSE 0 IN
  /\ s.objects > 0 /\ s.sent < MaxSends[n]
  /\ node' = [node EXCEPT ![n].sent = @ + 1, ![n].seqOut = seq]
  /\ net' = net \cup {Data(Peer(n), seq, s.sent + 1)}
  /\ UNCHANGED <<params, attempt, serving, store>>

\* Mutant: the window lets the newest number in again.
InWindowAgain(m, s) == ordering = "sequence" => m.seq >= s.seqIn

\* Sequenced data is dropped unless its number is above the highest one seen.
InWindow(m, s) == ordering = "sequence" => m.seq > s.seqIn

\* channel_data, on the receive thread; dropped when the channel is closed or unknown.
Ingest(n) ==
  LET s == node[n] IN
  \E m \in net :
    /\ m.to = n /\ m.kind = "data" /\ ~s.dead /\ s.queue # None
    /\ InWindow(m, s)
    /\ Len(store[s.queue].items) < MaxBacklog
    /\ node' = [node EXCEPT ![n].seqIn = m.seq]
    /\ store' = [store EXCEPT ![s.queue].items = Append(@, m.payload)]
    /\ UNCHANGED <<params, attempt, serving, net>>

\* The application got a Channel object, which it may still hold after close().
Held(n) == IF n = "opener" THEN opening = "open" ELSE Msg("opener", "ack") \in net

\* set_on_disconnect(), which looks at nothing: a callback is stored for a channel that
\* has ended too, and takes the place of one that is there; None clears it.
SetOnDisconnect(n) ==
  LET s == node[n] IN
  /\ n \in Watchers /\ Held(n)
  /\ \/ /\ s.callback \/ s.due < MaxCallbacks
        /\ node' = [node EXCEPT ![n].callback = TRUE, ![n].late = s.dead,
                                ![n].due = IF s.callback THEN @ ELSE @ + 1]
     \/ node' = [node EXCEPT ![n].callback = FALSE, ![n].due = IF s.callback THEN @ - 1 ELSE @]
  /\ UNCHANGED <<params, attempt, serving, net, store>>

\* close() by the application: forget the channel, then tell the peer.
Close(n) ==
  /\ node[n].objects > 0
  /\ node' = [node EXCEPT ![n] = [Forget(node[n]) EXCEPT !.objects = @ - 1]]
  /\ CloseQueue(n)
  /\ net' = net \cup {Msg(Peer(n), "close")}
  /\ UNCHANGED <<params, attempt, serving>>

\* channel_close from the peer, whatever the state of the channel here.
HandleClose(n) ==
  /\ Msg(n, "close") \in net
  /\ Unregister(n)
  /\ UNCHANGED <<params, attempt, serving, net>>

-----------------------------------------------------------------------------
(* recv() *)

elsewhere == <<params, attempt, serving, net>>

\* recv() raises at once on a dead channel.
RecvStarts(n) ==
  /\ n \in Receivers /\ node[n].reader = "idle" /\ node[n].objects > 0 /\ ~node[n].dead
  /\ node' = [node EXCEPT ![n].reader = "checked"]
  /\ UNCHANGED <<elsewhere, store>>

\* _channel_queue(): the queue of the channel, or a new one if it was closed since.
RecvFindsQueue(n) ==
  LET q == node[n].queue IN
  /\ node[n].reader = "checked"
  /\ UNCHANGED elsewhere
  /\ \/ /\ q # None
        /\ node' = [node EXCEPT ![n].reader = "getting", ![n].on = q]
        /\ UNCHANGED store
     \/ /\ q = None /\ Len(store) < MaxQueues
        /\ store' = Append(store, NewQueue(TRUE))
        /\ node' = [node EXCEPT ![n].reader = "getting", ![n].on = Len(store) + 1,
                                ![n].queue = Len(store) + 1]

\* get(): the next payload; the sentinel, or an empty closed queue, raises.
RecvReturns(n) ==
  LET s == node[n]
      items == store[s.on].items
      got == IF items # <<>> /\ Head(items) # Sentinel THEN Head(items) ELSE s.last IN
  /\ s.reader = "getting"
  /\ items # <<>> \/ store[s.on].closed
  /\ node' = [node EXCEPT ![n].reader = "idle", ![n].on = None, ![n].last = got]
  /\ store' = IF items = <<>> THEN store ELSE [store EXCEPT ![s.on].items = Tail(@)]
  /\ UNCHANGED elsewhere

\* recv(timeout) gives up.
RecvExpires(n) ==
  /\ node[n].reader = "getting" /\ store[node[n].on].items = <<>>
  /\ node' = [node EXCEPT ![n].reader = "idle", ![n].on = None]
  /\ UNCHANGED <<elsewhere, store>>

-----------------------------------------------------------------------------
NodeStep(n) ==
  \/ Send(n) \/ Ingest(n) \/ SetOnDisconnect(n) \/ Close(n) \/ HandleClose(n)
  \/ RecvStarts(n) \/ RecvFindsQueue(n) \/ RecvReturns(n) \/ RecvExpires(n)

Next ==
  \/ OpenChannel \/ OpenAcked \/ OpenExpires \/ HandleAck
  \/ RejectOpen \/ AcceptOpen \/ SendAck \/ AcceptFails
  \/ \E n \in Nodes : NodeStep(n)

Spec == Init /\ [][Next]_vars

\* Threads inside open_channel() and recv() run, and event.wait() has a timeout.
\* Nobody has to send or close, no datagram has to arrive, no recv() has a timeout.
LiveSpec ==
  /\ Spec
  /\ WF_vars(OpenAcked \/ OpenExpires)
  /\ \A n \in Nodes : WF_vars(RecvFindsQueue(n) \/ RecvReturns(n))

-----------------------------------------------------------------------------
(* Properties *)

Messages == [to : Nodes, kind : {"open", "ack", "close", "data"}, seq : Nat, payload : Nat]

NodeStates ==
  [queue : Nat, seqIn : Nat, seqOut : Nat, callback : BOOLEAN, awaited : BOOLEAN,
   dead : BOOLEAN, objects : Nat, reader : {"idle", "checked", "getting"}, on : Nat,
   sent : Nat, last : Nat, due : Int, late : BOOLEAN, fired : Nat]

TypeOK ==
  /\ ordering \in Orderings /\ offered \in Orderings \cup {"none"}
  /\ opening \in {"idle", "waiting", "open", "expired", "refused"} /\ acked \in BOOLEAN
  /\ opens \in Nat /\ workers \in Nat
  /\ net \subseteq Messages
  /\ node \in [Nodes -> NodeStates]
  /\ store \in Seq([items : Seq(Nat), closed : BOOLEAN, stray : BOOLEAN])
  /\ \A n \in Nodes :
       /\ {node[n].queue, node[n].on} \subseteq 0 .. Len(store)
       /\ node[n].reader = "getting" <=> node[n].on # None

\* The handshake: who has a Channel got it from an acceptor that registered the name
\* with the same ordering, and the acceptor holds none before it registered it.
Consistent ==
  /\ TypeOK
  /\ opening = "open" \/ node["acceptor"].objects > 0 => ordering = offered /\ opens > 0
  /\ node["acceptor"].objects > 0 => node["acceptor"].queue # None \/ node["acceptor"].dead

\* However many of close(), channel_close, a failed handler and an expired open_channel()
\* end a channel, each on_disconnect callback that was not replaced or cleared is called
\* at most once, and not before the channel ended; and when it has ended, each one has
\* been called, but one that was set after the end: that one waits for a further end.
DisconnectOnce ==
  \A n \in Nodes : LET s == node[n] IN
    /\ s.fired = s.due - (IF s.callback THEN 1 ELSE 0)
    /\ s.fired > 0 => s.dead
    /\ s.dead /\ s.callback => s.late

\* A closed channel leaves nothing in the tables but what a late channel_open or a
\* recv() that had looked before puts there again, and no reader in the lurch: the
\* queue a thread in recv() waits on was closed, whoever ended the channel, unless it
\* is a stray one.
NothingLeftBehind ==
  \A n \in Nodes : LET s == node[n] IN
    s.dead => /\ ~s.awaited /\ (s.queue # None => store[s.queue].stray)
              /\ s.reader = "getting" => store[s.on].closed \/ store[s.on].stray

\* Sequenced data: as long as no channel_open was delivered twice and no sender started
\* its numbers again, recv() returns every payload at most once and in order, whatever
\* the network does to the datagrams; and numbers start again only after the sender
\* forgot the channel or accepted it twice.
Renumbered(n) == \E m \in net : m.to = n /\ m.kind = "data" /\ m.seq # m.payload
Waiting(q)    == {i \in DOMAIN store[q].items : store[q].items[i] # Sentinel}
OneByOne(n)   ==
  \A q \in {node[n].queue, node[n].on} \ {None} : \A i \in Waiting(q) :
    /\ node[n].last < store[q].items[i]
    /\ \A j \in Waiting(q) : i < j => store[q].items[i] < store[q].items[j]

SequencedOnce ==
  ordering = "sequence" => \A n \in Nodes :
    /\ ~Renumbered(n) /\ (n = "acceptor" => opens <= 1) => OneByOne(n)
    /\ Renumbered(n) => node[Peer(n)].dead \/ (n = "opener" /\ opens > 1)

\* open_channel() returns or raises, although no answer may ever come, and closing the
\* channel wakes the thread in recv(), also without a timeout, unless its queue is a
\* stray one.
WaitsEnd ==
  /\ opening = "waiting" ~> opening # "waiting"
  /\ \A n \in Nodes :
       node[n].dead /\ node[n].reader = "getting" /\ ~store[node[n].on].stray
         ~> node[n].reader # "getting"
=============================================================================
