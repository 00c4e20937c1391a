# PeerLink in TLA+

PeerLink is a Python library for remote calls between processes on one local
network. Peers find each other through mDNS (Zeroconf), call each other's
registered functions over UDP or TCP, broadcast a call to all of them, and are
told when a peer comes or goes. Almost all of it is threads and unreliable
messages: callers block on events, one thread receives datagrams, a bounded
executor runs handlers (which may call back), Zeroconf's thread feeds the peer
cache, and `stop()` may happen in the middle of everything.

This directory holds TLA+ models of these parts, TLC configurations that check
small instances, and proofs that TLAPS checks for every instance. Paths below are
relative to `src/peerlink/` of the repository unless they say otherwise.

## 1. The system

| Part | State it keeps | Operations | Talks to |
|---|---|---|---|
| Node, unicast call over UDP (`node.py`, `transport.py`) | `_pending` (call id -> event and result), executor and its queue, socket, `_running` | `call`, `_recv_loop`, `_complete_pending`, `_dispatch_rpc`, `stop` | peers by datagrams, Discovery by `resolve` |
| Unicast call over TCP and framing (`node.py`, `transport.py`) | one connection and two threads per call, the listener | `connect`, `send_frame`, `recv_frame`, `_accept_loop`, `_handle`, `stop` | peers by byte streams |
| Discovery (`discovery.py`) | `_peers`, callbacks, the browser | `_on_added`, `_on_removed`, `_prune`, `resolve`, `peers`, `wait_for_peers`, `set_callbacks`, `start`, `stop` | Zeroconf's browser thread calls in; calls the application back |
| Broadcast (`node.py`, `_call_all`) | a result table per broadcast, one thread per name | list, start threads, join with a timeout, return | Discovery, unicast calls |
| Node lifecycle, `SwarmNode` (`node.py`) | which subsystems exist, `_running` | `start`, `stop`, context manager | all of the above |
| `PeerProxy`, `AsyncPeerLink`, `AsyncPeerProxy` (`node.py`, `async_node.py`) | none | forward to `call` and `resolve` | node |
| Helpers, constants, command line (`_utils.py`, `constants.py`, `cli.py`) | none | hashing of names and secrets, size check | node |
| Legacy RPC (`core.py`) | pending table, bounded executor | `_call_one`, `_server_loop`, `_handle_message`, `_dispatch_rpc`, `stop` | peers |
| Legacy discovery and broadcast (`core.py`) | peer table | as in `discovery.py` and `node.py` | Zeroconf |
| Legacy channels (`core.py`) | queues, sequence numbers, acknowledgement events, closed ids, callbacks | open, ack, data, close, `recv`, `send`, `set_on_disconnect`; `put`, `get`, `close` of a queue | receive thread, executor, peers |
| Legacy streams and files (`core.py`) | connections, the files served | `open_stream`, `get_file`, `put_file`, `_handle_tcp_connection` and what it dispatches to | peers by byte streams, the file system |
| Native asyncio node (`async_udp.py`) | futures by call id | call, datagram protocol | peers |

`core.py` and `async_udp.py` are not exported by the package any more; the
command line and the public API use `node.py` and `async_node.py`.

What is hard, and what must hold nevertheless:

- **UDP calls.** A reply is written to a cell and its event is set outside the
  lock, while the caller may time out and leave; datagrams are lost, late and
  duplicated; handlers hold a worker of a bounded executor while they wait for
  calls of their own; `stop()` does not wait for them. Required: no table entry
  leaks, a woken caller finds its reply, nobody gets another call's answer, a
  refused send is never executed, replies need no worker, every call returns, an
  accepted request runs.
- **TCP calls.** Frames are read and written in pieces through bounded buffers;
  the connection may end in the middle of a frame, a frame may be too long, a
  process may die, the other side may stay silent. Required: a cut frame is never
  taken for a frame, a handler runs once at most and on a whole request, both
  threads end, a failure after the request left is not reported as one before.
- **Discovery.** The browser thread and any number of application threads change
  the cache; the clock is read before the lock is taken; callbacks run after it
  was released. Required: only stale entries expire, `resolve()` sees none that was
  not cached behind its back, every loss is told once, the cache converges to what
  is advertised, and callbacks tell the truth about the cache, as far as the code
  allows.
- **Broadcast.** Each thread looks its name up again; the join may give up; the
  table that is returned is shared with threads that are still running.
  Required: it is complete up to the names given up on and settles, a peer that
  stays is called once and under its own name, the broadcast returns.
- **Channels (legacy).** Queues at their limit with two policies, blocking puts
  on the receive thread, a close sentinel that only one reader takes; open, ack
  and data over UDP without retransmission and on different threads; up to four
  ways of ending a channel at the same time. Required: order and bound of a queue,
  no lost wakeup, the end is final; sequenced data arrives at most once and in
  order, a callback set before the end is called once, a closed channel leaves
  nothing behind, `open_channel()` and `recv()` end.
- **RPC (legacy).** Replies need a worker of the executor that handlers block, and
  `stop()` waits for them, unless a handler calls it. Required: it drains, it
  returns nevertheless, and callers are told the same things as by the newer node.
- **Streams and files (legacy).** Heads are read in pieces that reach into what
  follows; either end may time out at any byte; two connections share a file.
  Required: sockets are closed, an acknowledged PUT is stored, short results come
  from cut connections and mixed files from those or from overlapping PUTs only, a
  stream's first bytes are not taken for its acknowledgement.

The hazards with their lines are in `PROJECT.json`. Most name the properties that
would catch them. The others, and those a property catches in part, say why: what
goes wrong there is what the code does and the models allow (a leaked entry, an
abandoned reader, a put that outlives `close()`, a half-open channel), or the part
is not modelled.

## 2. The modules

    RpcContract   what a unicast call promises its caller (abstract)
      ^  ^  ^  ^
      |  |  |  +- Broadcast   MCBroadcast   BroadcastProofs    (uses its actions)
      |  |  +---- TcpRpc      MCTcpRpc      TcpRpcProofs       (implements it)
      |  +------- UdpRpc      MCUdpRpc      UdpRpcProofs       (implements it)
      +---------- LegacyRpc   MCLegacyRpc   LegacyRpcProofs    (implements it)
    Discovery     MCDiscovery     DiscoveryProofs
    QueueContract what a channel queue promises its readers (abstract)
      ^
      +- ChannelQueue  MCChannelQueue  ChannelQueueProofs        (implements it)
    Channel       MCChannel       ChannelProofs     (its queues: ChannelQueue, unbounded)
    LegacyTcp     MCLegacyTcp     LegacyTcpProofs

`RpcContract` is the abstract specification: a call is opened once and closed
once; a value or remote error was produced by a run of this call's handler; an
exception from before the request left means the handler never ran and never
will; a timeout promises nothing. Broadcast is built on its actions, so what it
assumes of a unicast call is exactly what UdpRpc and TcpRpc are proved to give;
LegacyRpc gives it as well. `QueueContract` is the same for `_ChannelQueue`: it holds
what `put()` accepted up to its bound, hands out the oldest first and each once,
loses the oldest only under drop_oldest and only while it is full, and under
drop_oldest tells a reader of the end when nothing is left. Who waits, who is
notified and the sentinel are not part of it.

In modules that are model-checked, an action whose comment says "Mutant" belongs
to no specification: it is the action next to it with a bug, and shows that the
property named in `PROJECT.json` notices.

### UdpRpc

One record of state per call and per node. `phase[c]` follows the thread in
`_call_over_udp`; `pending` is `_pending`, `slot` and `event` the two fields of
`_Pending`; `rx[n]` is the receive thread between the steps of
`_complete_pending`; `queue` and `job` are the executor; `life` follows `stop()`
through `shutdown(wait=False)` ("draining") and the closing of the socket
("stopped"). `Register ... Return` are the caller, `ReceiveRequest`,
`ReceiveReply`, `StoreReply`, `SetEvent` the receive thread, `Take`, `Finish`,
`Answer` a worker in `_dispatch_rpc`. Two steps are separate exactly when the
code lets another thread in between and it matters.

Abstractions. The network is the set of all datagrams ever sent: receiving takes
nothing out, so each may arrive late, repeatedly (bounded for requests by
`MaxArrivals`) or never. Payloads are left out but for their size: `Oversize`
requests are calls forced on UDP, `Bulky` answers exceed the limit or have no
JSON form, and both make the send raise. A handler makes each nested call once,
even if it is run twice. A call with `Parent[c] # User` is made by the handler of
its parent. `stop()` is final: `start()` again builds a new node. Malformed
datagrams are dropped by the code and do not occur.

### TcpRpc

`client[c]` and `server[c]` follow `_call_over_tcp` and `_on_tcp_connection`.
The contents of a stream follow from the bytes sent and read, so the model keeps
those counters: `Push` and `Pull` are one round of `sendall` and `recv`,
`Wanted` is what `_recv_exact` was asked for. TCP itself is external: reliable,
ordered, `Capacity` bytes in flight. `Cut` makes a connection silent (the other
host is gone and nothing says so), `SendFails` is the kernel giving up much
later, `Kill` a process that dies. `StopListening` closes the listener with its
backlog; accepted connections are served to their end, and their replies leave
even after `stop()`. An answer that has no JSON form ends the connection without
a reply (`FinishUnsendable`). Each frame holds what `json.dumps` wrote, so the
branches for unparsable frames are left out. A connection lost after the request
began to leave has outcome "lost", which the refinement maps to "timeout": it
promises as little. To the caller both are a `PeerLinkError`: "raised" and "lost"
are told apart by the text of the exception only, so the caller of a TCP call
knows less than the outcome in the model.

### Discovery

`known` and `entry` are `_peers`; `record` and `events` are Zeroconf's cache and
the queue of its browser thread (external). `Fetch`, `OnAdded`, `OnRemoved` and
`IgnoreSeen` are `_Listener` with `_on_added` and `_on_removed`, including the
restart rule on instance ids and endpoints and the return for a record without
an address (`NoAddress`). The record is the one Zeroconf holds when the
notification is handled (`fetch` until it is cached), and the time of the entry is
read after that and before the lock: any time from `fetch.since` on. `ReadTime`, `Prune`, `Lookup` are `resolve()`
with `_prune()` in front of it; `notice` and `expired` are the callbacks a thread
has still to run, `FireNotice` and `FireExpired` run one. `Cancel` is
`ServiceBrowser.cancel()`: what was notified is still handled.

Abstractions. The order of `_peers` decides which of several matching names
`resolve()` returns; the model allows each. A record's address and port are one
endpoint; its TCP port follows from the node's name. Four variables are history:
`owed` counts losses not yet reported, `muddled` collects names whose callbacks
crossed between two threads or ran before any was set, `lapsed` names that expired
or were removed under the name of another peer since they were cached, `late[t]`
names cached between the pruning and the lookup of thread t.

### Broadcast

`List`, `StartWorker`, `Join`, `JoinTimesOut`, `Return` are `_call_all`;
`Resolve` and `File` are its `worker`, with the unicast call in between given by
`Open`, `Refuse`, `Produce` and `Close` of RpcContract. `peers` is the cache, and
changes at any time. The order of the names (sorted) only decides the order of
starts and joins and is left out. `join(timeout + 1)` may give up for a UDP call
too: a thread's own timeout starts only after `resolve()` has run the callbacks
of what it expired.

### ChannelQueue (`core.py:196-270`)

`items` is the deque, `closed` its flag. Each critical section of `put`, `get` and
`close` is one action; what is between two of them is who waits on the condition:
`mode[g]` is a getter inside `wait()` with or without a timeout, `awake` those
that were notified and have not run since, `blocked` a put that waits for room.
`PutWithRoom`, `PutEvicting`, `PutBlocks` and `PutResumes` are the branches of
`put()`, `Get` is the first look, `Recheck` a look after a wait, `Expire` the end
of a timeout. Payloads are numbered in the order of `put()`. All puts come from
one thread (the receive thread), and `close()` is called once, because
`_unregister_channel_local` takes the queue out of its table first. The refinement
maps the steps that only wait, are notified or look in vain to stutters.

### Channel (`core.py:273-370`, `785-1015`)

One channel id at both nodes: `node[n]` holds the entries of the node's tables for
it, named as in the code; the network is a set as in UdpRpc. `OpenChannel` to
`HandleAck` are `open_channel()`, `RejectOpen` to `AcceptFails` the worker that
handles `channel_open` (in two steps, as the tables are filled before the ack
leaves), `Ingest` the receive thread, `Close` and `HandleClose` the two ways of
ending it, `RecvStarts` to `RecvExpires` a thread in `recv()`, which looks at
`_channel_closed` and at the queue in two lock sections. `SetOnDisconnect` sets,
replaces or clears a callback whenever the application has its Channel object
(`Held`), also after the end; `due` counts the callbacks that were set and not
replaced or cleared, `late` marks one that was set after the end. Taking the
entries out of the tables and closing the queue, which `_unregister_channel_local`
does after the lock (`core.py:907-920`), are one step. A reader keeps the queue
object it found, so queues are numbered in `store`; one that was replaced in its
table or made for a closed channel is `stray`. The size check that forgets the
channel again (above 65507 bytes) has the effect of an open that is lost and
expires; the other one (above 1200) leaves its entries, which is "refused".

### LegacyRpc (`core.py:728-747`, `1043-1064`, `1097-1230`, `1724-1795`)

As UdpRpc, with these differences of the code: requests and replies are items of
one work queue, and a worker stores a reply; `stop()` ends the receive loop
first ("stopping") and closes the socket when the executor is empty; an answer
that is too large becomes an error; a request that is too large, or that
`sendto()` refuses, leaves its entry in `_pending`; an answer that `sendto()` refuses
is lost, and nobody is told (`core.py:1227-1229`). `stop()` may be called by a
handler (`StopFromHandler`): then `shutdown(wait=True)` raises when it comes to
join the worker it runs on, the exception is swallowed (`core.py:734`), and the
socket is closed whatever is still in the queue (`StopGivesUp`). `stopper` holds
the workers that called it, `handed` (history) the answers given to `sendto()` on
an open socket. `MaxQueue` bounds the number
of items that wait; a datagram that finds the queue full is one that comes later.

### LegacyTcp (`core.py:1066-1095`, `1265-1645`)

As in TcpRpc, a direction of a connection is the bytes sent and read (external),
here in units: a head has 2, a file or a frame `Body[c]`, which may differ from
one connection to the next. `client[c]` is the thread in
`get_file`, `put_file` or `open_stream`, `server[c]` the thread in
`_handle_tcp_connection`. `Dispatch` is the demultiplexing and the lookup of
handler, prefix and file; `BodyRead` and `FileWritten` are the two halves of
`write_bytes`, which truncates first and then writes from the start of the file.
`file` says who wrote each unit of it, so two PUTs that both truncated it can leave
the head of one with the tail of the other; `over[c]` (history) holds the PUTs that
were between the two halves when c truncated. `ClientFails` and `ServerFails` are
the socket timeouts and the end of the process. `open_stream()` reads once: whatever
that `recv(1024)` returns is its acknowledgement, also a `stream_error`; and when it
raises it leaves its socket open, until the interpreter collects it
(`SocketCollected`, external).

## 3. What is checked

| Run | Instance | Shows |
|---|---|---|
| `udp_calls` | two callers of one peer; one request may arrive twice, replies any number of times; both nodes may stop at any point | table and cells exact, traceable answers, each accepted request run or waiting until stop (`Consistent`, `Genuine`), woken callers find the reply of their own call, RpcContract |
| `udp_live` | three calls nested in each other through executors with one worker, `stop()` of the middle node, and an answer that cannot be sent | every call returns though no handler may; a received reply reaches its caller though every worker is stuck; if handlers return, accepted requests run |
| `udp_drain` | the same; a violation | `stop()` returns before the executor is empty |
| `tcp_calls` | one call, byte by byte, with cuts, kills and stop | whole frames only and no standoff of the two ends (`Consistent`), RpcContract, both threads end |
| `tcp_timeout` | one call, no failure at all; a violation | a handler that does not return blocks its caller for ever |
| `discovery` | two peers (one restarts, one moves or has no address, one name contains the other and a dot), two resolving threads | freshness but for entries cached after the prune, just expiry, one report per loss, convergence but for entries that expired or were taken for another's, true callbacks unless muddled |
| `discovery_view` | callbacks set from the start; a violation | a cached peer can have been reported down last |
| `broadcast` | two peers, one name containing the other, cache changing, one call that may hang | table complete and settled, stayers called once, return |
| `channel_queue` | three readers, four payloads, sizes 0 (unbounded), 1 and 2, both policies, `close()` | order, bound, accounting and no lost wakeup (`Consistent`); QueueContract; close wakes readers, and one that waits is served |
| `channel` | one channel, both orderings and every registration, the open delivered twice, up to three queues, a reader and two callbacks at the acceptor | matching orderings, each callback of before the end called once, tables empty and readers' queues closed after the end, sequence window, `open_channel()` and `recv()` end |
| `legacy_rpc` | a call whose handler calls back, executors with one worker, replies behind requests in the queue, answers lost, `stop()` of the callee by the application or by the handler | table and traces, `stop()` by the application drains, is never stuck and returns, RpcContract |
| `legacy_tcp` | a PUT of two units together with a GET or with a PUT of one unit, and a stream; every cut | request before answer, sockets closed but by `open_stream()`, PUT stored, a short GET needs a cut server, a mixed file a cut or an overlap, acknowledgement read alone |

**Bounds.** `udp_calls` needs two calls for one to meet the other's reply and two
arrivals for a second run of a handler; sets of datagrams make everything beyond
that a repetition. `udp_live` needs a chain of three for the last call to come
back to the executor whose only worker waits for it (sixteen workers in the code,
which deeper or parallel nesting fills the same way). TCP connections share only
the listener, so one call shows all; with a header of 2, `MaxFrame` 2, sizes 1 to
3 and buffers of 2 bytes, headers and payloads are split, both sides block on
full buffers, and a frame is just too long; safety is proved for all values (section 4).
In Discovery TTL 1 and two ticks reach ages 0, 1 (just allowed) and 2 (stale);
three notifications are enough for appear, change, leave or appear again, and two
threads for two to expire the same name. In Broadcast two names suffice for one
to be taken for the other. A queue of size 2 with four payloads is full,
evicts and blocks with something left behind it; of three readers one takes the
sentinel, one is notified and one is not. A channel needs two deliveries of its
open for a replaced queue, three queues for an orphan of `recv()` beside them,
two payloads for an order, and two callbacks (`MaxCallbacks`) for one before the
end and one after it. In LegacyRpc one worker and one waiting item put a
reply behind the handler that waits for it. In LegacyTcp heads and bodies of two
units are split everywhere, and two connections are enough to meet at the file:
with bodies of 2 and 1 and an old file of 2, each PUT can leave the other's tail.
Deadlock is not checked: in every model the
application may simply have nothing more to do, or the bounds are used up.

**Fairness.** `LibraryFairness` says that a thread which is in the library's own
code goes on: callers (whose `event.wait` has a timeout, which is why `Expire` is
part of a caller's step), the receive thread, connection threads. No datagram has
to arrive, and nobody has to call or stop. That a worker goes on and a handler
returns is `HandlerFairness`; it is an antecedent of the properties that need it
(`AcceptedRuns`, and both TCP properties, which also assume that no connection
falls silent) and never part of a specification. Broadcast assumes that its
threads run, that `join` ends, and that a call ends unless it is in `Hanging`. The
legacy models assume that threads inside `put()`, `get()`, `open_channel()`,
`recv()` and `_call_one` run on when they were notified or their wait times out;
`StopReturns` has the fairness of workers and handlers as an antecedent, and a
`stop()` that can go on does. LegacyTcp
has safety properties only: all its waits end in a socket timeout.

**Findings.** Three runs show a disagreement of code and documentation: `stop()`
"drains" nothing (`udp_drain`); the last callback may contradict the cache (`discovery_view`); a
TCP call does not honour its timeout (`tcp_timeout`). Noticed while reading, with
no run: `CHANGELOG.md:33` says the size guard acts before `_pending` is touched,
but the entry is made first and taken out again; the node does not pass its
`secret` on to Discovery (`node.py:238`), so the realm only changes the ports;
`TCP_READ_TIMEOUT` is never used; `CHANGELOG.md:99` promises a compact `RemoteError`
for an oversized reply, which `core.py` sends and `node.py` does not (its caller
times out: `Bulky` in `udp_live`).

Of `discovery.py`: `_on_added` reads the time before it takes the lock
(`discovery.py:216`), so an entry that is stale already can be cached between the
pruning and the lookup of a `resolve()`, which then returns it (`late`); and when a
peer whose name has a dot leaves, the peer named like its first part is removed
instead, and is missing until it is announced again (`lapsed`).

Of the legacy code, what the models had to allow (each is a condition in a
property that would fail without it):

- `close()` of a queue says it wakes waiting readers "instead of waiting for
  timeout" (`core.py:197`); readers *with* a timeout that find the sentinel taken
  by another wait their time out, as their loop does not look at `_closed`
  (`CloseWakesReaders` is about the others).
- Under "block" a waiting put adds its payload after the sentinel, so a reader can
  get data after another was told the channel is closed (`ImplementsQueue` is stated
  with this exception).
- `send()` on a channel the peer has closed goes through and starts numbers at 1
  again; so does a failed handler, and a repeated `channel_open`, which also
  replaces the queue a reader waits on (`SequencedOnce`, `stray`).
- An expired `open_channel()` does not tell the peer, whose Channel stays open; a
  late `channel_open` for a closed channel fills the tables again, which nobody
  empties until another close.
- A callback set after the channel ended is stored and not called, although
  `set_on_disconnect()` says it is invoked when the channel ends "(local close, peer
  close, etc.)" (`core.py:311`).
- `stop()` called by a handler does not drain (`core.py:732-735`).
- `_call_one` leaks its entry when the request is above 1200 bytes or cannot be
  sent (`TableHoldsOpenCalls`).
- `get_file()` returns a short body without a word if the server's thread is cut
  off; a PUT whose client is cut off replaces the file by what had come; a GET
  during a PUT may be answered with a truncated file that has a correct length;
  two overlapping PUTs of different lengths may leave a mixture, both answered 200.
- `open_stream()` does not close its socket when it raises (`core.py:1342-1358`).
- The acknowledgement of a stream may be a `stream_error` or hold the first frame
  of a handler that writes at once (`OpenTakesOnlyAck`); the comment there
  ("ignored on timeout", `core.py:1352`) contradicts the `raise` under it.

## 4. What is proved

For every value of the constants that satisfies the named assumptions:

- **UdpRpcProofs**: types; `Consistent`; the pending table holds exactly the calls
  in flight; `WakeupCarriesReply`; `Genuine`; and that UdpRpc implements
  RpcContract. None of these is inductive alone. `Consistent` follows
  an answer backwards: an outcome or a filled cell, a reply held by the receive
  thread, a datagram, a worker's reply each stem from `produced`, that from
  a work item, and that from a request the caller managed to send; with the order
  of result and event, and the table, it is inductive. Two parts of it say that
  nothing is lost in between: the runs of a handler and its requests in the queue
  are exactly the requests accepted until `stop()` begins, and no more afterwards
  (`RunsWereDelivered`), and a reply written to a cell has its event set or about
  to be set by the receive thread (`RepliesAreAnnounced`). For the refinement each
  step maps to `Open`, `Produce`, `Close`, `Refuse` or a stutter.
- **TcpRpcProofs**: types; `WholeFramesOnly`; RpcContract again. The invariant,
  stated in the proof module, has one part on counters (nobody reads more than was
  sent or sends more than the frame), one on sockets (an end that has left has
  closed), and one on progress (how far each side is tells what it has read and
  sent, so an answer read in full means a handler that ran). On top of it
  `NoStandoff`: on a connection that is not cut one of the two threads has a step to
  take until both are through, for all lengths of frames and buffers. It needs
  that a caller which reads has sent its whole request, and that a connection in
  the backlog has a listener (`LinkInv`); so when one end reads and lacks bytes, the
  other still writes, and it can, unless the buffer is full, which the reader then
  empties; and an end that hangs up is noticed. What is left to wait for
  is the handler (a step of `GoesOn`, but with no time bound: `tcp_timeout`).
- **DiscoveryProofs**: types (a node never caches itself); `LookupSeesFresh`, from
  the fact that no thread's time is ahead of the clock: what is left after the pruning
  is fresh for it, and what is cached after that is in `late`, whatever time the
  browser thread had read for it; `PruneOnlyStale`. For
  `CacheConverges` the invariant adds that the last notification about a name tells
  whether the name has a record now, so that a notification without one is never
  the last, and that what the browser thread has fetched is the record of now unless
  a later notification about it waits. For the other two it adds that the browser thread has the callbacks
  of one notification to run at a time and that a thread owes expiries only
  between its pruning and its lookup; then `EachLossToldOnce` counts the threads
  that owe one (no more than finitely many, though `Threads` may be infinite), and
  `ViewMatchesUnlessMuddled` follows from `Agrees`: what is still to be told ends
  with "up" exactly when the name is cached.
- **BroadcastProofs**: types; `TableIsComplete`, `StayersAreCalledOnce`,
  `OnlyLateEntries`, from how far a thread is and what is still cached. `CallsKeepContract`
  (the calls of a broadcast behave as RpcContract says) is the link to UdpRpc and
  TcpRpc: it holds because Broadcast takes its call steps from there, and says that
  nothing else in it touches a call.
- **ChannelQueueProofs**: `Consistent` and that ChannelQueue implements
  QueueContract, for any number of readers and both policies. `Consistent` accounts
  for every payload (returned, evicted or in the deque) and holds that no wakeup is
  lost: while a reader sleeps, at least as many are awake as there are entries in
  the deque, and in a closed queue nobody sleeps without a timeout. It is
  inductive as it stands. The refinement uses its part on the sentinel: once it was taken under
  drop_oldest the deque is and stays empty.
- **ChannelProofs**: all four invariants of the run. For `Consistent`,
  `DisconnectOnce` and `NothingLeftBehind` the invariant adds that a channel not
  opened yet is blank, that acknowledgements stem from agreeing orderings, and how
  the tables of one node hang together. `SequencedOnce` needs two more parts: the
  nodes use different queues, and numbers in the network, in the windows and in
  the queues ascend (`Numbered`, `Lined`). Each step is first shown to be one of
  eight moves of a single node (`Moves`), so that the sequence argument has eight
  cases and not one for each of the seventeen actions. The same moves show what
  `recv()` relies on (`Reached`): the queue a thread waits on is the one in the
  table, which every way of ending the channel closes, or was closed, or is stray.
- **LegacyRpcProofs**: `Consistent`, the same backward trace as in UdpRpc through
  one more queue; in it `StopGoesOn`, which rules out a circular wait: a worker
  `stop()` waits for has a step, or is in a call that can time out or fail, or is
  itself in `stop()` and will give up, since a worker that is not idle has an item
  and the call of its handler has begun (`WorkersMatchCalls`). `StopDrains`, from an
  invariant that every answer produced was handed to `sendto()` while the socket was
  open or is still held by a worker, as long as no handler stopped the node;
  RpcContract.
- **LegacyTcpProofs**: all five invariants of the run, from one invariant per
  connection on its byte counters, the caller, the server, and what was stored,
  heard, answered and waited for. For `MixedFileNeedsCause` it adds `Layered`: any two
  PUTs that are between truncation and writing overlapped, and what is in the file
  while one is was written since by PUTs that overlapped with it. So a tail that is
  left behind a PUT belongs to a longer one that overlapped.

Assumptions are typing ones, and three of substance: call ids are not reused and
differ from the markers (`NamesAssumption`), a node does not call itself and a
handler calls from its own node (`TopologyAssumption`), a name matches itself
(`BroadcastAssumption`). `LegacyAssumption` adds that an executor has a worker, which
`ThreadPoolExecutor` insists on.

Only model-checked: the liveness properties, since the prover does not reason about
fairness and ENABLED. For some of them the safety half is proved: nobody is stuck
(`StopGoesOn` for `StopReturns`, `NoStandoff` for the end of both TCP threads,
`NoLostWakeup` for the readers of a queue, `NothingLeftBehind` for `WaitsEnd`,
`RunsWereDelivered` for `AcceptedRuns`). That the steps which can be taken are taken,
and lead to the end, is left to TLC.
Every other property of a passing run is a theorem.

## 5. What is not modelled

- Starting a node: a `start()` that fails half way, and a `_recv_loop` that finds
  its socket set to `None` by `stop()`. Planned with the lifecycle.
- `PeerProxy`, the asynchronous wrappers, the command line and the examples: no
  state of their own. `peers()` and `wait_for_peers()` are the pruning half of
  `resolve()`, repeated.
- `_utils.py`: hashing of names to ports and of secrets to realms; collisions of
  ports are not considered.
- `core.py`: its discovery and broadcast, which `discovery.py` and `node.py` replace
  (and which are modelled from there); the moment in `start()` when the receive
  thread runs and the executor does not exist yet, where a message gets a thread
  of its own; `Stream.read_frame()`, which leaves it to its caller to notice a cut
  frame; the idle timeout of a channel, which is sent and never acted on.
- `async_udp.py`: a pending table of futures confined to one event loop.

## 6. Plan

Done: RpcContract, UdpRpc, Discovery, TcpRpc and Broadcast first, because they are
the code that the package exports; then ChannelQueue, Channel, LegacyRpc and
LegacyTcp. Left, in order of worth:

1. Lifecycle (`node.py:213-275`, `transport.py`): start, failing start, stop and
   restart against receive and accept loops.
2. The native asyncio node (`async_udp.py:122-324`): cancellation of a call.
