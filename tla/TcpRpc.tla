------------------------------- MODULE TcpRpc -------------------------------
(***************************************************************************)
(* Unicast RPC over TCP: every call opens a connection of its own, sends   *)
(* one length-prefixed frame, reads one frame back and closes it; the      *)
(* serving node runs the handler in the thread of the connection.          *)
(*                                                                         *)
(* TCP itself is external: each direction of a connection is a reliable    *)
(* byte stream through a buffer of Capacity bytes, so a stream's contents  *)
(* follow from two counters, the bytes sent and the bytes read.  A header  *)
(* is HeaderSize bytes long; size[c][e] is the length of the payload that  *)
(* end e of call c's connection sends, and so what its header says.        *)
(***************************************************************************)
EXTENDS Naturals

CONSTANTS Calls,
          HeaderSize, \* TCP_FRAME_HEADER_SIZE
          MaxFrame,   \* TCP_MAX_FRAME: the longest payload a reader accepts
          Sizes,      \* payload lengths that occur
          Capacity,   \* bytes in flight in one direction
          Fragile,    \* calls whose connection may go silent: no packet, no reset
          Mortal      \* ends whose process may be killed

Ends == {"client", "server"}

ASSUME TcpAssumption ==
  /\ HeaderSize \in Nat \ {0} /\ MaxFrame \in Nat /\ Capacity \in Nat \ {0}
  /\ Sizes \subseteq Nat \ {0}
  /\ Fragile \subseteq Calls
  /\ Mortal \subseteq Ends

VARIABLES
  client,    \* client[c]: where the thread that makes call c is
  server,    \* server[c]: where the serving node's thread for c's connection is
  size,      \* size[c][e]: payload length of the frame that end e sends
  sent,      \* sent[c][e]: bytes of its frame that end e has handed to TCP
  got,       \* got[c][e]: bytes that end e has read
  closed,    \* closed[c]: the ends that have closed their socket
  silent,    \* connections over which nothing arrives any more
  listening, \* the serving node's accept loop runs
  outcome,   \* outcome[c]: how call() ended
  answer,    \* answer[c]: the kind of answer the handler of c gave
  runs       \* runs[c]: how often the handler ran for c (history)

streamVars == <<size, sent, got>>
linkVars   == <<closed, silent, listening>>
resultVars == <<outcome, answer, runs>>
vars == <<client, server, streamVars, linkVars, resultVars>>

Kinds == {"value", "error"}

Init ==
  /\ client = [c \in Calls |-> "idle"]
  /\ server = [c \in Calls |-> "none"]
  /\ size \in [Calls -> [Ends -> Sizes]]
  /\ sent = [c \in Calls |-> [e \in Ends |-> 0]]
  /\ got  = [c \in Calls |-> [e \in Ends |-> 0]]
  /\ closed = [c \in Calls |-> {}]
  /\ silent = {}
  /\ listening = TRUE
  /\ outcome = [c \in Calls |-> "none"]
  /\ answer = [c \in Calls |-> "none"]
  /\ runs = [c \in Calls |-> 0]

-----------------------------------------------------------------------------
(* The byte streams: sendall() and _recv_exact(). *)

Other(e) == IF e = "client" THEN "server" ELSE "client"
Phase(c, e) == IF e = "client" THEN client[c] ELSE server[c]

FrameLength(c, e) == HeaderSize + size[c][e]
InFlight(c, e)    == sent[c][e] - got[c][Other(e)]

\* recv_frame first wants the header, then as many bytes as the header says.
Wanted(c, e) ==
  IF got[c][e] < HeaderSize THEN HeaderSize ELSE FrameLength(c, Other(e))

\* The header has arrived and announces more than TCP_MAX_FRAME.
TooLarge(c, e) == got[c][e] = HeaderSize /\ size[c][Other(e)] > MaxFrame

\* sendall() gets some more of the frame into the buffer.
Push(c, e) ==
  /\ Phase(c, e) = "sending"
  /\ c \notin silent
  /\ Other(e) \notin closed[c]
  /\ \E k \in 1 .. FrameLength(c, e) - sent[c][e] :
       /\ InFlight(c, e) + k <= Capacity
       /\ sent' = [sent EXCEPT ![c][e] = @ + k]
  /\ UNCHANGED <<client, server, size, got, linkVars, resultVars>>

\* recv() returns some of what is wanted and has arrived.
Pull(c, e) ==
  /\ Phase(c, e) = "receiving"
  /\ c \notin silent
  /\ ~TooLarge(c, e)
  /\ \E k \in 1 .. InFlight(c, Other(e)) :
       /\ got[c][e] + k <= Wanted(c, e)
       /\ got' = [got EXCEPT ![c][e] = @ + k]
  /\ UNCHANGED <<client, server, size, sent, linkVars, resultVars>>

\* Mutant: what _recv_exact has read when the connection ends passes for a frame.
WholeOrCut(c, e) ==
  /\ ~TooLarge(c, e)
  /\ \/ got[c][e] = FrameLength(c, Other(e))
     \/ got[c][e] > HeaderSize /\ Other(e) \in closed[c] /\ InFlight(c, Other(e)) = 0

\* The whole frame that the other end sends has been read.
Whole(c, e) == ~TooLarge(c, e) /\ got[c][e] = FrameLength(c, Other(e))

\* The other end is gone and has left no byte to read: recv() returns b"", even in
\* the middle of a frame, or raises.
AtEnd(c, e) ==
  /\ c \notin silent
  /\ Other(e) \in closed[c]
  /\ InFlight(c, Other(e)) = 0
  /\ ~Whole(c, e)

\* sendall() finds the connection reset.
Reset(c, e) == c \notin silent /\ Other(e) \in closed[c] /\ sent[c][e] < FrameLength(c, e)

\* What ends a connection early at end e.
Broken(c, e) ==
  \/ Phase(c, e) = "receiving" /\ (AtEnd(c, e) \/ TooLarge(c, e))
  \/ Phase(c, e) = "sending" /\ Reset(c, e)

-----------------------------------------------------------------------------
(* The calling thread: _call_one, TCPTransport.connect, _call_over_tcp. *)

\* resolve() found no peer.
NotFound(c) ==
  /\ client[c] = "idle"
  /\ client' = [client EXCEPT ![c] = "done"]
  /\ outcome' = [outcome EXCEPT ![c] = "not_found"]
  /\ UNCHANGED <<server, streamVars, linkVars, answer, runs>>

Start(c) ==
  /\ client[c] = "idle"
  /\ client' = [client EXCEPT ![c] = "connecting"]
  /\ UNCHANGED <<server, streamVars, linkVars, resultVars>>

\* The connection waits in the listener's backlog; no timeout applies from here on.
Connect(c) ==
  /\ client[c] = "connecting"
  /\ listening
  /\ client' = [client EXCEPT ![c] = "sending"]
  /\ server' = [server EXCEPT ![c] = "queued"]
  /\ UNCHANGED <<streamVars, linkVars, resultVars>>

\* Refused, unreachable, or not established in time.
ConnectFails(c) ==
  /\ client[c] = "connecting"
  /\ client' = [client EXCEPT ![c] = "done"]
  /\ outcome' = [outcome EXCEPT ![c] = "raised"]
  /\ UNCHANGED <<server, streamVars, linkVars, answer, runs>>

ClientSent(c) ==
  /\ client[c] = "sending"
  /\ sent[c]["client"] = FrameLength(c, "client")
  /\ client' = [client EXCEPT ![c] = "receiving"]
  /\ UNCHANGED <<server, streamVars, linkVars, resultVars>>

\* Mutant: the caller leaves its socket open.
LeaveOpen(c, o) ==
  /\ client' = [client EXCEPT ![c] = "done"]
  /\ outcome' = [outcome EXCEPT ![c] = o]
  /\ UNCHANGED <<server, streamVars, linkVars, answer, runs>>

\* The call ends with outcome o: `finally: fs.close()`.
Leave(c, o) ==
  /\ client' = [client EXCEPT ![c] = "done"]
  /\ outcome' = [outcome EXCEPT ![c] = o]
  /\ closed' = [closed EXCEPT ![c] = @ \cup {"client"}]
  /\ UNCHANGED <<server, streamVars, silent, listening, answer, runs>>

ClientReturns(c) ==
  /\ client[c] = "receiving"
  /\ Whole(c, "client")
  /\ Leave(c, answer[c])

\* Mutant: a lost connection is reported the way a failed connect is.
ClientLostAsRaised(c) ==
  /\ Broken(c, "client")
  /\ Leave(c, "raised")

ClientLost(c) ==
  /\ Broken(c, "client")
  /\ Leave(c, "lost")

-----------------------------------------------------------------------------
(* The serving node: _accept_loop, _handle and _on_tcp_connection. *)

Accept(c) ==
  /\ server[c] = "queued"
  /\ listening
  /\ server' = [server EXCEPT ![c] = "receiving"]
  /\ UNCHANGED <<client, streamVars, linkVars, resultVars>>

\* The handler of the request starts.
Serve(c) ==
  /\ server[c] = "receiving"
  /\ Whole(c, "server")
  /\ server' = [server EXCEPT ![c] = "handling"]
  /\ runs' = [runs EXCEPT ![c] = @ + 1]
  /\ UNCHANGED <<client, streamVars, linkVars, outcome, answer>>

\* The handler returns or raises, and the reply has a JSON form.
Finish(c) ==
  /\ server[c] = "handling"
  /\ server' = [server EXCEPT ![c] = "sending"]
  /\ \E k \in Kinds : answer' = [answer EXCEPT ![c] = k]
  /\ UNCHANGED <<client, streamVars, linkVars, outcome, runs>>

\* Mutant: _handle leaves the socket open.
HangUpOpen(c) ==
  /\ server' = [server EXCEPT ![c] = "closed"]
  /\ UNCHANGED <<client, streamVars, linkVars, outcome, runs>>

\* The thread of the connection ends: _handle closes the socket.
HangUp(c) ==
  /\ server' = [server EXCEPT ![c] = "closed"]
  /\ closed' = [closed EXCEPT ![c] = @ \cup {"server"}]
  /\ UNCHANGED <<client, streamVars, silent, listening, outcome, runs>>

\* The handler returned something that has no JSON form: json.dumps raises.
FinishUnsendable(c) ==
  /\ server[c] = "handling"
  /\ answer' = [answer EXCEPT ![c] = "value"]
  /\ HangUp(c)

ServerSent(c) ==
  /\ server[c] = "sending"
  /\ sent[c]["server"] = FrameLength(c, "server")
  /\ HangUp(c)
  /\ UNCHANGED answer

ServerLost(c) ==
  /\ Broken(c, "server")
  /\ HangUp(c)
  /\ UNCHANGED answer

\* stop() closes the listener, and with it the connections nobody accepted yet; the
\* threads of the accepted ones go on.
StopListening ==
  /\ listening
  /\ listening' = FALSE
  /\ server' = [c \in Calls |-> IF server[c] = "queued" THEN "closed" ELSE server[c]]
  /\ closed' = [c \in Calls |-> IF server[c] = "queued" THEN closed[c] \cup {"server"}
                                ELSE closed[c]]
  /\ UNCHANGED <<client, streamVars, silent, resultVars>>

-----------------------------------------------------------------------------
(* Failures (external). *)

\* The connection goes silent: the other host is cut off, and no packet says so.
Cut(c) ==
  /\ c \in Fragile \ silent
  /\ server[c] # "none"
  /\ silent' = silent \cup {c}
  /\ UNCHANGED <<client, server, streamVars, closed, listening, resultVars>>

\* The kernel gives up on bytes that nobody acknowledges, after many minutes.
SendFails(c) ==
  /\ c \in silent
  /\ \/ client[c] = "sending" /\ Leave(c, "lost")
     \/ server[c] = "sending" /\ HangUp(c) /\ UNCHANGED answer

\* The process at end e is killed; its kernel closes the connection.
Kill(c, e) ==
  /\ e \in Mortal \ closed[c]
  /\ server[c] # "none"
  /\ IF e = "client" THEN client' = [client EXCEPT ![c] = "dead"] /\ UNCHANGED server
     ELSE server' = [server EXCEPT ![c] = "closed"] /\ UNCHANGED client
  /\ closed' = [closed EXCEPT ![c] = @ \cup {e}]
  /\ UNCHANGED <<streamVars, silent, listening, resultVars>>

-----------------------------------------------------------------------------
ClientStep(c) ==
  \/ Connect(c) \/ ConnectFails(c) \/ Push(c, "client") \/ ClientSent(c)
  \/ Pull(c, "client") \/ ClientReturns(c) \/ ClientLost(c)

\* What the library does for a connection, apart from the handler.
ServerStep(c) ==
  \/ Accept(c) \/ Pull(c, "server") \/ Serve(c) \/ Push(c, "server")
  \/ ServerSent(c) \/ ServerLost(c)

HandlerReturns(c) == Finish(c) \/ FinishUnsendable(c)

Next ==
  \/ StopListening
  \/ \E c \in Calls :
       \/ NotFound(c) \/ Start(c)
       \/ ClientStep(c) \/ ServerStep(c) \/ HandlerReturns(c)
       \/ Cut(c) \/ SendFails(c) \/ \E e \in Ends : Kill(c, e)

Spec == Init /\ [][Next]_vars

\* The library's threads are scheduled.
LibraryFairness == \A c \in Calls : WF_vars(ClientStep(c)) /\ WF_vars(ServerStep(c))

\* Handlers return.
HandlerFairness == \A c \in Calls : WF_vars(HandlerReturns(c))

LiveSpec == Spec /\ LibraryFairness

-----------------------------------------------------------------------------
(* Properties *)

Types ==
  /\ client \in [Calls -> {"idle", "connecting", "sending", "receiving", "done", "dead"}]
  /\ server \in [Calls -> {"none", "queued", "receiving", "handling", "sending", "closed"}]
  /\ size \in [Calls -> [Ends -> Sizes]]
  /\ sent \in [Calls -> [Ends -> Nat]]
  /\ got \in [Calls -> [Ends -> Nat]]
  /\ closed \in [Calls -> SUBSET Ends]
  /\ silent \in SUBSET Calls
  /\ listening \in BOOLEAN
  /\ outcome \in [Calls -> Kinds \cup {"none", "not_found", "raised", "lost"}]
  /\ answer \in [Calls -> Kinds \cup {"none"}]
  /\ runs \in [Calls -> Nat]

\* ... and a call has an outcome exactly when it is over.
TypeOK == Types /\ \A c \in Calls : client[c] = "done" <=> outcome[c] # "none"

\* A handler runs at most once for a call, and only when the whole request was sent
\* and read and is no longer than TCP_MAX_FRAME; a caller gets an answer only when the
\* whole answer was: a frame cut short by a dying process is never taken for a frame.
WholeFramesOnly ==
  \A c \in Calls :
    /\ runs[c] > 0 => /\ runs[c] = 1
                      /\ size[c]["client"] <= MaxFrame
                      /\ got[c]["server"] = FrameLength(c, "client")
                      /\ sent[c]["client"] = FrameLength(c, "client")
    /\ outcome[c] \in Kinds => /\ size[c]["server"] <= MaxFrame
                               /\ got[c]["client"] = FrameLength(c, "server")
                               /\ sent[c]["server"] = FrameLength(c, "server")

CanPush(c, e) ==
  /\ Phase(c, e) = "sending" /\ c \notin silent /\ Other(e) \notin closed[c]
  /\ sent[c][e] < FrameLength(c, e) /\ InFlight(c, e) < Capacity

CanPull(c, e) ==
  /\ Phase(c, e) = "receiving" /\ c \notin silent /\ ~TooLarge(c, e)
  /\ InFlight(c, Other(e)) > 0 /\ got[c][e] < Wanted(c, e)

\* The thread at end e has a step to take.
GoesOn(c, e) ==
  \/ CanPush(c, e)
  \/ CanPull(c, e)
  \/ Phase(c, e) = "sending" /\ sent[c][e] = FrameLength(c, e)
  \/ Phase(c, e) = "receiving" /\ Whole(c, e)
  \/ Broken(c, e)
  \/ e = "server" /\ server[c] = "handling"
  \/ e = "server" /\ server[c] = "queued" /\ listening

\* No connection comes to a standstill: as long as it is not silent, and one of its two
\* threads is not through, one of them has a step to take.  They never wait for each
\* other, whatever the lengths of the frames and of the buffers between them, whether
\* the other end refuses a frame, hangs up, is killed, or its listener is closed.
NoStandoff ==
  \A c \in Calls \ silent :
    client[c] \in {"sending", "receiving"} \/ server[c] \notin {"none", "closed"} =>
      \E e \in Ends : GoesOn(c, e)

\* All three hold together.
Consistent == TypeOK /\ WholeFramesOnly /\ NoStandoff

Over(c) == client[c] \in {"done", "dead"}

\* If no connection goes silent and handlers return, every call returns, also when a
\* frame is refused for its length, a process is killed, or the buffers are full.
EveryCallReturns ==
  HandlerFairness /\ [](silent = {}) => \A c \in Calls : client[c] = "connecting" ~> Over(c)

\* ... and so does the thread of every connection, whatever became of its caller.
EveryConnectionEnds ==
  HandlerFairness /\ [](silent = {}) =>
    \A c \in Calls : server[c] = "receiving" ~> server[c] = "closed"

\* "timeout: Seconds to wait for a reply before raising PeerTimeoutError"
\* (node.py:288): a call over TCP returns whatever the peer and its handler do.
TimeoutHonoured == \A c \in Calls : client[c] = "connecting" ~> Over(c)

\* Calls over TCP implement the contract of RpcContract.  A connection that is lost
\* after the request began to leave tells the caller as little as a timeout does.
Status(p) == IF p = "idle" THEN "idle" ELSE IF p = "done" THEN "closed" ELSE "open"
Told(o)   == IF o = "lost" THEN "timeout" ELSE o
Given(a)  == {a} \ {"none"}

Contract == INSTANCE RpcContract
  WITH status   <- [c \in Calls |-> Status(client[c])],
       outcome  <- [c \in Calls |-> Told(outcome[c])],
       produced <- [c \in Calls |-> Given(answer[c])]

ImplementsContract == Contract!Spec
=============================================================================
