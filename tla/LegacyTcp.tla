----------------------------- MODULE LegacyTcp -----------------------------
(***************************************************************************)
(* The TCP server of core.py: streams (open_stream, register_stream) and   *)
(* file transfer (get_file, put_file) over a small subset of HTTP.  Every  *)
(* connection has a thread of its own at each end.                         *)
(*                                                                         *)
(* TCP is external: a direction of a connection is a reliable byte stream, *)
(* given by the bytes sent and the bytes read.  Bytes are counted in       *)
(* coarse units: a head (a request line and headers, the hello of a        *)
(* stream, or its acknowledgement) has 2, a file or a frame Body[c].       *)
(***************************************************************************)
EXTENDS Integers, Sequences

CONSTANTS Conns,  \* connections
          Asks,   \* what they may be for together; "none": it is not made
          Old,    \* who wrote the file that is there at first
          Body    \* Body[c]: units of the file that c puts, of a frame, of the old file

Kinds == {"none", "get", "put", "stream"}

ASSUME TcpServerAssumption ==
  /\ Old \notin Conns
  /\ Body \in [Conns \cup {Old} -> Nat]
  /\ Asks \subseteq [Conns -> Kinds]

HeadSize == 2

VARIABLES
  ask,      \* ask[c]: what the connection is for
  eager,    \* eager[c]: the stream handler writes before it reads
  client,   \* client[c]: where the calling thread is
  server,   \* server[c]: where the thread of the connection is
  up, down, \* [sent, got] of the two directions
  reply,    \* reply[c]: what the server answers, see Replies
  size,     \* size[c]: units of the file that a GET is answered with
  gone,     \* gone[c]: the ends that closed their socket
  outcome,  \* outcome[c]: how the call ended: "none", "ok", "raised"
  taken,    \* taken[c]: units that open_stream() read (history)
  aborted,  \* aborted[c]: the ends that timed out or were killed (history)
  file,     \* the file that GET and PUT are about: who wrote each unit of it
  over      \* over[c]: the PUTs being written when c truncated the file (history)

kindVars == <<ask, eager>>
fileVars == <<file, over>>
vars == <<kindVars, client, server, up, down, reply, size, gone, outcome, taken, aborted,
          fileVars>>

Replies == {"none", "ok", "refused"}  \* 200 or stream_ack; 404, 403 or stream_error
Ends    == {"client", "server"}
Nothing == [sent |-> 0, got |-> 0]
Copy(c, n) == [i \in 1 .. n |-> c]   \* the first n units of what c puts

Init ==
  /\ ask \in Asks
  /\ eager \in [Conns -> BOOLEAN] /\ \A c \in Conns : eager[c] => ask[c] = "stream"
  /\ client = [c \in Conns |-> IF ask[c] = "none" THEN "done" ELSE "sending"]
  /\ server = [c \in Conns |-> IF ask[c] = "none" THEN "done" ELSE "head"]
  /\ up = [c \in Conns |-> Nothing] /\ down = [c \in Conns |-> Nothing]
  /\ reply = [c \in Conns |-> "none"] /\ size = [c \in Conns |-> 0]
  /\ gone = [c \in Conns |-> IF ask[c] = "none" THEN Ends ELSE {}]
  /\ outcome = [c \in Conns |-> "none"]
  /\ taken = [c \in Conns |-> 0] /\ aborted = [c \in Conns |-> {}]
  /\ file = Copy(Old, Body[Old]) /\ over = [c \in Conns |-> {}]

\* Mutant: open_stream() sends a frame too.
RequestWithFrame(c) == IF ask[c] = "get" THEN HeadSize ELSE HeadSize + Body[c]

\* What the client sends before it expects an answer, and what the server sends.
Request(c) == IF ask[c] = "put" THEN HeadSize + Body[c] ELSE HeadSize
Answer(c) ==
  IF reply[c] = "ok" /\ ask[c] = "get" THEN HeadSize + size[c]
  ELSE IF reply[c] = "ok" /\ ask[c] = "stream" THEN HeadSize + Body[c] ELSE HeadSize

\* recv() returns b"".
UpEnds(c)   == "client" \in gone[c] /\ up[c].got = up[c].sent
DownEnds(c) == "server" \in gone[c] /\ down[c].got = down[c].sent

-----------------------------------------------------------------------------
(* The client: get_file, put_file, open_stream *)

\* sendall(): the request, and a frame on an open stream.
ClientSends(c) ==
  /\ client[c] \in {"sending", "streaming"}
  /\ LET total == IF client[c] = "sending" THEN Request(c) ELSE HeadSize + Body[c] IN
     \E k \in 1 .. total - up[c].sent :
       /\ up' = [up EXCEPT ![c].sent = @ + k]
       /\ client' = IF client[c] = "sending" /\ up[c].sent + k = total
                    THEN [client EXCEPT ![c] = "reading"] ELSE client
  /\ UNCHANGED <<kindVars, server, down, reply, size, gone, outcome, taken, aborted,
                 fileVars>>

ClientReads(c) ==
  /\ client[c] \in {"reading", "streaming"}
  /\ ask[c] = "stream" /\ client[c] = "reading" => down[c].got = 0
  /\ \E k \in 1 .. down[c].sent - down[c].got : down' = [down EXCEPT ![c].got = @ + k]
  /\ UNCHANGED <<kindVars, client, server, up, reply, size, gone, outcome, taken, aborted,
                 fileVars>>

\* Mutant: get_file() does not wait for the whole body.
EnoughAtHead(c) == down[c].got >= HeadSize

\* get_file() wants the head and as many units as it announces, put_file() a head;
\* open_stream() takes whatever the first recv() returns for the acknowledgement.
Enough(c) ==
  CASE ask[c] = "get"    -> down[c].got >= HeadSize /\ down[c].got = Answer(c)
    [] ask[c] = "put"    -> down[c].got >= HeadSize
    [] ask[c] = "stream" -> down[c].got > 0

\* With nothing read, or a status other than 200, the call raises.  A connection that
\* ended too early counts by what came: part of a head may hold the 200 or not.  The
\* kind of a stream's answer is not looked at.
MayPass(c) == down[c].got > 0 /\ (reply[c] = "ok" \/ ask[c] = "stream")
MayFail(c) == ~MayPass(c) \/ (down[c].got < HeadSize /\ ask[c] # "stream")

\* get_file() and put_file() close their socket; open_stream() does not, it hands it to
\* the stream, or leaves it open when it raises.
ClientReturns(c) ==
  /\ client[c] = "reading"
  /\ Enough(c) \/ DownEnds(c)
  /\ \/ /\ MayPass(c)
        /\ outcome' = [outcome EXCEPT ![c] = "ok"]
        /\ client' = [client EXCEPT ![c] = IF ask[c] = "stream" THEN "streaming" ELSE "done"]
     \/ /\ MayFail(c)
        /\ outcome' = [outcome EXCEPT ![c] = "raised"]
        /\ client' = [client EXCEPT ![c] = "done"]
  /\ gone' = IF ask[c] = "stream" THEN gone ELSE [gone EXCEPT ![c] = @ \cup {"client"}]
  /\ taken' = [taken EXCEPT ![c] = IF ask[c] = "stream" THEN down[c].got ELSE 0]
  /\ UNCHANGED <<kindVars, server, up, down, reply, size, aborted,
                 fileVars>>

\* The user of an open stream closes it.
ClientCloses(c) ==
  /\ client[c] = "streaming"
  /\ client' = [client EXCEPT ![c] = "done"]
  /\ gone' = [gone EXCEPT ![c] = @ \cup {"client"}]
  /\ UNCHANGED <<kindVars, server, up, down, reply, size, outcome, taken, aborted,
                 fileVars>>

\* A timeout of the socket, which open_stream() leaves open, or the end of the process.
ClientFails(c) ==
  /\ client[c] \in {"sending", "reading"}
  /\ client' = [client EXCEPT ![c] = "done"]
  /\ outcome' = [outcome EXCEPT ![c] = "raised"]
  /\ \/ gone' = [gone EXCEPT ![c] = @ \cup {"client"}]
     \/ ask[c] = "stream" /\ UNCHANGED gone
  /\ aborted' = [aborted EXCEPT ![c] = @ \cup {"client"}]
  /\ UNCHANGED <<kindVars, server, up, down, reply, size, taken, fileVars>>

\* Nobody refers to the socket that open_stream() left open any more, or the process ends.
SocketCollected(c) ==
  /\ client[c] = "done" /\ "client" \notin gone[c]
  /\ gone' = [gone EXCEPT ![c] = @ \cup {"client"}]
  /\ UNCHANGED <<kindVars, client, server, up, down, reply, size, outcome, taken, aborted,
                 fileVars>>

-----------------------------------------------------------------------------
(* The server: _handle_tcp_connection and what it dispatches to *)

\* The first line is read byte by byte, the rest in pieces that may reach into the body.
ServerReads(c) ==
  /\ server[c] \in {"head", "body", "handler"}
  /\ \E k \in 1 .. up[c].sent - up[c].got : up' = [up EXCEPT ![c].got = @ + k]
  /\ UNCHANGED <<kindVars, client, server, down, reply, size, gone, outcome, taken, aborted,
                 fileVars>>

\* Mutant: a PUT is answered as soon as its head is there.
AnswerAtHead(c) ==
  /\ server[c] = "head" /\ up[c].got >= HeadSize
  /\ reply' = [reply EXCEPT ![c] = "ok"]
  /\ size' = [size EXCEPT ![c] = Len(file)]
  /\ server' = [server EXCEPT ![c] = IF ask[c] = "stream" THEN "handler" ELSE "answering"]
  /\ UNCHANGED <<kindVars, client, up, down, gone, outcome, taken, aborted,
                 fileVars>>

\* The request line is there, and the headers are or will never be: a PUT without its
\* Content-Length has an empty body.  The handler, the path or the file may not exist.
Dispatch(c) ==
  /\ server[c] = "head"
  /\ up[c].got >= HeadSize \/ (up[c].got > 0 /\ ask[c] # "stream" /\ UpEnds(c))
  /\ \/ /\ ask[c] = "put"
        /\ server' = [server EXCEPT ![c] = "body"]
        /\ UNCHANGED <<reply, size>>
     \/ /\ ask[c] # "put"
        /\ \E r \in {"ok", "refused"} : reply' = [reply EXCEPT ![c] = r]
        /\ size' = [size EXCEPT ![c] = Len(file)]
        /\ server' = [server EXCEPT ![c] =
                        IF ask[c] = "stream" /\ reply'[c] = "ok" THEN "handler" ELSE "answering"]
  /\ UNCHANGED <<kindVars, client, up, down, gone, outcome, taken, aborted,
                 fileVars>>

\* The connections that are about to write the file.
Writing == {c \in Conns : server[c] = "writing"}

\* Mutant: the file is written from its start without being truncated.
BodyReadKeepingFile(c) ==
  /\ server[c] = "body"
  /\ up[c].got >= Request(c) \/ UpEnds(c)
  /\ server' = [server EXCEPT ![c] = "writing"]
  /\ over' = [over EXCEPT ![c] = Writing]
  /\ UNCHANGED <<kindVars, client, up, down, reply, size, gone, outcome, taken, aborted, file>>

\* write_bytes() truncates the file first, unless the path is refused.
BodyRead(c) ==
  /\ server[c] = "body"
  /\ up[c].got >= Request(c) \/ UpEnds(c)
  /\ \/ /\ server' = [server EXCEPT ![c] = "writing"]
        /\ file' = <<>>
        /\ over' = [over EXCEPT ![c] = Writing]
        /\ UNCHANGED reply
     \/ /\ server' = [server EXCEPT ![c] = "answering"]
        /\ reply' = [reply EXCEPT ![c] = "refused"]
        /\ UNCHANGED fileVars
  /\ UNCHANGED <<kindVars, client, up, down, size, gone, outcome, taken, aborted>>

\* Mutant: the first unit of the body is lost with the head.
WrittenShort(c) == IF up[c].got > HeadSize + 1 THEN up[c].got - HeadSize - 1 ELSE 0

\* The body that was read.
Written(c) == IF up[c].got > HeadSize THEN up[c].got - HeadSize ELSE 0

\* write() replaces the first n units and leaves the rest.
WrittenOver(f, c, n) ==
  [i \in 1 .. (IF Len(f) > n THEN Len(f) ELSE n) |-> IF i <= n THEN c ELSE f[i]]

\* It then writes from the first unit on, over what another PUT wrote since.
FileWritten(c) ==
  /\ server[c] = "writing"
  /\ file' = WrittenOver(file, c, Written(c))
  /\ reply' = [reply EXCEPT ![c] = "ok"]
  /\ server' = [server EXCEPT ![c] = "answering"]
  /\ UNCHANGED <<kindVars, client, up, down, size, gone, outcome, taken, aborted, over>>

\* A stream handler that is not eager writes when the client's first frame is there.
MayWrite(c) == server[c] = "handler" => eager[c] \/ down[c].sent < HeadSize \/ up[c].got > HeadSize

\* sendall(); a stream's acknowledgement is sent before the handler runs.
ServerSends(c) ==
  /\ server[c] \in {"answering", "handler"} /\ "client" \notin gone[c]
  /\ MayWrite(c)
  /\ \E k \in 1 .. Answer(c) - down[c].sent :
       /\ down[c].sent < HeadSize /\ server[c] = "handler" => down[c].sent + k <= HeadSize
       /\ down' = [down EXCEPT ![c].sent = @ + k]
  /\ UNCHANGED <<kindVars, client, server, up, reply, size, gone, outcome, taken, aborted,
                 fileVars>>

\* Everything is sent, the other end has gone, or a stream handler returns: close().
ServerEnds(c) ==
  /\ \/ server[c] \in {"answering", "handler"}
        /\ (down[c].sent = Answer(c) \/ "client" \in gone[c])
     \/ server[c] = "head" /\ UpEnds(c) /\ (up[c].got = 0 \/ ask[c] = "stream")
     \/ server[c] = "handler" /\ down[c].sent >= HeadSize
  /\ server' = [server EXCEPT ![c] = "done"]
  /\ gone' = [gone EXCEPT ![c] = @ \cup {"server"}]
  /\ UNCHANGED <<kindVars, client, up, down, reply, size, outcome, taken, aborted,
                 fileVars>>

\* recv() or sendall() has waited 5 s and raises, or the process ends: close().
ServerFails(c) ==
  /\ server[c] # "done"
  /\ server' = [server EXCEPT ![c] = "done"]
  /\ gone' = [gone EXCEPT ![c] = @ \cup {"server"}]
  /\ aborted' = [aborted EXCEPT ![c] = @ \cup {"server"}]
  /\ UNCHANGED <<kindVars, client, up, down, reply, size, outcome, taken, fileVars>>

-----------------------------------------------------------------------------
ClientStep(c) ==
  \/ ClientSends(c) \/ ClientReads(c) \/ ClientReturns(c) \/ ClientCloses(c) \/ ClientFails(c)
  \/ SocketCollected(c)

ServerStep(c) ==
  \/ ServerReads(c) \/ Dispatch(c) \/ BodyRead(c) \/ FileWritten(c) \/ ServerSends(c)
  \/ ServerEnds(c) \/ ServerFails(c)

Next == \E c \in Conns : ClientStep(c) \/ ServerStep(c)

Spec == Init /\ [][Next]_vars

-----------------------------------------------------------------------------
(* Properties *)

TypeOK ==
  /\ ask \in [Conns -> Kinds] /\ eager \in [Conns -> BOOLEAN]
  /\ client \in [Conns -> {"sending", "reading", "streaming", "done"}]
  /\ server \in [Conns -> {"head", "body", "writing", "handler", "answering", "done"}]
  /\ up \in [Conns -> [sent : Nat, got : Nat]] /\ down \in [Conns -> [sent : Nat, got : Nat]]
  /\ reply \in [Conns -> Replies] /\ size \in [Conns -> Nat]
  /\ gone \in [Conns -> SUBSET Ends] /\ aborted \in [Conns -> SUBSET Ends]
  /\ outcome \in [Conns -> {"none", "ok", "raised"}] /\ taken \in [Conns -> Nat]
  /\ file \in Seq(Conns \cup {Old}) /\ over \in [Conns -> SUBSET Conns]

\* Nothing is read before it was sent, and nothing is answered, a PUT not even refused,
\* before the request was read to its end, unless the client was cut off in it.
RequestFirst ==
  \A c \in Conns :
    /\ up[c].got <= up[c].sent /\ up[c].sent <= HeadSize + Body[c]
    /\ down[c].got <= down[c].sent
    /\ down[c].sent > 0 => up[c].got >= Request(c) \/ "client" \in aborted[c]

\* Every way out of the two threads closes their socket, except that of an open_stream()
\* which raises.
SocketsClosed ==
  \A c \in Conns :
    /\ "server" \in gone[c] <=> server[c] = "done"
    /\ "client" \in gone[c] => client[c] = "done"
    /\ client[c] = "done" /\ "client" \notin gone[c] => ask[c] = "stream" /\ outcome[c] = "raised"

\* Both ends of a connection agree on it.
Consistent == TypeOK /\ RequestFirst /\ SocketsClosed

\* put_file() returns only when the server has written the whole file (which a PUT that
\* overlaps with it may have changed again).
PutMeansStored ==
  \A c \in Conns : ask[c] = "put" /\ outcome[c] = "ok" => reply[c] = "ok" /\ Written(c) = Body[c]

\* get_file() returns less than the server announced only when the server's thread was
\* cut off; nothing in the result says so.
ShortGetNeedsAbort ==
  \A c \in Conns :
    ask[c] = "get" /\ outcome[c] = "ok" /\ down[c].got < Answer(c) => "server" \in aborted[c]

\* The file is what one PUT sent, or what was there before, except while a PUT is being
\* written, after an end of one was cut off, or after two of different lengths overlapped:
\* then it may hold the head of one and the tail of the other.
Whole(f)         == \E c \in Conns \cup {Old} : f = Copy(c, Body[c])
Overlapped(c, d) == d \in over[c] \/ c \in over[d]
MixedFileNeedsCause ==
  \/ Whole(file)
  \/ \E c \in Conns : ask[c] = "put" /\ (server[c] = "writing" \/ aborted[c] # {})
  \/ \E c, d \in Conns : Overlapped(c, d) /\ Body[c] # Body[d]

\* open_stream() takes nothing but the acknowledgement from a stream whose handler does
\* not write first; with one that does, the first frame may be lost with it.
OpenTakesOnlyAck ==
  \A c \in Conns : taken[c] > HeadSize => eager[c]
=============================================================================
