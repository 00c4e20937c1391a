-------------------------- MODULE LegacyTcpProofs --------------------------
(***************************************************************************)
(* What the TCP server of core.py promises, for any set of connections,    *)
(* any mix of requests and any size of a file.  The inductive invariant    *)
(* says of each connection what its two threads have established: the      *)
(* client how much of its request it sent, the server how much of it it    *)
(* read before it answered.                                                *)
(***************************************************************************)
EXTENDS LegacyTcp, TLAPS

\* What was sent and read in the two directions.
Bytes(c) ==
  /\ up[c].got <= up[c].sent /\ up[c].sent <= HeadSize + Body[c] /\ down[c].got <= down[c].sent
  /\ ask[c] # "stream" \/ client[c] \in {"sending", "reading"} => up[c].sent <= Request(c)
  /\ ask[c] = "put" /\ client[c] # "sending" /\ "client" \notin aborted[c]
       => up[c].sent = Request(c)

\* The calling thread: only a stream stays open after a call that succeeded.
Caller(c) ==
  /\ "client" \in gone[c] => client[c] = "done"
  /\ client[c] = "done" /\ "client" \notin gone[c] => ask[c] = "stream" /\ outcome[c] = "raised"
  /\ "client" \in aborted[c] => client[c] = "done" /\ outcome[c] = "raised"
  /\ outcome[c] = "ok" /\ ask[c] # "stream" => client[c] = "done" /\ reply[c] = "ok"
  /\ client[c] = "streaming" => ask[c] = "stream"
  /\ ask[c] = "none" => client[c] = "done" /\ server[c] = "done" /\ outcome[c] = "none"

\* The thread of the connection: where it is for which request.
Serving(c) ==
  /\ "server" \in gone[c] <=> server[c] = "done"
  /\ server[c] \in {"head", "body", "writing"} => reply[c] = "none"
  /\ server[c] \in {"body", "writing"} => ask[c] = "put"
  /\ server[c] = "handler" => ask[c] = "stream"
  /\ server[c] = "answering" /\ ask[c] = "stream" => reply[c] = "refused"

\* A PUT is answered with 200 when its body was read to the end, or when its client
\* was cut off.
Stored(c) ==
  ask[c] = "put" /\ (server[c] = "writing" \/ reply[c] = "ok")
    => up[c].got = Request(c) \/ "client" \in aborted[c]

\* The request was read before the first unit of an answer; a call of get_file() or
\* put_file() is over only with an answer, or the end of the connection, or a cut.
Heard(c) ==
  /\ server[c] \in {"writing", "answering", "handler"} \/ down[c].sent > 0
       => up[c].got >= Request(c) \/ "client" \in aborted[c]
  /\ ask[c] \in {"get", "put"} /\ client[c] = "done" /\ "client" \notin aborted[c]
       => down[c].sent > 0 \/ server[c] = "done"

\* A client that is still there gets the whole answer, unless the server was cut off.
Answered(c) ==
  /\ ask[c] = "get" /\ server[c] = "done" /\ "server" \notin aborted[c] /\ client[c] # "done"
       => down[c].sent = Answer(c)
  /\ ask[c] = "get" /\ outcome[c] = "ok" /\ down[c].got < Answer(c) => "server" \in aborted[c]

\* A stream handler that does not write first waits for the client's frame.
Waited(c) ==
  /\ ask[c] = "stream" /\ down[c].sent > HeadSize /\ ~eager[c] => up[c].got > HeadSize
  /\ taken[c] > HeadSize => eager[c]

Sound(c) ==
  Bytes(c) /\ Caller(c) /\ Serving(c) /\ Stored(c) /\ Heard(c) /\ Answered(c) /\ Waited(c)

\* Two PUTs that are between truncation and writing at the same time overlapped, and what
\* is in the file then was written by PUTs that overlapped with each of them.
Layered ==
  \A c \in Writing :
    /\ \A d \in Writing \ {c} : Overlapped(c, d)
    /\ \A i \in DOMAIN file :
         file[i] \in Conns /\ Overlapped(c, file[i]) /\ i <= Body[file[i]]

IInv == TypeOK /\ (\A c \in Conns : Sound(c)) /\ Layered /\ MixedFileNeedsCause

USE TcpServerAssumption DEF HeadSize

-----------------------------------------------------------------------------
\* A copy of a part of what a PUT sends.
LEMMA CopyFacts ==
  ASSUME NEW c \in Conns \cup {Old}, NEW n \in Nat
  PROVE  /\ Copy(c, n) \in Seq(Conns \cup {Old}) /\ Len(Copy(c, n)) = n
         /\ \A i \in 1 .. n : Copy(c, n)[i] = c
  BY DEF Copy

\* Writing over the beginning of a file: what is written, then the rest that was there.
LEMMA Overwritten ==
  ASSUME NEW f \in Seq(Conns \cup {Old}), NEW c \in Conns, NEW n \in Nat
  PROVE  /\ WrittenOver(f, c, n) \in Seq(Conns \cup {Old})
         /\ Len(f) <= n => WrittenOver(f, c, n) = Copy(c, n)
         /\ Len(f) > n => Len(f) \in DOMAIN f
         /\ \A i \in DOMAIN WrittenOver(f, c, n) :
              \/ i <= n /\ WrittenOver(f, c, n)[i] = c
              \/ i > n /\ i \in DOMAIN f /\ WrittenOver(f, c, n)[i] = f[i]
<1> DEFINE g == WrittenOver(f, c, n)
           m == IF Len(f) > n THEN Len(f) ELSE n
<1>1. /\ Len(f) \in Nat /\ DOMAIN f = 1 .. Len(f)
      /\ \A i \in 1 .. Len(f) : f[i] \in Conns \cup {Old}
  OBVIOUS
<1>2. (Len(f) > n => m = Len(f)) /\ (~(Len(f) > n) => m = n)
  OBVIOUS
<1>3. g = [i \in 1 .. m |-> IF i <= n THEN c ELSE f[i]]
  BY DEF WrittenOver
<1> HIDE DEF g, m
<1>0. m \in Nat /\ (Len(f) <= n => m = n)
  BY <1>1, <1>2
<1>4. \A i \in 1 .. m : \/ i <= n /\ g[i] = c
                        \/ i > n /\ i \in 1 .. Len(f) /\ g[i] = f[i]
  <2> TAKE i \in 1 .. m
  <2>1. CASE i <= n
    BY <1>3, <2>1
  <2>2. CASE i > n
    <3>1. i \in 1 .. Len(f)
      BY <1>1, <1>2, <2>2
    <3> QED BY <1>0, <1>3, <2>2, <3>1
  <2> QED BY <1>0, <2>1, <2>2
<1>5. DOMAIN g = 1 .. m
  BY <1>3
<1>6. g \in Seq(Conns \cup {Old})
  <2>1. \A i \in 1 .. m : g[i] \in Conns \cup {Old}
    BY <1>1, <1>4
  <2>2. g \in [1 .. m -> Conns \cup {Old}]
    BY <1>3, <2>1
  <2> QED BY <1>0, <2>2
<1>7. ASSUME Len(f) <= n PROVE g = Copy(c, n)
  <2>1. m = n
    BY <1>0, <1>7
  <2> QED BY <1>3, <2>1 DEF Copy
<1>8. Len(f) > n => Len(f) \in DOMAIN f
  BY <1>1
<1> QED BY <1>1, <1>4, <1>5, <1>6, <1>7, <1>8 DEF g

\* Counting a part of a direction keeps its type.
LEMMA Counts ==
  ASSUME NEW f \in [Conns -> [sent : Nat, got : Nat]], NEW c \in Conns, NEW k \in Nat
  PROVE  /\ [f EXCEPT ![c].sent = @ + k] \in [Conns -> [sent : Nat, got : Nat]]
         /\ [f EXCEPT ![c].got = @ + k] \in [Conns -> [sent : Nat, got : Nat]]
<1>1. f[c] \in [sent : Nat, got : Nat] /\ f[c].sent + k \in Nat /\ f[c].got + k \in Nat
  OBVIOUS
<1>2. [f[c] EXCEPT !.sent = @ + k] \in [sent : Nat, got : Nat]
  BY <1>1
<1>3. [f[c] EXCEPT !.got = @ + k] \in [sent : Nat, got : Nat]
  BY <1>1
<1> QED BY <1>2, <1>3

\* So does a further end that closed its socket.
LEMMA Closing ==
  ASSUME NEW f \in [Conns -> SUBSET Ends], NEW c \in Conns, NEW e \in Ends
  PROVE  [f EXCEPT ![c] = @ \cup {e}] \in [Conns -> SUBSET Ends]
  OBVIOUS

\* The variables keep their types.
LEMMA TypeInit == Init => TypeOK
<1> SUFFICES ASSUME Init PROVE TypeOK
  OBVIOUS
<1>1. file \in Seq(Conns \cup {Old})
  BY CopyFacts DEF Init
<1>2. /\ ask \in [Conns -> Kinds] /\ eager \in [Conns -> BOOLEAN]
      /\ client \in [Conns -> {"sending", "reading", "streaming", "done"}]
      /\ server \in [Conns -> {"head", "body", "writing", "handler", "answering", "done"}]
  BY DEF Init
<1>3. /\ up \in [Conns -> [sent : Nat, got : Nat]] /\ down \in [Conns -> [sent : Nat, got : Nat]]
      /\ reply \in [Conns -> Replies] /\ size \in [Conns -> Nat]
      /\ gone \in [Conns -> SUBSET Ends] /\ aborted \in [Conns -> SUBSET Ends]
      /\ outcome \in [Conns -> {"none", "ok", "raised"}] /\ taken \in [Conns -> Nat]
      /\ over \in [Conns -> SUBSET Conns]
  BY DEF Init, Replies, Ends, Nothing
<1> QED BY <1>1, <1>2, <1>3 DEF TypeOK

LEMMA TypeStep == TypeOK /\ [Next]_vars => TypeOK'
<1> SUFFICES ASSUME TypeOK, [Next]_vars PROVE TypeOK'
  OBVIOUS
<1> USE DEF TypeOK, Replies, Ends
<1>1. CASE UNCHANGED vars
  BY <1>1 DEF vars, kindVars, fileVars
<1>2. ASSUME NEW c \in Conns, ClientStep(c) PROVE TypeOK'
  <2> USE DEF kindVars, fileVars
  <2>0. up[c].sent \in Nat /\ Request(c) \in Nat /\ down[c].sent \in Nat /\ down[c].got \in Nat
    BY DEF Request
  <2>1. CASE ClientSends(c)
    <3>0. PICK k \in 1 .. (IF client[c] = "sending" THEN Request(c) ELSE HeadSize + Body[c]) - up[c].sent :
            up' = [up EXCEPT ![c].sent = @ + k]
      BY <2>1 DEF ClientSends
    <3>1. up' \in [Conns -> [sent : Nat, got : Nat]]
      <4>1. k \in Nat BY <2>0
      <4> QED BY <3>0, <4>1, Counts
    <3>2. client' \in [Conns -> {"sending", "reading", "streaming", "done"}]
      BY <2>1 DEF ClientSends
    <3> QED BY <2>1, <3>1, <3>2 DEF ClientSends
  <2>2. CASE ClientReads(c)
    <3>0. PICK k \in 1 .. down[c].sent - down[c].got : down' = [down EXCEPT ![c].got = @ + k]
      BY <2>2 DEF ClientReads
    <3>1. down' \in [Conns -> [sent : Nat, got : Nat]]
      <4>1. k \in Nat BY <2>0
      <4> QED BY <3>0, <4>1, Counts
    <3> QED BY <2>2, <3>1 DEF ClientReads
  <2>3. CASE ClientReturns(c)
    <3>0. PICK o \in {"ok", "raised"}, to \in {"streaming", "done"} :
            /\ outcome' = [outcome EXCEPT ![c] = o]
            /\ client' = [client EXCEPT ![c] = to]
            /\ gone' \in {gone, [gone EXCEPT ![c] = @ \cup {"client"}]}
      <4>1. CASE ask[c] = "stream"
        BY <2>3, <4>1 DEF ClientReturns
      <4>2. CASE ask[c] # "stream"
        BY <2>3, <4>2 DEF ClientReturns
      <4> QED BY <4>1, <4>2
    <3>1. /\ outcome' \in [Conns -> {"none", "ok", "raised"}]
          /\ client' \in [Conns -> {"sending", "reading", "streaming", "done"}]
      BY <3>0
    <3>3. gone' \in [Conns -> SUBSET Ends]
      <4>1. [gone EXCEPT ![c] = @ \cup {"client"}] \in [Conns -> SUBSET Ends]
        BY Closing
      <4>2. gone' = gone \/ gone' = [gone EXCEPT ![c] = @ \cup {"client"}]
        BY <3>0
      <4> QED BY <4>1, <4>2
    <3>2. taken' \in [Conns -> Nat]
      BY <2>0, <2>3 DEF ClientReturns
    <3> QED BY <2>3, <3>1, <3>2, <3>3 DEF ClientReturns
  <2>4. CASE ClientCloses(c)
    BY <2>4 DEF ClientCloses
  <2>5. CASE ClientFails(c)
    <3>1. gone' = [gone EXCEPT ![c] = @ \cup {"client"}] \/ gone' = gone
      BY <2>5 DEF ClientFails
    <3>2. gone' \in [Conns -> SUBSET Ends]
      <4>1. [gone EXCEPT ![c] = @ \cup {"client"}] \in [Conns -> SUBSET Ends]
        BY Closing
      <4> QED BY <3>1, <4>1
    <3>3. /\ outcome' \in [Conns -> {"none", "ok", "raised"}]
          /\ client' \in [Conns -> {"sending", "reading", "streaming", "done"}]
          /\ aborted' \in [Conns -> SUBSET Ends]
      BY <2>5 DEF ClientFails
    <3> QED BY <2>5, <3>2, <3>3 DEF ClientFails
  <2>6. CASE SocketCollected(c)
    BY <2>6 DEF SocketCollected
  <2> QED BY <1>2, <2>1, <2>2, <2>3, <2>4, <2>5, <2>6 DEF ClientStep
<1>3. ASSUME NEW c \in Conns, ServerStep(c) PROVE TypeOK'
  <2> USE DEF kindVars, fileVars
  <2>0. up[c].sent \in Nat /\ up[c].got \in Nat /\ down[c].sent \in Nat /\ Answer(c) \in Nat
    BY DEF Answer
  <2>1. CASE ServerReads(c)
    <3>0. PICK k \in 1 .. up[c].sent - up[c].got : up' = [up EXCEPT ![c].got = @ + k]
      BY <2>1 DEF ServerReads
    <3>1. up' \in [Conns -> [sent : Nat, got : Nat]]
      <4>1. k \in Nat BY <2>0
      <4> QED BY <3>0, <4>1, Counts
    <3> QED BY <2>1, <3>1 DEF ServerReads
  <2>2. CASE Dispatch(c)
    <3>0. PICK to \in {"body", "handler", "answering"}, r \in Replies :
            /\ server' = [server EXCEPT ![c] = to]
            /\ reply' = [reply EXCEPT ![c] = r]
      <4>1. CASE ask[c] = "put"
        BY <2>2, <4>1 DEF Dispatch
      <4>2. CASE ask[c] # "put"
        BY <2>2, <4>2 DEF Dispatch
      <4> QED BY <4>1, <4>2
    <3>1. /\ server' \in [Conns -> {"head", "body", "writing", "handler", "answering", "done"}]
          /\ reply' \in [Conns -> Replies]
      BY <3>0
    <3>2. size' \in [Conns -> Nat]
      BY <2>2, SMTT(30) DEF Dispatch
    <3> QED BY <2>2, <3>1, <3>2 DEF Dispatch
  <2>3. CASE BodyRead(c)
    <3>0. PICK to \in {"writing", "answering"}, r \in Replies :
            /\ server' = [server EXCEPT ![c] = to]
            /\ reply' = [reply EXCEPT ![c] = r]
      BY <2>3 DEF BodyRead
    <3>1. server' \in [Conns -> {"head", "body", "writing", "handler", "answering", "done"}]
      BY <3>0
    <3>2. reply' \in [Conns -> Replies]
      BY <3>0
    <3>3. file' \in Seq(Conns \cup {Old}) /\ over' \in [Conns -> SUBSET Conns]
      <4>1. \/ file' = file /\ over' = over
            \/ file' = <<>> /\ over' = [over EXCEPT ![c] = Writing]
        BY <2>3 DEF BodyRead
      <4>2. Writing \in SUBSET Conns
        BY DEF Writing
      <4>3. [over EXCEPT ![c] = Writing] \in [Conns -> SUBSET Conns]
        BY <4>2
      <4>4. <<>> \in Seq(Conns \cup {Old})
        OBVIOUS
      <4>5. over \in [Conns -> SUBSET Conns] /\ file \in Seq(Conns \cup {Old})
        OBVIOUS
      <4>6. CASE file' = file /\ over' = over
        BY <4>5, <4>6
      <4>7. CASE file' = <<>> /\ over' = [over EXCEPT ![c] = Writing]
        BY <4>3, <4>4, <4>7
      <4> QED BY <4>1, <4>6, <4>7
    <3> QED BY <2>3, <3>1, <3>2, <3>3 DEF BodyRead
  <2>4. CASE FileWritten(c)
    <3>1. Written(c) \in Nat
      BY DEF Written
    <3>2. file' \in Seq(Conns \cup {Old})
      BY <2>4, <3>1, Overwritten DEF FileWritten
    <3> QED BY <2>4, <3>2 DEF FileWritten
  <2>5. CASE ServerSends(c)
    <3>0. PICK k \in 1 .. Answer(c) - down[c].sent : down' = [down EXCEPT ![c].sent = @ + k]
      BY <2>5 DEF ServerSends
    <3>1. down' \in [Conns -> [sent : Nat, got : Nat]]
      <4>1. k \in Nat BY <2>0
      <4> QED BY <3>0, <4>1, Counts
    <3> QED BY <2>5, <3>1 DEF ServerSends
  <2>6. CASE ServerEnds(c)
    BY <2>6 DEF ServerEnds
  <2>7. CASE ServerFails(c)
    BY <2>7 DEF ServerFails
  <2> QED BY <1>3, <2>1, <2>2, <2>3, <2>4, <2>5, <2>6, <2>7 DEF ServerStep
<1> QED BY <1>1, <1>2, <1>3 DEF Next

-----------------------------------------------------------------------------
\* A step of one connection changes nothing of another.
Same(d) ==
  /\ ask' = ask /\ eager' = eager
  /\ client'[d] = client[d] /\ server'[d] = server[d]
  /\ up'[d] = up[d] /\ down'[d] = down[d] /\ reply'[d] = reply[d] /\ size'[d] = size[d]
  /\ gone'[d] = gone[d] /\ outcome'[d] = outcome[d] /\ taken'[d] = taken[d]
  /\ aborted'[d] = aborted[d]

LEMMA Elsewhere ==
  ASSUME TypeOK, NEW c \in Conns, ClientStep(c) \/ ServerStep(c), NEW d \in Conns \ {c}
  PROVE  Same(d)
<1> USE DEF TypeOK, Same, kindVars
<1>1. CASE ClientStep(c)
  <2>1. CASE ClientSends(c)    BY <2>1 DEF ClientSends
  <2>2. CASE ClientReads(c)    BY <2>2 DEF ClientReads
  <2>3. CASE ClientReturns(c)  BY <2>3, SMTT(30) DEF ClientReturns
  <2>4. CASE ClientCloses(c)   BY <2>4 DEF ClientCloses
  <2>5. CASE ClientFails(c)    BY <2>5 DEF ClientFails
  <2>6. CASE SocketCollected(c) BY <2>6 DEF SocketCollected
  <2> QED BY <1>1, <2>1, <2>2, <2>3, <2>4, <2>5, <2>6 DEF ClientStep
<1>2. CASE ServerStep(c)
  <2>1. CASE ServerReads(c)    BY <2>1 DEF ServerReads
  <2>2. CASE Dispatch(c)
    <3>1. ask[c] = "put" \/ ask[c] # "put"
      OBVIOUS
    <3> QED BY <2>2, <3>1 DEF Dispatch
  <2>3. CASE BodyRead(c)       BY <2>3 DEF BodyRead
  <2>4. CASE FileWritten(c)    BY <2>4 DEF FileWritten
  <2>5. CASE ServerSends(c)    BY <2>5 DEF ServerSends
  <2>6. CASE ServerEnds(c)     BY <2>6 DEF ServerEnds
  <2>7. CASE ServerFails(c)    BY <2>7 DEF ServerFails
  <2> QED BY <1>2, <2>1, <2>2, <2>3, <2>4, <2>5, <2>6, <2>7 DEF ServerStep
<1> QED BY <1>1, <1>2

\* The facts about a connection are about its own part of the state.
LEMMA SameSound == ASSUME NEW d \in Conns, Sound(d), Same(d) PROVE Sound(d)'
<1> USE DEF Same, Sound, Request, Answer
<1>1. Bytes(d)'     BY DEF Bytes
<1>2. Caller(d)'    BY DEF Caller
<1>3. Serving(d)'   BY DEF Serving
<1>4. Stored(d)'    BY DEF Stored
<1>5. Answered(d)'  BY DEF Answered
<1>6. Waited(d)'    BY DEF Waited
<1>7. Heard(d)'     BY DEF Heard
<1> QED BY <1>1, <1>2, <1>3, <1>4, <1>5, <1>6, <1>7

-----------------------------------------------------------------------------
\* What is counted for a connection, before and after a step.
LEMMA Counters ==
  ASSUME TypeOK, TypeOK', NEW c \in Conns
  PROVE  /\ up[c].sent \in Nat /\ up[c].got \in Nat /\ down[c].sent \in Nat /\ down[c].got \in Nat
         /\ up'[c].sent \in Nat /\ up'[c].got \in Nat
         /\ down'[c].sent \in Nat /\ down'[c].got \in Nat
         /\ ask[c] \in Kinds /\ Request(c) \in Nat /\ Answer(c) \in Nat
<1>1. up[c] \in [sent : Nat, got : Nat] /\ down[c] \in [sent : Nat, got : Nat]
  BY DEF TypeOK
<1>2. up'[c] \in [sent : Nat, got : Nat] /\ down'[c] \in [sent : Nat, got : Nat]
  BY DEF TypeOK
<1>3. ask[c] \in Kinds /\ size[c] \in Nat /\ Body[c] \in Nat
  BY DEF TypeOK
<1>4. Request(c) \in Nat /\ Answer(c) \in Nat
  BY <1>3 DEF Request, Answer
<1> QED BY <1>1, <1>2, <1>3, <1>4

-----------------------------------------------------------------------------
\* What a step of the client establishes for its connection.
LEMMA ClientSound ==
  ASSUME TypeOK, TypeOK', NEW c \in Conns, Sound(c), ClientStep(c)
  PROVE  Sound(c)'
<1> DEFINE U == up[c]
           D == down[c]
<1>0. /\ U.sent \in Nat /\ U.got \in Nat /\ D.sent \in Nat /\ D.got \in Nat
      /\ U'.sent \in Nat /\ U'.got \in Nat /\ D'.sent \in Nat /\ D'.got \in Nat
      /\ ask[c] \in Kinds /\ Request(c) \in Nat /\ Answer(c) \in Nat
      /\ client[c] \in {"sending", "reading", "streaming", "done"}
  <2>1. client[c] \in {"sending", "reading", "streaming", "done"}
    BY DEF TypeOK
  <2> QED BY <2>1, Counters
<1>1. CASE ClientSends(c)
  <2>1. PICK k \in 1 .. (IF client[c] = "sending" THEN Request(c) ELSE HeadSize + Body[c]) - U.sent :
          /\ U'.sent = U.sent + k /\ U'.got = U.got
          /\ client'[c] = IF client[c] = "sending" /\ U.sent + k = Request(c)
                          THEN "reading" ELSE client[c]
    BY <1>1 DEF ClientSends, TypeOK
  <2>2. /\ client[c] \in {"sending", "streaming"}
        /\ UNCHANGED <<ask, eager, server, down, reply, size, gone, outcome, taken, aborted>>
    BY <1>1 DEF ClientSends, kindVars
  <2>3. Request(c)' = Request(c) /\ Answer(c)' = Answer(c)
    BY <2>2 DEF Request, Answer
  <2>4. Request(c) <= HeadSize + Body[c]
    BY DEF Request
  <2>5. Bytes(c)'
    BY <1>0, <2>1, <2>2, <2>3, <2>4 DEF Bytes, Sound, Caller
  <2>6. Caller(c)'
    BY <2>1, <2>2 DEF Caller, Sound
  <2>7. Serving(c)' /\ Waited(c)'
    BY <2>1, <2>2 DEF Serving, Waited, Sound
  <2>8. Stored(c)' /\ Answered(c)'
    BY <1>0, <2>1, <2>2, <2>3 DEF Stored, Answered, Sound
  <2>9. Heard(c)'
    BY <1>0, <2>1, <2>2, <2>3 DEF Heard, Sound
  <2> QED BY <2>5, <2>6, <2>7, <2>8, <2>9 DEF Sound
<1>2. CASE ClientReads(c)
  <2>1. PICK k \in 1 .. D.sent - D.got : D'.sent = D.sent /\ D'.got = D.got + k
    BY <1>2 DEF ClientReads, TypeOK
  <2>2. /\ client[c] \in {"reading", "streaming"}
        /\ UNCHANGED <<ask, eager, client, server, up, reply, size, gone, outcome, taken, aborted>>
    BY <1>2 DEF ClientReads, kindVars
  <2>3. Request(c)' = Request(c) /\ Answer(c)' = Answer(c)
    BY <2>2 DEF Request, Answer
  <2>4. Bytes(c)'
    BY <1>0, <2>1, <2>2, <2>3 DEF Bytes, Sound
  <2>5. Caller(c)' /\ Serving(c)' /\ Waited(c)'
    BY <2>1, <2>2 DEF Caller, Serving, Waited, Sound
  <2>6. Stored(c)' /\ Answered(c)'
    BY <1>0, <2>1, <2>2, <2>3 DEF Stored, Answered, Caller, Sound
  <2>7. Heard(c)'
    BY <1>0, <2>1, <2>2, <2>3 DEF Heard, Sound
  <2> QED BY <2>4, <2>5, <2>6, <2>7 DEF Sound
<1>3. CASE ClientReturns(c)
  <2>1. /\ client[c] = "reading" /\ (Enough(c) \/ DownEnds(c))
        /\ UNCHANGED <<ask, eager, server, up, down, reply, size, aborted>>
        /\ taken'[c] = IF ask[c] = "stream" THEN D.got ELSE 0
    BY <1>3 DEF ClientReturns, kindVars, TypeOK
  <2>2. \/ /\ MayPass(c) /\ ask[c] = "stream"
           /\ outcome'[c] = "ok" /\ client'[c] = "streaming" /\ gone'[c] = gone[c]
        \/ /\ MayPass(c) /\ ask[c] # "stream"
           /\ outcome'[c] = "ok" /\ client'[c] = "done" /\ gone'[c] = gone[c] \cup {"client"}
        \/ /\ outcome'[c] = "raised" /\ client'[c] = "done"
           /\ gone'[c] = IF ask[c] = "stream" THEN gone[c] ELSE gone[c] \cup {"client"}
    BY <1>3 DEF ClientReturns, TypeOK
  <2>3. Request(c)' = Request(c) /\ Answer(c)' = Answer(c)
    BY <2>1 DEF Request, Answer
  <2>4. Bytes(c)'
    BY <1>0, <2>1, <2>2, <2>3 DEF Bytes, Sound
  <2>5. Caller(c)'
    BY <2>1, <2>2 DEF Caller, MayPass, Sound
  <2>6. Serving(c)'
    BY <2>1, <2>2 DEF Serving, Sound
  <2>7. Stored(c)'
    BY <1>0, <2>1, <2>2, <2>3 DEF Stored, Sound
  <2>8. Answered(c)'
    <3>1. ask[c] = "get" /\ D.got < Answer(c) => DownEnds(c)
      BY <1>0, <2>1 DEF Enough
    <3>2. ask[c] = "get" /\ DownEnds(c) /\ D.got < Answer(c) => "server" \in aborted[c]
      BY <1>0, <2>1 DEF DownEnds, Answered, Serving, Sound
    <3> QED BY <2>1, <2>2, <2>3, <3>1, <3>2 DEF Answered, Sound
  <2>9. Waited(c)'
    <3>1. ask[c] = "stream" /\ ~eager[c] => D.got <= HeadSize
      BY <1>0, <2>1 DEF Waited, Bytes, Request, Sound
    <3> QED BY <1>0, <2>1, <3>1 DEF Waited, Sound
  <2>10. Heard(c)'
    <3>1. ask[c] \in {"get", "put"} => D.sent > 0 \/ server[c] = "done"
      <4>1. CASE DownEnds(c)
        BY <4>1 DEF DownEnds, Serving, Sound
      <4>2. CASE Enough(c)
        <5>1. ask[c] \in {"get", "put"} => D.got >= HeadSize
          BY <4>2 DEF Enough
        <5>2. D.got <= D.sent
          BY DEF Bytes, Sound
        <5> QED BY <1>0, <5>1, <5>2
      <4> QED BY <2>1, <4>1, <4>2
    <3> QED BY <1>0, <2>1, <2>3, <3>1 DEF Heard, Sound
  <2> QED BY <2>4, <2>5, <2>6, <2>7, <2>8, <2>9, <2>10 DEF Sound
<1>4. CASE ClientCloses(c)
  <2>1. /\ client[c] = "streaming" /\ client'[c] = "done"
        /\ gone'[c] = gone[c] \cup {"client"}
        /\ UNCHANGED <<ask, eager, server, up, down, reply, size, outcome, taken, aborted>>
    BY <1>4 DEF ClientCloses, kindVars, TypeOK
  <2>2. Request(c)' = Request(c) /\ Answer(c)' = Answer(c)
    BY <2>1 DEF Request, Answer
  <2>3. Bytes(c)' /\ Caller(c)' /\ Serving(c)'
    BY <2>1, <2>2 DEF Bytes, Caller, Serving, Sound
  <2>4. Stored(c)' /\ Answered(c)' /\ Waited(c)'
    BY <2>1, <2>2 DEF Stored, Answered, Waited, Sound
  <2>5. Heard(c)'
    BY <2>1, <2>2 DEF Heard, Caller, Sound
  <2> QED BY <2>3, <2>4, <2>5 DEF Sound
<1>5. CASE ClientFails(c)
  <2>1. /\ client[c] \in {"sending", "reading"} /\ client'[c] = "done"
        /\ aborted'[c] = aborted[c] \cup {"client"}
        /\ \/ gone'[c] = gone[c] \cup {"client"}
           \/ ask[c] = "stream" /\ gone'[c] = gone[c]
        /\ outcome'[c] = "raised"
        /\ UNCHANGED <<ask, eager, server, up, down, reply, size, taken>>
    <3>1. \/ gone' = [gone EXCEPT ![c] = @ \cup {"client"}]
          \/ ask[c] = "stream" /\ gone' = gone
      BY <1>5 DEF ClientFails
    <3>2. \/ gone'[c] = gone[c] \cup {"client"}
          \/ ask[c] = "stream" /\ gone'[c] = gone[c]
      <4>1. gone \in [Conns -> SUBSET Ends]
        BY DEF TypeOK
      <4>2. [gone EXCEPT ![c] = @ \cup {"client"}][c] = gone[c] \cup {"client"}
        BY <4>1
      <4> QED BY <3>1, <4>2
    <3> QED BY <1>5, <3>2 DEF ClientFails, kindVars, TypeOK
  <2>2. Request(c)' = Request(c) /\ Answer(c)' = Answer(c)
    BY <2>1 DEF Request, Answer
  <2>3. Bytes(c)'
    BY <2>1, <2>2 DEF Bytes, Sound
  <2>4. Caller(c)' /\ Serving(c)'
    BY <2>1 DEF Caller, Serving, Sound
  <2>5. Stored(c)' /\ Answered(c)' /\ Waited(c)'
    BY <2>1, <2>2 DEF Stored, Answered, Waited, Sound
  <2>6. Heard(c)'
    BY <2>1, <2>2 DEF Heard, Sound
  <2> QED BY <2>3, <2>4, <2>5, <2>6 DEF Sound
<1>6. CASE SocketCollected(c)
  <2>1. /\ client[c] = "done" /\ gone'[c] = gone[c] \cup {"client"}
        /\ UNCHANGED <<ask, eager, client, server, up, down, reply, size, outcome, taken, aborted>>
    BY <1>6 DEF SocketCollected, kindVars, TypeOK
  <2>2. Request(c)' = Request(c) /\ Answer(c)' = Answer(c)
    BY <2>1 DEF Request, Answer
  <2>3. Bytes(c)' /\ Caller(c)' /\ Serving(c)' /\ Heard(c)'
    BY <2>1, <2>2 DEF Bytes, Caller, Serving, Heard, Sound
  <2>4. Stored(c)' /\ Answered(c)' /\ Waited(c)'
    BY <2>1, <2>2 DEF Stored, Answered, Waited, Sound
  <2> QED BY <2>3, <2>4 DEF Sound
<1> QED BY <1>1, <1>2, <1>3, <1>4, <1>5, <1>6 DEF ClientStep

-----------------------------------------------------------------------------
\* What a step of the server establishes for its connection.
LEMMA ServerSound ==
  ASSUME TypeOK, TypeOK', NEW c \in Conns, Sound(c), ServerStep(c)
  PROVE  Sound(c)'
<1> DEFINE U == up[c]
           D == down[c]
<1>0. /\ U.sent \in Nat /\ U.got \in Nat /\ D.sent \in Nat /\ D.got \in Nat
      /\ U'.sent \in Nat /\ U'.got \in Nat /\ D'.sent \in Nat /\ D'.got \in Nat
      /\ ask[c] \in Kinds /\ Request(c) \in Nat /\ Answer(c) \in Nat
      /\ server[c] \in {"head", "body", "writing", "handler", "answering", "done"}
  <2>1. server[c] \in {"head", "body", "writing", "handler", "answering", "done"}
    BY DEF TypeOK
  <2> QED BY <2>1, Counters
<1>r. ask'[c] = ask[c] => Request(c)' = Request(c)
  BY DEF Request
<1>a. UNCHANGED <<ask, reply, size>> => Answer(c)' = Answer(c)
  BY DEF Answer
<1>1. CASE ServerReads(c)
  <2>1. PICK k \in 1 .. U.sent - U.got : U'.sent = U.sent /\ U'.got = U.got + k
    BY <1>1 DEF ServerReads, TypeOK
  <2>2. /\ server[c] \in {"head", "body", "handler"}
        /\ UNCHANGED <<ask, eager, client, server, down, reply, size, gone, outcome, taken, aborted>>
    BY <1>1 DEF ServerReads, kindVars
  <2>3. Bytes(c)'
    BY <1>0, <1>r, <2>1, <2>2 DEF Bytes, Sound
  <2>4. Caller(c)' /\ Serving(c)'
    BY <2>1, <2>2 DEF Caller, Serving, Sound
  <2>5. Stored(c)' /\ Answered(c)'
    BY <1>0, <1>r, <1>a, <2>2 DEF Stored, Answered, Serving, Sound
  <2>6. Waited(c)'
    BY <1>0, <2>1, <2>2 DEF Waited, Sound
  <2>7. Heard(c)'
    BY <1>0, <1>r, <2>1, <2>2 DEF Heard, Sound
  <2> QED BY <2>3, <2>4, <2>5, <2>6, <2>7 DEF Sound
<1>2. CASE Dispatch(c)
  <2>1. /\ server[c] = "head" /\ reply[c] = "none"
        /\ UNCHANGED <<ask, eager, client, up, down, gone, outcome, taken, aborted>>
    BY <1>2 DEF Dispatch, kindVars, Sound, Serving
  <2>2. \/ ask[c] = "put" /\ server'[c] = "body" /\ UNCHANGED <<reply, size>>
        \/ ask[c] = "stream" /\ reply'[c] = "ok" /\ server'[c] = "handler"
        \/ /\ ask[c] # "put" /\ server'[c] = "answering"
           /\ ask[c] = "stream" => reply'[c] = "refused"
    <3>1. CASE ask[c] = "put"
      BY <1>2, <3>1 DEF Dispatch, TypeOK
    <3>2. CASE ask[c] # "put"
      BY <1>2, <3>2 DEF Dispatch, TypeOK
    <3> QED BY <3>1, <3>2
  <2>3. outcome[c] = "ok" => ask[c] = "stream"
    BY <2>1 DEF Caller, Sound
  <2>4. Bytes(c)'
    BY <1>r, <2>1 DEF Bytes, Sound
  <2>5. Caller(c)'
    BY <2>1, <2>2, <2>3 DEF Caller, Sound
  <2>6. Serving(c)'
    BY <2>1, <2>2 DEF Serving, Sound
  <2>7. Stored(c)'
    BY <1>r, <2>1, <2>2 DEF Stored, Sound
  <2>8. Answered(c)' /\ Waited(c)'
    BY <2>1, <2>2, <2>3 DEF Answered, Waited, Sound
  <2>9. Heard(c)'
    <3>1. CASE server'[c] = "body"
      BY <1>r, <2>1, <3>1 DEF Heard, Sound
    <3>2. CASE server'[c] # "body"
      <4>1. ask[c] # "put" /\ Request(c) = HeadSize
        BY <2>2, <3>2 DEF Request
      <4>2. U.got >= HeadSize \/ (ask[c] = "get" /\ "client" \in gone[c])
        BY <1>0, <1>2, <2>1, <4>1 DEF Dispatch, UpEnds, Caller, Kinds, Sound
      <4>3. ask[c] = "get" /\ "client" \in gone[c] => U.got >= Request(c) \/ "client" \in aborted[c]
        BY <2>1 DEF Heard, Caller, Sound
      <4> QED BY <1>0, <1>r, <2>1, <4>1, <4>2, <4>3 DEF Heard, Sound
    <3> QED BY <3>1, <3>2
  <2> QED BY <2>4, <2>5, <2>6, <2>7, <2>8, <2>9 DEF Sound
<1>3. CASE BodyRead(c)
  <2>1. /\ server[c] = "body" /\ reply[c] = "none" /\ ask[c] = "put"
        /\ U.got >= Request(c) \/ UpEnds(c)
        /\ \/ server'[c] = "writing" /\ reply'[c] = "none"
           \/ server'[c] = "answering" /\ reply'[c] = "refused"
        /\ UNCHANGED <<ask, eager, client, up, down, size, gone, outcome, taken, aborted>>
    BY <1>3 DEF BodyRead, kindVars, Sound, Serving, TypeOK
  <2>2. U.got = Request(c) \/ "client" \in aborted[c]
    BY <1>0, <2>1 DEF Bytes, Caller, UpEnds, Sound
  <2>3. Bytes(c)' /\ Stored(c)'
    BY <1>r, <2>1, <2>2 DEF Bytes, Stored, Sound
  <2>4. Caller(c)' /\ Serving(c)'
    BY <2>1 DEF Caller, Serving, Sound
  <2>5. Answered(c)' /\ Waited(c)'
    BY <2>1 DEF Answered, Waited, Sound
  <2>6. Heard(c)'
    BY <1>0, <1>r, <2>1, <2>2 DEF Heard, Sound
  <2> QED BY <2>3, <2>4, <2>5, <2>6 DEF Sound
<1>4. CASE FileWritten(c)
  <2>1. /\ server[c] = "writing" /\ ask[c] = "put"
        /\ server'[c] = "answering" /\ reply'[c] = "ok"
        /\ UNCHANGED <<ask, eager, client, up, down, size, gone, outcome, taken, aborted>>
    BY <1>4 DEF FileWritten, kindVars, Sound, Serving, TypeOK
  <2>2. Bytes(c)' /\ Stored(c)'
    BY <1>r, <2>1 DEF Bytes, Stored, Sound
  <2>3. Caller(c)' /\ Serving(c)'
    BY <2>1 DEF Caller, Serving, Sound
  <2>4. Answered(c)' /\ Waited(c)'
    BY <2>1 DEF Answered, Waited, Sound
  <2>5. Heard(c)'
    BY <1>0, <1>r, <2>1 DEF Heard, Sound
  <2> QED BY <2>2, <2>3, <2>4, <2>5 DEF Sound
<1>5. CASE ServerSends(c)
  <2>1. PICK k \in 1 .. Answer(c) - D.sent :
          /\ D'.sent = D.sent + k /\ D'.got = D.got
          /\ D.sent < HeadSize /\ server[c] = "handler" => D.sent + k <= HeadSize
    BY <1>5 DEF ServerSends, TypeOK
  <2>2. /\ server[c] \in {"answering", "handler"} /\ MayWrite(c)
        /\ UNCHANGED <<ask, eager, client, server, up, reply, size, gone, outcome, taken, aborted>>
    BY <1>5 DEF ServerSends, kindVars
  <2>3. Bytes(c)'
    BY <1>0, <1>r, <2>1, <2>2 DEF Bytes, Sound
  <2>4. Caller(c)' /\ Serving(c)' /\ Stored(c)'
    BY <1>r, <2>2 DEF Caller, Serving, Stored, Sound
  <2>5. Answered(c)'
    BY <1>0, <1>a, <2>1, <2>2 DEF Answered, Sound
  <2>6. Waited(c)'
    <3>1. CASE server[c] = "handler"
      BY <1>0, <2>1, <2>2, <3>1 DEF Waited, MayWrite, Sound
    <3>2. CASE server[c] = "answering"
      <4>1. ask[c] = "stream" => Answer(c) = HeadSize
        BY <3>2 DEF Serving, Answer, Sound
      <4> QED BY <1>0, <2>1, <2>2, <4>1 DEF Waited, Sound
    <3> QED BY <2>2, <3>1, <3>2
  <2>7. Heard(c)'
    BY <1>0, <1>r, <2>1, <2>2 DEF Heard, Sound
  <2> QED BY <2>3, <2>4, <2>5, <2>6, <2>7 DEF Sound
<1>6. CASE ServerEnds(c)
  <2>1. /\ server'[c] = "done" /\ gone'[c] = gone[c] \cup {"server"}
        /\ UNCHANGED <<ask, eager, client, up, down, reply, size, outcome, taken, aborted>>
    BY <1>6 DEF ServerEnds, kindVars, TypeOK
  <2>2. ask[c] = "get" => D.sent = Answer(c) \/ client[c] = "done"
    BY <1>0, <1>6 DEF ServerEnds, UpEnds, Caller, Serving, Sound
  <2>3. Bytes(c)' /\ Caller(c)' /\ Serving(c)'
    BY <1>r, <2>1 DEF Bytes, Caller, Serving, Sound
  <2>4. Stored(c)' /\ Waited(c)'
    BY <1>r, <2>1 DEF Stored, Waited, Sound
  <2>5. Answered(c)'
    BY <1>a, <2>1, <2>2 DEF Answered, Sound
  <2>6. Heard(c)'
    BY <1>r, <2>1 DEF Heard, Sound
  <2> QED BY <2>3, <2>4, <2>5, <2>6 DEF Sound
<1>7. CASE ServerFails(c)
  <2>1. /\ server'[c] = "done" /\ gone'[c] = gone[c] \cup {"server"}
        /\ aborted'[c] = aborted[c] \cup {"server"}
        /\ UNCHANGED <<ask, eager, client, up, down, reply, size, outcome, taken>>
    BY <1>7 DEF ServerFails, kindVars, TypeOK
  <2>2. Bytes(c)' /\ Caller(c)' /\ Serving(c)'
    BY <1>r, <2>1 DEF Bytes, Caller, Serving, Sound
  <2>3. Stored(c)' /\ Answered(c)' /\ Waited(c)'
    BY <1>r, <1>a, <2>1 DEF Stored, Answered, Waited, Sound
  <2>4. Heard(c)'
    BY <1>r, <2>1 DEF Heard, Sound
  <2> QED BY <2>2, <2>3, <2>4 DEF Sound
<1> QED BY <1>1, <1>2, <1>3, <1>4, <1>5, <1>6, <1>7 DEF ServerStep

-----------------------------------------------------------------------------
\* What a step does to the file.  A PUT that opens it finds out which others have it open;
\* one that writes it leaves the tail of another only when that one is longer and was
\* written since, that is while both had it open; and no other step touches it.
LEMMA FileStep ==
  ASSUME TypeOK, TypeOK', Layered, MixedFileNeedsCause, NEW c \in Conns, Sound(c), Sound(c)',
         ClientStep(c) \/ ServerStep(c)
  PROVE  Layered' /\ MixedFileNeedsCause'
<1> DEFINE Blamed(d) == ask[d] = "put" /\ (server[d] = "writing" \/ aborted[d] # {})
<1>1. CASE FileWritten(c)
  <2> DEFINE w == Written(c)
  <2>1. /\ c \in Writing /\ Writing' = Writing \ {c}
        /\ file' = WrittenOver(file, c, w)
        /\ UNCHANGED <<ask, aborted, over>>
    BY <1>1 DEF FileWritten, Writing, kindVars, TypeOK
  <2>2. w \in Nat /\ w <= Body[c]
    <3>1. up[c] \in [sent : Nat, got : Nat] /\ Body[c] \in Nat
      BY DEF TypeOK
    <3>2. up[c].sent \in Nat /\ up[c].got \in Nat
      BY <3>1
    <3>3. up[c].got <= up[c].sent /\ up[c].sent <= HeadSize + Body[c]
      BY DEF Sound, Bytes
    <3> QED BY <3>1, <3>2, <3>3 DEF Written
  <2>3. file \in Seq(Conns \cup {Old})
    BY DEF TypeOK
  <2> HIDE DEF w
  <2>4. /\ Len(file) <= w => file' = Copy(c, w)
        /\ Len(file) > w => Len(file) \in DOMAIN file
        /\ \A i \in DOMAIN file' : \/ i <= w /\ file'[i] = c
                                   \/ i > w /\ i \in DOMAIN file /\ file'[i] = file[i]
    BY <2>1, <2>2, <2>3, Overwritten
  <2>5. Layered'
    <3> SUFFICES ASSUME NEW d \in Writing \ {c}
                 PROVE  /\ \A e \in Writing \ {c, d} : Overlapped(d, e)
                        /\ \A i \in DOMAIN file' :
                             /\ file'[i] \in Conns /\ Overlapped(d, file'[i])
                             /\ i <= Body[file'[i]]
      BY <2>1 DEF Layered, Overlapped
    <3>1. \A e \in Writing \ {c, d} : Overlapped(d, e)
      BY DEF Layered
    <3>2. ASSUME NEW i \in DOMAIN file'
          PROVE  file'[i] \in Conns /\ Overlapped(d, file'[i]) /\ i <= Body[file'[i]]
      <4>1. CASE i <= w /\ file'[i] = c
        <5>1. Overlapped(d, c)
          BY <2>1 DEF Layered
        <5>2. i \in Int
          BY <2>3, <3>2 DEF TypeOK
        <5>3. i <= Body[c]
          BY <2>2, <4>1, <5>2
        <5> QED BY <4>1, <5>1, <5>3
      <4>2. CASE i > w /\ i \in DOMAIN file /\ file'[i] = file[i]
        BY <4>2 DEF Layered
      <4> QED BY <2>4, <3>2, <4>1, <4>2
    <3> QED BY <3>1, <3>2
  <2>6. MixedFileNeedsCause'
    <3>1. ask[c] = "put" /\ (up[c].got = Request(c) \/ "client" \in aborted[c])
      BY <1>1 DEF FileWritten, Sound, Serving, Stored
    <3>2. up[c].got = Request(c) => w = Body[c]
      BY <3>1 DEF Request, Written, w
    <3>3. CASE "client" \in aborted[c]
      BY <2>1, <3>1, <3>3 DEF MixedFileNeedsCause
    <3>4. CASE w = Body[c] /\ Len(file) <= w
      BY <2>4, <3>4 DEF MixedFileNeedsCause, Whole
    <3>5. CASE w = Body[c] /\ Len(file) > w
      <4>1. PICK d \in Conns : Overlapped(c, d) /\ Len(file) <= Body[d]
        BY <2>1, <2>4, <3>5 DEF Layered
      <4>2. Body[d] # Body[c]
        <5>1. Len(file) \in Nat /\ Body[d] \in Nat /\ Body[c] \in Nat
          BY <2>3, <4>1
        <5> QED BY <3>5, <4>1, <5>1
      <4>3. Overlapped(c, d)'
        BY <2>1, <4>1 DEF Overlapped
      <4> QED BY <4>1, <4>2, <4>3 DEF MixedFileNeedsCause
    <3> QED BY <2>2, <2>3, <3>1, <3>2, <3>3, <3>4, <3>5
  <2> QED BY <2>5, <2>6
<1>2. CASE BodyRead(c) /\ server'[c] = "writing"
  <2>1. /\ ask'[c] = "put" /\ file' = <<>> /\ c \notin Writing
        /\ over' = [over EXCEPT ![c] = Writing] /\ Writing' = Writing \cup {c}
    BY <1>2, SMTT(30) DEF BodyRead, kindVars, Sound, Serving, Writing, TypeOK
  <2>2. /\ over'[c] = Writing
        /\ \A d \in Conns : d # c => over'[d] = over[d]
    BY <2>1 DEF TypeOK
  <2>3. Writing \subseteq Conns
    BY DEF Writing
  <2>4. ASSUME NEW d \in Writing', NEW e \in Writing' \ {d} PROVE Overlapped(d, e)'
    BY <2>1, <2>2, <2>3, <2>4 DEF Layered, Overlapped
  <2>5. Layered'
    BY <2>1, <2>4 DEF Layered
  <2>6. MixedFileNeedsCause'
    BY <1>2, <2>1 DEF MixedFileNeedsCause
  <2> QED BY <2>5, <2>6
<1>3. CASE ~FileWritten(c) /\ ~(BodyRead(c) /\ server'[c] = "writing")
  <2>1. /\ file' = file /\ over' = over /\ (Blamed(c) => Blamed(c)')
        /\ server'[c] = "writing" => server[c] = "writing"
    <3> USE DEF kindVars, fileVars, TypeOK
    <3>1. CASE ClientSends(c)    BY <3>1 DEF ClientSends
    <3>2. CASE ClientReads(c)    BY <3>2 DEF ClientReads
    <3>3. CASE ClientReturns(c)  BY <3>3 DEF ClientReturns
    <3>4. CASE ClientCloses(c)   BY <3>4 DEF ClientCloses
    <3>5. CASE ClientFails(c)    BY <3>5 DEF ClientFails
    <3>6. CASE SocketCollected(c) BY <3>6 DEF SocketCollected
    <3>7. CASE ServerReads(c)    BY <3>7 DEF ServerReads
    <3>8. CASE Dispatch(c)
      <4>1. server'[c] # "writing" /\ server[c] = "head" /\ UNCHANGED <<ask, aborted, file, over>>
        <5>1. CASE ask[c] = "put" BY <3>8, <5>1 DEF Dispatch
        <5>2. CASE ask[c] # "put" BY <3>8, <5>2 DEF Dispatch
        <5> QED BY <5>1, <5>2
      <4> QED BY <4>1
    <3>9. CASE BodyRead(c)       BY <1>3, <3>9 DEF BodyRead
    <3>10. CASE ServerSends(c)   BY <3>10 DEF ServerSends
    <3>11. CASE ServerEnds(c)    BY <3>11 DEF ServerEnds
    <3>12. CASE ServerFails(c)   BY <3>12 DEF ServerFails
    <3> QED BY <1>3, <3>1, <3>2, <3>3, <3>4, <3>5, <3>6, <3>7, <3>8, <3>9, <3>10, <3>11, <3>12
            DEF ClientStep, ServerStep
  <2>2. \A d \in Conns \ {c} : server'[d] = server[d] /\ (Blamed(d) => Blamed(d)')
    BY Elsewhere DEF Same
  <2>3. Writing' \subseteq Writing
    BY <2>1, <2>2 DEF Writing
  <2>4. Layered'
    BY <2>1, <2>3 DEF Layered, Overlapped
  <2>5. MixedFileNeedsCause'
    BY <2>1, <2>2 DEF MixedFileNeedsCause, Overlapped
  <2> QED BY <2>4, <2>5
<1> QED BY <1>1, <1>2, <1>3

-----------------------------------------------------------------------------
LEMMA InvInit == Init => IInv
<1> SUFFICES ASSUME Init PROVE IInv
  OBVIOUS
<1>1. TypeOK
  BY TypeInit
<1>2. ASSUME NEW c \in Conns PROVE Sound(c)
  <2>1. /\ ask[c] \in Kinds /\ up[c] = Nothing /\ down[c] = Nothing /\ reply[c] = "none"
        /\ outcome[c] = "none" /\ taken[c] = 0 /\ aborted[c] = {}
        /\ \/ /\ ask[c] = "none" /\ client[c] = "done" /\ server[c] = "done" /\ gone[c] = Ends
           \/ /\ ask[c] # "none" /\ client[c] = "sending" /\ server[c] = "head"
              /\ gone[c] = {}
    BY <1>1 DEF Init, TypeOK
  <2>2. Request(c) \in Nat /\ (ask[c] # "put" => Request(c) = HeadSize)
    BY DEF Request
  <2>3. Bytes(c)    BY <2>1, <2>2 DEF Bytes, Nothing
  <2>4. Caller(c)   BY <2>1 DEF Caller, Ends
  <2>5. Serving(c)  BY <2>1 DEF Serving, Ends
  <2>6. Stored(c) /\ Heard(c) /\ Answered(c) /\ Waited(c)
    BY <2>1 DEF Stored, Heard, Answered, Waited, Nothing
  <2> QED BY <2>3, <2>4, <2>5, <2>6 DEF Sound
<1>3. Layered /\ MixedFileNeedsCause
  BY DEF Init, Layered, Writing, MixedFileNeedsCause, Whole
<1> QED BY <1>1, <1>2, <1>3 DEF IInv

LEMMA InvStep == IInv /\ [Next]_vars => IInv'
<1> SUFFICES ASSUME IInv, [Next]_vars PROVE IInv'
  OBVIOUS
<1>1. TypeOK /\ TypeOK'
  BY TypeStep DEF IInv
<1>2. CASE UNCHANGED vars
  <2>1. \A c \in Conns : Same(c)
    BY <1>2 DEF vars, kindVars, Same
  <2>2. Layered' /\ MixedFileNeedsCause'
    BY <1>2 DEF IInv, Layered, Writing, Overlapped, MixedFileNeedsCause, vars, kindVars, fileVars
  <2> QED BY <1>1, <2>1, <2>2, SameSound DEF IInv
<1>3. ASSUME NEW c \in Conns, ClientStep(c) \/ ServerStep(c) PROVE IInv'
  <2>1. Sound(c)'
    BY <1>1, <1>3, ClientSound, ServerSound DEF IInv
  <2>2. \A d \in Conns \ {c} : Sound(d)'
    BY <1>1, <1>3, Elsewhere, SameSound DEF IInv
  <2>3. Layered' /\ MixedFileNeedsCause'
    BY <1>1, <1>3, <2>1, FileStep DEF IInv
  <2> QED BY <1>1, <2>1, <2>2, <2>3 DEF IInv
<1> QED BY <1>2, <1>3 DEF Next

LEMMA Invariance == Spec => []IInv
  BY InvInit, InvStep, PTL DEF Spec

\* The two threads of a connection agree on it: an answer comes after the whole request,
\* and only open_stream() leaves a socket open (core.py 1281-1304, 1342-1358).
THEOREM AlwaysConsistent == Spec => []Consistent
<1>1. ASSUME IInv PROVE RequestFirst /\ SocketsClosed
  BY <1>1 DEF IInv, Sound, Bytes, Heard, Caller, Serving, RequestFirst, SocketsClosed
<1>2. IInv => Consistent
  BY <1>1 DEF IInv, Consistent
<1> QED BY <1>2, Invariance, PTL

\* put_file() reports success for a whole stored file only (core.py 1475-1517).
THEOREM PutIsStored == Spec => []PutMeansStored
<1>1. ASSUME IInv PROVE PutMeansStored
  <2> SUFFICES ASSUME NEW c \in Conns, ask[c] = "put", outcome[c] = "ok"
               PROVE  reply[c] = "ok" /\ Written(c) = Body[c]
    BY DEF PutMeansStored
  <2>1. Sound(c) /\ up[c].got \in Nat
    BY <1>1 DEF IInv, TypeOK
  <2>2. reply[c] = "ok" /\ up[c].got = Request(c)
    BY <2>1 DEF Sound, Caller, Stored
  <2> QED BY <2>1, <2>2 DEF Request, Written
<1> QED BY <1>1, Invariance, PTL

\* Only a server thread that was cut off makes get_file() return a part of the file
\* (core.py 1419-1473).
THEOREM ShortGetIsCut == Spec => []ShortGetNeedsAbort
<1>1. IInv => ShortGetNeedsAbort
  BY DEF IInv, Sound, Answered, ShortGetNeedsAbort
<1> QED BY <1>1, Invariance, PTL

\* A file that is not what one PUT sent is being written, or one end of a PUT was cut off,
\* or two PUTs of different lengths overlapped (core.py 1621-1645).
THEOREM MixedFileHasCause == Spec => []MixedFileNeedsCause
<1>1. IInv => MixedFileNeedsCause
  BY DEF IInv
<1> QED BY <1>1, Invariance, PTL

\* open_stream() loses no frame of a handler that reads first (core.py 1322-1359).
THEOREM OpenTakesAck == Spec => []OpenTakesOnlyAck
<1>1. IInv => OpenTakesOnlyAck
  BY DEF IInv, Sound, Waited, OpenTakesOnlyAck
<1> QED BY <1>1, Invariance, PTL
=============================================================================
