---------------------------- MODULE TcpRpcProofs ----------------------------
(* What TcpRpc guarantees for every set of calls, every frame length and every
   buffer: types, whole frames, and the contract of a unicast call. *)
EXTENDS TcpRpc, Integers, TLAPS

LEMMA OtherEnd ==
  /\ Other("client") = "server" /\ Other("server") = "client"
  /\ "client" \in Ends /\ "server" \in Ends
  /\ \A e \in Ends : e = "client" \/ e = "server"
BY DEF Ends, Other

LEMMA Closing ==
  ASSUME closed \in [Calls -> SUBSET Ends], NEW c \in Calls, NEW e \in Ends
  PROVE  [closed EXCEPT ![c] = @ \cup {e}] \in [Calls -> SUBSET Ends]
<1>1. closed[c] \cup {e} \in SUBSET Ends
  OBVIOUS
<1> QED
  BY <1>1

LEMMA LeaveTypes ==
  ASSUME Types, NEW c \in Calls, NEW o \in Kinds \cup {"none", "raised", "lost"}, Leave(c, o)
  PROVE  Types'
<1>1. [closed EXCEPT ![c] = @ \cup {"client"}] \in [Calls -> SUBSET Ends]
  <2>1. closed \in [Calls -> SUBSET Ends]
    BY DEF Types
  <2> QED
    BY <2>1, Closing, OtherEnd
<1>2. closed' \in [Calls -> SUBSET Ends]
  BY <1>1 DEF Leave
<1>3. /\ client' \in [Calls -> {"idle", "connecting", "sending", "receiving", "done", "dead"}]
      /\ outcome' \in [Calls -> Kinds \cup {"none", "not_found", "raised", "lost"}]
  BY DEF Leave, Types
<1> QED
  BY <1>2, <1>3 DEF Leave, Types, streamVars

LEMMA HangUpTypes ==
  ASSUME Types, NEW c \in Calls, HangUp(c), answer' \in [Calls -> Kinds \cup {"none"}]
  PROVE  Types'
<1>1. [closed EXCEPT ![c] = @ \cup {"server"}] \in [Calls -> SUBSET Ends]
  <2>1. closed \in [Calls -> SUBSET Ends]
    BY DEF Types
  <2> QED
    BY <2>1, Closing, OtherEnd
<1>2. closed' \in [Calls -> SUBSET Ends]
  BY <1>1 DEF HangUp
<1>3. server' \in [Calls -> {"none", "queued", "receiving", "handling", "sending", "closed"}]
  BY DEF HangUp, Types
<1> QED
  BY <1>2, <1>3 DEF HangUp, Types, streamVars

\* Every step keeps the types.
LEMMA TypeStep == Types /\ [Next]_vars => Types'
<1> SUFFICES ASSUME Types, [Next]_vars PROVE Types'
  OBVIOUS
<1> USE DEF streamVars, linkVars, resultVars
<1>1. ASSUME NEW c \in Calls, NEW e \in Ends, Push(c, e) PROVE Types'
  BY <1>1, TcpAssumption, OtherEnd DEF TcpAssumption, Types, Push, FrameLength, InFlight
<1>2. ASSUME NEW c \in Calls, NEW e \in Ends, Pull(c, e) PROVE Types'
  BY <1>2, TcpAssumption, OtherEnd DEF TcpAssumption, Types, Pull, FrameLength, InFlight
<1>3. ASSUME NEW c \in Calls, NotFound(c) \/ Start(c) PROVE Types'
  BY <1>3 DEF Types, NotFound, Start
<1>4. ASSUME NEW c \in Calls, Connect(c) \/ ConnectFails(c) \/ ClientSent(c) PROVE Types'
  BY <1>4 DEF Types, Connect, ConnectFails, ClientSent
<1>5. ASSUME NEW c \in Calls, ClientReturns(c) \/ ClientLost(c) PROVE Types'
  <2>1. answer[c] \in Kinds \cup {"none"}
    BY DEF Types
  <2> QED
    BY <1>5, <2>1, LeaveTypes DEF ClientReturns, ClientLost
<1>6. ASSUME NEW c \in Calls, Accept(c) \/ Serve(c) PROVE Types'
  <2>1. CASE Accept(c)
    BY <2>1 DEF Types, Accept
  <2>2. CASE Serve(c)
    BY <2>2 DEF Types, Serve
  <2> QED
    BY <1>6, <2>1, <2>2
<1>7. ASSUME NEW c \in Calls, ServerSent(c) \/ ServerLost(c) PROVE Types'
  <2>1. answer' \in [Calls -> Kinds \cup {"none"}]
    BY <1>7 DEF Types, ServerSent, ServerLost
  <2> QED
    BY <1>7, <2>1, HangUpTypes DEF ServerSent, ServerLost
<1>8. ASSUME NEW c \in Calls, Finish(c) PROVE Types'
  BY <1>8 DEF Types, Finish
<1>9. ASSUME NEW c \in Calls, FinishUnsendable(c) PROVE Types'
  <2>1. answer' \in [Calls -> Kinds \cup {"none"}]
    BY <1>9 DEF Types, FinishUnsendable, Kinds
  <2> QED
    BY <1>9, <2>1, HangUpTypes DEF FinishUnsendable
<1>10. CASE StopListening
  <2>1. ASSUME NEW c \in Calls PROVE closed[c] \cup {"server"} \in SUBSET Ends
    BY OtherEnd DEF Types
  <2>2. ASSUME NEW c \in Calls PROVE closed[c] \in SUBSET Ends
    BY DEF Types
  <2>3. closed' \in [Calls -> SUBSET Ends]
    BY <1>10, <2>1, <2>2 DEF StopListening
  <2>4. server' \in [Calls -> {"none", "queued", "receiving", "handling", "sending", "closed"}]
    BY <1>10 DEF StopListening, Types
  <2> QED
    BY <1>10, <2>3, <2>4 DEF StopListening, Types
<1>11. ASSUME NEW c \in Calls, Cut(c) PROVE Types'
  BY <1>11 DEF Types, Cut
<1>12. ASSUME NEW c \in Calls, SendFails(c) PROVE Types'
  <2>1. CASE Leave(c, "lost")
    BY <2>1, LeaveTypes
  <2>2. CASE HangUp(c) /\ UNCHANGED answer
    <3>1. answer' \in [Calls -> Kinds \cup {"none"}]
      BY <2>2 DEF Types
    <3> QED
      BY <2>2, <3>1, HangUpTypes
  <2> QED
    BY <1>12, <2>1, <2>2 DEF SendFails
<1>13. ASSUME NEW c \in Calls, NEW e \in Ends, Kill(c, e) PROVE Types'
  <2>1. [closed EXCEPT ![c] = @ \cup {e}] \in [Calls -> SUBSET Ends]
    <3>1. closed \in [Calls -> SUBSET Ends]
      BY DEF Types
    <3> QED
      BY <3>1, Closing
  <2>2. closed' \in [Calls -> SUBSET Ends]
    BY <1>13, <2>1 DEF Kill
  <2>3. /\ client' \in [Calls -> {"idle", "connecting", "sending", "receiving", "done", "dead"}]
        /\ server' \in [Calls -> {"none", "queued", "receiving", "handling", "sending", "closed"}]
    BY <1>13 DEF Kill, Types
  <2> QED
    BY <1>13, <2>2, <2>3 DEF Kill, Types
<1>14. CASE UNCHANGED vars
  BY <1>14 DEF Types, vars
<1> QED
  BY <1>1, <1>2, <1>3, <1>4, <1>5, <1>6, <1>7, <1>8, <1>9, <1>10, <1>11, <1>12, <1>13, <1>14
  DEF Next, ClientStep, ServerStep, HandlerReturns, Ends

-----------------------------------------------------------------------------
(* The inductive invariant of one connection. *)

\* Bytes are read after they are sent, and never past the end of the frame; of a frame
\* that is too long only the header is read.
StreamInv(c) == \A e \in Ends :
  /\ got[c][e] <= sent[c][Other(e)]
  /\ sent[c][e] <= FrameLength(c, e)
  /\ size[c][Other(e)] > MaxFrame => got[c][e] <= HeaderSize

\* Where the two threads are tells which sockets are open ...
SocketInv(c) ==
  /\ server[c] = "none" <=> \/ client[c] \in {"idle", "connecting"}
                            \/ outcome[c] \in {"not_found", "raised"}
  /\ server[c] = "closed" <=> "server" \in closed[c]
  /\ "client" \in closed[c] <=> \/ client[c] = "dead"
                                \/ client[c] = "done" /\ server[c] # "none"
  /\ client[c] = "done" <=> outcome[c] # "none"

\* ... and how far the call has come.
ProgressInv(c) ==
  /\ server[c] = "none" => sent[c]["client"] = 0
  /\ server[c] \in {"none", "queued", "receiving"} => runs[c] = 0
  /\ server[c] = "handling" => runs[c] > 0
  /\ runs[c] = 0 \/ server[c] = "handling" => answer[c] = "none"
  /\ server[c] = "sending" => answer[c] # "none"
  /\ answer[c] = "none" => sent[c]["server"] = 0
  /\ runs[c] > 0 => /\ runs[c] = 1
                    /\ size[c]["client"] <= MaxFrame
                    /\ got[c]["server"] = FrameLength(c, "client")
  /\ outcome[c] \in Kinds => /\ size[c]["server"] <= MaxFrame
                             /\ got[c]["client"] = FrameLength(c, "server")
                             /\ outcome[c] = answer[c]

CallInv == \A c \in Calls : StreamInv(c) /\ SocketInv(c) /\ ProgressInv(c)

LEMMA Numbers ==
  ASSUME Types
  PROVE  /\ HeaderSize \in Nat \ {0} /\ MaxFrame \in Nat
         /\ \A c \in Calls, e \in Ends :
              size[c][e] \in Nat \ {0} /\ sent[c][e] \in Nat /\ got[c][e] \in Nat
BY TcpAssumption DEF TcpAssumption, Types

LEMMA StreamStep ==
  ASSUME Types, CallInv, [Next]_vars, NEW d \in Calls
  PROVE  StreamInv(d)'
<1>1. /\ sent \in [Calls -> [Ends -> Nat]] /\ got \in [Calls -> [Ends -> Nat]]
  BY DEF Types
<1>2. StreamInv(d)
  BY DEF CallInv
<1>3. ASSUME NEW c \in Calls, NEW e \in Ends, Push(c, e) PROVE StreamInv(d)'
  BY <1>1, <1>2, <1>3, OtherEnd, Numbers DEF StreamInv, Push, FrameLength
<1>4. ASSUME NEW c \in Calls, NEW e \in Ends, Pull(c, e) PROVE StreamInv(d)'
  <2>1. PICK k \in 1 .. InFlight(c, Other(e)) :
               /\ got[c][e] + k <= Wanted(c, e)
               /\ got' = [got EXCEPT ![c][e] = @ + k]
    BY <1>4 DEF Pull
  <2>2. /\ got[c][e] + k <= sent[c][Other(e)]
        /\ size[c][Other(e)] > MaxFrame => got[c][e] + k <= HeaderSize
    <3>1. Other(e) \in Ends /\ Other(Other(e)) = e
      BY OtherEnd
    <3>2. k \in Nat /\ k <= sent[c][Other(e)] - got[c][e]
      BY <2>1, <3>1, Numbers DEF InFlight
    <3>3. size[c][Other(e)] > MaxFrame => got[c][e] <= HeaderSize
      BY DEF CallInv, StreamInv
    <3>4. ~(got[c][e] = HeaderSize /\ size[c][Other(e)] > MaxFrame)
      BY <1>4 DEF Pull, TooLarge
    <3> QED
      BY <2>1, <3>1, <3>2, <3>3, <3>4, Numbers DEF Wanted
  <2> QED
    BY <1>1, <1>2, <1>4, <2>1, <2>2, OtherEnd, Numbers DEF StreamInv, Pull, FrameLength, linkVars
<1>5. CASE UNCHANGED streamVars
  BY <1>2, <1>5 DEF StreamInv, FrameLength, streamVars
<1>6. ASSUME NEW c \in Calls, ~\E e \in Ends : Push(c, e) \/ Pull(c, e),
             \/ NotFound(c) \/ Start(c) \/ ClientStep(c) \/ ServerStep(c)
             \/ HandlerReturns(c) \/ Cut(c) \/ SendFails(c)
             \/ \E e \in Ends : Kill(c, e)
      PROVE  UNCHANGED streamVars
  <2>1. ~Push(c, "client") /\ ~Push(c, "server") /\ ~Pull(c, "client") /\ ~Pull(c, "server")
    BY <1>6, OtherEnd
  <2>2. NotFound(c) \/ Start(c) \/ Cut(c) \/ Finish(c) \/ FinishUnsendable(c)
          => UNCHANGED streamVars
    BY DEF NotFound, Start, Cut, Finish, FinishUnsendable, HangUp
  <2>3. ClientStep(c) => UNCHANGED streamVars
    BY <2>1 DEF ClientStep, Connect, ConnectFails, ClientSent, ClientReturns, ClientLost, Leave
  <2>4. ServerStep(c) => UNCHANGED streamVars
    BY <2>1 DEF ServerStep, Accept, Serve, ServerSent, ServerLost, HangUp
  <2>5. SendFails(c) \/ (\E e \in Ends : Kill(c, e)) => UNCHANGED streamVars
    BY DEF SendFails, Leave, HangUp, Kill
  <2> QED
    BY <1>6, <2>2, <2>3, <2>4, <2>5 DEF HandlerReturns
<1>7. StopListening \/ UNCHANGED vars => UNCHANGED streamVars
  BY DEF StopListening, vars
<1> QED
  BY <1>3, <1>4, <1>5, <1>6, <1>7 DEF Next

\* A whole answer can only be read once the handler has given one.
LEMMA WholeAnswer ==
  ASSUME Types, CallInv, NEW c \in Calls, ClientReturns(c)
  PROVE  /\ answer[c] \in Kinds
         /\ size[c]["server"] <= MaxFrame
         /\ got[c]["client"] = FrameLength(c, "server")
<1>1. got[c]["client"] = FrameLength(c, "server") /\ got[c]["client"] <= sent[c]["server"]
  BY OtherEnd DEF ClientReturns, Whole, CallInv, StreamInv
<1>2. sent[c]["server"] # 0 /\ got[c]["client"] > HeaderSize
  BY <1>1, OtherEnd, Numbers DEF FrameLength
<1>3. size[c]["server"] > MaxFrame => got[c]["client"] <= HeaderSize
  BY OtherEnd DEF CallInv, StreamInv
<1>4. answer[c] # "none"
  BY <1>2 DEF CallInv, ProgressInv
<1> QED
  BY <1>1, <1>2, <1>3, <1>4, OtherEnd, Numbers DEF Types

\* ... and a whole request only if it is no longer than a reader accepts.
LEMMA WholeRequest ==
  ASSUME Types, CallInv, NEW c \in Calls, Serve(c)
  PROVE  /\ size[c]["client"] <= MaxFrame
         /\ got[c]["server"] = FrameLength(c, "client")
<1>1. got[c]["server"] = FrameLength(c, "client")
  BY OtherEnd DEF Serve, Whole
<1>2. got[c]["server"] > HeaderSize
  BY <1>1, OtherEnd, Numbers DEF FrameLength
<1>3. size[c]["client"] > MaxFrame => got[c]["server"] <= HeaderSize
  BY OtherEnd DEF CallInv, StreamInv
<1> QED
  BY <1>1, <1>2, <1>3, OtherEnd, Numbers

LEMMA SocketStep ==
  ASSUME Types, CallInv, [Next]_vars, NEW d \in Calls
  PROVE  SocketInv(d)'
<1> USE DEF SocketInv, streamVars, linkVars, resultVars, Kinds
<1>1. /\ client \in [Calls -> {"idle", "connecting", "sending", "receiving", "done", "dead"}]
      /\ server \in [Calls -> {"none", "queued", "receiving", "handling", "sending", "closed"}]
      /\ outcome \in [Calls -> Kinds \cup {"none", "not_found", "raised", "lost"}]
      /\ closed \in [Calls -> SUBSET Ends]
      /\ answer \in [Calls -> Kinds \cup {"none"}]
  BY DEF Types
<1>2. SocketInv(d)
  BY DEF CallInv
<1>3. ASSUME NEW c \in Calls, NEW e \in Ends, Push(c, e) PROVE SocketInv(d)'
  BY <1>3, <1>1, <1>2, OtherEnd DEF Push, linkVars, resultVars, Phase
<1>4. ASSUME NEW c \in Calls, NEW e \in Ends, Pull(c, e) PROVE SocketInv(d)'
  BY <1>4, <1>1, <1>2, OtherEnd DEF Pull, linkVars, resultVars, Phase
<1>5. ASSUME NEW c \in Calls, NotFound(c) PROVE SocketInv(d)'
  BY <1>5, <1>1, <1>2, OtherEnd DEF NotFound
<1>6. ASSUME NEW c \in Calls, Start(c) PROVE SocketInv(d)'
  BY <1>6, <1>1, <1>2, OtherEnd DEF Start
<1>7. ASSUME NEW c \in Calls, Connect(c) PROVE SocketInv(d)'
  BY <1>7, <1>1, <1>2, OtherEnd DEF Connect
<1>8. ASSUME NEW c \in Calls, ConnectFails(c) PROVE SocketInv(d)'
  BY <1>8, <1>1, <1>2, OtherEnd DEF ConnectFails
<1>9. ASSUME NEW c \in Calls, ClientSent(c) PROVE SocketInv(d)'
  BY <1>9, <1>1, <1>2, OtherEnd DEF ClientSent
<1>10. ASSUME NEW c \in Calls, ClientReturns(c) PROVE SocketInv(d)'
  BY <1>10, <1>1, <1>2, OtherEnd, WholeAnswer DEF ClientReturns, Leave
<1>11. ASSUME NEW c \in Calls, ClientLost(c) PROVE SocketInv(d)'
  BY <1>11, <1>1, <1>2, OtherEnd DEF ClientLost, Leave, Broken, Phase
<1>12. ASSUME NEW c \in Calls, Accept(c) PROVE SocketInv(d)'
  BY <1>12, <1>1, <1>2, OtherEnd DEF Accept
<1>13. ASSUME NEW c \in Calls, Serve(c) PROVE SocketInv(d)'
  BY <1>13, <1>1, <1>2, OtherEnd DEF Serve
<1>14. ASSUME NEW c \in Calls, Finish(c) PROVE SocketInv(d)'
  BY <1>14, <1>1, <1>2, OtherEnd DEF Finish
<1>15. ASSUME NEW c \in Calls, FinishUnsendable(c) PROVE SocketInv(d)'
  BY <1>15, <1>1, <1>2, OtherEnd DEF FinishUnsendable, HangUp
<1>16. ASSUME NEW c \in Calls, ServerSent(c) PROVE SocketInv(d)'
  BY <1>16, <1>1, <1>2, OtherEnd DEF ServerSent, HangUp
<1>17. ASSUME NEW c \in Calls, ServerLost(c) PROVE SocketInv(d)'
  BY <1>17, <1>1, <1>2, OtherEnd DEF ServerLost, HangUp, Broken, Phase
<1>18. ASSUME NEW c \in Calls, Cut(c) PROVE SocketInv(d)'
  BY <1>18, <1>1, <1>2, OtherEnd DEF Cut
<1>19. ASSUME NEW c \in Calls, SendFails(c) PROVE SocketInv(d)'
  BY <1>19, <1>1, <1>2, OtherEnd DEF SendFails, Leave, HangUp
<1>20. ASSUME NEW c \in Calls, NEW e \in Ends, Kill(c, e) PROVE SocketInv(d)'
  BY <1>20, <1>1, <1>2, OtherEnd DEF Kill
<1>21. CASE StopListening
  BY <1>21, <1>1, <1>2, OtherEnd DEF StopListening
<1>22. CASE UNCHANGED vars
  BY <1>22, <1>1, <1>2, OtherEnd DEF vars
<1> QED
  BY <1>3, <1>4, <1>5, <1>6, <1>7, <1>8, <1>9, <1>10, <1>11, <1>12, <1>13, <1>14, <1>15,
  <1>16, <1>17, <1>18, <1>19, <1>20, <1>21, <1>22 DEF Next, ClientStep, ServerStep,
  HandlerReturns, Ends

LEMMA ProgressStep ==
  ASSUME Types, CallInv, [Next]_vars, NEW d \in Calls
  PROVE  ProgressInv(d)'
<1> USE DEF ProgressInv, FrameLength, streamVars, linkVars, resultVars, Kinds
<1>1. /\ client \in [Calls -> {"idle", "connecting", "sending", "receiving", "done", "dead"}]
      /\ server \in [Calls -> {"none", "queued", "receiving", "handling", "sending", "closed"}]
      /\ outcome \in [Calls -> Kinds \cup {"none", "not_found", "raised", "lost"}]
      /\ answer \in [Calls -> Kinds \cup {"none"}]
      /\ runs \in [Calls -> Nat]
      /\ sent \in [Calls -> [Ends -> Nat]]
      /\ got \in [Calls -> [Ends -> Nat]]
  BY DEF Types
<1>2. ProgressInv(d) /\ SocketInv(d)
  BY DEF CallInv
<1>3. ASSUME NEW c \in Calls, NEW e \in Ends, Push(c, e) PROVE ProgressInv(d)'
  BY <1>3, <1>1, <1>2, OtherEnd DEF Push, linkVars, resultVars, Phase, SocketInv
<1>4. ASSUME NEW c \in Calls, NEW e \in Ends, Pull(c, e) PROVE ProgressInv(d)'
  BY <1>4, <1>1, <1>2, OtherEnd DEF Pull, linkVars, resultVars, Phase, SocketInv
<1>5. ASSUME NEW c \in Calls, NotFound(c) PROVE ProgressInv(d)'
  BY <1>5, <1>1, <1>2, OtherEnd DEF NotFound, SocketInv
<1>6. ASSUME NEW c \in Calls, Start(c) PROVE ProgressInv(d)'
  BY <1>6, <1>1, <1>2, OtherEnd DEF Start
<1>7. ASSUME NEW c \in Calls, Connect(c) PROVE ProgressInv(d)'
  BY <1>7, <1>1, <1>2, OtherEnd DEF Connect, SocketInv
<1>8. ASSUME NEW c \in Calls, ConnectFails(c) PROVE ProgressInv(d)'
  BY <1>8, <1>1, <1>2, OtherEnd DEF ConnectFails, SocketInv
<1>9. ASSUME NEW c \in Calls, ClientSent(c) PROVE ProgressInv(d)'
  BY <1>9, <1>1, <1>2, OtherEnd DEF ClientSent
<1>10. ASSUME NEW c \in Calls, ClientReturns(c) PROVE ProgressInv(d)'
  BY <1>10, <1>1, <1>2, OtherEnd, WholeAnswer DEF ClientReturns, Leave
<1>11. ASSUME NEW c \in Calls, ClientLost(c) PROVE ProgressInv(d)'
  BY <1>11, <1>1, <1>2, OtherEnd DEF ClientLost, Leave, Broken, Phase
<1>12. ASSUME NEW c \in Calls, Accept(c) PROVE ProgressInv(d)'
  BY <1>12, <1>1, <1>2, OtherEnd DEF Accept
<1>13. ASSUME NEW c \in Calls, Serve(c) PROVE ProgressInv(d)'
  <2>1. CASE c = d
    <3>1. runs[d] = 0 /\ answer[d] = "none" /\ outcome[d] \notin Kinds
      BY <1>13, <2>1, <1>2 DEF Serve
    <3>2. runs'[d] = 1 /\ server'[d] = "handling"
      BY <1>13, <2>1, <3>1, <1>1 DEF Serve
    <3>3. size[d]["client"] <= MaxFrame /\ got[d]["server"] = FrameLength(d, "client")
      BY <1>13, <2>1, WholeRequest
    <3>4. UNCHANGED <<size, sent, got, outcome, answer>>
      BY <1>13 DEF Serve
    <3>5. answer[d] = "none" => sent[d]["server"] = 0
      BY <1>2
    <3> QED
      BY <3>1, <3>2, <3>3, <3>4, <3>5
  <2>2. CASE c # d
    BY <1>13, <2>2, <1>1, <1>2 DEF Serve
  <2> QED
    BY <2>1, <2>2
<1>14. ASSUME NEW c \in Calls, Finish(c) PROVE ProgressInv(d)'
  BY <1>14, <1>1, <1>2, OtherEnd DEF Finish
<1>15. ASSUME NEW c \in Calls, FinishUnsendable(c) PROVE ProgressInv(d)'
  BY <1>15, <1>1, <1>2, OtherEnd DEF FinishUnsendable, HangUp
<1>16. ASSUME NEW c \in Calls, ServerSent(c) PROVE ProgressInv(d)'
  BY <1>16, <1>1, <1>2, OtherEnd DEF ServerSent, HangUp
<1>17. ASSUME NEW c \in Calls, ServerLost(c) PROVE ProgressInv(d)'
  BY <1>17, <1>1, <1>2, OtherEnd DEF ServerLost, HangUp, Broken, Phase
<1>18. ASSUME NEW c \in Calls, Cut(c) PROVE ProgressInv(d)'
  BY <1>18, <1>1, <1>2, OtherEnd DEF Cut
<1>19. ASSUME NEW c \in Calls, SendFails(c) PROVE ProgressInv(d)'
  BY <1>19, <1>1, <1>2, OtherEnd DEF SendFails, Leave, HangUp
<1>20. ASSUME NEW c \in Calls, NEW e \in Ends, Kill(c, e) PROVE ProgressInv(d)'
  BY <1>20, <1>1, <1>2, OtherEnd DEF Kill, SocketInv
<1>21. CASE StopListening
  BY <1>21, <1>1, <1>2, OtherEnd DEF StopListening
<1>22. CASE UNCHANGED vars
  BY <1>22, <1>1, <1>2, OtherEnd DEF vars
<1> QED
  BY <1>3, <1>4, <1>5, <1>6, <1>7, <1>8, <1>9, <1>10, <1>11, <1>12, <1>13, <1>14, <1>15,
  <1>16, <1>17, <1>18, <1>19, <1>20, <1>21, <1>22 DEF Next, ClientStep, ServerStep,
  HandlerReturns, Ends

\* The backlog exists while the listener does, and a caller that waits for its answer has
\* sent its whole request.
LinkInv(c) ==
  /\ server[c] = "queued" => listening
  /\ client[c] = "receiving" => sent[c]["client"] = FrameLength(c, "client")

LEMMA LinkStep ==
  ASSUME Types, CallInv, [Next]_vars, NEW d \in Calls, LinkInv(d)
  PROVE  LinkInv(d)'
<1> USE DEF LinkInv, FrameLength, streamVars, linkVars, resultVars
<1>1. /\ client \in [Calls -> {"idle", "connecting", "sending", "receiving", "done", "dead"}]
      /\ server \in [Calls -> {"none", "queued", "receiving", "handling", "sending", "closed"}]
      /\ sent \in [Calls -> [Ends -> Nat]]
  BY DEF Types
<1>2. ASSUME NEW c \in Calls, NotFound(c) \/ Start(c) \/ ConnectFails(c) PROVE LinkInv(d)'
  BY <1>2, <1>1 DEF NotFound, Start, ConnectFails
<1>3. ASSUME NEW c \in Calls, Connect(c) \/ ClientSent(c) PROVE LinkInv(d)'
  BY <1>3, <1>1 DEF Connect, ClientSent
<1>4. ASSUME NEW c \in Calls, NEW e \in Ends, Push(c, e) PROVE LinkInv(d)'
  BY <1>4, <1>1, OtherEnd DEF Push, Phase
<1>5. ASSUME NEW c \in Calls, NEW e \in Ends, Pull(c, e) PROVE LinkInv(d)'
  BY <1>5, <1>1 DEF Pull
<1>6. ASSUME NEW c \in Calls, NEW o, Leave(c, o) PROVE LinkInv(d)'
  BY <1>6, <1>1 DEF Leave
<1>7. ASSUME NEW c \in Calls, HangUp(c) PROVE LinkInv(d)'
  BY <1>7, <1>1 DEF HangUp
<1>8. ASSUME NEW c \in Calls, Accept(c) \/ Serve(c) \/ Finish(c) \/ Cut(c) PROVE LinkInv(d)'
  BY <1>8, <1>1 DEF Accept, Serve, Finish, Cut
<1>9. ASSUME NEW c \in Calls, NEW e \in Ends, Kill(c, e) PROVE LinkInv(d)'
  BY <1>9, <1>1 DEF Kill
<1>10. CASE StopListening
  BY <1>10, <1>1 DEF StopListening
<1>11. CASE UNCHANGED vars
  BY <1>11 DEF vars
<1> QED
  BY <1>2, <1>3, <1>4, <1>5, <1>6, <1>7, <1>8, <1>9, <1>10, <1>11
  DEF Next, ClientStep, ServerStep, HandlerReturns, Ends, ClientReturns, ClientLost,
      FinishUnsendable, ServerSent, ServerLost, SendFails

LEMMA InvHolds == Spec => [](Types /\ CallInv)
<1>1. Init => Types
  BY TcpAssumption, OtherEnd DEF TcpAssumption, Init, Types, Kinds
<1>2. Init => CallInv
  <2> SUFFICES ASSUME Init, NEW c \in Calls
               PROVE  StreamInv(c) /\ SocketInv(c) /\ ProgressInv(c)
    BY DEF CallInv
  <2>1. HeaderSize \in Nat /\ \A e \in Ends : size[c][e] \in Nat
    BY TcpAssumption DEF TcpAssumption, Init
  <2>2. StreamInv(c)
    BY <2>1, OtherEnd DEF Init, StreamInv, FrameLength
  <2>3. SocketInv(c) /\ ProgressInv(c)
    BY OtherEnd DEF Init, SocketInv, ProgressInv, Kinds
  <2> QED
    BY <2>2, <2>3
<1>3. Types /\ CallInv /\ [Next]_vars => CallInv'
  BY StreamStep, SocketStep, ProgressStep DEF CallInv
<1> QED
  BY <1>1, <1>2, <1>3, TypeStep, PTL DEF Spec

LEMMA LinksHold == Spec => [](\A c \in Calls : LinkInv(c))
<1>1. Init => \A c \in Calls : LinkInv(c)
  BY DEF Init, LinkInv
<1>2. ASSUME Types /\ CallInv, \A c \in Calls : LinkInv(c), [Next]_vars
      PROVE  (\A c \in Calls : LinkInv(c))'
  BY <1>2, LinkStep
<1> QED
  BY <1>1, <1>2, InvHolds, PTL DEF Spec

-----------------------------------------------------------------------------
\* Every variable keeps its type, and a call has an outcome exactly when it is over.
THEOREM TypeCorrect == Spec => []TypeOK
<1>1. Types /\ CallInv => TypeOK
  BY DEF TypeOK, CallInv, SocketInv
<1> QED
  BY <1>1, InvHolds, PTL

\* A handler runs at most once per call and only on a whole request; a caller is only
\* given a whole answer: for every frame length, buffer size and point of failure.
THEOREM FramesAreWhole == Spec => []WholeFramesOnly
<1>1. Types /\ CallInv => WholeFramesOnly
  <2> SUFFICES ASSUME Types, CallInv, NEW c \in Calls
               PROVE  /\ runs[c] > 0 => sent[c]["client"] = FrameLength(c, "client")
                      /\ outcome[c] \in Kinds => sent[c]["server"] = FrameLength(c, "server")
    BY DEF WholeFramesOnly, CallInv, ProgressInv
  <2>1. /\ got[c]["server"] <= sent[c]["client"] /\ sent[c]["client"] <= FrameLength(c, "client")
        /\ got[c]["client"] <= sent[c]["server"] /\ sent[c]["server"] <= FrameLength(c, "server")
    BY OtherEnd DEF CallInv, StreamInv
  <2>2. /\ runs[c] > 0 => got[c]["server"] = FrameLength(c, "client")
        /\ outcome[c] \in Kinds => got[c]["client"] = FrameLength(c, "server")
    BY DEF CallInv, ProgressInv
  <2> QED
    BY <2>1, <2>2, OtherEnd, Numbers DEF FrameLength
<1> QED
  BY <1>1, InvHolds, PTL

\* A reader goes on when a byte is on its way to it, when the other end has closed its
\* socket, and when the other end has sent all it had to.
LEMMA ReaderGoesOn ==
  ASSUME Types, NEW c \in Calls \ silent, NEW e \in Ends, StreamInv(c),
         Phase(c, e) = "receiving",
         \/ InFlight(c, Other(e)) > 0
         \/ Other(e) \in closed[c]
         \/ sent[c][Other(e)] = FrameLength(c, Other(e))
  PROVE  GoesOn(c, e)
<1>1. Other(e) \in Ends /\ Other(Other(e)) = e
  BY OtherEnd
<1>2. /\ got[c][e] <= sent[c][Other(e)] /\ sent[c][Other(e)] <= FrameLength(c, Other(e))
      /\ got[c][e] \in Nat /\ sent[c][Other(e)] \in Nat /\ FrameLength(c, Other(e)) \in Nat
      /\ HeaderSize \in Nat
  BY <1>1, Numbers DEF StreamInv, FrameLength
<1>3. CASE TooLarge(c, e)
  BY <1>3 DEF GoesOn, Broken
<1>4. CASE Whole(c, e)
  BY <1>4 DEF GoesOn
<1>5. CASE ~TooLarge(c, e) /\ ~Whole(c, e) /\ InFlight(c, Other(e)) = 0
  <2>1. got[c][e] = sent[c][Other(e)]
    BY <1>1, <1>2, <1>5 DEF InFlight
  <2>2. got[c][e] # FrameLength(c, Other(e))
    BY <1>5 DEF Whole
  <2>3. Other(e) \in closed[c]
    BY <1>5, <2>1, <2>2
  <2> QED
    BY <1>5, <2>3 DEF GoesOn, Broken, AtEnd
<1>6. CASE ~TooLarge(c, e) /\ ~Whole(c, e) /\ InFlight(c, Other(e)) # 0
  <2>1. InFlight(c, Other(e)) > 0 /\ got[c][e] < FrameLength(c, Other(e))
    BY <1>1, <1>2, <1>6 DEF InFlight, Whole
  <2>2. got[c][e] < Wanted(c, e)
    BY <1>2, <2>1 DEF Wanted
  <2> QED
    BY <1>6, <2>1, <2>2 DEF GoesOn, CanPull
<1> QED
  BY <1>3, <1>4, <1>5, <1>6

\* A writer goes on unless the buffer is full and the reader there.
LEMMA WriterGoesOn ==
  ASSUME Types, NEW c \in Calls \ silent, NEW e \in Ends, StreamInv(c),
         Phase(c, e) = "sending",
         Other(e) \in closed[c] \/ InFlight(c, e) < Capacity
  PROVE  GoesOn(c, e)
<1>1. sent[c][e] <= FrameLength(c, e) /\ sent[c][e] \in Nat /\ FrameLength(c, e) \in Nat
  BY Numbers DEF StreamInv, FrameLength
<1>2. CASE sent[c][e] = FrameLength(c, e)
  BY <1>2 DEF GoesOn
<1>3. CASE sent[c][e] < FrameLength(c, e) /\ Other(e) \in closed[c]
  BY <1>3 DEF GoesOn, Broken, Reset
<1>4. CASE sent[c][e] < FrameLength(c, e) /\ Other(e) \notin closed[c]
  BY <1>4 DEF GoesOn, CanPush
<1> QED
  BY <1>1, <1>2, <1>3, <1>4

\* A full buffer has a byte in it.
LEMMA FullBuffer ==
  ASSUME Types, NEW c \in Calls, NEW e \in Ends
  PROVE  InFlight(c, e) < Capacity \/ InFlight(c, e) > 0
<1>1. InFlight(c, e) \in Int
  BY OtherEnd, Numbers DEF InFlight
<1> QED
  BY <1>1, TcpAssumption DEF TcpAssumption

\* Whatever its two threads are at, one of them goes on.
LEMMA ConnectionGoesOn ==
  ASSUME Types, CallInv, NEW c \in Calls \ silent, LinkInv(c),
         client[c] \in {"sending", "receiving"} \/ server[c] \notin {"none", "closed"}
  PROVE  GoesOn(c, "client") \/ GoesOn(c, "server")
<1>1. StreamInv(c) /\ SocketInv(c) /\ ProgressInv(c)
  BY DEF CallInv
<1>2. /\ client[c] \in {"idle", "connecting", "sending", "receiving", "done", "dead"}
      /\ server[c] \in {"none", "queued", "receiving", "handling", "sending", "closed"}
  BY DEF Types
<1>3. Phase(c, "client") = client[c] /\ Phase(c, "server") = server[c]
  BY DEF Phase
<1>4. server[c] # "none"
  BY <1>1 DEF SocketInv
<1>5. CASE server[c] \in {"queued", "handling"}
  BY <1>1, <1>5 DEF LinkInv, GoesOn
<1>6. CASE server[c] = "receiving"
  <2>1. CASE client[c] = "sending"
    BY <1>1, <1>3, <1>6, <2>1, OtherEnd, FullBuffer, WriterGoesOn, ReaderGoesOn
  <2>2. CASE client[c] = "receiving"
    BY <1>1, <1>3, <1>6, <2>2, OtherEnd, ReaderGoesOn DEF LinkInv
  <2>3. CASE client[c] \notin {"sending", "receiving"}
    <3>1. "client" \in closed[c]
      BY <1>1, <1>2, <1>4, <2>3 DEF SocketInv
    <3> QED
      BY <1>1, <1>3, <1>6, <3>1, OtherEnd, ReaderGoesOn
  <2> QED
    BY <2>1, <2>2, <2>3
<1>7. CASE server[c] = "sending"
  <2>1. CASE client[c] = "sending"
    \* The handler ran, so the whole request has been read.
    <3>1. got[c]["server"] = FrameLength(c, "client")
      <4>1. runs[c] > 0
        BY <1>1, <1>7 DEF ProgressInv, Types
      <4> QED
        BY <1>1, <4>1 DEF ProgressInv
    <3>2. sent[c]["client"] = FrameLength(c, "client")
      BY <1>1, <3>1, OtherEnd, Numbers DEF StreamInv, FrameLength
    <3> QED
      BY <1>3, <2>1, <3>2 DEF GoesOn
  <2>2. CASE client[c] = "receiving"
    BY <1>1, <1>3, <1>7, <2>2, OtherEnd, FullBuffer, WriterGoesOn, ReaderGoesOn
  <2>3. CASE client[c] \notin {"sending", "receiving"}
    <3>1. "client" \in closed[c]
      BY <1>1, <1>2, <1>4, <2>3 DEF SocketInv
    <3> QED
      BY <1>1, <1>3, <1>7, <3>1, OtherEnd, WriterGoesOn
  <2> QED
    BY <2>1, <2>2, <2>3
<1>8. CASE server[c] = "closed"
  <2>1. "server" \in closed[c] /\ client[c] \in {"sending", "receiving"}
    BY <1>1, <1>8 DEF SocketInv
  <2> QED
    BY <1>1, <1>3, <2>1, OtherEnd, WriterGoesOn, ReaderGoesOn
<1> QED
  BY <1>2, <1>4, <1>5, <1>6, <1>7, <1>8

\* The caller's thread and the serving thread never wait for each other: for every frame
\* length, every buffer, and every way in which either end stops.
THEOREM NobodyWaitsForNothing == Spec => []NoStandoff
<1>1. Types /\ CallInv /\ (\A c \in Calls : LinkInv(c)) => NoStandoff
  BY ConnectionGoesOn, OtherEnd DEF NoStandoff
<1> QED
  BY <1>1, InvHolds, LinksHold, PTL

\* All of it together, as the runs check it.
THEOREM AlwaysConsistent == Spec => []Consistent
<1>1. TypeOK /\ WholeFramesOnly /\ NoStandoff => Consistent
  BY DEF Consistent
<1> QED
  BY <1>1, TypeCorrect, FramesAreWhole, NobodyWaitsForNothing, PTL

\* Calls over TCP keep the contract of a unicast call: a step of the code is a step
\* of RpcContract or leaves the caller's view alone.
THEOREM ImplementsTheContract == Spec => ImplementsContract
<1> USE DEF Kinds, Status, Told, Given
<1> DEFINE S == [c \in Calls |-> Status(client[c])]
           O == [c \in Calls |-> Told(outcome[c])]
           P == [c \in Calls |-> Given(answer[c])]
<1>1. Init => Contract!Init
  BY DEF Init, Contract!Init
<1>2. Types /\ CallInv /\ [Next]_vars => [Contract!Next]_(Contract!contractVars)
  <2> SUFFICES ASSUME Types, CallInv, [Next]_vars
               PROVE  Contract!Next \/ UNCHANGED <<S, O, P>>
    BY DEF Contract!contractVars
  <2> USE DEF Types
  <2>1. ASSUME NEW c \in Calls, NotFound(c) PROVE Contract!Next
    <3>1. Contract!Refuse(c)
      BY <2>1 DEF NotFound, Contract!Refuse
    <3> QED
      BY <3>1 DEF Contract!Next
  <2>2. ASSUME NEW c \in Calls, Start(c) PROVE Contract!Next
    <3>1. Contract!Open(c)
      BY <2>2 DEF Start, Contract!Open, resultVars
    <3> QED
      BY <3>1 DEF Contract!Next
  <2>3. ASSUME NEW c \in Calls, ConnectFails(c) PROVE Contract!Next
    <3>1. answer[c] = "none"
      BY <2>3 DEF ConnectFails, CallInv, SocketInv, ProgressInv
    <3>2. Contract!Close(c, "raised")
      BY <2>3, <3>1 DEF ConnectFails, Contract!Close, Contract!Kinds, Contract!Unsent
    <3> QED
      BY <3>2 DEF Contract!Next, Contract!Outcomes, Contract!Unsent, Contract!Kinds
  <2>4. ASSUME NEW c \in Calls, ClientReturns(c) PROVE Contract!Next
    <3>1. answer[c] \in Kinds
      BY <2>4, WholeAnswer
    <3>2. PICK o : o = answer[c]
      OBVIOUS
    <3>3. Contract!Close(c, o)
      BY <2>4, <3>1, <3>2 DEF ClientReturns, Leave, Contract!Close, Contract!Kinds, Contract!Unsent
    <3> QED
      BY <3>1, <3>2, <3>3 DEF Contract!Next, Contract!Outcomes, Contract!Unsent, Contract!Kinds
  <2>5. ASSUME NEW c \in Calls, client[c] \in {"sending", "receiving"}, Leave(c, "lost")
        PROVE  Contract!Next
    <3>1. Contract!Close(c, "timeout")
      BY <2>5 DEF Leave, Contract!Close, Contract!Kinds, Contract!Unsent
    <3> QED
      BY <3>1 DEF Contract!Next, Contract!Outcomes, Contract!Unsent, Contract!Kinds
  <2>6. ASSUME NEW c \in Calls, HandlerReturns(c) PROVE Contract!Next
    <3>1. PICK k \in Kinds : answer' = [answer EXCEPT ![c] = k]
      BY <2>6 DEF HandlerReturns, Finish, FinishUnsendable
    <3>2. /\ server[c] = "handling" /\ UNCHANGED <<client, outcome>>
      BY <2>6 DEF HandlerReturns, Finish, FinishUnsendable, HangUp
    <3>3. answer[c] = "none" /\ client[c] # "idle" /\ outcome[c] \notin {"not_found", "raised"}
      BY <3>2 DEF CallInv, SocketInv, ProgressInv
    <3>4. Contract!Produce(c, k)
      BY <3>1, <3>2, <3>3 DEF Contract!Produce, Contract!Unsent
    <3> QED
      BY <3>4 DEF Contract!Next, Contract!Kinds
  <2>7. ASSUME NEW c \in Calls,
               Connect(c) \/ ClientSent(c) \/ (\E e \in Ends : Push(c, e) \/ Pull(c, e) \/ Kill(c, e))
        PROVE  UNCHANGED <<S, O, P>>
    BY <2>7 DEF Connect, ClientSent, Push, Pull, Kill, CallInv, SocketInv, resultVars
  <2>8. ASSUME NEW c \in Calls,
               Accept(c) \/ Serve(c) \/ ServerSent(c) \/ ServerLost(c) \/ Cut(c) \/ StopListening
        PROVE  UNCHANGED <<S, O, P>>
    BY <2>8 DEF Accept, Serve, ServerSent, ServerLost, HangUp, Cut, StopListening, resultVars
  <2>9. ASSUME NEW c \in Calls, ClientLost(c) PROVE Contract!Next
    BY <2>9, <2>5 DEF ClientLost, Broken, Phase
  <2>10. ASSUME NEW c \in Calls, SendFails(c) PROVE Contract!Next \/ UNCHANGED <<S, O, P>>
    BY <2>10, <2>5 DEF SendFails, HangUp
  <2>11. StopListening \/ UNCHANGED vars => UNCHANGED <<S, O, P>>
    BY DEF StopListening, vars, resultVars
  <2> QED
    BY <2>1, <2>2, <2>3, <2>4, <2>6, <2>7, <2>8, <2>9, <2>10, <2>11
    DEF Next, ClientStep, ServerStep, Ends
<1> QED
  BY <1>1, <1>2, InvHolds, PTL DEF Spec, ImplementsContract, Contract!Spec
=============================================================================
