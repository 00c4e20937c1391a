---------------------------- MODULE UdpRpcProofs ----------------------------
(***************************************************************************)
(* What holds of UdpRpc for every number of nodes, workers and calls,      *)
(* every call graph, and every bound on duplicated deliveries.             *)
(***************************************************************************)
EXTENDS UdpRpc, FiniteSetTheorems, TLAPS

\* Facts about the executor's work queue, a sequence of calls.
LEMMA ElementsOfAppend ==
  ASSUME NEW S, NEW s \in Seq(S), NEW e \in S
  PROVE  /\ Append(s, e) \in Seq(S)
         /\ \A x \in Elements(Append(s, e)) : x \in Elements(s) \/ x = e
BY DEF Elements

LEMMA ElementsOfTail ==
  ASSUME NEW S, NEW s \in Seq(S), s # <<>>
  PROVE  /\ Head(s) \in S
         /\ Tail(s) \in Seq(S)
         /\ Head(s) \in Elements(s)
         /\ \A x \in Elements(Tail(s)) : x \in Elements(s)
BY DEF Elements

\* Records of the receive threads and of the workers.
LEMMA IdleRecords == IdleRx \in Rxs /\ IdleJob \in Jobs
BY DEF IdleRx, Rxs, IdleJob, Jobs

LEMMA JobUpdate ==
  ASSUME NEW f \in [Nodes -> [Threads -> Jobs]],
         NEW n \in Nodes, NEW t \in Threads, NEW j \in Jobs
  PROVE  [f EXCEPT ![n] = [f[n] EXCEPT ![t] = j]] \in [Nodes -> [Threads -> Jobs]]
OBVIOUS

\* Every step keeps the types: one case per action.
LEMMA TypeStep == TypeOK /\ [Next]_vars => TypeOK'
<1> USE ConstantsAssumption, NamesAssumption
    DEF Kinds, Phases, Outcomes, Lives
<1> SUFFICES ASSUME TypeOK, [Next]_vars PROVE TypeOK'
  OBVIOUS
<1>1. ASSUME NEW c \in Calls, CallStep(c) PROVE TypeOK'
  <2>1. CASE NotFound(c)
    BY <2>1 DEF NotFound, TypeOK, cellVars, netVars, poolVars, history
  <2>2. CASE RegisterFromUser(c)
    BY <2>2 DEF RegisterFromUser, Register, TypeOK, cellVars, netVars, history
  <2>3. ASSUME NEW t \in Threads, RegisterFromHandler(c, t) PROVE TypeOK'
    <3>1. Caller[c] \in Nodes /\ job[Caller[c]][t] \in Jobs
      BY DEF TypeOK
    <3>2. [job[Caller[c]][t] EXCEPT !.nested = c] \in Jobs
      BY <3>1 DEF Jobs
    <3>3. job' \in [Nodes -> [Threads -> Jobs]]
      BY <2>3, <3>1, <3>2 DEF RegisterFromHandler, TypeOK
    <3> QED
      BY <2>3, <3>3 DEF RegisterFromHandler, Register, TypeOK, cellVars, netVars, history
  <2>4. CASE SendRequest(c)
    BY <2>4 DEF SendRequest, TypeOK, cellVars, poolVars, history
  <2>5. CASE FailToSend(c)
    BY <2>5 DEF FailToSend, TypeOK, cellVars, netVars, poolVars, history
  <2>6. CASE Wake(c)
    BY <2>6 DEF Wake, TypeOK, cellVars, netVars, poolVars, history
  <2>7. CASE Expire(c)
    BY <2>7 DEF Expire, TypeOK, cellVars, netVars, poolVars, history
  <2>8. CASE Return(c)
    BY <2>8 DEF Return, TypeOK, cellVars, netVars, poolVars, history
  <2>9. CASE ReceiveRequest(c)
    <3>1. Callee[c] \in Nodes /\ queue[Callee[c]] \in Seq(Calls)
      BY DEF TypeOK
    <3>2. Append(queue[Callee[c]], c) \in Seq(Calls)
      BY <3>1, ElementsOfAppend
    <3>3. queue' \in [Nodes -> Seq(Calls)]
      BY <2>9, <3>1, <3>2 DEF ReceiveRequest, TypeOK
    <3>4. arrivals' \in [Calls -> Nat]
      BY <2>9 DEF ReceiveRequest, TypeOK
    <3> QED
      BY <2>9, <3>3, <3>4 DEF ReceiveRequest, TypeOK, callerVars, cellVars, history
  <2>10. ASSUME NEW k \in Kinds, ReceiveReply(c, k) PROVE TypeOK'
    <3>1. [call |-> c, reply |-> k, stored |-> FALSE] \in Rxs
      BY DEF Rxs
    <3> QED
      BY <2>10, <3>1 DEF ReceiveReply, TypeOK, callerVars, cellVars, netVars, poolVars, history
  <2> QED
    BY <1>1, <2>1, <2>2, <2>3, <2>4, <2>5, <2>6, <2>7, <2>8, <2>9, <2>10
    DEF CallStep, CallerStep
<1>2. ASSUME NEW n \in Nodes, NodeStep(n) PROVE TypeOK'
  <2>1. CASE StoreReply(n)
    <3>1. rx[n] \in Rxs /\ rx[n].call # NoCall
      BY <2>1 DEF StoreReply, TypeOK
    <3>2. rx[n].call \in Calls /\ rx[n].reply \in Kinds \cup {"none"}
      BY <3>1 DEF Rxs
    <3>3. [rx[n] EXCEPT !.stored = TRUE] \in Rxs
      BY <3>1 DEF Rxs
    <3>4. slot' \in [Calls -> Kinds \cup {"none"}] /\ rx' \in [Nodes -> Rxs]
      BY <2>1, <3>2, <3>3 DEF StoreReply, TypeOK
    <3> QED
      BY <2>1, <3>4 DEF StoreReply, TypeOK, callerVars, netVars, poolVars, history
  <2>2. CASE SetEvent(n)
    <3>1. event' \in [Calls -> BOOLEAN]
      BY <2>2 DEF SetEvent, TypeOK
    <3>2. rx' \in [Nodes -> Rxs]
      BY <2>2, IdleRecords DEF SetEvent, TypeOK
    <3> QED
      BY <2>2, <3>1, <3>2 DEF SetEvent, TypeOK, callerVars, netVars, poolVars, history
  <2>3. ASSUME NEW t \in Threads, Take(n, t) PROVE TypeOK'
    <3>1. queue[n] \in Seq(Calls) /\ queue[n] # <<>>
      BY <2>3 DEF Take, TypeOK
    <3>2. Head(queue[n]) \in Calls /\ Tail(queue[n]) \in Seq(Calls)
      BY <3>1, ElementsOfTail
    <3>3. [IdleJob EXCEPT !.call = Head(queue[n])] \in Jobs
      BY <3>2 DEF IdleJob, Jobs
    <3>4. job' \in [Nodes -> [Threads -> Jobs]]
      BY <2>3, <3>3 DEF Take, TypeOK
    <3>5. queue' \in [Nodes -> Seq(Calls)] /\ runs' \in [Calls -> Nat]
      BY <2>3, <3>2 DEF Take, TypeOK
    <3> QED
      BY <2>3, <3>4, <3>5 DEF Take, TypeOK, callerVars, cellVars, netVars
  <2>4. ASSUME NEW t \in Threads, NEW k \in Kinds, Finish(n, t, k) PROVE TypeOK'
    <3>1. job[n][t] \in Jobs
      BY DEF TypeOK
    <3>2. job[n][t].call \in Calls /\ [job[n][t] EXCEPT !.reply = k] \in Jobs
      BY <2>4, <3>1 DEF Finish, Jobs
    <3>3. job' \in [Nodes -> [Threads -> Jobs]]
      BY <2>4, <3>2 DEF Finish, TypeOK
    <3> QED
      BY <2>4, <3>2, <3>3 DEF Finish, TypeOK, callerVars, cellVars, netVars
  <2>5. ASSUME NEW t \in Threads, Answer(n, t) PROVE TypeOK'
    <3>1. job' \in [Nodes -> [Threads -> Jobs]]
      BY <2>5, IdleRecords DEF Answer, TypeOK
    <3>2. job[n][t].reply \in Kinds /\ job[n][t].call \in Calls
      BY <2>5 DEF Answer, TypeOK, Jobs
    <3>3. replies' \in SUBSET (Calls \X Kinds)
      BY <2>5, <3>2 DEF Answer, TypeOK
    <3> QED
      BY <2>5, <3>1, <3>3 DEF Answer, TypeOK, callerVars, cellVars, history
  <2>6. CASE ShutDownExecutor(n)
    BY <2>6 DEF ShutDownExecutor, TypeOK, callerVars, cellVars, netVars, poolVars, history
  <2>7. CASE CloseSocket(n)
    BY <2>7 DEF CloseSocket, TypeOK, callerVars, cellVars, netVars, poolVars, history
  <2> QED
    BY <1>2, <2>1, <2>2, <2>3, <2>4, <2>5, <2>6, <2>7 DEF NodeStep
<1>3. CASE UNCHANGED vars
  BY <1>3 DEF TypeOK, vars, callerVars, cellVars, netVars, poolVars, history
<1> QED
  BY <1>1, <1>2, <1>3 DEF Next

\* Every variable keeps its type: the RPC state of a node is what node.py declares.
THEOREM TypeCorrect == Spec => []TypeOK
<1>1. Init => TypeOK
  BY ConstantsAssumption, IdleRecords
  DEF Init, TypeOK, Kinds, Phases, Outcomes, Lives
<1> QED
  BY <1>1, TypeStep, PTL DEF Spec

-----------------------------------------------------------------------------
(* The trace from an answer back to a request, and the pending table *)

Traced ==
  /\ TypeOK
  /\ PendingIsInFlight
  /\ RequestsWereSent
  /\ WorkWasRequested
  /\ AnswersWereProduced
  /\ EventsFollowReplies
  /\ OutcomesAreEarned

\* Every step keeps the inductive invariant: one case per action, and in it one
\* step per part of the invariant that the action can disturb.
LEMMA TracedStep == Traced /\ TypeOK' /\ [Next]_vars => Traced'
<1> USE ConstantsAssumption, NamesAssumption DEF Kinds
<1> SUFFICES ASSUME Traced, TypeOK', [Next]_vars PROVE Traced'
  OBVIOUS
<1> USE DEF Traced, TypeOK
<1>1. ASSUME NEW c \in Calls, CallStep(c) PROVE Traced'
  <2>1. CASE NotFound(c)
    <3>1. PendingIsInFlight'
      BY <2>1 DEF NotFound, PendingIsInFlight, InFlight, cellVars, netVars, poolVars, history
    <3>2. RequestsWereSent'
      BY <2>1 DEF NotFound, RequestsWereSent, cellVars, netVars, poolVars, history
    <3>3. EventsFollowReplies'
      BY <2>1 DEF NotFound, EventsFollowReplies, cellVars, netVars, poolVars, history
    <3>4. OutcomesAreEarned'
      BY <2>1 DEF NotFound, OutcomesAreEarned, cellVars, netVars, poolVars, history
    <3>5. WorkWasRequested' /\ AnswersWereProduced'
      BY <2>1 DEF NotFound, WorkWasRequested, AnswersWereProduced, cellVars, netVars, poolVars, history
    <3> QED
      BY <3>1, <3>2, <3>3, <3>4, <3>5
  <2>2. CASE RegisterFromUser(c)
    <3>1. PendingIsInFlight'
      BY <2>2 DEF RegisterFromUser, Register, PendingIsInFlight, InFlight, cellVars, netVars, history
    <3>2. RequestsWereSent'
      BY <2>2 DEF RegisterFromUser, Register, RequestsWereSent, cellVars, netVars, history
    <3>3. EventsFollowReplies'
      BY <2>2 DEF RegisterFromUser, Register, EventsFollowReplies, cellVars, netVars, history
    <3>4. OutcomesAreEarned'
      BY <2>2 DEF RegisterFromUser, Register, OutcomesAreEarned, cellVars, netVars, history
    <3>5. WorkWasRequested' /\ AnswersWereProduced'
      BY <2>2 DEF RegisterFromUser, Register, WorkWasRequested, AnswersWereProduced, cellVars, netVars, history
    <3> QED
      BY <3>1, <3>2, <3>3, <3>4, <3>5
  <2>3. ASSUME NEW t \in Threads, RegisterFromHandler(c, t) PROVE Traced'
    <3>1. PendingIsInFlight'
      BY <2>3 DEF RegisterFromHandler, Register, PendingIsInFlight, InFlight, cellVars, netVars, history
    <3>2. RequestsWereSent'
      BY <2>3 DEF RegisterFromHandler, Register, RequestsWereSent, cellVars, netVars, history
    <3>3. WorkWasRequested'
      BY <2>3 DEF RegisterFromHandler, Register, WorkWasRequested, cellVars, netVars, history
    <3>4. AnswersWereProduced'
      BY <2>3 DEF RegisterFromHandler, Register, AnswersWereProduced, cellVars, netVars, history
    <3>5. EventsFollowReplies'
      BY <2>3 DEF RegisterFromHandler, Register, EventsFollowReplies, cellVars, netVars, history
    <3>6. OutcomesAreEarned'
      BY <2>3 DEF RegisterFromHandler, Register, OutcomesAreEarned, cellVars, netVars, history
    <3> QED
      BY <3>1, <3>2, <3>3, <3>4, <3>5, <3>6
  <2>4. CASE SendRequest(c)
    <3>1. PendingIsInFlight'
      BY <2>4 DEF SendRequest, PendingIsInFlight, InFlight, cellVars, poolVars, history
    <3>2. RequestsWereSent'
      <4>1. phase[c] # "done"
        BY <2>4 DEF SendRequest
      <4>2. outcome[c] = "none"
        BY <4>1 DEF OutcomesAreEarned
      <4> QED
        BY <2>4, <4>2 DEF SendRequest, RequestsWereSent
    <3>3. WorkWasRequested'
      BY <2>4 DEF SendRequest, WorkWasRequested, cellVars, poolVars, history
    <3>4. EventsFollowReplies'
      BY <2>4 DEF SendRequest, EventsFollowReplies, cellVars, poolVars, history
    <3>5. OutcomesAreEarned'
      BY <2>4 DEF SendRequest, OutcomesAreEarned, cellVars, poolVars, history
    <3>6. AnswersWereProduced'
      BY <2>4 DEF SendRequest, AnswersWereProduced, cellVars, poolVars, history
    <3> QED
      BY <3>1, <3>2, <3>3, <3>4, <3>5, <3>6
  <2>5. CASE FailToSend(c)
    <3>1. PendingIsInFlight'
      BY <2>5 DEF FailToSend, PendingIsInFlight, InFlight, cellVars, netVars, poolVars, history
    <3>2. RequestsWereSent'
      BY <2>5 DEF FailToSend, RequestsWereSent, cellVars, netVars, poolVars, history
    <3>3. EventsFollowReplies'
      BY <2>5 DEF FailToSend, EventsFollowReplies, cellVars, netVars, poolVars, history
    <3>4. OutcomesAreEarned'
      BY <2>5 DEF FailToSend, OutcomesAreEarned, cellVars, netVars, poolVars, history
    <3>5. WorkWasRequested' /\ AnswersWereProduced'
      BY <2>5 DEF FailToSend, WorkWasRequested, AnswersWereProduced, cellVars, netVars, poolVars, history
    <3> QED
      BY <3>1, <3>2, <3>3, <3>4, <3>5
  <2>6. CASE Wake(c)
    <3>1. PendingIsInFlight'
      BY <2>6 DEF Wake, PendingIsInFlight, InFlight, cellVars, netVars, poolVars, history
    <3>2. RequestsWereSent'
      BY <2>6 DEF Wake, RequestsWereSent, cellVars, netVars, poolVars, history
    <3>3. EventsFollowReplies'
      BY <2>6 DEF Wake, EventsFollowReplies, cellVars, netVars, poolVars, history
    <3>4. OutcomesAreEarned'
      BY <2>6 DEF Wake, OutcomesAreEarned, cellVars, netVars, poolVars, history
    <3>5. WorkWasRequested' /\ AnswersWereProduced'
      BY <2>6 DEF Wake, WorkWasRequested, AnswersWereProduced, cellVars, netVars, poolVars, history
    <3> QED
      BY <3>1, <3>2, <3>3, <3>4, <3>5
  <2>7. CASE Expire(c)
    <3>1. PendingIsInFlight'
      BY <2>7 DEF Expire, PendingIsInFlight, InFlight, cellVars, netVars, poolVars, history
    <3>2. RequestsWereSent'
      BY <2>7 DEF Expire, RequestsWereSent, cellVars, netVars, poolVars, history
    <3>3. EventsFollowReplies'
      BY <2>7 DEF Expire, EventsFollowReplies, cellVars, netVars, poolVars, history
    <3>4. OutcomesAreEarned'
      BY <2>7 DEF Expire, OutcomesAreEarned, cellVars, netVars, poolVars, history
    <3>5. WorkWasRequested' /\ AnswersWereProduced'
      BY <2>7 DEF Expire, WorkWasRequested, AnswersWereProduced, cellVars, netVars, poolVars, history
    <3> QED
      BY <3>1, <3>2, <3>3, <3>4, <3>5
  <2>8. CASE Return(c)
    <3>1. PendingIsInFlight'
      BY <2>8 DEF Return, PendingIsInFlight, InFlight, cellVars, netVars, poolVars, history
    <3>2. RequestsWereSent'
      BY <2>8 DEF Return, RequestsWereSent, cellVars, netVars, poolVars, history
    <3>3. EventsFollowReplies'
      BY <2>8 DEF Return, EventsFollowReplies, cellVars, netVars, poolVars, history
    <3>4. OutcomesAreEarned'
      BY <2>8 DEF Return, OutcomesAreEarned, AnswersWereProduced, cellVars, netVars, poolVars, history
    <3>5. WorkWasRequested' /\ AnswersWereProduced'
      BY <2>8 DEF Return, WorkWasRequested, AnswersWereProduced, cellVars, netVars, poolVars, history
    <3> QED
      BY <3>1, <3>2, <3>3, <3>4, <3>5
  <2>9. CASE ReceiveRequest(c)
    <3>1. WorkWasRequested'
      <4>1. /\ Callee[c] \in Nodes
            /\ queue[Callee[c]] \in Seq(Calls)
        OBVIOUS
      <4>2. \A x \in Elements(Append(queue[Callee[c]], c)) :
              x \in Elements(queue[Callee[c]]) \/ x = c
        BY <4>1, ElementsOfAppend
      <4>3. ASSUME NEW n \in Nodes, NEW x \in Elements(queue'[n])
            PROVE  x \in requests /\ Callee[x] = n
        BY <2>9, <4>1, <4>2 DEF ReceiveRequest, WorkWasRequested
      <4> QED
        BY <2>9, <4>3 DEF ReceiveRequest, WorkWasRequested, history
    <3>2. PendingIsInFlight' /\ RequestsWereSent' /\ AnswersWereProduced' /\ EventsFollowReplies' /\ OutcomesAreEarned'
      BY <2>9 DEF ReceiveRequest, PendingIsInFlight, InFlight, RequestsWereSent, AnswersWereProduced, EventsFollowReplies, OutcomesAreEarned, callerVars, cellVars, history
    <3> QED
      BY <3>1, <3>2
  <2>10. ASSUME NEW k \in Kinds, ReceiveReply(c, k) PROVE Traced'
    <3>1. AnswersWereProduced'
      BY <2>10 DEF ReceiveReply, AnswersWereProduced, callerVars, cellVars, netVars, poolVars, history
    <3>2. EventsFollowReplies'
      BY <2>10 DEF ReceiveReply, EventsFollowReplies, callerVars, cellVars, netVars, poolVars, history
    <3>3. PendingIsInFlight' /\ RequestsWereSent' /\ WorkWasRequested' /\ OutcomesAreEarned'
      BY <2>10 DEF ReceiveReply, PendingIsInFlight, InFlight, RequestsWereSent, WorkWasRequested, OutcomesAreEarned, callerVars, cellVars, netVars, poolVars, history
    <3> QED
      BY <3>1, <3>2, <3>3
  <2> QED
    BY <1>1, <2>1, <2>2, <2>3, <2>4, <2>5, <2>6, <2>7, <2>8, <2>9, <2>10 DEF CallStep, CallerStep
<1>2. ASSUME NEW n \in Nodes, NodeStep(n) PROVE Traced'
  <2>1. CASE StoreReply(n)
    <3>1. AnswersWereProduced'
      BY <2>1 DEF StoreReply, AnswersWereProduced, callerVars, netVars, poolVars, history
    <3>2. EventsFollowReplies'
      <4>1. /\ rx[n].call \in Calls
            /\ rx[n].reply # "none"
        BY <2>1 DEF StoreReply, AnswersWereProduced, Rxs
      <4>2. \A c \in Calls : slot'[c] # "none" \/ slot'[c] = slot[c]
        BY <2>1, <4>1 DEF StoreReply
      <4>3. slot'[rx[n].call] # "none"
        BY <2>1, <4>1 DEF StoreReply
      <4>4. \A m \in Nodes : /\ rx'[m].call = rx[m].call
                             /\ m # n => rx'[m] = rx[m]
        BY <2>1 DEF StoreReply
      <4>5. \A m \in Nodes :
              rx'[m].call # NoCall /\ rx'[m].stored => slot'[rx'[m].call] # "none"
        <5> SUFFICES ASSUME NEW m \in Nodes, rx'[m].call # NoCall, rx'[m].stored
                     PROVE  slot'[rx'[m].call] # "none"
          OBVIOUS
        <5>1. CASE m = n
          BY <4>3, <4>4, <5>1
        <5>2. CASE m # n
          <6>1. rx[m].call \in Calls /\ slot[rx[m].call] # "none"
            BY <4>4, <5>2 DEF EventsFollowReplies, Rxs
          <6> QED
            BY <6>1, <4>2, <4>4
        <5> QED
          BY <5>1, <5>2
      <4>6. \A c \in Calls : event'[c] \/ phase'[c] = "woken" => slot'[c] # "none"
        BY <2>1, <4>2 DEF StoreReply, EventsFollowReplies, callerVars
      <4> QED
        BY <4>5, <4>6 DEF EventsFollowReplies
    <3>3. PendingIsInFlight' /\ RequestsWereSent' /\ WorkWasRequested' /\ OutcomesAreEarned'
      BY <2>1 DEF StoreReply, PendingIsInFlight, InFlight, RequestsWereSent, WorkWasRequested, OutcomesAreEarned, callerVars, netVars, poolVars, history
    <3> QED
      BY <3>1, <3>2, <3>3
  <2>2. CASE SetEvent(n)
    <3>1. AnswersWereProduced'
      BY <2>2 DEF SetEvent, AnswersWereProduced, IdleRx, callerVars, netVars, poolVars, history
    <3>2. EventsFollowReplies'
      <4>1. rx[n].call \in Calls /\ slot[rx[n].call] # "none"
        BY <2>2 DEF SetEvent, EventsFollowReplies, Rxs
      <4>2. \A c \in Calls : event'[c] => event[c] \/ c = rx[n].call
        BY <2>2, <4>1 DEF SetEvent
      <4>3. \A m \in Nodes : rx'[m] = IF m = n THEN IdleRx ELSE rx[m]
        BY <2>2 DEF SetEvent
      <4>4. slot' = slot /\ phase' = phase
        BY <2>2 DEF SetEvent, callerVars
      <4>5. ASSUME NEW m \in Nodes, rx'[m].call # NoCall, rx'[m].stored
            PROVE  slot[rx'[m].call] # "none"
        <5>1. m # n /\ rx'[m] = rx[m]
          BY <4>3, <4>5 DEF IdleRx
        <5> QED
          BY <4>5, <5>1 DEF EventsFollowReplies
      <4>6. ASSUME NEW c \in Calls, event'[c] \/ phase[c] = "woken"
            PROVE  slot[c] # "none"
        BY <4>1, <4>2, <4>6 DEF EventsFollowReplies
      <4> QED
        BY <4>4, <4>5, <4>6 DEF EventsFollowReplies
    <3>3. PendingIsInFlight' /\ RequestsWereSent' /\ WorkWasRequested' /\ OutcomesAreEarned'
      BY <2>2 DEF SetEvent, PendingIsInFlight, InFlight, RequestsWereSent, WorkWasRequested, OutcomesAreEarned, callerVars, netVars, poolVars, history
    <3> QED
      BY <3>1, <3>2, <3>3
  <2>3. ASSUME NEW t \in Threads, Take(n, t) PROVE Traced'
    <3>1. WorkWasRequested'
      <4>1. queue[n] \in Seq(Calls) /\ queue[n] # <<>>
        BY <2>3 DEF Take
      <4>2. /\ Head(queue[n]) \in Elements(queue[n])
            /\ \A x \in Elements(Tail(queue[n])) : x \in Elements(queue[n])
        BY <4>1, ElementsOfTail
      <4>3. \A m \in Nodes : \A c \in Elements(queue'[m]) :
              c \in requests /\ Callee[c] = m
        BY <2>3, <4>2 DEF Take, WorkWasRequested
      <4>4. \A m \in Nodes, u \in Threads :
              IF m = n THEN job'[m][u].call \in {job[m][u].call, Head(queue[n])}
                       ELSE job'[m][u] = job[m][u]
        BY <2>3 DEF Take, IdleJob
      <4>5. \A c \in Calls : runs'[c] = runs[c] \/ c = Head(queue[n])
        BY <2>3 DEF Take
      <4>6. UNCHANGED <<requests, produced>>
        BY <2>3 DEF Take, netVars
      <4>7. Head(queue[n]) \in requests /\ Callee[Head(queue[n])] = n
        BY <4>2 DEF WorkWasRequested
      <4>8. ASSUME NEW m \in Nodes, NEW u \in Threads, job'[m][u].call # NoCall
            PROVE  job'[m][u].call \in requests /\ Callee[job'[m][u].call] = m
        <5>1. CASE m = n /\ job'[m][u].call = Head(queue[n])
          BY <4>7, <5>1
        <5>2. CASE job'[m][u].call = job[m][u].call
          BY <4>8, <5>2 DEF WorkWasRequested
        <5> QED
          BY <4>4, <5>1, <5>2
      <4>9. ASSUME NEW c \in Calls, runs'[c] > 0 \/ produced[c] # {}
            PROVE  c \in requests
        BY <4>5, <4>7, <4>9 DEF WorkWasRequested
      <4> QED
        BY <4>3, <4>6, <4>8, <4>9 DEF WorkWasRequested
    <3>2. AnswersWereProduced'
      <4>1. \A m \in Nodes, u \in Threads :
              job'[m][u] = job[m][u] \/ job'[m][u].reply = "none"
        BY <2>3 DEF Take, IdleJob
      <4>2. \A m \in Nodes, u \in Threads :
              job'[m][u].call # NoCall /\ job'[m][u].reply # "none"
                => job'[m][u].reply \in produced[job'[m][u].call]
        BY <4>1 DEF AnswersWereProduced
      <4>3. UNCHANGED <<produced, replies, rx, slot>>
        BY <2>3 DEF Take, cellVars, netVars
      <4> QED
        BY <4>2, <4>3 DEF AnswersWereProduced
    <3>3. PendingIsInFlight' /\ RequestsWereSent' /\ EventsFollowReplies' /\ OutcomesAreEarned'
      <4>1. UNCHANGED <<phase, outcome, pending, slot, event, requests, rx, produced>>
        BY <2>3 DEF Take, callerVars, cellVars, netVars
      <4>2. PendingIsInFlight' /\ RequestsWereSent'
        BY <4>1 DEF PendingIsInFlight, InFlight, RequestsWereSent
      <4>3. EventsFollowReplies' /\ OutcomesAreEarned'
        BY <4>1 DEF EventsFollowReplies, OutcomesAreEarned
      <4> QED BY <4>2, <4>3
    <3> QED
      BY <3>1, <3>2, <3>3
  <2>4. ASSUME NEW t \in Threads, NEW k \in Kinds, Finish(n, t, k) PROVE Traced'
    <3>1. WorkWasRequested'
      BY <2>4 DEF Finish, WorkWasRequested, callerVars, cellVars, netVars
    <3>2. AnswersWereProduced'
      BY <2>4 DEF Finish, AnswersWereProduced, callerVars, cellVars, netVars
    <3>3. OutcomesAreEarned'
      BY <2>4 DEF Finish, OutcomesAreEarned, callerVars, cellVars, netVars
    <3>4. PendingIsInFlight' /\ RequestsWereSent' /\ EventsFollowReplies'
      BY <2>4 DEF Finish, PendingIsInFlight, InFlight, RequestsWereSent, EventsFollowReplies, callerVars, cellVars, netVars
    <3> QED
      BY <3>1, <3>2, <3>3, <3>4
  <2>5. ASSUME NEW t \in Threads, Answer(n, t) PROVE Traced'
    <3>1. WorkWasRequested'
      <4>1. \A m \in Nodes, u \in Threads :
              job'[m][u].call \in {job[m][u].call, NoCall}
        BY <2>5 DEF Answer, IdleJob
      <4> QED
        BY <2>5, <4>1 DEF Answer, WorkWasRequested, history
    <3>2. AnswersWereProduced'
      <4>1. \A m \in Nodes, u \in Threads :
              job'[m][u] = job[m][u] \/ job'[m][u].call = NoCall
        BY <2>5 DEF Answer, IdleJob
      <4>2. \A r \in replies' : r[2] \in produced[r[1]]
        BY <2>5 DEF Answer, AnswersWereProduced
      <4> QED
        BY <2>5, <4>1, <4>2 DEF Answer, AnswersWereProduced, cellVars, history
    <3>3. PendingIsInFlight' /\ RequestsWereSent' /\ EventsFollowReplies' /\ OutcomesAreEarned'
      <4>1. UNCHANGED <<phase, outcome, pending, slot, event, requests, rx, produced>>
        BY <2>5 DEF Answer, callerVars, cellVars, history
      <4>2. PendingIsInFlight' /\ RequestsWereSent'
        BY <4>1 DEF PendingIsInFlight, InFlight, RequestsWereSent
      <4>3. EventsFollowReplies' /\ OutcomesAreEarned'
        BY <4>1 DEF EventsFollowReplies, OutcomesAreEarned
      <4> QED BY <4>2, <4>3
    <3> QED
      BY <3>1, <3>2, <3>3
  <2>6. CASE ShutDownExecutor(n)
    <3>1. UNCHANGED <<phase, outcome, pending, slot, event, requests, replies, rx, queue, job,
                     runs, produced>>
      BY <2>6 DEF ShutDownExecutor, callerVars, cellVars, netVars, poolVars, history
    <3>2. PendingIsInFlight' /\ RequestsWereSent' /\ OutcomesAreEarned'
      BY <3>1 DEF PendingIsInFlight, InFlight, RequestsWereSent, OutcomesAreEarned
    <3>3. WorkWasRequested' /\ AnswersWereProduced' /\ EventsFollowReplies'
      BY <3>1 DEF WorkWasRequested, AnswersWereProduced, EventsFollowReplies
    <3> QED
      BY <3>2, <3>3
  <2>7. CASE CloseSocket(n)
    <3>1. UNCHANGED <<phase, outcome, pending, slot, event, requests, replies, rx, queue, job,
                     runs, produced>>
      BY <2>7 DEF CloseSocket, callerVars, cellVars, netVars, poolVars, history
    <3>2. PendingIsInFlight' /\ RequestsWereSent' /\ OutcomesAreEarned'
      BY <3>1 DEF PendingIsInFlight, InFlight, RequestsWereSent, OutcomesAreEarned
    <3>3. WorkWasRequested' /\ AnswersWereProduced' /\ EventsFollowReplies'
      BY <3>1 DEF WorkWasRequested, AnswersWereProduced, EventsFollowReplies
    <3> QED
      BY <3>2, <3>3
  <2> QED
    BY <1>2, <2>1, <2>2, <2>3, <2>4, <2>5, <2>6, <2>7 DEF NodeStep
<1>3. CASE UNCHANGED vars
  BY <1>3
  DEF vars, callerVars, cellVars, netVars, poolVars, history, PendingIsInFlight, InFlight,
      RequestsWereSent, WorkWasRequested, AnswersWereProduced, EventsFollowReplies,
      OutcomesAreEarned
<1> QED
  BY <1>1, <1>2, <1>3 DEF Next

-----------------------------------------------------------------------------
(* Deliveries and runs *)

LEMMA PlacesAppended ==
  ASSUME NEW S, NEW s \in Seq(S), NEW e \in S, NEW x
  PROVE  /\ IsFiniteSet(Places(s, x)) /\ IsFiniteSet(Places(Append(s, e), x))
         /\ Cardinality(Places(s, x)) \in Nat
         /\ Cardinality(Places(Append(s, e), x)) =
              Cardinality(Places(s, x)) + (IF e = x THEN 1 ELSE 0)
<1> DEFINE n == Len(s) + 1
<1>1. /\ Len(s) \in Nat /\ DOMAIN s = 1 .. Len(s) /\ DOMAIN Append(s, e) = 1 .. n
      /\ Append(s, e)[n] = e
      /\ \A i \in DOMAIN s : Append(s, e)[i] = s[i]
  OBVIOUS
<1>2. IsFiniteSet(Places(s, x)) /\ Cardinality(Places(s, x)) \in Nat
  <2>1. IsFiniteSet(1 .. Len(s)) /\ Places(s, x) \subseteq 1 .. Len(s)
    BY <1>1, FS_Interval DEF Places
  <2> QED
    BY <2>1, FS_Subset, FS_CardinalityType
<1>3. n \notin Places(s, x)
  BY <1>1 DEF Places
<1>4. Places(Append(s, e), x) = IF e = x THEN Places(s, x) \cup {n} ELSE Places(s, x)
  <2>1. \A i : i \in 1 .. n <=> i \in 1 .. Len(s) \/ i = n
    BY <1>1
  <2> HIDE DEF n
  <2>2. \A i : i \in Places(Append(s, e), x) <=> i \in Places(s, x) \/ (i = n /\ e = x)
    BY <1>1, <2>1 DEF Places
  <2> QED
    BY <2>2
<1>5. IsFiniteSet(Places(s, x) \cup {n})
      /\ Cardinality(Places(s, x) \cup {n}) = Cardinality(Places(s, x)) + 1
  BY <1>2, <1>3, FS_AddElement
<1> QED
  BY <1>2, <1>4, <1>5

LEMMA PlacesTail ==
  ASSUME NEW S, NEW s \in Seq(S), s # <<>>, NEW x
  PROVE  /\ Cardinality(Places(s, x)) \in Nat /\ Cardinality(Places(Tail(s), x)) \in Nat
         /\ Cardinality(Places(Tail(s), x)) + (IF Head(s) = x THEN 1 ELSE 0)
              = Cardinality(Places(s, x))
<1> DEFINE P == Places(s, x)
           T == Places(Tail(s), x)
           f == [i \in T |-> i + 1]
<1>1. /\ Len(s) \in Nat \ {0} /\ DOMAIN s = 1 .. Len(s) /\ DOMAIN Tail(s) = 1 .. Len(s) - 1
      /\ Head(s) = s[1] /\ 1 \in DOMAIN s
      /\ \A i \in DOMAIN Tail(s) : i \in Nat \ {0} /\ i + 1 \in DOMAIN s /\ Tail(s)[i] = s[i + 1]
  OBVIOUS
<1>2. IsFiniteSet(P) /\ Cardinality(P) \in Nat
  <2>1. IsFiniteSet(1 .. Len(s)) /\ P \subseteq 1 .. Len(s)
    BY <1>1, FS_Interval DEF Places
  <2> QED
    BY <2>1, FS_Subset, FS_CardinalityType
<1>3. IsFiniteSet(P \ {1}) /\ Cardinality(P \ {1}) = IF 1 \in P THEN Cardinality(P) - 1
                                                    ELSE Cardinality(P)
  BY <1>2, FS_RemoveElement
<1>4. f \in Injection(T, P \ {1}) /\ f \in Surjection(T, P \ {1})
  <2>1. \A i \in T : i \in Nat \ {0} /\ i + 1 \in P \ {1}
    BY <1>1 DEF Places
  <2>2. f \in [T -> P \ {1}]
    BY <2>1
  <2>3. \A i, j \in T : f[i] = f[j] => i = j
    BY <2>1
  <2>4. ASSUME NEW j \in P \ {1} PROVE \E i \in T : f[i] = j
    <3>1. j \in 1 .. Len(s) /\ j # 1 /\ s[j] = x
      BY <1>1 DEF Places
    <3>2. j - 1 \in DOMAIN Tail(s) /\ (j - 1) + 1 = j
      BY <1>1, <3>1
    <3>3. j - 1 \in T
      BY <1>1, <3>1, <3>2 DEF Places
    <3> QED
      BY <3>2, <3>3
  <2> QED
    BY <2>2, <2>3, <2>4 DEF Injection, IsInjective, Surjection
<1>5. IsFiniteSet(T) /\ Cardinality(T) = Cardinality(P \ {1}) /\ Cardinality(T) \in Nat
  BY <1>3, <1>4, FS_Injection, FS_CardinalityType
<1>6. 1 \in P <=> Head(s) = x
  BY <1>1 DEF Places
<1> HIDE DEF P, T, f
<1>7. Cardinality(T) + (IF Head(s) = x THEN 1 ELSE 0) = Cardinality(P)
  BY <1>2, <1>3, <1>5, <1>6
<1> QED
  BY <1>2, <1>5, <1>7 DEF P, T

\* A delivery puts a request into one place, or into none once stop() has begun; a worker
\* takes it out of one.
LEMMA DeliveredStep ==
  ASSUME TypeOK, WorkWasRequested, RunsWereDelivered, [Next]_vars
  PROVE  RunsWereDelivered'
<1> USE ConstantsAssumption, NamesAssumption
<1>1. ASSUME NEW c \in Calls, ReceiveRequest(c) PROVE RunsWereDelivered'
  <2> DEFINE n == Callee[c]
  <2>1. n \in Nodes /\ queue[n] \in Seq(Calls)
    BY DEF TypeOK
  <2>2. /\ runs' = runs /\ arrivals' = [arrivals EXCEPT ![c] = @ + 1]
        /\ queue' = IF life[n] = "up" THEN [queue EXCEPT ![n] = Append(@, c)] ELSE queue
        /\ life' = life
    BY <1>1 DEF ReceiveRequest, history
  <2> SUFFICES ASSUME NEW d \in Calls
               PROVE  LET taken == runs'[d] + Cardinality(Places(queue'[Callee[d]], d)) IN
                      /\ taken <= arrivals'[d]
                      /\ life[Callee[d]] = "up" => taken = arrivals'[d]
    BY <2>2 DEF RunsWereDelivered
  <2> DEFINE q == queue[Callee[d]]
             r == queue'[Callee[d]]
  <2>3. /\ q \in Seq(Calls) /\ Callee[d] \in Nodes
        /\ r = IF Callee[d] = n /\ life[n] = "up" THEN Append(q, c) ELSE q
    <3>1. q \in Seq(Calls) /\ Callee[d] \in Nodes
      BY DEF TypeOK
    <3>2. CASE life[n] = "up"
      <4>0. queue' = [queue EXCEPT ![n] = Append(@, c)]
        BY <2>2, <3>2
      <4>1. queue' = [queue EXCEPT ![n] = Append(queue[n], c)]
        BY <4>0
      <4>2. Callee[d] = n => r = Append(q, c)
        BY <2>1, <4>1 DEF TypeOK
      <4>3. Callee[d] # n => r = q
        BY <2>1, <3>1, <4>1 DEF TypeOK
      <4> QED
        BY <3>1, <3>2, <4>2, <4>3
    <3>3. CASE life[n] # "up"
      BY <2>2, <3>1, <3>3
    <3> QED
      BY <3>2, <3>3
  <2>4. /\ Cardinality(Places(q, d)) \in Nat
        /\ Cardinality(Places(Append(q, c), d)) =
             Cardinality(Places(q, d)) + (IF c = d THEN 1 ELSE 0)
    BY <2>3, PlacesAppended
  <2>5. /\ runs'[d] = runs[d] /\ runs[d] \in Nat /\ arrivals[d] \in Nat
        /\ arrivals'[d] = arrivals[d] + (IF c = d THEN 1 ELSE 0)
    BY <2>2 DEF TypeOK
  <2>6. /\ runs[d] + Cardinality(Places(q, d)) <= arrivals[d]
        /\ life[Callee[d]] = "up" => runs[d] + Cardinality(Places(q, d)) = arrivals[d]
    BY DEF RunsWereDelivered
  <2> DEFINE more == IF Callee[d] = n /\ life[n] = "up" /\ c = d THEN 1 ELSE 0
  <2>7. /\ Cardinality(Places(r, d)) = Cardinality(Places(q, d)) + more
        /\ life[Callee[d]] = "up" => more = (IF c = d THEN 1 ELSE 0)
    <3> HIDE DEF q, r
    <3> QED
      BY <2>3, <2>4
  <2> HIDE DEF q, r
  <2>8. /\ runs'[d] + Cardinality(Places(r, d)) <= arrivals'[d]
        /\ life[Callee[d]] = "up" => runs'[d] + Cardinality(Places(r, d)) = arrivals'[d]
    BY <2>4, <2>5, <2>6, <2>7
  <2> QED
    BY <2>8 DEF r
<1>2. ASSUME NEW n \in Nodes, NEW t \in Threads, Take(n, t) PROVE RunsWereDelivered'
  <2> DEFINE h == Head(queue[n])
  <2>1. queue[n] \in Seq(Calls) /\ queue[n] # <<>>
    BY <1>2 DEF Take, TypeOK
  <2>2. h \in Calls /\ Callee[h] = n
    BY <2>1, ElementsOfTail DEF WorkWasRequested
  <2>3. /\ arrivals' = arrivals /\ runs' = [runs EXCEPT ![h] = @ + 1]
        /\ queue' = [queue EXCEPT ![n] = Tail(@)] /\ life' = life
    BY <1>2 DEF Take, netVars
  <2> SUFFICES ASSUME NEW d \in Calls
               PROVE  LET taken == runs'[d] + Cardinality(Places(queue'[Callee[d]], d)) IN
                      /\ taken <= arrivals'[d]
                      /\ life[Callee[d]] = "up" => taken = arrivals'[d]
    BY <2>3 DEF RunsWereDelivered
  <2>4. LET taken == runs[d] + Cardinality(Places(queue[Callee[d]], d)) IN
        taken <= arrivals[d] /\ (life[Callee[d]] = "up" => taken = arrivals[d])
    BY DEF RunsWereDelivered
  <2>5. runs[d] \in Nat /\ arrivals[d] \in Nat
        /\ runs'[d] = runs[d] + (IF h = d THEN 1 ELSE 0)
    BY <2>2, <2>3 DEF TypeOK
  <2>6. CASE Callee[d] = n
    <3>1. queue'[Callee[d]] = Tail(queue[n]) /\ queue[Callee[d]] = queue[n]
      BY <2>3, <2>6 DEF TypeOK
    <3>2. /\ Cardinality(Places(queue[n], d)) \in Nat
          /\ Cardinality(Places(Tail(queue[n]), d)) \in Nat
          /\ Cardinality(Places(Tail(queue[n]), d)) + (IF h = d THEN 1 ELSE 0)
               = Cardinality(Places(queue[n], d))
      BY <2>1, PlacesTail
    <3> DEFINE before == Cardinality(Places(queue[n], d))
               after  == Cardinality(Places(Tail(queue[n]), d))
               one    == IF h = d THEN 1 ELSE 0
    <3>3. /\ runs[d] + before <= arrivals[d]
          /\ life[Callee[d]] = "up" => runs[d] + before = arrivals[d]
      BY <2>4, <3>1
    <3>4. /\ before \in Nat /\ after \in Nat /\ one \in {0, 1} /\ after + one = before
          /\ runs'[d] = runs[d] + one
      BY <2>5, <3>2
    <3> HIDE DEF before, after, one, h
    <3>5. runs'[d] + after = runs[d] + before
      BY <2>5, <3>4
    <3>6. /\ runs'[d] + after <= arrivals[d]
          /\ life[Callee[d]] = "up" => runs'[d] + after = arrivals[d]
      BY <3>3, <3>5
    <3> QED
      BY <2>3, <3>1, <3>6 DEF after
  <2>7. CASE Callee[d] # n
    <3>1. queue'[Callee[d]] = queue[Callee[d]] /\ h # d
      BY <2>2, <2>3, <2>7 DEF TypeOK
    <3> QED
      BY <2>3, <2>4, <2>5, <3>1
  <2> QED
    BY <2>6, <2>7
<1>3. CASE /\ UNCHANGED <<runs, queue, arrivals>>
           /\ \A n \in Nodes : life'[n] = "up" => life[n] = "up"
  BY <1>3 DEF RunsWereDelivered
<1>4. ASSUME NEW c \in Calls, CallStep(c)
      PROVE  ReceiveRequest(c) \/ UNCHANGED <<runs, queue, arrivals, life>>
  BY <1>4 DEF CallStep, CallerStep, NotFound, RegisterFromUser, RegisterFromHandler, Register,
    SendRequest, FailToSend, Wake, Expire, Return, ReceiveReply, netVars, poolVars, history
<1>5. ASSUME NEW n \in Nodes, NodeStep(n)
      PROVE  \/ \E t \in Threads : Take(n, t)
             \/ /\ UNCHANGED <<runs, queue, arrivals>>
                /\ \A m \in Nodes : life'[m] = "up" => life[m] = "up"
  BY <1>5 DEF NodeStep, StoreReply, SetEvent, Finish, Answer, ShutDownExecutor, CloseSocket,
    netVars, poolVars, history, TypeOK
<1>6. CASE UNCHANGED vars
  BY <1>3, <1>6 DEF vars, netVars, poolVars, history
<1> QED
  BY <1>1, <1>2, <1>3, <1>4, <1>5, <1>6 DEF Next

-----------------------------------------------------------------------------
(* Stored replies *)

\* The receive thread of n holds replies to calls of n only, and between storing one
\* and setting its event it does nothing else.
LEMMA AnnouncedStep ==
  ASSUME TypeOK, RepliesAreAnnounced, [Next]_vars
  PROVE  RepliesAreAnnounced'
<1> USE ConstantsAssumption, NamesAssumption
<1>1. ASSUME NEW c \in Calls, NEW k \in Kinds, ReceiveReply(c, k) PROVE RepliesAreAnnounced'
  <2> DEFINE n == Caller[c]
  <2>1. /\ n \in Nodes /\ rx[n] = IdleRx /\ UNCHANGED <<slot, event>>
        /\ rx' = [rx EXCEPT ![n] = [call |-> c, reply |-> k, stored |-> FALSE]]
    BY <1>1 DEF ReceiveReply, Receiving, cellVars
  <2>2. \A m \in Nodes : rx'[m].call # NoCall => Caller[rx'[m].call] = m
    BY <2>1 DEF TypeOK, RepliesAreAnnounced
  <2>3. \A d \in Calls : Announced(d) => Announced(d)'
    <3> TAKE d \in Calls
    <3>1. Caller[d] \in Nodes
      OBVIOUS
    <3>2. Caller[d] = n => ~rx[Caller[d]].stored
      BY <2>1 DEF IdleRx
    <3>3. Caller[d] # n => rx'[Caller[d]] = rx[Caller[d]]
      BY <2>1, <3>1 DEF TypeOK
    <3> QED
      BY <2>1, <3>2, <3>3 DEF Announced
  <2> QED
    BY <2>1, <2>2, <2>3 DEF RepliesAreAnnounced
<1>2. ASSUME NEW n \in Nodes, StoreReply(n) PROVE RepliesAreAnnounced'
  <2> DEFINE c == rx[n].call
  <2>1. /\ c \in Calls /\ Caller[c] = n /\ event' = event
        /\ slot' = [slot EXCEPT ![c] = rx[n].reply] /\ rx' = [rx EXCEPT ![n].stored = TRUE]
    BY <1>2 DEF StoreReply, TypeOK, Rxs, RepliesAreAnnounced
  <2>2. \A m \in Nodes : rx'[m].call = rx[m].call /\ (rx'[m].stored <=> rx[m].stored \/ m = n)
    BY <2>1 DEF TypeOK, Rxs
  <2>3. \A m \in Nodes : rx'[m].call # NoCall => Caller[rx'[m].call] = m
    BY <2>2 DEF RepliesAreAnnounced
  <2>4. \A d \in Calls : Announced(d) \/ d = c => Announced(d)'
    BY <2>1, <2>2 DEF Announced
  <2>5. \A d \in Calls : d # c => slot'[d] = slot[d]
    BY <2>1 DEF TypeOK
  <2> QED
    BY <2>3, <2>4, <2>5 DEF RepliesAreAnnounced
<1>3. ASSUME NEW n \in Nodes, SetEvent(n) PROVE RepliesAreAnnounced'
  <2> DEFINE c == rx[n].call
  <2>1. /\ c \in Calls /\ Caller[c] = n /\ slot' = slot
        /\ event' = [event EXCEPT ![c] = TRUE] /\ rx' = [rx EXCEPT ![n] = IdleRx]
    BY <1>3 DEF SetEvent, TypeOK, Rxs, RepliesAreAnnounced
  <2>2. \A m \in Nodes : m # n => rx'[m] = rx[m]
    BY <2>1 DEF TypeOK
  <2>3. rx'[n].call = NoCall
    BY <2>1 DEF TypeOK, IdleRx
  <2>4. \A m \in Nodes : rx'[m].call # NoCall => Caller[rx'[m].call] = m
    BY <2>2, <2>3 DEF RepliesAreAnnounced
  <2>5. \A d \in Calls : Announced(d) => Announced(d)'
    <3> TAKE d \in Calls
    <3>1. CASE d = c
      BY <2>1, <3>1 DEF Announced, TypeOK
    <3>2. CASE d # c
      <4>1. event'[d] = event[d] /\ Caller[d] \in Nodes
        BY <2>1, <3>2 DEF TypeOK
      <4>2. Announced(d) => event[d] \/ Caller[d] # n
        BY <3>2 DEF Announced
      <4> QED
        BY <2>2, <4>1, <4>2 DEF Announced
    <3> QED
      BY <3>1, <3>2
  <2> QED
    BY <2>1, <2>4, <2>5 DEF RepliesAreAnnounced
<1>4. CASE UNCHANGED <<rx, slot, event>>
  BY <1>4 DEF RepliesAreAnnounced, Announced
<1>5. ASSUME NEW c \in Calls, CallStep(c)
      PROVE  (\E k \in Kinds : ReceiveReply(c, k)) \/ UNCHANGED <<rx, slot, event>>
  BY <1>5 DEF CallStep, CallerStep, NotFound, RegisterFromUser, RegisterFromHandler, Register,
    SendRequest, FailToSend, Wake, Expire, Return, ReceiveRequest, cellVars
<1>6. ASSUME NEW n \in Nodes, NodeStep(n)
      PROVE  StoreReply(n) \/ SetEvent(n) \/ UNCHANGED <<rx, slot, event>>
  BY <1>6 DEF NodeStep, Take, Finish, Answer, ShutDownExecutor, CloseSocket, cellVars
<1>7. CASE UNCHANGED vars
  BY <1>4, <1>7 DEF vars, cellVars
<1> QED
  BY <1>1, <1>2, <1>3, <1>4, <1>5, <1>6, <1>7 DEF Next

-----------------------------------------------------------------------------
(* The theorems *)

\* The inductive invariant holds always.
THEOREM AlwaysConsistent == Spec => []Consistent
<1>1. Init => Traced
  BY ConstantsAssumption, NamesAssumption, IdleRecords
  DEF Init, Traced, TypeOK, PendingIsInFlight, InFlight, RequestsWereSent,
      WorkWasRequested, AnswersWereProduced, EventsFollowReplies, OutcomesAreEarned,
      Kinds, Phases, Outcomes, Lives, IdleJob, IdleRx, Elements
<1>2. Init => RunsWereDelivered
  <2> SUFFICES ASSUME Init, NEW c \in Calls
               PROVE  /\ runs[c] + Cardinality(Places(queue[Callee[c]], c)) = arrivals[c]
                      /\ arrivals[c] \in Nat
    BY DEF RunsWereDelivered
  <2>1. Places(queue[Callee[c]], c) = {}
    BY ConstantsAssumption DEF Init, Places
  <2>2. Cardinality(Places(queue[Callee[c]], c)) = 0
    BY <2>1, FS_EmptySet
  <2>3. runs[c] = 0 /\ arrivals[c] = 0
    BY DEF Init
  <2> QED
    BY <2>2, <2>3
<1>3. Init => RepliesAreAnnounced
  BY ConstantsAssumption DEF Init, RepliesAreAnnounced, IdleRx
<1>4. Consistent /\ [Next]_vars => Consistent'
  BY TypeStep, TracedStep, DeliveredStep, AnnouncedStep DEF Consistent, Traced
<1>5. Traced /\ RunsWereDelivered /\ RepliesAreAnnounced => Consistent
  BY DEF Traced, Consistent
<1> QED
  BY <1>1, <1>2, <1>3, <1>4, <1>5, PTL DEF Spec

\* No entry of the pending table leaks and none is missing: whatever way
\* _call_over_udp is left, its entry leaves the table with it.
THEOREM PendingTableExact == Spec => []PendingIsInFlight
<1>1. Consistent => PendingIsInFlight
  BY DEF Consistent
<1> QED
  BY <1>1, AlwaysConsistent, PTL

\* event.wait() never returns True to a caller whose result is still None, and a result
\* that was stored is always announced.
THEOREM WakeupsCarryReplies == Spec => []WakeupCarriesReply
<1>1. Consistent => WakeupCarriesReply
  BY DEF Consistent, EventsFollowReplies, RepliesAreAnnounced, WakeupCarriesReply
<1> QED
  BY <1>1, AlwaysConsistent, PTL

\* A caller is only told what a run of the handler of its own call produced, and a
\* call that raised before its request was sent is never executed; a handler runs no
\* more often than its request was delivered.
THEOREM OutcomesAreGenuine == Spec => []Genuine
<1>1. Consistent => Genuine
  <2> SUFFICES ASSUME Consistent, NEW c \in Calls
               PROVE  /\ outcome[c] \in Kinds => outcome[c] \in produced[c]
                      /\ outcome[c] \in {"raised", "not_found"} => runs[c] = 0
                      /\ runs[c] <= arrivals[c]
    BY DEF Genuine
  <2>1. outcome[c] \in Kinds => outcome[c] \in produced[c]
    BY DEF Consistent, OutcomesAreEarned
  <2>2. outcome[c] \in {"raised", "not_found"} => runs[c] = 0
    BY DEF Consistent, TypeOK, RequestsWereSent, WorkWasRequested
  <2>3. runs[c] <= arrivals[c]
    <3>1. queue[Callee[c]] \in Seq(Calls) /\ runs[c] \in Nat /\ arrivals[c] \in Nat
      BY ConstantsAssumption DEF Consistent, TypeOK
    <3>2. Cardinality(Places(queue[Callee[c]], c)) \in Nat
      BY <3>1, PlacesAppended
    <3>3. runs[c] + Cardinality(Places(queue[Callee[c]], c)) <= arrivals[c]
      BY DEF Consistent, RunsWereDelivered
    <3> QED
      BY <3>1, <3>2, <3>3
  <2> QED
    BY <2>1, <2>2, <2>3
<1> QED
  BY <1>1, AlwaysConsistent, PTL

\* UdpRpc implements the contract: registering opens a call, returning closes it,
\* a handler run that ends produces; every other step is invisible to it.
THEOREM ImplementsTheContract == Spec => ImplementsContract
<1> USE DEF Kinds, Status
<1> DEFINE S == [c \in Calls |-> Status(phase[c])]
<1>1. Init => Contract!Init
  BY DEF Init, Contract!Init
<1>2. Consistent /\ Consistent' /\ [Next]_vars => [Contract!Next]_(Contract!contractVars)
  <2> SUFFICES ASSUME Consistent, Consistent', [Next]_vars
               PROVE  Contract!Next \/ UNCHANGED <<S, outcome, produced>>
    BY DEF Contract!contractVars
  <2> USE DEF Consistent, TypeOK
  <2>1. ASSUME NEW c \in Calls, CallStep(c)
        PROVE  Contract!Next \/ UNCHANGED <<S, outcome, produced>>
    <3>1. CASE NotFound(c)
      <4>1. Contract!Refuse(c)
        BY <3>1 DEF NotFound, Contract!Refuse, history
      <4> QED
        BY <4>1 DEF Contract!Next
    <3>2. ASSUME Register(c) PROVE Contract!Next
      <4>1. Contract!Open(c)
        BY <3>2 DEF Register, Contract!Open, history
      <4> QED
        BY <4>1 DEF Contract!Next
    <3>3. CASE SendRequest(c)
      BY <3>3 DEF SendRequest, history
    <3>4. CASE FailToSend(c)
      <4>1. produced[c] = {}
        BY <3>4 DEF FailToSend, RequestsWereSent, WorkWasRequested
      <4>2. Contract!Close(c, "raised")
        BY <3>4, <4>1 DEF FailToSend, Contract!Close, Contract!Kinds, Contract!Unsent, history
      <4>3. "raised" \in Contract!Outcomes \ {"none"}
        BY DEF Contract!Outcomes, Contract!Unsent, Contract!Kinds
      <4> QED
        BY <4>2, <4>3 DEF Contract!Next
    <3>5. CASE Wake(c)
      BY <3>5 DEF Wake, history
    <3>6. CASE Expire(c)
      BY <3>6 DEF Expire, history
    <3>7. CASE Return(c)
      <4> DEFINE told == IF phase[c] = "expired" \/ slot[c] = "none"
                         THEN "timeout" ELSE slot[c]
      <4>0. told \in Kinds \cup {"timeout"} /\ (told \in Kinds => told \in produced[c])
        BY DEF AnswersWereProduced
      <4>1. PICK o : o = told
        OBVIOUS
      <4>2. Contract!Close(c, o)
        BY <3>7, <4>0, <4>1 DEF Return, Contract!Close, Contract!Kinds, Contract!Unsent, history
      <4>3. o \in Contract!Outcomes \ {"none"}
        BY <4>0, <4>1 DEF Contract!Outcomes, Contract!Unsent, Contract!Kinds
      <4> QED
        BY <4>2, <4>3 DEF Contract!Next
    <3>8. CASE ReceiveRequest(c)
      BY <3>8 DEF ReceiveRequest, callerVars, history
    <3>9. ASSUME NEW k \in Kinds, ReceiveReply(c, k)
          PROVE  UNCHANGED <<S, outcome, produced>>
      BY <3>9 DEF ReceiveReply, callerVars, history
    <3> QED
      BY <2>1, <3>1, <3>2, <3>3, <3>4, <3>5, <3>6, <3>7, <3>8, <3>9
      DEF CallStep, CallerStep, RegisterFromUser, RegisterFromHandler
  <2>2. ASSUME NEW n \in Nodes, NodeStep(n)
        PROVE  Contract!Next \/ UNCHANGED <<S, outcome, produced>>
    <3>1. ASSUME NEW t \in Threads, NEW k \in Kinds, Finish(n, t, k)
          PROVE  Contract!Next
      <4> DEFINE c == job[n][t].call
      <4>1. c \in Calls /\ c \in requests
        BY <3>1 DEF Finish, WorkWasRequested
      <4>2. Contract!Produce(c, k)
        BY <3>1, <4>1 DEF Finish, Contract!Produce, Contract!Unsent, RequestsWereSent, callerVars
      <4> QED
        BY <4>1, <4>2 DEF Contract!Next, Contract!Kinds
    <3>2. CASE ~\E t \in Threads, k \in Kinds : Finish(n, t, k)
      BY <2>2, <3>2 DEF NodeStep, StoreReply, SetEvent, Take, Answer, ShutDownExecutor,
        CloseSocket, callerVars, history
    <3> QED
      BY <3>1, <3>2
  <2>3. CASE UNCHANGED vars
    BY <2>3 DEF vars, callerVars, history
  <2> QED
    BY <2>1, <2>2, <2>3 DEF Next
<1> QED
  BY <1>1, <1>2, AlwaysConsistent, PTL DEF Spec, ImplementsContract, Contract!Spec
=============================================================================
