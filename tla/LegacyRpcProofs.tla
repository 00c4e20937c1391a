--------------------------- MODULE LegacyRpcProofs ---------------------------
(***************************************************************************)
(* What holds of LegacyRpc for every number of nodes, workers and calls,   *)
(* every call graph and every length of the work queues.                   *)
(***************************************************************************)
EXTENDS LegacyRpc, TLAPS

\* Messages wait and are handled at the node they were sent to.
Placed ==
  /\ \A n \in Nodes : \A i \in DOMAIN queue[n] : Destination(queue[n][i]) = n
  /\ \A n \in Nodes, w \in Threads :
       job[n][w].item # NoItem => Destination(job[n][w].item) = n

\* A node whose socket was closed by a stop() that gave up waiting.
GaveUp(n) == life[n] = "stopped" /\ stopper[n] # {}

\* An answer that a handler gave was handed to the open socket, or its worker has still to
\* send it, or stop() gave up on that worker.
Kept ==
  \A c \in Calls : \A k \in produced[c] :
    \/ Item(c, k) \in handed
    \/ GaveUp(Callee[c])
    \/ \E w \in Threads :
         job[Callee[c]][w].item.call = c /\ job[Callee[c]][w].reply = k

\* When a stop() that waited to the end has closed the socket, nothing is left to do.
Drained ==
  \A n \in Nodes : life[n] = "stopped" /\ stopper[n] = {} =>
    queue[n] = <<>> /\ \A w \in Threads : job[n][w] = Idle

Traced == TypeOK /\ TableHoldsOpenCalls /\ Traceable

Inv == Traced /\ Placed /\ Kept /\ Drained

-----------------------------------------------------------------------------
(* Records and sequences *)

\* The records of the model are told apart by their fields.
LEMMA Records ==
  /\ Idle \in Jobs /\ NoItem \notin Items
  /\ Idle.item = NoItem /\ Idle.nested = NoCall /\ Idle.reply = "none"
  /\ \A c \in Calls, k \in Kinds \cup {"none"} :
       /\ Item(c, k) \in Items
       /\ Item(c, k).call = c /\ Item(c, k).answer = k
  /\ \A m \in Items : m = Item(m.call, m.answer)
  BY LegacyAssumption DEF Idle, Jobs, NoItem, Items, Item

\* The effect of replacing the item that one worker handles.
LEMMA JobReplaced ==
  ASSUME TypeOK, NEW n \in Nodes, NEW w \in Threads, NEW j \in Jobs,
         job' = [job EXCEPT ![n][w] = j]
  PROVE  /\ job' \in [Nodes -> [Threads -> Jobs]]
         /\ \A m \in Nodes, u \in Threads :
              job'[m][u] = IF m = n /\ u = w THEN j ELSE job[m][u]
  BY DEF TypeOK

\* The work queue, a sequence of messages.
LEMMA QueueFacts ==
  ASSUME NEW q \in Seq(Items)
  PROVE  /\ \A i \in DOMAIN q : q[i] \in Items
         /\ \A m \in Items : /\ Append(q, m) \in Seq(Items)
                             /\ \A i \in DOMAIN Append(q, m) :
                                  Append(q, m)[i] = m \/ \E k \in DOMAIN q : Append(q, m)[i] = q[k]
         /\ q # <<>> => /\ Head(q) \in Items /\ Tail(q) \in Seq(Items)
                        /\ 1 \in DOMAIN q /\ Head(q) = q[1]
                        /\ \A i \in DOMAIN Tail(q) : i + 1 \in DOMAIN q /\ Tail(q)[i] = q[i + 1]
<1>1. ASSUME NEW m \in Items
      PROVE  /\ Append(q, m) \in Seq(Items)
             /\ \A i \in DOMAIN Append(q, m) :
                  Append(q, m)[i] = m \/ \E k \in DOMAIN q : Append(q, m)[i] = q[k]
  OBVIOUS
<1>2. \A i \in DOMAIN q : q[i] \in Items
  OBVIOUS
<1>3. ASSUME q # <<>>
      PROVE  /\ Head(q) \in Items /\ Tail(q) \in Seq(Items)
             /\ 1 \in DOMAIN q /\ Head(q) = q[1]
             /\ \A i \in DOMAIN Tail(q) : i + 1 \in DOMAIN q /\ Tail(q)[i] = q[i + 1]
  BY <1>3
<1> QED BY <1>1, <1>2, <1>3

-----------------------------------------------------------------------------
(* The invariant *)

\* The initial state satisfies the invariant.
LEMMA InitInv == ASSUME Init PROVE Inv
<1> USE LegacyAssumption, Records
<1>1. TypeOK
  BY DEF Init, TypeOK, Kinds, Jobs
<1>2. TableHoldsOpenCalls
  BY DEF Init, TableHoldsOpenCalls
<1>3. Traceable
  BY DEF Init, Traceable, NetTraced, WorkTraced, CallsTraced
<1>4. Placed
  BY DEF Init, Placed
<1>5. Kept /\ Drained
  BY DEF Init, Kept, Drained
<1> QED BY <1>1, <1>2, <1>3, <1>4, <1>5 DEF Inv, Traced

\* A step that changes nothing but the caller's own state and the handler it is in.
LEMMA CallerFrame ==
  ASSUME Inv, UNCHANGED <<net, queue, life, stopper, produced, handed>>,
         job' \in [Nodes -> [Threads -> Jobs]],
         \A n \in Nodes, w \in Threads :
           /\ job'[n][w].item = job[n][w].item /\ job'[n][w].reply = job[n][w].reply
           /\ job[n][w] = Idle => job'[n][w] = Idle
  PROVE  Placed' /\ Kept' /\ Drained'
<1> USE DEF Inv
<1>1. Placed'
  <2>1. \A n \in Nodes : \A i \in DOMAIN queue'[n] : Destination(queue'[n][i]) = n
    BY DEF Placed
  <2>2. \A n \in Nodes, w \in Threads :
          job'[n][w].item # NoItem => Destination(job'[n][w].item) = n
    BY DEF Placed
  <2> QED BY <2>1, <2>2 DEF Placed, Destination
<1>2. Kept'
  <2> SUFFICES ASSUME NEW c \in Calls, NEW k \in produced[c], Item(c, k) \notin handed,
                    ~GaveUp(Callee[c])
               PROVE  \E w \in Threads : /\ job'[Callee[c]][w].item.call = c
                                         /\ job'[Callee[c]][w].reply = k
    BY DEF Kept, GaveUp
  <2>1. Callee[c] \in Nodes BY LegacyAssumption
  <2>2. PICK w \in Threads : job[Callee[c]][w].item.call = c /\ job[Callee[c]][w].reply = k
    BY DEF Kept
  <2> QED BY <2>1, <2>2
<1>3. Drained' BY DEF Drained
<1> QED BY <1>1, <1>2, <1>3

\* Entering call() keeps the invariant, from the application and from a handler.
LEMMA BeginKeepsInv ==
  ASSUME Inv, NEW c \in Calls, Begin(c),
         \/ UNCHANGED job
         \/ \E w \in Threads : /\ job[Caller[c]][w].item # NoItem
                               /\ job' = [job EXCEPT ![Caller[c]][w].nested = c]
  PROVE  Inv'
<1> USE DEF Inv, Traced
<1>1. /\ job' \in [Nodes -> [Threads -> Jobs]]
      /\ \A n \in Nodes, w \in Threads :
           /\ job'[n][w].item = job[n][w].item /\ job'[n][w].reply = job[n][w].reply
           /\ job[n][w] = Idle => job'[n][w] = Idle
  <2>1. CASE UNCHANGED job BY <2>1 DEF TypeOK
  <2>2. ASSUME NEW w \in Threads, job[Caller[c]][w].item # NoItem,
               job' = [job EXCEPT ![Caller[c]][w].nested = c]
        PROVE  /\ job' \in [Nodes -> [Threads -> Jobs]]
               /\ \A n \in Nodes, u \in Threads :
                    /\ job'[n][u].item = job[n][u].item /\ job'[n][u].reply = job[n][u].reply
                    /\ job[n][u] = Idle => job'[n][u] = Idle
    <3> DEFINE j == [job[Caller[c]][w] EXCEPT !.nested = c]
    <3>4. Caller[c] \in Nodes BY LegacyAssumption
    <3>1. job[Caller[c]][w] \in Jobs BY <3>4 DEF TypeOK
    <3>2. j \in Jobs /\ j.item = job[Caller[c]][w].item /\ j.reply = job[Caller[c]][w].reply
      BY <3>1 DEF Jobs
    <3>3. job' = [job EXCEPT ![Caller[c]][w] = j] BY <2>2
    <3>5. /\ job' \in [Nodes -> [Threads -> Jobs]]
          /\ \A n \in Nodes, u \in Threads :
               job'[n][u] = IF n = Caller[c] /\ u = w THEN j ELSE job[n][u]
      BY <3>2, <3>3, <3>4, JobReplaced, ZenonT(60)
    <3>6. job[Caller[c]][w] # Idle BY <2>2, Records
    <3> QED BY <2>2, <3>2, <3>5, <3>6
  <2> QED BY <2>1, <2>2
<1>2. Placed' /\ Kept' /\ Drained' BY <1>1, CallerFrame DEF Begin
<1>3. TypeOK' /\ TableHoldsOpenCalls'
  <2>1. ASSUME phase' = [phase EXCEPT ![c] = "done"],
               outcome' = [outcome EXCEPT ![c] = "not_found"], UNCHANGED pending
        PROVE  TypeOK' /\ TableHoldsOpenCalls'
    <3>1. TypeOK' BY <1>1, <2>1 DEF Begin, TypeOK
    <3>2. phase[c] = "idle" /\ outcome[c] = "none"
      BY DEF Begin, TypeOK, Traceable, CallsTraced
    <3>3. TableHoldsOpenCalls' BY <2>1, <3>2 DEF TypeOK, TableHoldsOpenCalls
    <3> QED BY <3>1, <3>3
  <2>2. ASSUME phase' = [phase EXCEPT ![c] = "registered"],
               pending' = [pending EXCEPT ![Caller[c]] = @ \cup {c}], UNCHANGED outcome
        PROVE  TypeOK' /\ TableHoldsOpenCalls'
    <3>1. Caller[c] \in Nodes /\ phase[c] = "idle" BY LegacyAssumption DEF Begin
    <3>2. pending' \in [Nodes -> SUBSET Calls] BY <2>2 DEF TypeOK
    <3>3. TypeOK' BY <1>1, <2>2, <3>2 DEF Begin, TypeOK
    <3>4. TableHoldsOpenCalls' BY <2>2, <3>1 DEF TypeOK, TableHoldsOpenCalls
    <3> QED BY <3>3, <3>4
  <2> QED BY <2>1, <2>2 DEF Begin
<1>4. Traceable'
  <2>1. /\ UNCHANGED <<result, net, queue, produced>>
        /\ phase' \in [Calls -> {"idle", "registered", "waiting", "done"}]
        /\ \A d \in Calls : d # c => phase'[d] = phase[d] /\ outcome'[d] = outcome[d]
        /\ outcome'[c] # "none" <=> phase'[c] = "done"
    BY <1>3 DEF Begin, TypeOK, Traceable, CallsTraced
  <2>2. \A m \in net : m.call \in Calls /\ m.call # c
    BY DEF Begin, Traceable, NetTraced, TypeOK, Items
  <2>3. NetTraced' BY <2>1, <2>2 DEF Traceable, NetTraced, Carried, Sent
  <2>4. WorkTraced' BY <1>1, <2>1 DEF Traceable, WorkTraced
  <2>5. CallsTraced' BY <2>1 DEF Traceable, CallsTraced
  <2> QED BY <2>3, <2>4, <2>5 DEF Traceable
<1> QED BY <1>2, <1>3, <1>4

\* A request that is sent keeps the invariant.
LEMMA SendKeepsInv ==
  ASSUME Inv, NEW c \in Calls, SendRequest(c)
  PROVE  Inv'
<1> USE DEF Inv, Traced
<1>1. UNCHANGED <<outcome, result, pending, queue, job, life, stopper, produced, handed>>
      /\ net' = net \cup {Item(c, "none")} /\ phase' = [phase EXCEPT ![c] = "waiting"]
  BY DEF SendRequest
<1>2. TypeOK' BY <1>1, Records DEF TypeOK, Kinds
<1>3. TableHoldsOpenCalls' BY <1>1 DEF SendRequest, TableHoldsOpenCalls, TypeOK
<1>4. Traceable'
  <2>1. outcome[c] = "none" BY DEF SendRequest, Traceable, CallsTraced, TypeOK
  <2>2. Item(c, "none").call = c /\ Item(c, "none").answer = "none"
    BY Records
  <2>3. NetTraced'
    <3> SUFFICES ASSUME NEW m \in net'
                 PROVE  /\ Carried(m)' /\ phase'[m.call] \notin {"idle", "registered"}
                        /\ outcome'[m.call] \notin {"raised", "not_found"}
      BY DEF NetTraced
    <3>1. CASE m \in net
      BY <1>1, <3>1 DEF Traceable, NetTraced, Carried, Sent, TypeOK, Items
    <3>2. CASE m = Item(c, "none")
      BY <1>1, <2>1, <2>2, <3>2 DEF Carried, Sent, TypeOK
    <3> QED BY <1>1, <3>1, <3>2
  <2>4. WorkTraced' BY <1>1 DEF Traceable, WorkTraced
  <2>5. CallsTraced' BY <1>1, <2>1 DEF SendRequest, Traceable, CallsTraced, TypeOK
  <2> QED BY <2>3, <2>4, <2>5 DEF Traceable
<1>5. Placed' BY <1>1 DEF Placed, Destination
<1>6. Kept' /\ Drained' BY <1>1 DEF Kept, GaveUp, Drained
<1> QED BY <1>2, <1>3, <1>4, <1>5, <1>6

\* So does one that is not sent: an entry it leaves behind belongs to a call that raised.
LEMMA FailKeepsInv ==
  ASSUME Inv, NEW c \in Calls, FailToSend(c)
  PROVE  Inv'
<1> USE DEF Inv, Traced
<1>1. /\ UNCHANGED <<result, net, queue, job, life, stopper, produced, handed>>
      /\ phase[c] = "registered"
      /\ phase' = [phase EXCEPT ![c] = "done"] /\ outcome' = [outcome EXCEPT ![c] = "raised"]
      /\ UNCHANGED pending \/ pending' = [pending EXCEPT ![Caller[c]] = @ \ {c}]
  BY DEF FailToSend
<1>2. Placed' /\ Kept' /\ Drained' BY <1>1, CallerFrame DEF TypeOK
<1>3. TypeOK' /\ TableHoldsOpenCalls'
  <2>1. CASE UNCHANGED pending
    BY <1>1, <2>1 DEF TypeOK, TableHoldsOpenCalls
  <2>2. CASE pending' = [pending EXCEPT ![Caller[c]] = @ \ {c}]
    <3>1. TypeOK' BY <1>1, <2>2 DEF TypeOK
    <3>2. TableHoldsOpenCalls' BY <1>1, <2>2, LegacyAssumption DEF TypeOK, TableHoldsOpenCalls
    <3> QED BY <3>1, <3>2
  <2> QED BY <1>1, <2>1, <2>2
<1>4. Traceable'
  <2>1. \A m \in net : m.call \in Calls /\ m.call # c
    BY <1>1 DEF Traceable, NetTraced, TypeOK, Items
  <2>2. NetTraced' BY <1>1, <2>1 DEF Traceable, NetTraced, Carried, Sent, TypeOK
  <2>3. WorkTraced' BY <1>1 DEF Traceable, WorkTraced
  <2>4. CallsTraced' BY <1>1 DEF Traceable, CallsTraced, TypeOK
  <2> QED BY <2>2, <2>3, <2>4 DEF Traceable
<1> QED BY <1>2, <1>3, <1>4

\* So does a call() that returns with its result or times out.
LEMMA ReturnKeepsInv ==
  ASSUME Inv, NEW c \in Calls, NEW o \in Kinds \cup {"timeout"}, Return(c, o)
  PROVE  Inv'
<1> USE DEF Inv, Traced
<1>1. /\ UNCHANGED <<result, net, queue, job, life, stopper, produced, handed>>
      /\ phase[c] = "waiting"
      /\ phase' = [phase EXCEPT ![c] = "done"] /\ outcome' = [outcome EXCEPT ![c] = o]
      /\ pending' = [pending EXCEPT ![Caller[c]] = @ \ {c}]
      /\ o \notin {"none", "raised", "not_found"}
  BY DEF Return, Kinds
<1>2. Placed' /\ Kept' /\ Drained' BY <1>1, CallerFrame DEF TypeOK
<1>3. TypeOK' BY <1>1 DEF TypeOK
<1>4. TableHoldsOpenCalls' BY <1>1 DEF TableHoldsOpenCalls, TypeOK
<1>5. Traceable'
  <2>1. NetTraced' BY <1>1 DEF Traceable, NetTraced, Carried, Sent, TypeOK, Items
  <2>2. WorkTraced' BY <1>1 DEF Traceable, WorkTraced
  <2>3. CallsTraced' BY <1>1 DEF Traceable, CallsTraced, TypeOK
  <2> QED BY <2>1, <2>2, <2>3 DEF Traceable
<1> QED BY <1>2, <1>3, <1>4, <1>5

\* Receiving a message keeps the invariant.
LEMMA ReceiveKeepsInv ==
  ASSUME Inv, NEW n \in Nodes, Receive(n)
  PROVE  Inv'
<1> USE DEF Inv, Traced
<1>1. PICK m \in net : Destination(m) = n /\ queue' = [queue EXCEPT ![n] = Append(@, m)]
  BY DEF Receive
<1>2. UNCHANGED <<phase, outcome, result, pending, net, job, life, stopper, produced, handed>> /\ life[n] = "up"
  BY DEF Receive, callerVars
<1>3. m \in Items /\ queue[n] \in Seq(Items)
  BY DEF TypeOK
<1>4. /\ queue' \in [Nodes -> Seq(Items)]
      /\ \A l \in Nodes : l # n => queue'[l] = queue[l]
      /\ \A i \in DOMAIN queue'[n] : queue'[n][i] = m \/ \E k \in DOMAIN queue[n] : queue'[n][i] = queue[n][k]
  BY <1>1, <1>3, QueueFacts DEF TypeOK
<1>5. TypeOK' BY <1>2, <1>4 DEF TypeOK
<1>6. TableHoldsOpenCalls' BY <1>2 DEF TableHoldsOpenCalls
<1>7. Traceable'
  <2>1. NetTraced' /\ CallsTraced' BY <1>2 DEF Traceable, NetTraced, CallsTraced, Carried, Sent
  <2>2. WorkTraced' BY <1>1, <1>2, <1>4 DEF Traceable, WorkTraced
  <2> QED BY <2>1, <2>2 DEF Traceable
<1>8. Placed'
  <2>1. \A l \in Nodes : \A i \in DOMAIN queue'[l] : Destination(queue'[l][i]) = l
    BY <1>1, <1>4 DEF Placed
  <2> QED BY <1>2, <2>1 DEF Placed, Destination
<1>9. Kept' BY <1>2 DEF Kept, GaveUp
<1>10. Drained' BY <1>2, <1>4 DEF Drained
<1> QED BY <1>5, <1>6, <1>7, <1>8, <1>9, <1>10

\* A worker that takes a message keeps the invariant.
LEMMA TakeKeepsInv ==
  ASSUME Inv, NEW n \in Nodes, NEW w \in Threads, Take(n, w)
  PROVE  Inv'
<1> USE DEF Inv, Traced
<1> DEFINE q == queue[n]
           j == [Idle EXCEPT !.item = Head(q)]
<1>1. /\ UNCHANGED <<phase, outcome, result, pending, net, life, stopper, produced, handed>>
      /\ job[n][w] = Idle /\ q # <<>> /\ q \in Seq(Items)
      /\ queue' = [queue EXCEPT ![n] = Tail(q)] /\ job' = [job EXCEPT ![n][w] = j]
  BY DEF Take, callerVars, TypeOK
<1>2. /\ Head(q) \in Items /\ Tail(q) \in Seq(Items) /\ 1 \in DOMAIN q /\ Head(q) = q[1]
      /\ \A i \in DOMAIN Tail(q) : i + 1 \in DOMAIN q /\ Tail(q)[i] = q[i + 1]
  BY <1>1, QueueFacts
<1>3. j \in Jobs /\ j.item = Head(q) /\ j.reply = "none"
  BY <1>2, Records DEF Jobs, Idle
<1>4. /\ job' \in [Nodes -> [Threads -> Jobs]]
      /\ \A m \in Nodes, u \in Threads : job'[m][u] = IF m = n /\ u = w THEN j ELSE job[m][u]
  BY <1>1, <1>3, JobReplaced, ZenonT(60)
<1>5. /\ queue' \in [Nodes -> Seq(Items)]
      /\ \A m \in Nodes : \A i \in DOMAIN queue'[m] : \E k \in DOMAIN queue[m] : queue'[m][i] = queue[m][k]
  BY <1>1, <1>2 DEF TypeOK
<1> HIDE DEF j
<1>6. TypeOK' BY <1>1, <1>4, <1>5 DEF TypeOK
<1>7. TableHoldsOpenCalls' BY <1>1 DEF TableHoldsOpenCalls
<1>8. Traceable'
  <2>1. NetTraced' /\ CallsTraced' BY <1>1 DEF Traceable, NetTraced, CallsTraced, Carried, Sent
  <2>2. \A m \in Nodes : \A i \in DOMAIN queue'[m] : queue'[m][i] \in net
    BY <1>5 DEF Traceable, WorkTraced
  <2>3. Head(q) \in net BY <1>2 DEF Traceable, WorkTraced
  <2>4. WorkTraced' BY <1>1, <1>3, <1>4, <2>2, <2>3 DEF Traceable, WorkTraced
  <2> QED BY <2>1, <2>4 DEF Traceable
<1>9. Placed'
  <2>1. \A m \in Nodes : \A i \in DOMAIN queue'[m] : Destination(queue'[m][i]) = m
    BY <1>5 DEF Placed
  <2>2. Destination(Head(q)) = n BY <1>2 DEF Placed
  <2>3. \A m \in Nodes, u \in Threads :
          job'[m][u].item # NoItem => Destination(job'[m][u].item) = m
    BY <1>3, <1>4, <2>2 DEF Placed
  <2> QED BY <2>1, <2>3 DEF Placed, Destination
<1>10. Kept'
  <2> SUFFICES ASSUME NEW c \in Calls, NEW k \in produced[c], Item(c, k) \notin handed,
                    ~GaveUp(Callee[c])
               PROVE  \E u \in Threads : /\ job'[Callee[c]][u].item.call = c
                                         /\ job'[Callee[c]][u].reply = k
    BY <1>1 DEF Kept, GaveUp
  <2>1. Callee[c] \in Nodes /\ k # "none" BY LegacyAssumption DEF TypeOK, Kinds
  <2>2. PICK u \in Threads : job[Callee[c]][u].item.call = c /\ job[Callee[c]][u].reply = k
    BY DEF Kept
  <2>3. job[Callee[c]][u] # Idle BY <2>1, <2>2, Records
  <2> QED BY <1>1, <1>4, <2>1, <2>2, <2>3
<1>11. Drained' BY <1>1, <1>4, <1>5 DEF Drained
<1> QED BY <1>6, <1>7, <1>8, <1>9, <1>10, <1>11

\* A worker that stores a reply keeps the invariant.
LEMMA CompleteKeepsInv ==
  ASSUME Inv, NEW n \in Nodes, NEW w \in Threads, Complete(n, w)
  PROVE  Inv'
<1> USE DEF Inv, Traced
<1> DEFINE i == job[n][w].item
<1>1. /\ UNCHANGED <<phase, outcome, pending, net, queue, life, stopper, produced, handed>>
      /\ i # NoItem /\ i.answer # "none" /\ job' = [job EXCEPT ![n][w] = Idle]
      /\ result' = IF i.call \in pending[n] THEN [result EXCEPT ![i.call] = i.answer] ELSE result
  BY DEF Complete
<1>2. /\ job[n][w].reply = "none" /\ i \in net /\ i \in Items
      /\ i.call \in Calls /\ i.answer \in Kinds /\ i.answer \in produced[i.call]
  <2>1. job[n][w].reply = "none" /\ i \in net BY <1>1 DEF Traceable, WorkTraced
  <2>2. i \in Items BY <2>1 DEF TypeOK
  <2>3. Carried(i) BY <2>1 DEF Traceable, NetTraced
  <2> QED BY <1>1, <2>1, <2>2, <2>3 DEF Items, Carried
<1>3. /\ job' \in [Nodes -> [Threads -> Jobs]]
      /\ \A m \in Nodes, u \in Threads : job'[m][u] = IF m = n /\ u = w THEN Idle ELSE job[m][u]
  BY <1>1, Records, JobReplaced, ZenonT(60)
<1> HIDE DEF i
<1>4. TypeOK' BY <1>1, <1>2, <1>3 DEF TypeOK
<1>5. TableHoldsOpenCalls' BY <1>1 DEF TableHoldsOpenCalls
<1>6. Traceable'
  <2>1. NetTraced' BY <1>1 DEF Traceable, NetTraced, Carried, Sent
  <2>2. WorkTraced' BY <1>1, <1>3, Records DEF Traceable, WorkTraced
  <2>3. CallsTraced' BY <1>1, <1>2 DEF Traceable, CallsTraced, TypeOK
  <2> QED BY <2>1, <2>2, <2>3 DEF Traceable
<1>7. Placed'
  <2>1. \A m \in Nodes, u \in Threads :
          job'[m][u].item # NoItem => Destination(job'[m][u].item) = m
    BY <1>3, Records DEF Placed
  <2>2. \A m \in Nodes : \A k \in DOMAIN queue'[m] : Destination(queue'[m][k]) = m
    BY <1>1 DEF Placed
  <2> QED BY <2>1, <2>2 DEF Placed, Destination
<1>8. Kept'
  <2> SUFFICES ASSUME NEW c \in Calls, NEW k \in produced[c], Item(c, k) \notin handed,
                    ~GaveUp(Callee[c])
               PROVE  \E u \in Threads : /\ job'[Callee[c]][u].item.call = c
                                         /\ job'[Callee[c]][u].reply = k
    BY <1>1 DEF Kept, GaveUp
  <2>1. Callee[c] \in Nodes /\ k # "none" BY LegacyAssumption DEF TypeOK, Kinds
  <2>2. PICK u \in Threads : job[Callee[c]][u].item.call = c /\ job[Callee[c]][u].reply = k
    BY DEF Kept
  <2> QED BY <1>2, <1>3, <2>1, <2>2
<1>9. Drained' BY <1>1, <1>3 DEF Drained
<1> QED BY <1>4, <1>5, <1>6, <1>7, <1>8, <1>9

\* A handler that ends keeps the invariant: its worker has the answer to send, if there
\* is one.
LEMMA HandlerKeepsInv ==
  ASSUME Inv, NEW n \in Nodes, NEW w \in Threads, HandlerEnds(n, w)
  PROVE  Inv'
<1> USE DEF Inv, Traced
<1> DEFINE c == job[n][w].item.call
<1>1. /\ UNCHANGED <<phase, outcome, result, pending, net, queue, life, stopper, handed>>
      /\ job[n][w].item # NoItem /\ job[n][w].item = Item(c, "none") /\ job[n][w].reply = "none"
  BY DEF HandlerEnds, callerVars, Handling
<1>2. job[n][w] \in Jobs /\ c \in Calls /\ Item(c, "none") \in net /\ Callee[c] = n
  <2>1. job[n][w] \in Jobs /\ job[n][w].item \in net
    BY <1>1 DEF TypeOK, Traceable, WorkTraced
  <2>2. job[n][w].item \in Items /\ c \in Calls BY <2>1 DEF TypeOK, Items
  <2> QED BY <1>1, <2>1, <2>2, Records DEF Placed, Destination
<1>3. PICK j \in Jobs :
        /\ job' = [job EXCEPT ![n][w] = j]
        /\ \/ \E k \in Kinds : /\ j.item = job[n][w].item /\ j.reply = k
                               /\ produced' = [produced EXCEPT ![c] = @ \cup {k}]
           \/ j = Idle /\ UNCHANGED produced
  <2>1. ASSUME NEW k \in Kinds, job' = [job EXCEPT ![n][w].reply = k]
        PROVE  \E j \in Jobs : /\ job' = [job EXCEPT ![n][w] = j]
                               /\ j.item = job[n][w].item /\ j.reply = k
    <3> DEFINE jj == [job[n][w] EXCEPT !.reply = k]
    <3>1. jj \in Jobs /\ jj.item = job[n][w].item /\ jj.reply = k BY <1>2 DEF Jobs
    <3>2. job' = [job EXCEPT ![n][w] = jj] BY <2>1
    <3> QED BY <3>1, <3>2
  <2> QED BY <2>1, Records DEF HandlerEnds
<1>4. /\ job' \in [Nodes -> [Threads -> Jobs]]
      /\ \A m \in Nodes, u \in Threads : job'[m][u] = IF m = n /\ u = w THEN j ELSE job[m][u]
  BY <1>3, JobReplaced, ZenonT(60)
<1>5. /\ produced' \in [Calls -> SUBSET Kinds]
      /\ \A d \in Calls : produced[d] \subseteq produced'[d]
      /\ \A d \in Calls : d # c => produced'[d] = produced[d]
      /\ j.item = NoItem \/ j.item = job[n][w].item
      /\ j.reply # "none" => j.item = job[n][w].item /\ j.reply \in produced'[c]
      /\ \A k \in produced'[c] : k \in produced[c] \/ (j.item = job[n][w].item /\ j.reply = k)
  <2>1. CASE j = Idle /\ UNCHANGED produced
    BY <2>1, Records DEF TypeOK
  <2>2. ASSUME NEW k \in Kinds, j.item = job[n][w].item, j.reply = k,
               produced' = [produced EXCEPT ![c] = @ \cup {k}]
        PROVE  /\ produced' \in [Calls -> SUBSET Kinds]
               /\ \A d \in Calls : produced[d] \subseteq produced'[d]
               /\ \A d \in Calls : d # c => produced'[d] = produced[d]
               /\ \A l \in produced'[c] : l \in produced[c] \/ l = k
               /\ k \in produced'[c]
    <3>1. produced' \in [Calls -> SUBSET Kinds] BY <1>2, <2>2 DEF TypeOK
    <3>2. /\ \A d \in Calls : produced[d] \subseteq produced'[d]
          /\ \A d \in Calls : d # c => produced'[d] = produced[d]
          /\ produced'[c] = produced[c] \cup {k}
      BY <1>2, <2>2 DEF TypeOK
    <3> QED BY <2>2, <3>1, <3>2
  <2> QED BY <1>3, <2>1, <2>2
<1> HIDE DEF c
<1>6. TypeOK' BY <1>1, <1>4, <1>5 DEF TypeOK
<1>7. TableHoldsOpenCalls' BY <1>1 DEF TableHoldsOpenCalls
<1>8. Traceable'
  <2>1. NetTraced' BY <1>1, <1>5 DEF Traceable, NetTraced, Carried, Sent, TypeOK, Items
  <2>2. WorkTraced'
    <3>1. \A m \in Nodes, u \in Threads :
            /\ job'[m][u].item # NoItem => job'[m][u].item \in net
            /\ job'[m][u].reply # "none" => /\ job'[m][u].item # NoItem
                                            /\ job'[m][u].item.answer = "none"
      BY <1>1, <1>2, <1>4, <1>5, Records DEF Traceable, WorkTraced
    <3>2. \A m \in Nodes, u \in Threads : job[m][u].reply # "none" => job[m][u].item.call \in Calls
      BY DEF Traceable, WorkTraced, TypeOK, Items
    <3>3. \A m \in Nodes, u \in Threads :
            job'[m][u].reply # "none" => job'[m][u].reply \in produced'[job'[m][u].item.call]
      BY <1>1, <1>4, <1>5, <3>2 DEF Traceable, WorkTraced, c
    <3> QED BY <1>1, <3>1, <3>3 DEF Traceable, WorkTraced
  <2>3. CallsTraced' BY <1>1, <1>2, <1>5 DEF Traceable, CallsTraced, TypeOK
  <2> QED BY <2>1, <2>2, <2>3 DEF Traceable
<1>9. Placed'
  <2>1. \A m \in Nodes, u \in Threads :
          job'[m][u].item # NoItem => Destination(job'[m][u].item) = m
    BY <1>4, <1>5 DEF Placed
  <2>2. \A m \in Nodes : \A k \in DOMAIN queue'[m] : Destination(queue'[m][k]) = m
    BY <1>1 DEF Placed
  <2> QED BY <2>1, <2>2 DEF Placed, Destination
<1>10. Kept'
  <2> SUFFICES ASSUME NEW d \in Calls, NEW k \in produced'[d], Item(d, k) \notin handed,
                    ~GaveUp(Callee[d])
               PROVE  \E u \in Threads : /\ job'[Callee[d]][u].item.call = d
                                         /\ job'[Callee[d]][u].reply = k
    BY <1>1 DEF Kept, GaveUp
  <2>1. Callee[d] \in Nodes /\ k # "none" BY <1>5, LegacyAssumption DEF Kinds
  <2>2. CASE k \in produced[d]
    <3>1. PICK u \in Threads : job[Callee[d]][u].item.call = d /\ job[Callee[d]][u].reply = k
      BY <2>2 DEF Kept
    <3> QED BY <1>1, <1>4, <2>1, <3>1
  <2>3. CASE d = c /\ j.item = job[n][w].item /\ j.reply = k
    BY <1>2, <1>4, <2>3 DEF c
  <2> QED BY <1>5, <2>2, <2>3
<1>11. Drained'
  <2>1. ~(life[n] = "stopped" /\ stopper[n] = {}) BY <1>1, Records DEF Drained
  <2> QED BY <1>1, <1>4, <2>1 DEF Drained
<1> QED BY <1>6, <1>7, <1>8, <1>9, <1>10, <1>11

\* A reply that leaves keeps the invariant, and so does one that is lost; one that meets a
\* closed socket is that of a worker on which stop() gave up.
LEMMA ReplyKeepsInv ==
  ASSUME Inv, NEW n \in Nodes, NEW w \in Threads, Reply(n, w)
  PROVE  Inv'
<1> USE DEF Inv, Traced
<1> DEFINE c == job[n][w].item.call
           k == job[n][w].reply
<1>1. /\ UNCHANGED <<phase, outcome, result, pending, queue, life, stopper, produced>>
      /\ k # "none" /\ job' = [job EXCEPT ![n][w] = Idle]
  BY DEF Reply, callerVars
<1>2. /\ net' \in {net, net \cup {Item(c, k)}}
      /\ \/ handed' = handed \cup {Item(c, k)}
         \/ life[n] = "stopped" /\ handed' = handed
  BY DEF Reply
<1>3. /\ job[n][w].item \in net /\ job[n][w].item.answer = "none" /\ job[n][w].item # NoItem
      /\ k \in produced[c]
  BY <1>1 DEF Traceable, WorkTraced
<1>4. c \in Calls /\ job[n][w].item = Item(c, "none") /\ k \in Kinds
  <2>1. job[n][w].item \in Items BY <1>3 DEF TypeOK
  <2>2. c \in Calls BY <2>1 DEF Items
  <2> QED BY <1>3, <2>1, <2>2, Records DEF TypeOK
<1>5. /\ job' \in [Nodes -> [Threads -> Jobs]]
      /\ \A m \in Nodes, u \in Threads : job'[m][u] = IF m = n /\ u = w THEN Idle ELSE job[m][u]
  BY <1>1, Records, JobReplaced, ZenonT(60)
<1>6. Callee[c] = n
  BY <1>3, <1>4, Records DEF Placed, Destination
<1> HIDE DEF c, k
<1>7. TypeOK' BY <1>1, <1>2, <1>4, <1>5, Records DEF TypeOK
<1>8. TableHoldsOpenCalls' BY <1>1 DEF TableHoldsOpenCalls
<1>9. Traceable'
  <2>1. NetTraced'
    <3> SUFFICES ASSUME NEW m \in net'
                 PROVE  /\ Carried(m)' /\ phase'[m.call] \notin {"idle", "registered"}
                        /\ outcome'[m.call] \notin {"raised", "not_found"}
      BY DEF NetTraced
    <3>1. CASE m \in net
      BY <1>1, <1>2, <3>1 DEF Traceable, NetTraced, Carried, Sent
    <3>2. CASE m = Item(c, k)
      <4>1. m.call = c /\ m.answer = k BY <1>4, <3>2, Records
      <4>2. Item(c, "none") \in net /\ Item(c, "none").call = c BY <1>3, <1>4, Records
      <4> QED BY <1>1, <1>2, <1>3, <4>1, <4>2 DEF Traceable, NetTraced, Carried, Sent
    <3> QED BY <1>2, <3>1, <3>2
  <2>2. WorkTraced' BY <1>1, <1>2, <1>5, Records DEF Traceable, WorkTraced
  <2>3. CallsTraced' BY <1>1, <1>2 DEF Traceable, CallsTraced
  <2> QED BY <2>1, <2>2, <2>3 DEF Traceable
<1>10. Placed'
  <2>1. \A m \in Nodes, u \in Threads :
          job'[m][u].item # NoItem => Destination(job'[m][u].item) = m
    BY <1>5, Records DEF Placed
  <2>2. \A m \in Nodes : \A l \in DOMAIN queue'[m] : Destination(queue'[m][l]) = m
    BY <1>1 DEF Placed
  <2> QED BY <2>1, <2>2 DEF Placed, Destination
<1>11. Kept'
  <2> SUFFICES ASSUME NEW d \in Calls, NEW l \in produced[d], Item(d, l) \notin handed',
                      ~GaveUp(Callee[d])
               PROVE  \E u \in Threads : /\ job'[Callee[d]][u].item.call = d
                                         /\ job'[Callee[d]][u].reply = l
    BY <1>1 DEF Kept, GaveUp
  <2>1. Callee[d] \in Nodes /\ Item(d, l) \notin handed BY <1>2, LegacyAssumption
  <2>2. PICK u \in Threads : job[Callee[d]][u].item.call = d /\ job[Callee[d]][u].reply = l
    BY <2>1 DEF Kept
  <2>3. ASSUME Callee[d] = n, u = w PROVE FALSE
    <3>1. c = d /\ k = l BY <2>2, <2>3 DEF c, k
    <3>2. life[n] = "stopped" BY <1>2, <3>1
    <3>3. job[n][w] # Idle BY <1>1, Records DEF k
    <3> QED BY <2>3, <3>2, <3>3 DEF Drained, GaveUp
  <2> QED BY <1>5, <2>1, <2>2, <2>3
<1>12. Drained' BY <1>1, <1>5 DEF Drained
<1> QED BY <1>7, <1>8, <1>9, <1>10, <1>11, <1>12

\* stop() keeps the invariant: its wait for the executor is what makes it drain.
LEMMA StopKeepsInv ==
  ASSUME Inv, NEW n \in Nodes,
         \/ StopBegins(n) \/ StopEnds(n) \/ StopGivesUp(n)
         \/ \E w \in Threads : StopFromHandler(n, w)
  PROVE  Inv'
<1> USE DEF Inv, Traced
<1>1. /\ UNCHANGED <<phase, outcome, result, pending, net, queue, job, produced, handed>>
      /\ \/ /\ life[n] # "stopped" /\ life' = [life EXCEPT ![n] = "stopping"]
            /\ UNCHANGED stopper \/ \E w \in Threads : stopper' = [stopper EXCEPT ![n] = @ \cup {w}]
         \/ /\ life' = [life EXCEPT ![n] = "stopped"] /\ UNCHANGED stopper
            /\ (queue[n] = <<>> /\ \A w \in Threads : job[n][w] = Idle) \/ stopper[n] # {}
  BY DEF StopBegins, StopEnds, StopGivesUp, StopFromHandler, CloseSocket, callerVars
<1>2. /\ stopper' \in [Nodes -> SUBSET Threads]
      /\ life' \in [Nodes -> {"up", "stopping", "stopped"}]
      /\ \A m \in Nodes : /\ GaveUp(m) => life'[m] = "stopped" /\ stopper'[m] # {}
                          /\ m # n => life'[m] = life[m] /\ stopper'[m] = stopper[m]
      /\ life'[n] = "stopped" /\ stopper'[n] = {} =>
           queue[n] = <<>> /\ \A w \in Threads : job[n][w] = Idle
  <2>1. CASE life' = [life EXCEPT ![n] = "stopping"] /\ life[n] # "stopped" /\ UNCHANGED stopper
    BY <2>1 DEF TypeOK, GaveUp
  <2>2. ASSUME NEW w \in Threads, life' = [life EXCEPT ![n] = "stopping"],
               life[n] # "stopped", stopper' = [stopper EXCEPT ![n] = @ \cup {w}]
        PROVE  /\ stopper' \in [Nodes -> SUBSET Threads]
               /\ life' \in [Nodes -> {"up", "stopping", "stopped"}]
               /\ life'[n] = "stopping"
               /\ \A m \in Nodes : m # n => life'[m] = life[m] /\ stopper'[m] = stopper[m]
    BY <2>2 DEF TypeOK
  <2>3. CASE life' = [life EXCEPT ![n] = "stopped"] /\ UNCHANGED stopper
    BY <1>1, <2>3 DEF TypeOK, GaveUp
  <2> QED BY <1>1, <2>1, <2>2, <2>3 DEF GaveUp
<1>3. TypeOK' BY <1>1, <1>2 DEF TypeOK
<1>4. TableHoldsOpenCalls' BY <1>1 DEF TableHoldsOpenCalls
<1>5. Traceable'
  BY <1>1 DEF Traceable, NetTraced, WorkTraced, CallsTraced, Carried, Sent
<1>6. Placed' BY <1>1 DEF Placed, Destination
<1>7. Kept'
  <2> SUFFICES ASSUME NEW c \in Calls, NEW k \in produced[c], Item(c, k) \notin handed,
                      ~GaveUp(Callee[c])
               PROVE  \E w \in Threads : /\ job[Callee[c]][w].item.call = c
                                         /\ job[Callee[c]][w].reply = k
    BY <1>1, <1>2, LegacyAssumption DEF Kept, GaveUp
  <2> QED BY DEF Kept
<1>8. Drained' BY <1>1, <1>2 DEF Drained
<1> QED BY <1>3, <1>4, <1>5, <1>6, <1>7, <1>8

\* Every step keeps the invariant.
LEMMA NextKeepsInv == ASSUME Inv, [Next]_vars PROVE Inv'
<1>1. ASSUME NEW c \in Calls, CallStep(c) PROVE Inv'
  <2>1. CASE BeginFromUser(c)
    BY <2>1, BeginKeepsInv DEF BeginFromUser
  <2>2. ASSUME NEW w \in Threads, BeginFromHandler(c, w) PROVE Inv'
    <3>1. Parent[c] \in Calls /\ job[Caller[c]][w].item = Item(Parent[c], "none")
      BY <2>2, LegacyAssumption DEF BeginFromHandler, Handling
    <3>2. Item(Parent[c], "none") # NoItem BY <3>1, Records DEF Kinds
    <3> QED BY <2>2, <3>1, <3>2, BeginKeepsInv DEF BeginFromHandler
  <2>3. CASE SendRequest(c) BY <2>3, SendKeepsInv
  <2>4. CASE FailToSend(c) BY <2>4, FailKeepsInv
  <2>5. CASE ReturnResult(c)
    <3>1. result[c] \in Kinds BY <2>5 DEF ReturnResult, Inv, Traced, TypeOK
    <3> QED BY <2>5, <3>1, ReturnKeepsInv DEF ReturnResult
  <2>6. CASE Expire(c) BY <2>6, ReturnKeepsInv DEF Expire
  <2> QED BY <1>1, <2>1, <2>2, <2>3, <2>4, <2>5, <2>6 DEF CallStep
<1>2. ASSUME NEW n \in Nodes, Receive(n) PROVE Inv' BY <1>2, ReceiveKeepsInv
<1>3. ASSUME NEW n \in Nodes,
             \/ StopBegins(n) \/ StopEnds(n) \/ StopGivesUp(n)
             \/ \E w \in Threads : StopFromHandler(n, w)
      PROVE  Inv'
  BY <1>3, StopKeepsInv
<1>4. ASSUME NEW n \in Nodes, NEW w \in Threads, Work(n, w) PROVE Inv'
  BY <1>4, TakeKeepsInv, CompleteKeepsInv, HandlerKeepsInv, ReplyKeepsInv DEF Work
<1>5. CASE UNCHANGED vars
  <2>1. UNCHANGED <<phase, outcome, result, pending, net, queue, job, life, stopper,
                    produced, handed>>
    BY <1>5 DEF vars, callerVars
  <2>2. TypeOK' /\ TableHoldsOpenCalls'
    BY <2>1 DEF Inv, Traced, TypeOK, TableHoldsOpenCalls
  <2>3. Traceable'
    BY <2>1 DEF Inv, Traced, Traceable, NetTraced, WorkTraced, CallsTraced, Carried, Sent
  <2>4. Placed' /\ Kept' /\ Drained'
    BY <2>1 DEF Inv, Placed, Kept, GaveUp, Drained, Destination
  <2> QED BY <2>2, <2>3, <2>4 DEF Inv, Traced
<1> QED BY <1>1, <1>2, <1>3, <1>4, <1>5 DEF Next

-----------------------------------------------------------------------------
(* Theorems *)

\* The invariant holds in every reachable state.
LEMMA AlwaysInv == Spec => []Inv
<1>1. Init => Inv BY InitInv
<1>2. Inv /\ [Next]_vars => Inv' BY NextKeepsInv
<1> QED BY <1>1, <1>2, PTL DEF Spec

\* A blocked worker stays matched with its call: calls do not become idle again.
LEMMA WorkersStayMatched ==
  ASSUME Inv, WorkersMatchCalls, [Next]_vars
  PROVE  WorkersMatchCalls'
<1> USE DEF Inv, Traced
<1>1. SUFFICES ASSUME NEW n \in Nodes, NEW w \in Threads
               PROVE  /\ job'[n][w].item = NoItem => job'[n][w] = Idle
                      /\ job'[n][w].nested # NoCall => phase'[job'[n][w].nested] # "idle"
  BY DEF WorkersMatchCalls
<1>2. /\ job[n][w] \in Jobs
      /\ job[n][w].item = NoItem => job[n][w] = Idle
      /\ job[n][w].nested # NoCall => job[n][w].nested \in Calls /\ phase[job[n][w].nested] # "idle"
  BY DEF TypeOK, WorkersMatchCalls, Jobs
<1>3. ASSUME UNCHANGED job, \A c \in Calls : phase[c] # "idle" => phase'[c] # "idle"
      PROVE  /\ job'[n][w].item = NoItem => job'[n][w] = Idle
             /\ job'[n][w].nested # NoCall => phase'[job'[n][w].nested] # "idle"
  BY <1>2, <1>3
<1>4. ASSUME NEW m \in Nodes, NEW u \in Threads, NEW j \in Jobs,
             job' = [job EXCEPT ![m][u] = j], UNCHANGED phase,
             j.nested \in {NoCall, job[m][u].nested}, j.item = NoItem => j = Idle
      PROVE  /\ job'[n][w].item = NoItem => job'[n][w] = Idle
             /\ job'[n][w].nested # NoCall => phase'[job'[n][w].nested] # "idle"
  <2>1. job'[n][w] = IF n = m /\ w = u THEN j ELSE job[n][w] BY <1>4, JobReplaced, ZenonT(60)
  <2> QED BY <1>2, <1>4, <2>1
<1>5. ASSUME NEW c \in Calls, CallStep(c)
      PROVE  /\ job'[n][w].item = NoItem => job'[n][w] = Idle
             /\ job'[n][w].nested # NoCall => phase'[job'[n][w].nested] # "idle"
  <2>1. \A d \in Calls : phase[d] # "idle" => phase'[d] # "idle"
    BY <1>5 DEF CallStep, BeginFromUser, BeginFromHandler, Begin, SendRequest, FailToSend,
                ReturnResult, Expire, Return, TypeOK
  <2>2. CASE UNCHANGED job BY <1>3, <2>1, <2>2
  <2>3. ASSUME NEW u \in Threads, BeginFromHandler(c, u)
        PROVE  /\ job'[n][w].item = NoItem => job'[n][w] = Idle
               /\ job'[n][w].nested # NoCall => phase'[job'[n][w].nested] # "idle"
    <3>1. job' = [job EXCEPT ![Caller[c]][u].nested = c] /\ phase'[c] # "idle"
      BY <2>3 DEF BeginFromHandler, Begin, TypeOK
    <3>2. job[Caller[c]][u].item # NoItem
      <4>1. Parent[c] \in Calls /\ job[Caller[c]][u].item = Item(Parent[c], "none")
        BY <2>3, LegacyAssumption DEF BeginFromHandler, Handling
      <4> QED BY <4>1, Records DEF Kinds
    <3>3. job'[n][w] = IF n = Caller[c] /\ w = u THEN [job[n][w] EXCEPT !.nested = c] ELSE job[n][w]
      BY <3>1, LegacyAssumption DEF TypeOK
    <3>4. CASE n = Caller[c] /\ w = u
      <4>1. job'[n][w].item # NoItem /\ job'[n][w].nested = c BY <1>2, <3>2, <3>3, <3>4 DEF Jobs
      <4> QED BY <3>1, <4>1
    <3>5. CASE ~(n = Caller[c] /\ w = u) BY <1>2, <2>1, <3>3, <3>5
    <3> QED BY <3>4, <3>5
  <2> QED BY <1>5, <2>2, <2>3 DEF CallStep, BeginFromUser, SendRequest, FailToSend,
                                  ReturnResult, Expire, Return
<1>6. ASSUME NEW m \in Nodes, NEW u \in Threads, Work(m, u)
      PROVE  /\ job'[n][w].item = NoItem => job'[n][w] = Idle
             /\ job'[n][w].nested # NoCall => phase'[job'[n][w].nested] # "idle"
  <2>0. UNCHANGED phase /\ job[m][u] \in Jobs
    BY <1>6 DEF Work, Take, Complete, HandlerEnds, Reply, callerVars, TypeOK
  <2>1. CASE Take(m, u)
    <3> DEFINE j == [Idle EXCEPT !.item = Head(queue[m])]
    <3>1. Head(queue[m]) \in Items BY <2>1, QueueFacts DEF Take, TypeOK
    <3>2. j \in Jobs /\ j.nested = NoCall /\ j.item # NoItem BY <3>1, Records DEF Jobs, Idle
    <3>3. job' = [job EXCEPT ![m][u] = j] BY <2>1 DEF Take
    <3> HIDE DEF j
    <3> QED BY <1>4, <2>0, <3>2, <3>3
  <2>2. CASE job' = [job EXCEPT ![m][u] = Idle] BY <1>4, <2>0, <2>2, Records
  <2>3. ASSUME NEW k \in Kinds, HandlerEnds(m, u), job' = [job EXCEPT ![m][u].reply = k]
        PROVE  /\ job'[n][w].item = NoItem => job'[n][w] = Idle
               /\ job'[n][w].nested # NoCall => phase'[job'[n][w].nested] # "idle"
    <3> DEFINE j == [job[m][u] EXCEPT !.reply = k]
    <3>1. /\ j \in Jobs /\ j.nested = job[m][u].nested /\ j.item = job[m][u].item
          /\ j.item # NoItem
      BY <2>0, <2>3 DEF Jobs, HandlerEnds
    <3>2. job' = [job EXCEPT ![m][u] = j] BY <2>3
    <3> HIDE DEF j
    <3> QED BY <1>4, <2>0, <3>1, <3>2
  <2> QED BY <1>6, <2>1, <2>2, <2>3 DEF Work, Complete, HandlerEnds, Reply
<1>7. ASSUME NEW m \in Nodes,
             \/ Receive(m) \/ StopBegins(m) \/ StopEnds(m) \/ StopGivesUp(m)
             \/ \E u \in Threads : StopFromHandler(m, u)
      PROVE  UNCHANGED <<job, phase>>
  BY <1>7 DEF Receive, StopBegins, StopEnds, StopGivesUp, StopFromHandler, CloseSocket,
              callerVars
<1>8. CASE UNCHANGED vars BY <1>3, <1>8 DEF vars, callerVars
<1> QED BY <1>3, <1>5, <1>6, <1>7, <1>8 DEF Next

\* Why stop() cannot get stuck: a worker that is not idle has an item; if it cannot go on
\* with that, its handler is in stop(), which gives up, or in a call() which is neither
\* unbegun nor over, and such a call ends by itself.
LEMMA NobodyIsStuck == ASSUME Inv, WorkersMatchCalls PROVE StopGoesOn
<1> SUFFICES ASSUME NEW n \in Nodes,
                    queue[n] # <<>> \/ \E w \in Threads : job[n][w] # Idle
             PROVE  \E w \in Threads : WorkerGoesOn(n, w) \/ CallCanEnd(n, w) \/ InStop(n, w)
  BY DEF StopGoesOn
<1>1. CASE \A w \in Threads : job[n][w] = Idle
  <2>1. PICK w \in Threads : TRUE BY LegacyAssumption
  <2> QED BY <1>1, <2>1 DEF WorkerGoesOn
<1>2. ASSUME NEW w \in Threads, job[n][w] # Idle
      PROVE  WorkerGoesOn(n, w) \/ CallCanEnd(n, w) \/ InStop(n, w)
  <2> DEFINE j == job[n][w]
  <2>1. j \in Jobs /\ j.item # NoItem /\ (j.nested # NoCall => phase[j.nested] # "idle")
    BY <1>2 DEF Inv, Traced, TypeOK, WorkersMatchCalls
  <2>2. j.item \in Items /\ (j.nested # NoCall => j.nested \in Calls) BY <2>1 DEF Jobs
  <2>3. CASE j.item.answer # "none" \/ j.reply # "none" BY <2>3 DEF WorkerGoesOn
  <2>4. CASE j.item.answer = "none" /\ j.reply = "none"
    <3>1. j.item = Item(j.item.call, "none") BY <2>2, <2>4, Records
    <3>2. CASE ~Blocked(j) BY <2>1, <2>4, <3>1, <3>2 DEF WorkerGoesOn, Handling, InStop
    <3>3. CASE Blocked(j)
      <4>1. /\ j.nested # NoCall /\ j.nested \in Calls
            /\ phase[j.nested] \notin {"idle", "done"}
        BY <2>1, <2>2, <3>3 DEF Blocked
      <4> QED BY <4>1 DEF CallCanEnd, Inv, Traced, TypeOK
    <3> QED BY <3>2, <3>3
  <2> QED BY <2>3, <2>4
<1> QED BY <1>1, <1>2

\* _pending holds every call in flight, and besides only calls that raised; whatever is
\* sent, queued, handled or returned can be traced back to a request and a handler run;
\* and stop() always has somebody to wait for who can go on.
THEOREM AlwaysConsistent == Spec => []Consistent
<1>1. Init => WorkersMatchCalls BY Records DEF Init, WorkersMatchCalls
<1>2. Inv /\ WorkersMatchCalls /\ [Next]_vars => WorkersMatchCalls' BY WorkersStayMatched
<1>3. Inv /\ WorkersMatchCalls => Consistent BY NobodyIsStuck DEF Inv, Traced, Consistent
<1> QED BY <1>1, <1>2, <1>3, AlwaysInv, PTL DEF Spec

\* stop() drains the executor: no answer that a handler gives comes too late for the
\* socket, unless a handler called stop().  A worker would have to hold that answer, and
\* when stop() has waited to the end no worker holds one.
THEOREM StopAlwaysDrains == Spec => []StopDrains
<1>1. ASSUME Inv PROVE StopDrains
  <2> SUFFICES ASSUME NEW c \in Calls, NEW k \in produced[c],
                      life[Callee[c]] = "stopped", stopper[Callee[c]] = {}
               PROVE  Item(c, k) \in handed
    BY DEF StopDrains
  <2>1. Callee[c] \in Nodes /\ k # "none"
    BY <1>1, LegacyAssumption DEF Inv, Traced, TypeOK, Kinds
  <2>2. \A w \in Threads : job[Callee[c]][w].reply # k
    BY <1>1, <2>1, Records DEF Inv, Drained
  <2> QED BY <1>1, <2>2 DEF Inv, Kept, GaveUp
<1> QED BY <1>1, AlwaysInv, PTL

\* LegacyRpc implements the contract, although replies share the executor with requests.
THEOREM ImplementsTheContract == Spec => ImplementsContract
<1> DEFINE S == [c \in Calls |-> Status(phase[c])]
<1>1. Init => Contract!Init
  BY DEF Init, Contract!Init, Status
<1>2. Inv /\ [Next]_vars => [Contract!Next]_(Contract!contractVars)
  <2> SUFFICES ASSUME Inv, [Next]_vars
               PROVE  Contract!Next \/ UNCHANGED <<S, outcome, produced>>
    BY DEF Contract!contractVars
  <2> USE DEF Inv, Traced, TypeOK, Status
  <2>1. ASSUME NEW c \in Calls, CallStep(c)
        PROVE  Contract!Next \/ UNCHANGED <<S, outcome, produced>>
    <3>1. ASSUME Begin(c) PROVE Contract!Next
      <4>1. CASE phase' = [phase EXCEPT ![c] = "done"] /\ outcome' = [outcome EXCEPT ![c] = "not_found"]
        <5>1. Contract!Refuse(c) BY <3>1, <4>1 DEF Begin, Contract!Refuse
        <5> QED BY <5>1 DEF Contract!Next
      <4>2. CASE phase' = [phase EXCEPT ![c] = "registered"] /\ UNCHANGED outcome
        <5>1. Contract!Open(c) BY <3>1, <4>2 DEF Begin, Contract!Open
        <5> QED BY <5>1 DEF Contract!Next
      <4> QED BY <3>1, <4>1, <4>2 DEF Begin
    <3>2. CASE SendRequest(c)
      BY <3>2 DEF SendRequest
    <3>3. CASE FailToSend(c)
      <4>1. produced[c] = {}
        <5>1. Item(c, "none").call = c BY Records
        <5>2. Item(c, "none") \notin net
          BY <3>3, <5>1 DEF FailToSend, Traceable, NetTraced
        <5> QED BY <5>2 DEF Traceable, CallsTraced
      <4>2. Contract!Close(c, "raised")
        BY <3>3, <4>1 DEF FailToSend, Contract!Close, Contract!Kinds, Contract!Unsent
      <4>3. "raised" \in Contract!Outcomes \ {"none"}
        BY DEF Contract!Outcomes, Contract!Unsent, Contract!Kinds
      <4> QED BY <4>2, <4>3 DEF Contract!Next
    <3>4. ASSUME NEW o \in Kinds \cup {"timeout"}, Return(c, o), o \in Kinds => o \in produced[c]
          PROVE  Contract!Next
      <4>1. Contract!Close(c, o)
        BY <3>4 DEF Return, Kinds, Contract!Close, Contract!Kinds, Contract!Unsent
      <4>2. o \in Contract!Outcomes \ {"none"}
        BY <3>4 DEF Kinds, Contract!Outcomes, Contract!Unsent, Contract!Kinds
      <4> QED BY <4>1, <4>2 DEF Contract!Next
    <3>5. CASE ReturnResult(c)
      <4>1. result[c] \in Kinds /\ result[c] \in produced[c]
        BY <3>5 DEF ReturnResult, Traceable, CallsTraced
      <4> QED BY <3>4, <3>5, <4>1 DEF ReturnResult
    <3>6. CASE Expire(c)
      BY <3>4, <3>6 DEF Expire, Kinds
    <3> QED BY <2>1, <3>1, <3>2, <3>3, <3>5, <3>6 DEF CallStep, BeginFromUser, BeginFromHandler
  <2>2. ASSUME NEW n \in Nodes, NEW w \in Threads, Work(n, w)
        PROVE  Contract!Next \/ UNCHANGED <<S, outcome, produced>>
    <3>1. CASE HandlerEnds(n, w)
      <4> DEFINE c == job[n][w].item.call
      <4>1. c \in Calls /\ phase[c] # "idle" /\ outcome[c] \notin {"raised", "not_found"}
        <5>1. job[n][w].item \in net BY <3>1 DEF HandlerEnds, Traceable, WorkTraced
        <5> QED BY <5>1 DEF Traceable, NetTraced, Items
      <4>2. ASSUME NEW k \in Kinds, produced' = [produced EXCEPT ![c] = @ \cup {k}]
            PROVE  Contract!Next
        <5>1. Contract!Produce(c, k)
          BY <3>1, <4>1, <4>2 DEF HandlerEnds, callerVars, Contract!Produce, Contract!Unsent
        <5> QED BY <4>1, <5>1 DEF Contract!Next, Contract!Kinds, Kinds
      <4>3. CASE UNCHANGED produced
        BY <3>1, <4>3 DEF HandlerEnds, callerVars
      <4> QED BY <3>1, <4>2, <4>3 DEF HandlerEnds
    <3>2. CASE Take(n, w) \/ Complete(n, w) \/ Reply(n, w)
      BY <3>2 DEF Take, Complete, Reply, callerVars
    <3> QED BY <2>2, <3>1, <3>2 DEF Work
  <2>3. ASSUME NEW n \in Nodes,
               \/ Receive(n) \/ StopBegins(n) \/ StopEnds(n) \/ StopGivesUp(n)
               \/ \E w \in Threads : StopFromHandler(n, w)
        PROVE  UNCHANGED <<S, outcome, produced>>
    BY <2>3 DEF Receive, StopBegins, StopEnds, StopGivesUp, StopFromHandler, CloseSocket,
                callerVars
  <2>4. CASE UNCHANGED vars
    BY <2>4 DEF vars, callerVars
  <2> QED BY <2>1, <2>2, <2>3, <2>4 DEF Next
<1> QED BY <1>1, <1>2, AlwaysInv, PTL DEF Spec, ImplementsContract, Contract!Spec
=============================================================================
