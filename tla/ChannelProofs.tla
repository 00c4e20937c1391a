--------------------------- MODULE ChannelProofs ---------------------------
(***************************************************************************)
(* Proofs about a datagram channel of core.py, for any number of           *)
(* deliveries, payloads and queues and for every set of nodes that watch   *)
(* it or read from it.                                                     *)
(***************************************************************************)
EXTENDS Channel, TLAPS

QueueObjects == [items : Seq(Nat), closed : BOOLEAN, stray : BOOLEAN]

USE DEF None, Sentinel

-----------------------------------------------------------------------------
(* What the operations on the tables and queues do *)

\* The queues that are there keep their items and flags.
SameQueues == \A k \in 1 .. Len(store) : store'[k] = store[k]

\* What the types say of one node and of one queue.
LEMMA NodeType ==
  ASSUME TypeOK, NEW n \in Nodes
  PROVE  /\ node[n] \in NodeStates /\ Len(store) \in Nat
         /\ node[n].queue \in 0 .. Len(store) /\ node[n].on \in 0 .. Len(store)
         /\ node[n].reader = "getting" <=> node[n].on # None
<1>1. \A m \in Nodes : {node[m].queue, node[m].on} \subseteq 0 .. Len(store)
  BY Zenon DEF TypeOK
<1>2. node[n].queue \in 0 .. Len(store) /\ node[n].on \in 0 .. Len(store)
  BY <1>1
<1> QED BY <1>2 DEF TypeOK

LEMMA QueueType ==
  ASSUME TypeOK, NEW k \in 1 .. Len(store)
  PROVE  store[k] \in QueueObjects /\ store[k].items \in Seq(Nat)
<1>1. store \in Seq(QueueObjects)
  BY DEF TypeOK, QueueObjects
<1>2. store[k] \in QueueObjects
  BY <1>1
<1> QED BY <1>2 DEF QueueObjects

\* Register adds a queue; the one it replaces is a stray now.
LEMMA RegisterQueues ==
  ASSUME TypeOK, NEW n \in Nodes, Register(n)
  PROVE  /\ store' \in Seq(QueueObjects) /\ Len(store') = Len(store) + 1
         /\ Len(store) \in Nat
         /\ store'[Len(store) + 1] = NewQueue(node[n].dead)
         /\ \A k \in 1 .. Len(store) :
              /\ store'[k].items = store[k].items /\ store'[k].closed = store[k].closed
              /\ store'[k].stray = (store[k].stray \/ k = node[n].queue)
<1> DEFINE q == node[n].queue
           Marked == [k \in DOMAIN store |-> [store[k] EXCEPT !.stray = @ \/ k = q]]
<1>1. store \in Seq(QueueObjects) /\ node[n] \in NodeStates
  BY DEF TypeOK, QueueObjects
<1>2. DOMAIN store = 1 .. Len(store) /\ Len(store) \in Nat
  BY <1>1
<1>3. ASSUME NEW k \in 1 .. Len(store)
      PROVE  /\ Marked[k] \in QueueObjects
             /\ Marked[k].items = store[k].items /\ Marked[k].closed = store[k].closed
             /\ Marked[k].stray = (store[k].stray \/ k = q)
  <2>1. store[k] \in QueueObjects
    BY <1>1, <1>3
  <2>2. Marked[k] = [store[k] EXCEPT !.stray = @ \/ k = q]
    BY <1>2
  <2> QED BY <2>1, <2>2 DEF QueueObjects
<1> DEFINE New == NewQueue(node[n].dead)
<1>4. Marked \in [1 .. Len(store) -> QueueObjects]
  <2>1. Marked = [k \in 1 .. Len(store) |-> [store[k] EXCEPT !.stray = @ \/ k = q]]
    BY <1>2, Zenon
  <2>2. \A k \in 1 .. Len(store) : Marked[k] \in QueueObjects
    BY <1>3
  <2> HIDE DEF Marked
  <2> QED BY <2>1, <2>2
<1>5. New \in QueueObjects
  BY <1>1 DEF NewQueue, QueueObjects, NodeStates
<1>6. store' = Append(Marked, New)
  BY DEF Register
<1> HIDE DEF Marked, New
<1>7. Marked \in Seq(QueueObjects) /\ Len(Marked) = Len(store)
  BY <1>2, <1>4
<1>8. /\ store' \in Seq(QueueObjects) /\ Len(store') = Len(store) + 1
      /\ store'[Len(store) + 1] = New
      /\ \A k \in 1 .. Len(store) : store'[k] = Marked[k]
  BY <1>2, <1>5, <1>6, <1>7
<1> QED BY <1>2, <1>3, <1>8 DEF New

\* CloseQueue appends the sentinel to the queue of the table, and to no other.
LEMMA CloseQueues ==
  ASSUME TypeOK, NEW n \in Nodes, CloseQueue(n)
  PROVE  /\ store' \in Seq(QueueObjects) /\ Len(store') = Len(store)
         /\ \A k \in 1 .. Len(store) :
              /\ store'[k].stray = store[k].stray
              /\ store'[k].closed = (store[k].closed \/ k = node[n].queue)
              /\ store'[k].items = IF k = node[n].queue THEN Append(store[k].items, Sentinel)
                                   ELSE store[k].items
<1> DEFINE q == node[n].queue
           Shut(k) == [store[k] EXCEPT !.items = Append(@, Sentinel), !.closed = TRUE]
<1>1. store \in Seq(QueueObjects)
  BY DEF TypeOK, QueueObjects
<1>2. DOMAIN store = 1 .. Len(store) /\ Len(store) \in Nat
  BY <1>1
<1>3. ASSUME NEW k \in 1 .. Len(store)
      PROVE  /\ Shut(k) \in QueueObjects /\ Shut(k).stray = store[k].stray
             /\ Shut(k).closed = TRUE /\ Shut(k).items = Append(store[k].items, Sentinel)
  <2>0. store[k] \in QueueObjects
    BY <1>1, <1>3
  <2>1. store[k] \in QueueObjects /\ store[k].items \in Seq(Nat)
    BY <2>0 DEF QueueObjects
  <2>2. Append(store[k].items, Sentinel) \in Seq(Nat)
    BY <2>1
  <2> QED BY <2>1, <2>2 DEF QueueObjects
<1>4. \A k \in 1 .. Len(store) : store[k] \in QueueObjects
  BY <1>1
<1>5. store' = [k \in 1 .. Len(store) |-> IF k # q THEN store[k] ELSE Shut(k)]
  BY <1>2, Zenon DEF CloseQueue
<1> HIDE DEF Shut, q
<1>6. store' \in [1 .. Len(store) -> QueueObjects]
  BY <1>3, <1>4, <1>5
<1>7. store' \in Seq(QueueObjects) /\ Len(store') = Len(store)
  BY <1>2, <1>6
<1>8. \A k \in 1 .. Len(store) : store'[k] = IF k # q THEN store[k] ELSE Shut(k)
  BY <1>5
<1>9. \A k \in 1 .. Len(store) : store'[k].closed = (store[k].closed \/ k = q)
  BY <1>3, <1>4, <1>8 DEF QueueObjects
<1> QED BY <1>3, <1>7, <1>8, <1>9 DEF q

\* A new queue at the end of the store.
LEMMA AppendQueue ==
  ASSUME TypeOK, NEW q \in QueueObjects, store' = Append(store, q)
  PROVE  /\ store' \in Seq(QueueObjects) /\ Len(store') = Len(store) + 1 /\ Len(store) \in Nat
         /\ store'[Len(store) + 1] = q
         /\ \A k \in 1 .. Len(store) : store'[k] = store[k]
<1>1. store \in Seq(QueueObjects)
  BY DEF TypeOK, QueueObjects
<1> QED BY <1>1

\* New items for one queue.
LEMMA SetItems ==
  ASSUME TypeOK, NEW k \in 1 .. Len(store), NEW items \in Seq(Nat),
         store' = [store EXCEPT ![k].items = items]
  PROVE  /\ store' \in Seq(QueueObjects) /\ Len(store') = Len(store)
         /\ store'[k].items = items
         /\ \A j \in 1 .. Len(store) : /\ j # k => store'[j] = store[j]
                                       /\ store'[j].stray = store[j].stray
                                       /\ store'[j].closed = store[j].closed
<1>1. store \in Seq(QueueObjects) /\ DOMAIN store = 1 .. Len(store) /\ Len(store) \in Nat
  BY DEF TypeOK, QueueObjects
<1>2. store[k] \in QueueObjects
  BY <1>1
<1> DEFINE r == [store[k] EXCEPT !.items = items]
<1>3. /\ r \in QueueObjects /\ r.items = items
      /\ r.stray = store[k].stray /\ r.closed = store[k].closed
  BY <1>2 DEF QueueObjects
<1>4. store' = [store EXCEPT ![k] = r]
  BY <1>1
<1> HIDE DEF r
<1>5. /\ store' \in Seq(QueueObjects) /\ Len(store') = Len(store) /\ store'[k] = r
      /\ \A j \in 1 .. Len(store) : j # k => store'[j] = store[j]
  BY <1>1, <1>3, <1>4
<1> QED BY <1>3, <1>5

\* The tables of node n hold r, those of the other node what they held.
NowHolds(n, r) ==
  /\ node' \in [Nodes -> NodeStates] /\ node'[n] = r
  /\ \A m \in Nodes \ {n} : node'[m] = node[m]

LEMMA SetNode ==
  ASSUME TypeOK, NEW n \in Nodes, NEW r \in NodeStates, node' = [node EXCEPT ![n] = r]
  PROVE  NowHolds(n, r)
  BY DEF TypeOK, NowHolds

\* Forget clears the tables and calls the callback that was there.
LEMMA ForgetFields ==
  ASSUME NEW s \in NodeStates
  PROVE  /\ Forget(s) \in NodeStates
         /\ Forget(s).queue = None /\ Forget(s).seqIn = 0 /\ Forget(s).seqOut = 0
         /\ Forget(s).awaited = FALSE /\ Forget(s).callback = FALSE /\ Forget(s).dead = TRUE
         /\ Forget(s).objects = s.objects /\ Forget(s).reader = s.reader
         /\ Forget(s).on = s.on /\ Forget(s).sent = s.sent /\ Forget(s).last = s.last
         /\ Forget(s).due = s.due
         /\ Forget(s).fired = s.fired + (IF s.callback THEN 1 ELSE 0)
<1> DEFINE count == s.fired + (IF s.callback THEN 1 ELSE 0)
<1>1. count \in Nat
  BY DEF NodeStates
<1>2. Forget(s) = [s EXCEPT !.queue = None, !.seqIn = 0, !.seqOut = 0, !.awaited = FALSE,
                            !.callback = FALSE, !.dead = TRUE, !.fired = count]
  BY DEF Forget
<1> HIDE DEF count
<1>3. Forget(s) \in NodeStates
  <2>1. [s EXCEPT !.queue = None, !.seqIn = 0, !.seqOut = 0, !.awaited = FALSE,
                  !.callback = FALSE, !.dead = TRUE, !.fired = count] \in NodeStates
    BY <1>1 DEF NodeStates
  <2> QED BY <1>2, <2>1, Zenon
<1>4. Forget(s).fired = count
  BY <1>2 DEF NodeStates
<1>5. /\ Forget(s).queue = None /\ Forget(s).seqIn = 0 /\ Forget(s).seqOut = 0
      /\ Forget(s).awaited = FALSE /\ Forget(s).callback = FALSE /\ Forget(s).dead = TRUE
      /\ Forget(s).objects = s.objects /\ Forget(s).reader = s.reader
      /\ Forget(s).on = s.on /\ Forget(s).sent = s.sent /\ Forget(s).last = s.last
      /\ Forget(s).due = s.due
  BY <1>2 DEF NodeStates
<1> QED BY <1>3, <1>4, <1>5 DEF count

LEMMA RegisterNode ==
  ASSUME TypeOK, NEW n \in Nodes, Register(n)
  PROVE  NowHolds(n, [node[n] EXCEPT !.queue = Len(store) + 1, !.seqIn = 0, !.seqOut = 0,
                                     !.awaited = (n = "opener")])
<1> DEFINE r == [node[n] EXCEPT !.queue = Len(store) + 1, !.seqIn = 0, !.seqOut = 0,
                                !.awaited = (n = "opener")]
<1>1. node[n] \in NodeStates /\ Len(store) + 1 \in Nat
  BY DEF TypeOK
<1>2. r \in NodeStates
  BY <1>1 DEF NodeStates
<1>3. node' = [node EXCEPT ![n] = r]
  BY DEF Register, TypeOK
<1> QED BY <1>2, <1>3, SetNode

\* What the other steps write into the tables.
LEMMA UnregisterNode ==
  ASSUME TypeOK, NEW n \in Nodes, Unregister(n)
  PROVE  NowHolds(n, Forget(node[n])) /\ CloseQueue(n)
<1>1. node[n] \in NodeStates
  BY DEF TypeOK
<1>2. Forget(node[n]) \in NodeStates
  BY <1>1, ForgetFields
<1>3. node' = [node EXCEPT ![n] = Forget(node[n])]
  BY DEF Unregister, TypeOK
<1> QED BY <1>2, <1>3, SetNode DEF Unregister

LEMMA OpenReturnsNode ==
  ASSUME TypeOK, OpenReturns
  PROVE  NowHolds("opener", [node["opener"] EXCEPT !.awaited = FALSE, !.objects = @ + 1])
<1> DEFINE more == node["opener"].objects + 1
           r == [node["opener"] EXCEPT !.awaited = FALSE, !.objects = more]
<1>1. node["opener"] \in NodeStates
  BY DEF TypeOK, Nodes
<1>2. r \in NodeStates
  <2>1. more \in Nat
    BY <1>1 DEF NodeStates
  <2> HIDE DEF more
  <2> QED BY <1>1, <2>1 DEF NodeStates
<1>3. node' = [node EXCEPT !["opener"] = r]
  BY DEF OpenReturns, TypeOK
<1> QED BY <1>2, <1>3, SetNode DEF Nodes

LEMMA SendAckNode ==
  ASSUME TypeOK, SendAck
  PROVE  NowHolds("acceptor", [node["acceptor"] EXCEPT !.objects = @ + 1])
<1> DEFINE r == [node["acceptor"] EXCEPT !.objects = @ + 1]
<1>1. node["acceptor"] \in NodeStates
  BY DEF TypeOK, Nodes
<1>2. r \in NodeStates
  BY <1>1 DEF NodeStates
<1>3. node' = [node EXCEPT !["acceptor"] = r]
  BY DEF SendAck, TypeOK
<1> QED BY <1>2, <1>3, SetNode DEF Nodes

LEMMA SendNode ==
  ASSUME TypeOK, NEW n \in Nodes, Send(n)
  PROVE  NowHolds(n, [node[n] EXCEPT !.sent = @ + 1,
                    !.seqOut = IF ordering = "sequence" THEN node[n].seqOut + 1 ELSE 0])
<1> DEFINE more == node[n].sent + 1
           seq == IF ordering = "sequence" THEN node[n].seqOut + 1 ELSE 0
           r == [node[n] EXCEPT !.sent = more, !.seqOut = seq]
<1>1. node[n] \in NodeStates
  BY DEF TypeOK, Nodes
<1>2. r \in NodeStates
  <2>1. more \in Nat /\ seq \in Nat
    BY <1>1 DEF NodeStates
  <2> HIDE DEF more, seq
  <2> QED BY <1>1, <2>1 DEF NodeStates
<1>3. node' = [node EXCEPT ![n] = r]
  BY DEF Send, TypeOK
<1> QED BY <1>2, <1>3, SetNode DEF Nodes

\* set_on_disconnect() touches the callback and its history alone.
SameButCallback(s, t) ==
  /\ s.queue = t.queue /\ s.seqIn = t.seqIn /\ s.seqOut = t.seqOut /\ s.awaited = t.awaited
  /\ s.dead = t.dead /\ s.objects = t.objects /\ s.reader = t.reader /\ s.on = t.on
  /\ s.sent = t.sent /\ s.last = t.last /\ s.fired = t.fired

LEMMA SetOnDisconnectNode ==
  ASSUME TypeOK, NEW n \in Nodes, SetOnDisconnect(n)
  PROVE  \E r \in NodeStates :
           /\ NowHolds(n, r) /\ SameButCallback(r, node[n])
           /\ \/ /\ r.callback = TRUE /\ r.late = node[n].dead
                 /\ r.due = IF node[n].callback THEN node[n].due ELSE node[n].due + 1
              \/ /\ r.callback = FALSE
                 /\ r.due = IF node[n].callback THEN node[n].due - 1 ELSE node[n].due
<1> DEFINE s == node[n]
           up == IF s.callback THEN s.due ELSE s.due + 1
           down == IF s.callback THEN s.due - 1 ELSE s.due
           set == [s EXCEPT !.callback = TRUE, !.late = s.dead, !.due = up]
           clear == [s EXCEPT !.callback = FALSE, !.due = down]
<1>1. s \in NodeStates
  BY NodeType
<1>2. up \in Int /\ down \in Int
  BY <1>1 DEF NodeStates
<1>3. node' = [node EXCEPT ![n] = set] \/ node' = [node EXCEPT ![n] = clear]
  BY DEF SetOnDisconnect, TypeOK
<1> HIDE DEF s, up, down
<1>4. /\ set \in NodeStates /\ SameButCallback(set, s)
      /\ set.callback = TRUE /\ set.late = s.dead /\ set.due = up
  BY <1>1, <1>2 DEF NodeStates, SameButCallback
<1>5. /\ clear \in NodeStates /\ SameButCallback(clear, s)
      /\ clear.callback = FALSE /\ clear.due = down
  BY <1>1, <1>2 DEF NodeStates, SameButCallback
<1> HIDE DEF set, clear
<1>6. CASE node' = [node EXCEPT ![n] = set]
  <2>1. NowHolds(n, set)
    BY <1>4, <1>6, SetNode
  <2> QED BY <1>4, <2>1 DEF s, up
<1>7. CASE node' = [node EXCEPT ![n] = clear]
  <2>1. NowHolds(n, clear)
    BY <1>5, <1>7, SetNode
  <2> QED BY <1>5, <2>1 DEF s, down
<1> QED BY <1>3, <1>6, <1>7

LEMMA RecvStartsNode ==
  ASSUME TypeOK, NEW n \in Nodes, RecvStarts(n)
  PROVE  NowHolds(n, [node[n] EXCEPT !.reader = "checked"])
<1> DEFINE r == [node[n] EXCEPT !.reader = "checked"]
<1>1. node[n] \in NodeStates
  BY DEF TypeOK, Nodes
<1>2. r \in NodeStates
  BY <1>1 DEF NodeStates
<1>3. node' = [node EXCEPT ![n] = r]
  BY DEF RecvStarts, TypeOK
<1> QED BY <1>2, <1>3, SetNode DEF Nodes

LEMMA RecvExpiresNode ==
  ASSUME TypeOK, NEW n \in Nodes, RecvExpires(n)
  PROVE  NowHolds(n, [node[n] EXCEPT !.reader = "idle", !.on = None])
<1> DEFINE r == [node[n] EXCEPT !.reader = "idle", !.on = None]
<1>1. node[n] \in NodeStates
  BY DEF TypeOK, Nodes
<1>2. r \in NodeStates
  BY <1>1 DEF NodeStates
<1>3. node' = [node EXCEPT ![n] = r]
  BY DEF RecvExpires, TypeOK
<1> QED BY <1>2, <1>3, SetNode DEF Nodes

LEMMA CloseNode ==
  ASSUME TypeOK, NEW n \in Nodes, Close(n)
  PROVE  NowHolds(n, [Forget(node[n]) EXCEPT !.objects = @ - 1]) /\ CloseQueue(n)
<1> DEFINE r == [Forget(node[n]) EXCEPT !.objects = @ - 1]
<1>1. node[n] \in NodeStates
  BY DEF TypeOK
<1>2. /\ Forget(node[n]) \in NodeStates
      /\ Forget(node[n]).objects = node[n].objects
  BY <1>1, ForgetFields
<1>3. r \in NodeStates
  <2>1. node[n].objects \in Nat /\ node[n].objects > 0
    BY <1>1 DEF Close, NodeStates
  <2>2. Forget(node[n]).objects - 1 \in Nat
    BY <1>2, <2>1
  <2> QED BY <1>2, <2>2 DEF NodeStates
<1>4. node' = [node EXCEPT ![n] = r]
  BY DEF Close, Forget
<1> QED BY <1>3, <1>4, SetNode DEF Close

LEMMA IngestEffect ==
  ASSUME TypeOK, NEW n \in Nodes, Ingest(n)
  PROVE  \E m \in net :
           /\ m \in Messages /\ m.to = n /\ m.kind = "data" /\ InWindow(m, node[n])
           /\ ~node[n].dead /\ node[n].queue \in 1 .. Len(store)
           /\ NowHolds(n, [node[n] EXCEPT !.seqIn = m.seq])
           /\ store' = [store EXCEPT ![node[n].queue].items = Append(@, m.payload)]
           /\ store[node[n].queue].items \in Seq(Nat)
           /\ Append(store[node[n].queue].items, m.payload) \in Seq(Nat)
<1>1. PICK m \in net :
        /\ m.to = n /\ m.kind = "data" /\ ~node[n].dead /\ node[n].queue # None
        /\ InWindow(m, node[n])
        /\ node' = [node EXCEPT ![n].seqIn = m.seq]
        /\ store' = [store EXCEPT ![node[n].queue].items = Append(@, m.payload)]
  BY DEF Ingest
<1>2. m \in Messages /\ m.seq \in Nat /\ m.payload \in Nat
  BY DEF TypeOK, Messages
<1>3. node[n] \in NodeStates /\ node[n].queue \in 0 .. Len(store) /\ Len(store) \in Nat
  BY NodeType
<1>4. node[n].queue \in 1 .. Len(store)
  BY <1>1, <1>3
<1>5. store[node[n].queue].items \in Seq(Nat)
  BY <1>4, QueueType
<1>6. Append(store[node[n].queue].items, m.payload) \in Seq(Nat)
  BY <1>2, <1>5
<1> DEFINE r == [node[n] EXCEPT !.seqIn = m.seq]
<1>7. r \in NodeStates
  BY <1>2, <1>3 DEF NodeStates
<1>8. node' = [node EXCEPT ![n] = r]
  BY <1>1 DEF TypeOK
<1>9. NowHolds(n, r)
  BY <1>7, <1>8, SetNode
<1> QED BY <1>1, <1>2, <1>4, <1>5, <1>6, <1>9

\* recv() finds its queue, or makes one.
LEMMA FindsEffect ==
  ASSUME TypeOK, NEW n \in Nodes, RecvFindsQueue(n)
  PROVE  \/ /\ node[n].queue # None /\ store' = store
            /\ NowHolds(n, [node[n] EXCEPT !.reader = "getting", !.on = node[n].queue])
         \/ /\ node[n].queue = None /\ store' = Append(store, NewQueue(TRUE))
            /\ NowHolds(n, [node[n] EXCEPT !.reader = "getting", !.on = Len(store) + 1,
                                           !.queue = Len(store) + 1])
<1>1. node[n] \in NodeStates /\ node[n].queue \in Nat /\ Len(store) + 1 \in Nat
  BY DEF TypeOK, NodeStates
<1>2. CASE node[n].queue # None
  <2> DEFINE r == [node[n] EXCEPT !.reader = "getting", !.on = node[n].queue]
  <2>1. r \in NodeStates
    BY <1>1 DEF NodeStates
  <2>2. node' = [node EXCEPT ![n] = r] /\ store' = store
    BY <1>2 DEF RecvFindsQueue, TypeOK
  <2> QED BY <1>2, <2>1, <2>2, SetNode
<1>3. CASE node[n].queue = None
  <2> DEFINE r == [node[n] EXCEPT !.reader = "getting", !.on = Len(store) + 1,
                                  !.queue = Len(store) + 1]
  <2>1. r \in NodeStates
    BY <1>1 DEF NodeStates
  <2>2. node' = [node EXCEPT ![n] = r] /\ store' = Append(store, NewQueue(TRUE))
    BY <1>3 DEF RecvFindsQueue, TypeOK
  <2> QED BY <1>3, <2>1, <2>2, SetNode
<1> QED BY <1>2, <1>3

\* recv() takes the head of its queue, which it returns unless it is the sentinel.
LEMMA ReturnsEffect ==
  ASSUME TypeOK, NEW n \in Nodes, RecvReturns(n)
  PROVE  LET q     == node[n].on
             items == store[q].items
             got   == IF items # <<>> /\ Head(items) # Sentinel THEN Head(items) ELSE node[n].last
         IN  /\ q \in 1 .. Len(store) /\ items \in Seq(Nat)
             /\ NowHolds(n, [node[n] EXCEPT !.reader = "idle", !.on = None, !.last = got])
             /\ items = <<>> => store' = store
             /\ items # <<>> => store' = [store EXCEPT ![q].items = Tail(items)]
<1> DEFINE q     == node[n].on
           items == store[q].items
           got   == IF items # <<>> /\ Head(items) # Sentinel THEN Head(items) ELSE node[n].last
           r     == [node[n] EXCEPT !.reader = "idle", !.on = None, !.last = got]
<1>1. node[n] \in NodeStates /\ node[n].on \in 0 .. Len(store) /\ Len(store) \in Nat
  BY NodeType
<1>2. q \in 1 .. Len(store)
  <2>1. q # 0
    BY NodeType DEF RecvReturns
  <2> QED BY <1>1, <2>1
<1>4. items \in Seq(Nat)
  BY <1>2, QueueType
<1>5. got \in Nat
  <2>1. node[n].last \in Nat
    BY <1>1 DEF NodeStates
  <2> HIDE DEF items
  <2>2. items # <<>> => Head(items) \in Nat
    BY <1>4
  <2> QED BY <2>1, <2>2
<1>6. node' = [node EXCEPT ![n] = r]
  BY DEF RecvReturns, TypeOK
<1>7. r \in NodeStates
  <2> HIDE DEF got
  <2> QED BY <1>1, <1>5 DEF NodeStates
<1>8. NowHolds(n, r)
  <2> HIDE DEF r
  <2> QED BY <1>6, <1>7, SetNode
<1>9. /\ items = <<>> => store' = store
      /\ items # <<>> => store' = [store EXCEPT ![q].items = Tail(items)]
  BY DEF RecvReturns
<1> QED BY <1>2, <1>4, <1>8, <1>9

-----------------------------------------------------------------------------
(* Types *)

\* The parts of the type invariant that are not about the tables or the queues.
ControlOK ==
  /\ ordering \in Orderings /\ offered \in Orderings \cup {"none"}
  /\ opening \in {"idle", "waiting", "open", "expired", "refused"} /\ acked \in BOOLEAN
  /\ opens \in Nat /\ workers \in Nat
  /\ net \subseteq Messages

\* The queues of node n exist.
RefsOK(n) ==
  /\ {node[n].queue, node[n].on} \subseteq 0 .. Len(store)
  /\ node[n].reader = "getting" <=> node[n].on # None

TablesOK ==
  /\ node \in [Nodes -> NodeStates] /\ store \in Seq(QueueObjects)
  /\ \A n \in Nodes : RefsOK(n)

LEMMA TypeParts == TypeOK <=> ControlOK /\ TablesOK
  BY DEF TypeOK, ControlOK, TablesOK, RefsOK, QueueObjects

LEMMA TypeInit == Init => TypeOK
<1> SUFFICES ASSUME Init PROVE TypeOK
  OBVIOUS
<1>1. Blank \in NodeStates
  BY DEF Blank, NodeStates
<1>2. node \in [Nodes -> NodeStates] /\ store \in Seq(QueueObjects)
  BY <1>1 DEF Init
<1>3. ControlOK
  BY DEF Init, ControlOK
<1>4. \A n \in Nodes : RefsOK(n)
  BY DEF Init, RefsOK, Blank
<1> QED BY <1>2, <1>3, <1>4, TypeParts DEF TablesOK

\* What is sent has the type of a datagram.
LEMMA SentType ==
  ASSUME NEW n \in Nodes, NEW kind \in {"open", "ack", "close"}, NEW seq \in Nat,
         NEW payload \in Nat
  PROVE  Msg(n, kind) \in Messages /\ Data(n, seq, payload) \in Messages /\ Peer(n) \in Nodes
  BY DEF Msg, Data, Messages, Peer, Nodes

\* A step of the handshake keeps the control part typed.
LEMMA ControlStep == ASSUME TypeOK, Next PROVE ControlOK'
<1> USE DEF ControlOK, params, attempt, serving
<1>0. ControlOK /\ "opener" \in Nodes /\ "acceptor" \in Nodes
  BY TypeParts DEF Nodes
<1>1. CASE OpenChannel  BY <1>0, <1>1, SentType DEF OpenChannel
<1>2. CASE OpenAcked    BY <1>0, <1>2 DEF OpenAcked, OpenReturns
<1>3. CASE OpenExpires  BY <1>0, <1>3 DEF OpenExpires
<1>4. CASE HandleAck    BY <1>0, <1>4 DEF HandleAck
<1>5. CASE RejectOpen   BY <1>0, <1>5, SentType DEF RejectOpen, ArrivalOfOpen
<1>6. CASE AcceptOpen   BY <1>0, <1>6 DEF AcceptOpen, ArrivalOfOpen
<1>7. CASE SendAck      BY <1>0, <1>7, SentType DEF SendAck
<1>8. CASE AcceptFails  BY <1>0, <1>8 DEF AcceptFails
<1>9. ASSUME NEW n \in Nodes, NodeStep(n) PROVE ControlOK'
  <2>1. CASE Send(n)
    <3>1. node[n].sent + 1 \in Nat /\ node[n].seqOut + 1 \in Nat
      BY NodeType DEF NodeStates
    <3>2. PICK seq \in Nat : net' = net \cup {Data(Peer(n), seq, node[n].sent + 1)}
      BY <2>1, <3>1 DEF Send
    <3> QED BY <1>0, <2>1, <3>1, <3>2, SentType DEF Send, Peer, Nodes
  <2>2. CASE Close(n)             BY <1>0, <2>2, SentType DEF Close, Peer, Nodes
  <2>3. CASE Ingest(n)            BY <1>0, <2>3 DEF Ingest
  <2>4. CASE SetOnDisconnect(n)   BY <1>0, <2>4 DEF SetOnDisconnect
  <2>5. CASE HandleClose(n)       BY <1>0, <2>5 DEF HandleClose
  <2>6. CASE RecvStarts(n)        BY <1>0, <2>6 DEF RecvStarts, elsewhere
  <2>7. CASE RecvFindsQueue(n)    BY <1>0, <2>7 DEF RecvFindsQueue, elsewhere
  <2>8. CASE RecvReturns(n)       BY <1>0, <2>8 DEF RecvReturns, elsewhere
  <2>9. CASE RecvExpires(n)       BY <1>0, <2>9 DEF RecvExpires, elsewhere
  <2> QED BY <1>9, <2>1, <2>2, <2>3, <2>4, <2>5, <2>6, <2>7, <2>8, <2>9 DEF NodeStep
<1> QED BY <1>1, <1>2, <1>3, <1>4, <1>5, <1>6, <1>7, <1>8, <1>9 DEF Next

\* The references of a node stay good as long as no queue goes away.
LEMMA RefsKept ==
  ASSUME TypeOK, NEW n \in Nodes, Len(store') \in Nat, Len(store') >= Len(store),
         node'[n].queue \in 0 .. Len(store'), node'[n].on \in 0 .. Len(store'),
         node'[n].reader = "getting" <=> node'[n].on # None,
         \A m \in Nodes \ {n} : node'[m] = node[m]
  PROVE  \A m \in Nodes : RefsOK(m)'
<1>1. RefsOK(n)'
  BY DEF RefsOK
<1>2. ASSUME NEW m \in Nodes \ {n} PROVE RefsOK(m)'
  <2>1. /\ node'[m] = node[m] /\ node[m].queue \in 0 .. Len(store')
        /\ node[m].on \in 0 .. Len(store') /\ node[m].reader = "getting" <=> node[m].on # None
    BY <1>2, NodeType
  <2> QED BY <2>1 DEF RefsOK
<1> QED BY <1>1, <1>2

\* A step keeps the tables and the queues typed.
LEMMA TablesStep == ASSUME TypeOK, Next PROVE TablesOK'
<1>2. CASE UNCHANGED <<node, store>>
  BY <1>2, TypeParts DEF RefsOK, TablesOK
<1>3. ASSUME NEW n \in Nodes, Register(n) PROVE TablesOK'
  <2> DEFINE r == [node[n] EXCEPT !.queue = Len(store) + 1, !.seqIn = 0, !.seqOut = 0,
                                  !.awaited = (n = "opener")]
  <2>1. NowHolds(n, r)
    BY <1>3, RegisterNode
  <2>2. /\ r.queue = Len(store) + 1 /\ r.on = node[n].on /\ r.reader = node[n].reader
        /\ node[n].on \in 0 .. Len(store) /\ node[n].reader = "getting" <=> node[n].on # None
    BY NodeType DEF NodeStates
  <2>3. store' \in Seq(QueueObjects) /\ Len(store') = Len(store) + 1 /\ Len(store) \in Nat
    BY <1>3, RegisterQueues
  <2> HIDE DEF r
  <2> QED BY <2>1, <2>2, <2>3, RefsKept DEF NowHolds, TablesOK
<1>4. ASSUME NEW n \in Nodes, CloseQueue(n), NEW r, NowHolds(n, r), r.queue = None,
             r.on = node[n].on, r.reader = node[n].reader
      PROVE  TablesOK'
  <2>1. store' \in Seq(QueueObjects) /\ Len(store') = Len(store)
    BY <1>4, CloseQueues
  <2> QED BY <1>4, <2>1, NodeType, RefsKept DEF NowHolds, TablesOK
<1>5. ASSUME NEW n \in Nodes, NEW r, NowHolds(n, r), UNCHANGED store, r.queue = node[n].queue,
             r.on = node[n].on, r.reader = "getting" <=> node[n].reader = "getting"
      PROVE  TablesOK'
  <2>1. store' \in Seq(QueueObjects) /\ Len(store') = Len(store)
    BY <1>5, TypeParts DEF TablesOK
  <2> QED BY <1>5, <2>1, NodeType, RefsKept DEF NowHolds, TablesOK
<1>6. ASSUME NEW n \in Nodes, Unregister(n) PROVE TablesOK'
  <2>1. node[n] \in NodeStates
    BY NodeType
  <2> QED BY <1>4, <1>6, <2>1, UnregisterNode, ForgetFields
<1>7. CASE OpenChannel
  BY <1>3, <1>7 DEF OpenChannel, Nodes
<1>8. CASE OpenAcked
  <2>1. OpenReturns /\ UNCHANGED store /\ node["opener"] \in NodeStates /\ "opener" \in Nodes
    BY <1>8, NodeType DEF OpenAcked, OpenReturns, Nodes
  <2> QED BY <1>5, <2>1, OpenReturnsNode DEF NodeStates
<1>9. CASE OpenExpires
  BY <1>6, <1>9 DEF OpenExpires, Nodes
<1>10. CASE AcceptOpen
  BY <1>3, <1>10 DEF AcceptOpen, Nodes
<1>11. CASE SendAck
  <2>1. UNCHANGED store /\ node["acceptor"] \in NodeStates /\ "acceptor" \in Nodes
    BY <1>11, NodeType DEF SendAck, Nodes
  <2> QED BY <1>5, <1>11, <2>1, SendAckNode DEF NodeStates
<1>12. CASE AcceptFails
  BY <1>6, <1>12 DEF AcceptFails, Nodes
<1>13. CASE HandleAck \/ RejectOpen
  BY <1>2, <1>13 DEF HandleAck, RejectOpen
<1>14. ASSUME NEW n \in Nodes, NodeStep(n) PROVE TablesOK'
  <2>0. node[n] \in NodeStates
    BY NodeType
  <2>1. CASE Send(n)
    <3>1. UNCHANGED store
      BY <2>1 DEF Send
    <3> QED BY <1>5, <2>0, <2>1, <3>1, SendNode, ZenonT(40) DEF NodeStates
  <2>2. CASE SetOnDisconnect(n)
    <3>1. UNCHANGED store
      BY <2>2 DEF SetOnDisconnect
    <3>2. PICK r \in NodeStates : NowHolds(n, r) /\ SameButCallback(r, node[n])
      BY <2>2, SetOnDisconnectNode
    <3> QED BY <1>5, <3>1, <3>2 DEF SameButCallback
  <2>3. CASE HandleClose(n)
    BY <1>6, <2>3 DEF HandleClose
  <2>4. CASE Close(n)
    <3> DEFINE f == Forget(node[n])
               r == [f EXCEPT !.objects = @ - 1]
    <3>1. NowHolds(n, r) /\ CloseQueue(n)
      BY <2>4, CloseNode
    <3>2. f \in NodeStates /\ f.queue = None /\ f.on = node[n].on /\ f.reader = node[n].reader
      BY <2>0, ForgetFields
    <3>3. r.queue = None /\ r.on = node[n].on /\ r.reader = node[n].reader
      BY <3>2 DEF NodeStates
    <3> HIDE DEF r
    <3> QED BY <1>4, <3>1, <3>3
  <2>5. CASE Ingest(n)
    <3> DEFINE q == node[n].queue
    <3>1. PICK m \in net :
            /\ q \in 1 .. Len(store)
            /\ NowHolds(n, [node[n] EXCEPT !.seqIn = m.seq])
            /\ Append(store[q].items, m.payload) \in Seq(Nat)
            /\ store' = [store EXCEPT ![q].items = Append(store[q].items, m.payload)]
      BY <2>5, IngestEffect
    <3>2. store' \in Seq(QueueObjects) /\ Len(store') = Len(store)
      BY <3>1, SetItems
    <3> DEFINE r == [node[n] EXCEPT !.seqIn = m.seq]
    <3>3. r.queue = node[n].queue /\ r.on = node[n].on /\ r.reader = node[n].reader
      BY <2>0 DEF NodeStates
    <3>4. NowHolds(n, r)
      BY <3>1
    <3> HIDE DEF r, q
    <3> QED BY <3>2, <3>3, <3>4, NodeType, RefsKept DEF NowHolds, TablesOK
  <2>6. CASE RecvStarts(n)
    <3>1. UNCHANGED store /\ node[n].reader = "idle"
      BY <2>6 DEF RecvStarts
    <3> QED BY <1>5, <2>0, <2>6, <3>1, RecvStartsNode DEF NodeStates
  <2>7. CASE RecvFindsQueue(n)
    <3>1. CASE node[n].queue # None
      <4> DEFINE r == [node[n] EXCEPT !.reader = "getting", !.on = node[n].queue]
      <4>1. store' = store /\ NowHolds(n, r)
        BY <2>7, <3>1, FindsEffect
      <4>2. r.reader = "getting" /\ r.on = node[n].queue /\ r.queue = node[n].queue
        BY <2>0 DEF NodeStates
      <4>3. store' \in Seq(QueueObjects) /\ Len(store') = Len(store)
        BY <4>1, TypeParts DEF TablesOK
      <4> HIDE DEF r
      <4> QED BY <3>1, <4>1, <4>2, <4>3, NodeType, RefsKept DEF NowHolds, TablesOK
    <3>2. CASE node[n].queue = None
      <4> DEFINE r == [node[n] EXCEPT !.reader = "getting", !.on = Len(store) + 1,
                                      !.queue = Len(store) + 1]
      <4>1. store' = Append(store, NewQueue(TRUE)) /\ NowHolds(n, r)
        BY <2>7, <3>2, FindsEffect
      <4>2. r.reader = "getting" /\ r.on = Len(store) + 1 /\ r.queue = Len(store) + 1
        BY <2>0 DEF NodeStates
      <4>3. NewQueue(TRUE) \in QueueObjects
        BY DEF NewQueue, QueueObjects
      <4>4. store' \in Seq(QueueObjects) /\ Len(store') = Len(store) + 1 /\ Len(store) \in Nat
        BY <4>1, <4>3, AppendQueue
      <4> HIDE DEF r
      <4>5. /\ node'[n].queue \in 0 .. Len(store') /\ node'[n].on \in 0 .. Len(store')
            /\ node'[n].on # None /\ node'[n].reader = "getting"
        BY <4>1, <4>2, <4>4 DEF NowHolds
      <4>6. \A m \in Nodes : RefsOK(m)'
        BY <4>1, <4>4, <4>5, RefsKept DEF NowHolds
      <4> QED BY <4>1, <4>4, <4>6 DEF NowHolds, TablesOK
    <3> QED BY <3>1, <3>2
  <2>8. CASE RecvReturns(n)
    <3> DEFINE q == node[n].on
               items == store[q].items
    <3>1. PICK got :
            /\ q \in 1 .. Len(store) /\ items \in Seq(Nat)
            /\ NowHolds(n, [node[n] EXCEPT !.reader = "idle", !.on = None, !.last = got])
            /\ items = <<>> => store' = store
            /\ items # <<>> => store' = [store EXCEPT ![q].items = Tail(items)]
      BY <2>8, ReturnsEffect
    <3>2. store' \in Seq(QueueObjects) /\ Len(store') = Len(store)
      <4>1. CASE items = <<>>
        BY <3>1, <4>1, TypeParts DEF TablesOK
      <4>2. CASE items # <<>>
        <5>1. Tail(items) \in Seq(Nat)
          BY <3>1, <4>2
        <5> HIDE DEF q, items
        <5> QED BY <3>1, <4>2, <5>1, SetItems
      <4> QED BY <4>1, <4>2
    <3> DEFINE r == [node[n] EXCEPT !.reader = "idle", !.on = None, !.last = got]
    <3>3. r.queue = node[n].queue /\ r.on = None /\ r.reader = "idle"
      BY <2>0 DEF NodeStates
    <3>4. NowHolds(n, r)
      BY <3>1
    <3> HIDE DEF r, q, items
    <3> QED BY <3>2, <3>3, <3>4, NodeType, RefsKept DEF NowHolds, TablesOK
  <2>9. CASE RecvExpires(n)
    <3> DEFINE r == [node[n] EXCEPT !.reader = "idle", !.on = None]
    <3>1. UNCHANGED store /\ NowHolds(n, r)
      BY <2>9, RecvExpiresNode DEF RecvExpires
    <3>2. r.queue = node[n].queue /\ r.on = None /\ r.reader = "idle"
      BY <2>0 DEF NodeStates
    <3>3. store' \in Seq(QueueObjects) /\ Len(store') = Len(store)
      BY <3>1, TypeParts DEF TablesOK
    <3> HIDE DEF r
    <3> QED BY <3>1, <3>2, <3>3, NodeType, RefsKept DEF NowHolds, TablesOK
  <2> QED BY <1>14, <2>1, <2>2, <2>3, <2>4, <2>5, <2>6, <2>7, <2>8, <2>9 DEF NodeStep
<1> QED BY <1>7, <1>8, <1>9, <1>10, <1>11, <1>12, <1>13, <1>14 DEF Next

LEMMA TypeStep == TypeOK /\ [Next]_vars => TypeOK'
<1>1. ASSUME TypeOK, Next PROVE TypeOK'
  <2>1. ControlOK' /\ TablesOK'
    BY <1>1, ControlStep, TablesStep
  <2> QED BY <2>1 DEF TypeOK, ControlOK, TablesOK, RefsOK, QueueObjects
<1>2. ASSUME TypeOK, UNCHANGED vars PROVE TypeOK'
  BY <1>2 DEF TypeOK, vars, params, attempt, serving
<1> QED BY <1>1, <1>2

-----------------------------------------------------------------------------
(* The invariant of the handshake and the tables *)

\* Nothing happens before open_channel(), and nothing at the acceptor but a late close
\* before the channel_open arrives.
Quiet ==
  /\ opening = "idle" => /\ net = {} /\ workers = 0 /\ opens = 0 /\ acked = FALSE
                         /\ node["opener"] = Blank /\ node["acceptor"] = Blank
                         /\ store = <<>>
  /\ opens = 0 => LET s == node["acceptor"] IN
       /\ s.queue = None /\ s.on = None /\ s.reader = "idle" /\ s.objects = 0
       /\ s.seqIn = 0 /\ s.seqOut = 0 /\ s.sent = 0 /\ s.last = 0

\* An acknowledgement comes from an acceptor that registered the name.
Agreed ==
  /\ \/ workers > 0 \/ acked \/ Msg("opener", "ack") \in net
     \/ node["acceptor"].objects > 0 \/ opening = "open"
     => ordering = offered /\ opens > 0
  /\ node["opener"].objects > 0 => opening = "open"

\* Someone works with the channel at node n.
Used(n) ==
  \/ node[n].objects > 0 \/ node[n].reader # "idle"
  \/ n = "acceptor" /\ workers > 0
  \/ n = "opener" /\ opening # "idle"

\* What the tables of node n hold: a channel in use is known or was closed; callbacks
\* are called when it is; a closed channel has at most a stray queue.
Tables(n) == LET s == node[n] IN
  /\ Used(n) => s.queue # None \/ s.dead
  /\ s.fired = s.due - (IF s.callback THEN 1 ELSE 0)
  /\ s.fired > 0 => s.dead
  /\ s.dead /\ s.callback => s.late
  /\ s.dead => ~s.awaited /\ (s.queue # None => store[s.queue].stray)

HInv == TypeOK /\ Quiet /\ Agreed /\ \A n \in Nodes : Tables(n)

\* A stray queue stays one, so the tables of the other node are as good as before.
LEMMA TablesKept ==
  ASSUME TypeOK, NEW m \in Nodes, Tables(m), node'[m] = node[m], Used(m)' => Used(m),
         \A k \in 1 .. Len(store) : store[k].stray => store'[k].stray
  PROVE  Tables(m)'
<1>1. node[m].queue # None => node[m].queue \in 1 .. Len(store)
  BY NodeType
<1> QED BY <1>1 DEF Tables

\* A node that works with a channel has the channel in its tables, also after a step
\* that only changes its use.
LEMMA TablesUsed ==
  ASSUME TypeOK, NEW m \in Nodes, Tables(m), Used(m), UNCHANGED store,
         NEW r, node'[m] = r, r.queue = node[m].queue, r.dead = node[m].dead,
         r.callback = node[m].callback, r.due = node[m].due, r.late = node[m].late,
         r.fired = node[m].fired, r.awaited => node[m].awaited
  PROVE  Tables(m)'
  BY DEF Tables

\* Registering a channel that is alive, or at the acceptor, which awaits nothing.
LEMMA RegisterTables ==
  ASSUME TypeOK, NEW n \in Nodes, Tables(n), Register(n),
         n = "opener" => ~node["opener"].dead
  PROVE  Tables(n)'
<1> DEFINE s == node[n]
           r == [s EXCEPT !.queue = Len(store) + 1, !.seqIn = 0, !.seqOut = 0,
                          !.awaited = (n = "opener")]
<1>1. NowHolds(n, r) /\ s \in NodeStates
  BY RegisterNode, NodeType
<1>2. /\ r.queue = Len(store) + 1 /\ r.dead = s.dead /\ r.callback = s.callback
      /\ r.due = s.due /\ r.late = s.late /\ r.fired = s.fired /\ r.awaited = (n = "opener")
  BY <1>1 DEF NodeStates
<1>3. store'[Len(store) + 1].stray = s.dead
  <2>1. store'[Len(store) + 1] = NewQueue(s.dead)
    BY RegisterQueues
  <2> QED BY <2>1 DEF NewQueue
<1>4. Len(store) + 1 # None
  BY NodeType
<1> HIDE DEF r
<1> QED BY <1>1, <1>2, <1>3, <1>4 DEF Tables, NowHolds

\* Forgetting a channel, which calls the callback if it is there.
LEMMA ForgetTables ==
  ASSUME TypeOK, NEW n \in Nodes, Tables(n), NEW r, NowHolds(n, r),
         r.queue = None, r.dead = TRUE, r.callback = FALSE, r.awaited = FALSE,
         r.due = node[n].due,
         r.fired = node[n].fired + (IF node[n].callback THEN 1 ELSE 0)
  PROVE  Tables(n)'
<1>1. r.fired = r.due - (IF r.callback THEN 1 ELSE 0)
  <2>1. node[n] \in NodeStates
    BY NodeType
  <2>2. node[n].callback \in BOOLEAN /\ node[n].due \in Int /\ node[n].fired \in Nat
    BY <2>1 DEF NodeStates
  <2> QED BY <2>2 DEF Tables
<1> QED BY <1>1 DEF Tables, NowHolds

\* A step keeps what the tables of both nodes hold.
LEMMA TablesSound ==
  ASSUME HInv, Next
  PROVE  \A n \in Nodes : Tables(n)'
<1>0. /\ TypeOK /\ Tables("opener") /\ Tables("acceptor")
      /\ "opener" \in Nodes /\ "acceptor" \in Nodes
      /\ \A n \in Nodes : n = "opener" \/ n = "acceptor"
  BY DEF HInv, Nodes
<1> USE DEF params, attempt, serving
<1>1. CASE OpenChannel
  <2>1. Register("opener") /\ ~node["opener"].dead /\ UNCHANGED serving
    BY <1>1 DEF OpenChannel, HInv, Quiet, Blank
  <2>2. Tables("opener")'
    BY <1>0, <2>1, RegisterTables
  <2>3. node'["acceptor"] = node["acceptor"]
    BY <1>0, <2>1, RegisterNode DEF NowHolds
  <2>4. Tables("acceptor")'
    BY <1>0, <2>1, <2>3, RegisterQueues, TablesKept DEF Used
  <2> QED BY <1>0, <2>2, <2>4
<1>2. CASE OpenAcked
  <2>1. OpenReturns /\ UNCHANGED <<serving, store>> /\ opening = "waiting"
    BY <1>2 DEF OpenAcked, OpenReturns
  <2>2. Tables("acceptor")'
    BY <1>0, <2>1, OpenReturnsNode, TablesKept DEF NowHolds, Used
  <2> DEFINE r == [node["opener"] EXCEPT !.awaited = FALSE, !.objects = @ + 1]
  <2>3. node["opener"] \in NodeStates /\ node'["opener"] = r
    BY <1>0, <2>1, OpenReturnsNode, NodeType DEF NowHolds
  <2>4. /\ r.queue = node["opener"].queue /\ r.dead = node["opener"].dead
        /\ r.callback = node["opener"].callback /\ r.due = node["opener"].due
        /\ r.late = node["opener"].late
        /\ r.fired = node["opener"].fired /\ r.awaited = FALSE
    BY <2>3 DEF NodeStates
  <2> HIDE DEF r
  <2>5. Tables("opener")'
    BY <1>0, <2>1, <2>3, <2>4, TablesUsed DEF Used
  <2> QED BY <1>0, <2>2, <2>5
<1>3. ASSUME NEW n \in Nodes, Unregister(n), UNCHANGED opening \/ n = "opener",
             UNCHANGED workers \/ n = "acceptor"
      PROVE  \A m \in Nodes : Tables(m)'
  <2> DEFINE r == Forget(node[n])
  <2>1. NowHolds(n, r) /\ CloseQueue(n) /\ node[n] \in NodeStates
    BY <1>0, <1>3, UnregisterNode, NodeType
  <2>2. Tables(n)'
    <3>1. /\ r.queue = None /\ r.dead = TRUE /\ r.callback = FALSE /\ r.awaited = FALSE
          /\ r.due = node[n].due
          /\ r.fired = node[n].fired + (IF node[n].callback THEN 1 ELSE 0)
      BY <2>1, ForgetFields
    <3> HIDE DEF r
    <3> QED BY <1>0, <2>1, <3>1, ForgetTables
  <2>3. ASSUME NEW m \in Nodes \ {n} PROVE Tables(m)'
    BY <1>0, <1>3, <2>1, CloseQueues, TablesKept DEF NowHolds, Used
  <2> QED BY <2>2, <2>3
<1>4. CASE OpenExpires
  BY <1>0, <1>3, <1>4 DEF OpenExpires
<1>5. CASE HandleAck \/ RejectOpen
  <2>1. UNCHANGED <<opening, workers, node, store>>
    BY <1>5 DEF HandleAck, RejectOpen, ArrivalOfOpen
  <2> QED BY <1>0, <2>1 DEF Tables, Used
<1>6. CASE AcceptOpen
  <2>1. Register("acceptor") /\ UNCHANGED opening
    BY <1>6 DEF AcceptOpen, ArrivalOfOpen
  <2>2. Tables("acceptor")'
    BY <1>0, <2>1, RegisterTables
  <2>3. node'["opener"] = node["opener"]
    BY <1>0, <2>1, RegisterNode DEF NowHolds
  <2>4. Tables("opener")'
    BY <1>0, <2>1, <2>3, RegisterQueues, TablesKept DEF Used
  <2> QED BY <1>0, <2>2, <2>4
<1>7. CASE SendAck
  <2>1. UNCHANGED <<opening, store>> /\ workers > 0
    BY <1>7 DEF SendAck
  <2>2. Tables("opener")'
    BY <1>0, <1>7, <2>1, SendAckNode, TablesKept DEF NowHolds, Used
  <2> DEFINE r == [node["acceptor"] EXCEPT !.objects = @ + 1]
  <2>3. node["acceptor"] \in NodeStates /\ node'["acceptor"] = r
    BY <1>0, <1>7, SendAckNode, NodeType DEF NowHolds
  <2>4. /\ r.queue = node["acceptor"].queue /\ r.dead = node["acceptor"].dead
        /\ r.callback = node["acceptor"].callback /\ r.due = node["acceptor"].due
        /\ r.late = node["acceptor"].late
        /\ r.fired = node["acceptor"].fired /\ r.awaited = node["acceptor"].awaited
    BY <2>3 DEF NodeStates
  <2> HIDE DEF r
  <2>5. Tables("acceptor")'
    BY <1>0, <2>1, <2>3, <2>4, TablesUsed DEF Used
  <2> QED BY <1>0, <2>2, <2>5
<1>8. CASE AcceptFails
  BY <1>0, <1>3, <1>8 DEF AcceptFails
<1>9. ASSUME NEW n \in Nodes, NodeStep(n) PROVE \A m \in Nodes : Tables(m)'
  <2>0. Tables(n) /\ node[n] \in NodeStates
    BY <1>0, NodeType
  <2>1. ASSUME UNCHANGED <<opening, workers, store>>, NEW r, NowHolds(n, r), Used(n),
               r.queue = node[n].queue, r.dead = node[n].dead, r.callback = node[n].callback,
               r.due = node[n].due, r.late = node[n].late, r.fired = node[n].fired,
               r.awaited = node[n].awaited
        PROVE  \A m \in Nodes : Tables(m)'
    <3>1. Tables(n)'
      BY <1>0, <2>0, <2>1, TablesUsed DEF NowHolds
    <3>2. ASSUME NEW m \in Nodes \ {n} PROVE Tables(m)'
      BY <1>0, <2>1, TablesKept DEF NowHolds, Used
    <3> QED BY <3>1, <3>2
  <2>2. CASE Send(n)
    <3> DEFINE r == [node[n] EXCEPT !.sent = @ + 1,
                       !.seqOut = IF ordering = "sequence" THEN node[n].seqOut + 1 ELSE 0]
    <3>1. UNCHANGED <<opening, workers, store>> /\ NowHolds(n, r) /\ Used(n)
      BY <1>0, <2>2, SendNode DEF Send, Used
    <3>2. /\ r.queue = node[n].queue /\ r.dead = node[n].dead /\ r.callback = node[n].callback
          /\ r.due = node[n].due /\ r.late = node[n].late /\ r.fired = node[n].fired
          /\ r.awaited = node[n].awaited
      BY <2>0 DEF NodeStates
    <3> HIDE DEF r
    <3> QED BY <2>1, <3>1, <3>2
  <2>3. CASE SetOnDisconnect(n)
    <3>1. UNCHANGED <<opening, workers, store>>
      BY <2>3 DEF SetOnDisconnect
    <3>2. PICK r \in NodeStates :
            /\ NowHolds(n, r) /\ SameButCallback(r, node[n])
            /\ \/ /\ r.callback = TRUE /\ r.late = node[n].dead
                  /\ r.due = IF node[n].callback THEN node[n].due ELSE node[n].due + 1
               \/ /\ r.callback = FALSE
                  /\ r.due = IF node[n].callback THEN node[n].due - 1 ELSE node[n].due
      BY <1>0, <2>3, SetOnDisconnectNode
    <3>3. Used(n)' => Used(n)
      BY <3>1, <3>2 DEF Used, NowHolds, SameButCallback
    <3>4. /\ node[n].callback \in BOOLEAN /\ node[n].due \in Int /\ node[n].fired \in Nat
      BY <2>0 DEF NodeStates
    <3>5. r.fired = r.due - (IF r.callback THEN 1 ELSE 0)
      BY <2>0, <3>2, <3>4 DEF Tables, SameButCallback
    <3>6. Tables(n)'
      BY <2>0, <3>1, <3>2, <3>3, <3>5 DEF Tables, NowHolds, SameButCallback
    <3>7. ASSUME NEW m \in Nodes \ {n} PROVE Tables(m)'
      BY <1>0, <3>1, <3>2, TablesKept DEF NowHolds, Used
    <3> QED BY <3>6, <3>7
  <2>4. CASE HandleClose(n)
    BY <1>3, <2>4 DEF HandleClose
  <2>5. CASE Close(n)
    <3> DEFINE f == Forget(node[n])
               r == [f EXCEPT !.objects = @ - 1]
    <3>1. NowHolds(n, r) /\ CloseQueue(n) /\ UNCHANGED <<opening, workers>>
      BY <1>0, <2>5, CloseNode DEF Close
    <3>2. /\ f \in NodeStates /\ f.queue = None /\ f.dead = TRUE /\ f.callback = FALSE
          /\ f.awaited = FALSE /\ f.due = node[n].due
          /\ f.fired = node[n].fired + (IF node[n].callback THEN 1 ELSE 0)
      BY <2>0, ForgetFields
    <3> HIDE DEF f
    <3>3. /\ r.queue = None /\ r.dead = TRUE /\ r.callback = FALSE
          /\ r.awaited = FALSE /\ r.due = node[n].due
          /\ r.fired = node[n].fired + (IF node[n].callback THEN 1 ELSE 0)
      BY <3>2 DEF NodeStates
    <3> HIDE DEF r
    <3>4. Tables(n)'
      BY <1>0, <2>0, <3>1, <3>3, ForgetTables
    <3>5. ASSUME NEW m \in Nodes \ {n} PROVE Tables(m)'
      BY <1>0, <3>1, CloseQueues, TablesKept DEF NowHolds, Used
    <3> QED BY <3>4, <3>5
  <2>6. CASE Ingest(n)
    <3> DEFINE q == node[n].queue
    <3>1. PICK m \in net :
            /\ q \in 1 .. Len(store)
            /\ NowHolds(n, [node[n] EXCEPT !.seqIn = m.seq])
            /\ Append(store[q].items, m.payload) \in Seq(Nat)
            /\ store' = [store EXCEPT ![q].items = Append(store[q].items, m.payload)]
      <4>1. TypeOK
        BY <1>0
      <4> QED BY <2>6, <4>1, IngestEffect
    <3> DEFINE r == [node[n] EXCEPT !.seqIn = m.seq]
    <3>2. \A k \in 1 .. Len(store) : store'[k].stray = store[k].stray
      BY <1>0, <3>1, SetItems
    <3>3. /\ r.queue = q /\ r.dead = node[n].dead /\ r.callback = node[n].callback
          /\ r.due = node[n].due /\ r.late = node[n].late /\ r.fired = node[n].fired
          /\ r.awaited = node[n].awaited
          /\ r.objects = node[n].objects /\ r.reader = node[n].reader
      BY <2>0 DEF NodeStates
    <3>4. NowHolds(n, r) /\ q \in 1 .. Len(store) /\ UNCHANGED <<opening, workers>>
      BY <2>6, <3>1 DEF Ingest
    <3> HIDE DEF r
    <3>5. Tables(n)'
      BY <2>0, <3>2, <3>3, <3>4 DEF Tables, NowHolds, Used
    <3>6. ASSUME NEW x \in Nodes \ {n} PROVE Tables(x)'
      BY <1>0, <3>2, <3>4, TablesKept DEF NowHolds, Used
    <3> QED BY <3>5, <3>6
  <2>7. CASE RecvStarts(n)
    <3> DEFINE r == [node[n] EXCEPT !.reader = "checked"]
    <3>1. UNCHANGED <<opening, workers, store>> /\ NowHolds(n, r) /\ Used(n)
      BY <1>0, <2>7, RecvStartsNode DEF RecvStarts, elsewhere, Used
    <3>2. /\ r.queue = node[n].queue /\ r.dead = node[n].dead /\ r.callback = node[n].callback
          /\ r.due = node[n].due /\ r.late = node[n].late /\ r.fired = node[n].fired
          /\ r.awaited = node[n].awaited
      BY <2>0 DEF NodeStates
    <3> HIDE DEF r
    <3> QED BY <2>1, <3>1, <3>2
  <2>8. CASE RecvFindsQueue(n) /\ node[n].queue # None
    <3> DEFINE r == [node[n] EXCEPT !.reader = "getting", !.on = node[n].queue]
    <3>1. UNCHANGED <<opening, workers, store>> /\ NowHolds(n, r) /\ Used(n)
      BY <1>0, <2>8, FindsEffect DEF RecvFindsQueue, elsewhere, Used
    <3>2. /\ r.queue = node[n].queue /\ r.dead = node[n].dead /\ r.callback = node[n].callback
          /\ r.due = node[n].due /\ r.late = node[n].late /\ r.fired = node[n].fired
          /\ r.awaited = node[n].awaited
      BY <2>0 DEF NodeStates
    <3> HIDE DEF r
    <3> QED BY <2>1, <3>1, <3>2
  <2>9. CASE RecvFindsQueue(n) /\ node[n].queue = None
    <3> DEFINE r == [node[n] EXCEPT !.reader = "getting", !.on = Len(store) + 1,
                                    !.queue = Len(store) + 1]
    <3>1. /\ UNCHANGED <<opening, workers>> /\ NowHolds(n, r)
          /\ store' = Append(store, NewQueue(TRUE))
      BY <1>0, <2>9, FindsEffect DEF RecvFindsQueue, elsewhere
    <3>2. /\ r.queue = Len(store) + 1 /\ r.dead = node[n].dead
          /\ r.callback = node[n].callback /\ r.due = node[n].due /\ r.late = node[n].late
          /\ r.fired = node[n].fired /\ r.awaited = node[n].awaited
      BY <2>0 DEF NodeStates
    <3> HIDE DEF r
    <3>3. /\ store'[Len(store) + 1] = NewQueue(TRUE) /\ Len(store) \in Nat
          /\ \A k \in 1 .. Len(store) : store'[k] = store[k]
      <4>1. NewQueue(TRUE) \in QueueObjects
        BY DEF NewQueue, QueueObjects
      <4> QED BY <1>0, <3>1, <4>1, AppendQueue
    <3>4. store'[Len(store) + 1].stray = TRUE /\ Len(store) + 1 # None
      BY <3>3 DEF NewQueue
    <3>5. Tables(n)'
      BY <2>0, <3>1, <3>2, <3>4 DEF Tables, NowHolds
    <3>6. ASSUME NEW m \in Nodes \ {n} PROVE Tables(m)'
      BY <1>0, <3>1, <3>3, TablesKept DEF NowHolds, Used
    <3> QED BY <3>5, <3>6
  <2>10. CASE RecvReturns(n)
    <3> DEFINE q == node[n].on
               items == store[q].items
    <3>1. PICK got :
            /\ q \in 1 .. Len(store) /\ items \in Seq(Nat)
            /\ NowHolds(n, [node[n] EXCEPT !.reader = "idle", !.on = None, !.last = got])
            /\ items = <<>> => store' = store
            /\ items # <<>> => store' = [store EXCEPT ![q].items = Tail(items)]
      BY <1>0, <2>10, ReturnsEffect
    <3>2. \A k \in 1 .. Len(store) : store'[k].stray = store[k].stray
      <4>1. CASE items = <<>>
        BY <3>1, <4>1
      <4>2. CASE items # <<>>
        <5>1. Tail(items) \in Seq(Nat)
          BY <3>1, <4>2
        <5> HIDE DEF q, items
        <5> QED BY <1>0, <3>1, <4>2, <5>1, SetItems
      <4> QED BY <4>1, <4>2
    <3> DEFINE r == [node[n] EXCEPT !.reader = "idle", !.on = None, !.last = got]
    <3>3. /\ r.queue = node[n].queue /\ r.dead = node[n].dead
          /\ r.callback = node[n].callback /\ r.due = node[n].due /\ r.late = node[n].late
          /\ r.fired = node[n].fired /\ r.awaited = node[n].awaited
      BY <2>0 DEF NodeStates
    <3>4. NowHolds(n, r) /\ UNCHANGED <<opening, workers>> /\ Used(n)
      BY <2>10, <3>1 DEF RecvReturns, elsewhere, Used
    <3> HIDE DEF r
    <3>5. node[n].queue # None => node[n].queue \in 1 .. Len(store)
      BY <1>0, NodeType
    <3>6. Tables(n)'
      BY <2>0, <3>2, <3>3, <3>4, <3>5 DEF Tables, NowHolds
    <3>7. ASSUME NEW m \in Nodes \ {n} PROVE Tables(m)'
      BY <1>0, <3>2, <3>4, TablesKept DEF NowHolds, Used
    <3> QED BY <3>6, <3>7
  <2>11. CASE RecvExpires(n)
    <3> DEFINE r == [node[n] EXCEPT !.reader = "idle", !.on = None]
    <3>1. UNCHANGED <<opening, workers, store>> /\ NowHolds(n, r) /\ Used(n)
      BY <1>0, <2>11, RecvExpiresNode DEF RecvExpires, elsewhere, Used
    <3>2. /\ r.queue = node[n].queue /\ r.dead = node[n].dead /\ r.callback = node[n].callback
          /\ r.due = node[n].due /\ r.late = node[n].late /\ r.fired = node[n].fired
          /\ r.awaited = node[n].awaited
      BY <2>0 DEF NodeStates
    <3> HIDE DEF r
    <3> QED BY <2>1, <3>1, <3>2
  <2> QED BY <1>9, <2>2, <2>3, <2>4, <2>5, <2>6, <2>7, <2>8, <2>9, <2>10, <2>11 DEF NodeStep
<1> QED BY <1>1, <1>2, <1>4, <1>5, <1>6, <1>7, <1>8, <1>9 DEF Next

\* Before open_channel() nothing else can happen.
LEMMA IdleFirst ==
  ASSUME HInv, Next, opening = "idle"
  PROVE  OpenChannel
<1>1. /\ net = {} /\ workers = 0 /\ node["opener"] = Blank /\ node["acceptor"] = Blank
  BY DEF HInv, Quiet
<1>2. \A n \in Nodes : /\ node[n].objects = 0 /\ node[n].reader = "idle"
  BY <1>1 DEF Nodes, Blank
<1>3. ASSUME NEW n \in Nodes PROVE ~NodeStep(n)
  <2>1. ~Send(n) /\ ~SetOnDisconnect(n) /\ ~Close(n) /\ ~RecvStarts(n)
    BY <1>1, <1>2 DEF Send, SetOnDisconnect, Held, Close, RecvStarts, Nodes
  <2>2. ~Ingest(n) /\ ~HandleClose(n)
    BY <1>1 DEF Ingest, HandleClose
  <2>3. ~RecvFindsQueue(n) /\ ~RecvReturns(n) /\ ~RecvExpires(n)
    BY <1>2 DEF RecvFindsQueue, RecvReturns, RecvExpires
  <2> QED BY <2>1, <2>2, <2>3 DEF NodeStep
<1>4. ~OpenAcked /\ ~OpenExpires /\ ~HandleAck /\ ~RejectOpen /\ ~AcceptOpen
  BY <1>1 DEF OpenAcked, OpenReturns, OpenExpires, HandleAck, RejectOpen, AcceptOpen, ArrivalOfOpen
<1>5. ~SendAck /\ ~AcceptFails
  BY <1>1, <1>2 DEF SendAck, AcceptFails, Nodes
<1> QED BY <1>3, <1>4, <1>5 DEF Next

\* What steps do to the counts of Channel objects.
LEMMA ObjectsStep ==
  ASSUME TypeOK, NEW n \in Nodes, NodeStep(n)
  PROVE  /\ node'[n].objects <= node[n].objects /\ node'[n].objects \in Nat
         /\ node[n].objects \in Nat
         /\ \A m \in Nodes \ {n} : node'[m] = node[m]
<1>0. node[n] \in NodeStates /\ node[n].objects \in Nat
  <2>1. node[n] \in NodeStates
    BY NodeType
  <2> QED BY <2>1 DEF NodeStates
<1>a. ASSUME NEW r, NowHolds(n, r), r.objects = node[n].objects
      PROVE  /\ node'[n].objects <= node[n].objects /\ node'[n].objects \in Nat
             /\ \A m \in Nodes \ {n} : node'[m] = node[m]
  BY <1>0, <1>a DEF NowHolds
<1>1. CASE Send(n)
  <2> DEFINE r == [node[n] EXCEPT !.sent = @ + 1,
                     !.seqOut = IF ordering = "sequence" THEN node[n].seqOut + 1 ELSE 0]
  <2>1. NowHolds(n, r) BY <1>1, SendNode
  <2>2. r.objects = node[n].objects BY <1>0 DEF NodeStates
  <2> HIDE DEF r
  <2> QED BY <1>0, <1>a, <2>1, <2>2
<1>2. CASE SetOnDisconnect(n)
  <2>1. PICK r \in NodeStates : NowHolds(n, r) /\ SameButCallback(r, node[n])
    BY <1>2, SetOnDisconnectNode
  <2> QED BY <1>0, <1>a, <2>1 DEF SameButCallback
<1>3. CASE HandleClose(n)
  <2>1. NowHolds(n, Forget(node[n])) BY <1>3, UnregisterNode DEF HandleClose
  <2>2. Forget(node[n]).objects = node[n].objects BY <1>0, ForgetFields
  <2> QED BY <1>0, <1>a, <2>1, <2>2
<1>4. CASE Close(n)
  <2> DEFINE f == Forget(node[n])
             r == [f EXCEPT !.objects = @ - 1]
  <2>1. NowHolds(n, r) /\ node[n].objects > 0
    BY <1>4, CloseNode DEF Close
  <2>2. f \in NodeStates /\ f.objects = node[n].objects
    BY <1>0, ForgetFields
  <2> HIDE DEF f
  <2>3. r.objects = node[n].objects - 1
    BY <2>2 DEF NodeStates
  <2> HIDE DEF r
  <2> QED BY <1>0, <2>1, <2>3 DEF NowHolds
<1>5. CASE Ingest(n)
  <2>1. PICK m \in net : NowHolds(n, [node[n] EXCEPT !.seqIn = m.seq])
    BY <1>5, IngestEffect
  <2> DEFINE r == [node[n] EXCEPT !.seqIn = m.seq]
  <2>2. r.objects = node[n].objects BY <1>0 DEF NodeStates
  <2>3. NowHolds(n, r) BY <2>1
  <2> HIDE DEF r
  <2> QED BY <1>0, <1>a, <2>2, <2>3
<1>6. CASE RecvStarts(n)
  <2> DEFINE r == [node[n] EXCEPT !.reader = "checked"]
  <2>1. NowHolds(n, r) BY <1>6, RecvStartsNode
  <2>2. r.objects = node[n].objects BY <1>0 DEF NodeStates
  <2> HIDE DEF r
  <2> QED BY <1>0, <1>a, <2>1, <2>2
<1>7. CASE RecvFindsQueue(n)
  <2>1. PICK r : NowHolds(n, r) /\ r.objects = node[n].objects
    <3> DEFINE r1 == [node[n] EXCEPT !.reader = "getting", !.on = node[n].queue]
               r2 == [node[n] EXCEPT !.reader = "getting", !.on = Len(store) + 1,
                                     !.queue = Len(store) + 1]
    <3>1. NowHolds(n, r1) \/ NowHolds(n, r2) BY <1>7, FindsEffect
    <3>2. r1.objects = node[n].objects /\ r2.objects = node[n].objects
      BY <1>0 DEF NodeStates
    <3> HIDE DEF r1, r2
    <3> QED BY <3>1, <3>2
  <2> QED BY <1>0, <1>a, <2>1
<1>8. CASE RecvReturns(n)
  <2>1. PICK got : NowHolds(n, [node[n] EXCEPT !.reader = "idle", !.on = None, !.last = got])
    BY <1>8, ReturnsEffect
  <2> DEFINE r == [node[n] EXCEPT !.reader = "idle", !.on = None, !.last = got]
  <2>2. r.objects = node[n].objects BY <1>0 DEF NodeStates
  <2>3. NowHolds(n, r) BY <2>1
  <2> HIDE DEF r
  <2> QED BY <1>0, <1>a, <2>2, <2>3
<1>9. CASE RecvExpires(n)
  <2> DEFINE r == [node[n] EXCEPT !.reader = "idle", !.on = None]
  <2>1. NowHolds(n, r) BY <1>9, RecvExpiresNode
  <2>2. r.objects = node[n].objects BY <1>0 DEF NodeStates
  <2> HIDE DEF r
  <2> QED BY <1>0, <1>a, <2>1, <2>2
<1> QED BY <1>1, <1>2, <1>3, <1>4, <1>5, <1>6, <1>7, <1>8, <1>9 DEF NodeStep

\* Nobody sends an acknowledgement but the acceptor's worker.
LEMMA AckSent ==
  ASSUME TypeOK, Next, Msg("opener", "ack") \in net', Msg("opener", "ack") \notin net
  PROVE  SendAck
<1>1. \A n \in Nodes, kind \in {"open", "close"} : Msg(n, kind) # Msg("opener", "ack")
  BY DEF Msg
<1>2. \A n, seq, payload : Data(n, seq, payload) # Msg("opener", "ack")
  BY DEF Msg, Data
<1>3. \A n \in Nodes : ~NodeStep(n)
  BY <1>1, <1>2 DEF NodeStep, Send, Ingest, SetOnDisconnect, Close, HandleClose, RecvStarts,
                    RecvFindsQueue, RecvReturns, RecvExpires, elsewhere, Peer, Nodes
<1>4. ~OpenChannel /\ ~RejectOpen
  BY <1>1 DEF OpenChannel, RejectOpen, Nodes
<1>5. ~OpenAcked /\ ~OpenExpires /\ ~HandleAck /\ ~AcceptOpen /\ ~AcceptFails
  BY DEF OpenAcked, OpenReturns, OpenExpires, HandleAck, AcceptOpen, AcceptFails
<1> QED BY <1>3, <1>4, <1>5 DEF Next

\* An acknowledgement comes from an acceptor that registered the name.
LEMMA AgreedStep == ASSUME HInv, Next PROVE Agreed'
<1> USE DEF params, attempt, serving
<1>0. TypeOK /\ Agreed /\ opens \in Nat /\ workers \in Nat
  BY DEF HInv, TypeOK
<1>a. "opener" \in Nodes /\ "acceptor" \in Nodes
      /\ \A n \in Nodes : n = "opener" \/ n = "acceptor"
  BY DEF Nodes
<1>b. node["opener"] \in NodeStates /\ node["acceptor"] \in NodeStates
  BY <1>0, <1>a, NodeType
<1>1. CASE OpenChannel
  <2>1. /\ opening = "idle" /\ opening' # "open" /\ UNCHANGED <<workers, acked>>
        /\ Register("opener")
    BY <1>1 DEF OpenChannel
  <2>2. node["opener"].objects = 0 /\ node["acceptor"].objects = 0 /\ workers = 0 /\ acked = FALSE
        /\ Msg("opener", "ack") \notin net
    BY <2>1 DEF HInv, Quiet, Blank
  <2> DEFINE r == [node["opener"] EXCEPT !.queue = Len(store) + 1, !.seqIn = 0, !.seqOut = 0,
                                         !.awaited = TRUE]
  <2>3. node'["opener"] = r /\ node'["acceptor"] = node["acceptor"]
    BY <1>0, <1>a, <2>1, RegisterNode DEF NowHolds
  <2>4. r.objects = node["opener"].objects
    BY <1>b DEF NodeStates
  <2>5. Msg("opener", "ack") \notin net'
    <3>1. ~SendAck
      BY <2>2 DEF SendAck
    <3> QED BY <1>0, <2>2, <3>1, AckSent
  <2> HIDE DEF r
  <2> QED BY <2>1, <2>2, <2>3, <2>4, <2>5 DEF Agreed
<1>2. CASE OpenAcked
  <2>1. OpenReturns /\ acked /\ UNCHANGED <<params, acked, serving, net>> /\ opening' = "open"
    BY <1>2 DEF OpenAcked, OpenReturns
  <2>2. node'["acceptor"] = node["acceptor"]
    BY <1>0, <1>a, <2>1, OpenReturnsNode DEF NowHolds
  <2> QED BY <1>0, <2>1, <2>2 DEF Agreed
<1>3. ASSUME NEW n \in Nodes, NEW r, NowHolds(n, r), r.objects \in Nat,
             r.objects <= node[n].objects, UNCHANGED <<params, acked, opens>>,
             opening' = opening \/ (opening = "waiting" /\ opening' = "expired"),
             workers' \in Nat, workers' <= workers, ~SendAck
      PROVE  Agreed'
  <2>1. Msg("opener", "ack") \in net' => Msg("opener", "ack") \in net
    BY <1>0, <1>3, AckSent
  <2>2. node'["opener"].objects > 0 => node["opener"].objects > 0
    BY <1>3, <1>a, <1>b DEF NowHolds, NodeStates
  <2>3. node'["acceptor"].objects > 0 => node["acceptor"].objects > 0
    BY <1>3, <1>a, <1>b DEF NowHolds, NodeStates
  <2> QED BY <1>0, <1>3, <2>1, <2>2, <2>3 DEF Agreed
<1>4. ASSUME NEW n \in Nodes, Unregister(n), UNCHANGED <<params, acked, opens>>,
             opening' = opening \/ (opening = "waiting" /\ opening' = "expired"),
             workers' \in Nat, workers' <= workers, ~SendAck
      PROVE  Agreed'
  <2>1. NowHolds(n, Forget(node[n]))
    BY <1>0, <1>4, UnregisterNode
  <2>2. Forget(node[n]).objects = node[n].objects /\ node[n].objects \in Nat
    BY <1>a, <1>b, ForgetFields DEF NodeStates
  <2> QED BY <1>3, <1>4, <2>1, <2>2
<1>c. ~SendAck \/ SendAck
  OBVIOUS
<1>5. CASE OpenExpires /\ ~SendAck
  BY <1>0, <1>4, <1>5, <1>a DEF OpenExpires
<1>6. CASE AcceptFails /\ ~SendAck
  <2>1. workers' \in Nat /\ workers' <= workers
    BY <1>0, <1>6 DEF AcceptFails
  <2> QED BY <1>4, <1>6, <1>a, <2>1 DEF AcceptFails
<1>7. CASE HandleAck
  <2>1. /\ Msg("opener", "ack") \in net
        /\ UNCHANGED <<params, opening, serving, net, node>>
    BY <1>7 DEF HandleAck
  <2> QED BY <1>0, <2>1 DEF Agreed
<1>8. CASE RejectOpen /\ ~SendAck
  <2>1. UNCHANGED <<params, attempt, workers, node>> /\ opens' = opens + 1
    BY <1>8 DEF RejectOpen, ArrivalOfOpen
  <2>2. Msg("opener", "ack") \in net' => Msg("opener", "ack") \in net
    BY <1>0, <1>8, AckSent
  <2> QED BY <1>0, <2>1, <2>2 DEF Agreed
<1>9. CASE AcceptOpen
  <2>1. /\ UNCHANGED <<params, attempt, net>> /\ opens' = opens + 1 /\ offered = ordering
        /\ Register("acceptor")
    BY <1>9 DEF AcceptOpen, ArrivalOfOpen
  <2>2. node'["opener"] = node["opener"]
    BY <1>0, <1>a, <2>1, RegisterNode DEF NowHolds
  <2> QED BY <1>0, <2>1, <2>2 DEF Agreed
<1>10. CASE SendAck
  <2>1. UNCHANGED <<params, attempt, opens>> /\ workers > 0
    BY <1>10 DEF SendAck
  <2>2. node'["opener"] = node["opener"]
    BY <1>0, <1>a, <1>10, SendAckNode DEF NowHolds
  <2> QED BY <1>0, <2>1, <2>2 DEF Agreed
<1>11. ASSUME NEW n \in Nodes, NodeStep(n), ~SendAck PROVE Agreed'
  <2>1. UNCHANGED <<params, attempt, serving>>
    BY <1>11 DEF NodeStep, Send, Ingest, SetOnDisconnect, Close, HandleClose, RecvStarts,
                 RecvFindsQueue, RecvReturns, RecvExpires, elsewhere
  <2>2. Msg("opener", "ack") \in net' => Msg("opener", "ack") \in net
    BY <1>0, <1>11, AckSent
  <2>3. /\ node'[n].objects > 0 => node[n].objects > 0
        /\ \A m \in Nodes \ {n} : node'[m] = node[m]
    BY <1>0, <1>11, ObjectsStep
  <2> QED BY <1>0, <1>a, <2>1, <2>2, <2>3 DEF Agreed
<1> QED BY <1>1, <1>2, <1>5, <1>6, <1>7, <1>8, <1>9, <1>10, <1>11 DEF Next

LEMMA QuietStep == ASSUME HInv, Next PROVE Quiet'
<1> USE DEF params, attempt, serving
<1>0. /\ TypeOK /\ Quiet /\ Agreed /\ opens \in Nat /\ workers \in Nat
      /\ "opener" \in Nodes /\ "acceptor" \in Nodes
      /\ \A n \in Nodes : n = "opener" \/ n = "acceptor"
  BY DEF HInv, TypeOK, Nodes
<1>1. opening' # "idle"
  <2>1. CASE opening = "idle"
    <3>1. OpenChannel
      BY <2>1, IdleFirst
    <3> QED BY <3>1 DEF OpenChannel
  <2>2. CASE opening # "idle"
    <3>1. opening' = opening \/ opening' \in {"waiting", "refused", "open", "expired"}
      <4>1. ASSUME NEW n \in Nodes, NodeStep(n) PROVE opening' = opening
        BY <4>1 DEF NodeStep, Send, Ingest, SetOnDisconnect, Close, HandleClose, RecvStarts,
                    RecvFindsQueue, RecvReturns, RecvExpires, elsewhere
      <4>2. CASE OpenChannel \/ OpenAcked \/ OpenExpires \/ HandleAck
        BY <4>2 DEF OpenChannel, OpenAcked, OpenReturns, OpenExpires, HandleAck
      <4>3. CASE RejectOpen \/ AcceptOpen \/ SendAck \/ AcceptFails
        BY <4>3 DEF RejectOpen, AcceptOpen, ArrivalOfOpen, SendAck, AcceptFails
      <4> QED BY <4>1, <4>2, <4>3 DEF Next
    <3> QED BY <2>2, <3>1
  <2> QED BY <2>1, <2>2
<1>2. ASSUME opens' = 0
      PROVE  LET s == node'["acceptor"] IN
             /\ s.queue = None /\ s.on = None /\ s.reader = "idle" /\ s.objects = 0
             /\ s.seqIn = 0 /\ s.seqOut = 0 /\ s.sent = 0 /\ s.last = 0
  <2>1. ~RejectOpen /\ ~AcceptOpen
    BY <1>0, <1>2 DEF RejectOpen, AcceptOpen, ArrivalOfOpen
  <2>2. opens = 0
    <3>1. ASSUME NEW n \in Nodes, NodeStep(n) PROVE opens' = opens
      BY <3>1 DEF NodeStep, Send, Ingest, SetOnDisconnect, Close, HandleClose, RecvStarts,
                  RecvFindsQueue, RecvReturns, RecvExpires, elsewhere
    <3>2. CASE OpenChannel \/ OpenAcked \/ OpenExpires \/ HandleAck \/ SendAck \/ AcceptFails
      BY <1>2, <3>2 DEF OpenChannel, OpenAcked, OpenReturns, OpenExpires, HandleAck, SendAck,
                        AcceptFails
    <3> QED BY <1>2, <2>1, <3>1, <3>2 DEF Next
  <2> DEFINE s == node["acceptor"]
  <2>3. /\ s.queue = None /\ s.on = None /\ s.reader = "idle" /\ s.objects = 0
        /\ s.seqIn = 0 /\ s.seqOut = 0 /\ s.sent = 0 /\ s.last = 0
    BY <1>0, <2>2 DEF Quiet
  <2>4. workers = 0
    BY <1>0, <2>2 DEF Agreed
  <2>5. ~SendAck /\ ~AcceptFails
    BY <2>3, <2>4 DEF SendAck, AcceptFails
  <2>6. CASE OpenChannel \/ OpenAcked \/ OpenExpires \/ HandleAck
    <3>1. node'["acceptor"] = s
      <4>1. CASE OpenChannel
        BY <1>0, <4>1, RegisterNode DEF OpenChannel, NowHolds
      <4>2. CASE OpenAcked
        BY <1>0, <4>2, OpenReturnsNode DEF OpenAcked, NowHolds
      <4>3. CASE OpenExpires
        BY <1>0, <4>3, UnregisterNode DEF OpenExpires, NowHolds
      <4>4. CASE HandleAck
        BY <4>4 DEF HandleAck
      <4> QED BY <2>6, <4>1, <4>2, <4>3, <4>4
    <3> QED BY <2>3, <3>1
  <2>7. CASE NodeStep("opener")
    BY <1>0, <2>3, <2>7, ObjectsStep
  <2>8. CASE NodeStep("acceptor")
    <3>1. HandleClose("acceptor")
      <4>1. ~Send("acceptor") /\ ~SetOnDisconnect("acceptor") /\ ~Close("acceptor")
        BY <1>0, <2>2, <2>3 DEF Send, SetOnDisconnect, Held, Agreed, Close
      <4>2. ~Ingest("acceptor")
        BY <2>3 DEF Ingest
      <4>3. /\ ~RecvStarts("acceptor") /\ ~RecvFindsQueue("acceptor")
            /\ ~RecvReturns("acceptor") /\ ~RecvExpires("acceptor")
        BY <2>3 DEF RecvStarts, RecvFindsQueue, RecvReturns, RecvExpires
      <4> QED BY <2>8, <4>1, <4>2, <4>3 DEF NodeStep
    <3>2. node'["acceptor"] = Forget(s)
      BY <1>0, <3>1, UnregisterNode DEF HandleClose, NowHolds
    <3>3. s \in NodeStates
      BY <1>0, NodeType
    <3> HIDE DEF s
    <3> QED BY <2>3, <3>2, <3>3, ForgetFields
  <2> QED BY <1>0, <2>1, <2>5, <2>6, <2>7, <2>8 DEF Next
<1> QED BY <1>1, <1>2 DEF Quiet

LEMMA HInvInit == Init => HInv
<1> SUFFICES ASSUME Init PROVE HInv
  OBVIOUS
<1>1. \A n \in Nodes : node[n] = Blank
  BY DEF Init
<1>2. Quiet
  BY <1>1 DEF Init, Quiet, Blank, Nodes
<1>3. Agreed
  BY <1>1 DEF Init, Agreed, Blank, Nodes
<1>4. \A n \in Nodes : Tables(n)
  BY <1>1 DEF Init, Tables, Used, Blank
<1> QED BY <1>2, <1>3, <1>4, TypeInit DEF HInv

LEMMA HInvStep == HInv /\ [Next]_vars => HInv'
<1>1. ASSUME HInv, Next PROVE HInv'
  BY <1>1, TypeStep, QuietStep, AgreedStep, TablesSound DEF HInv
<1>2. ASSUME HInv, UNCHANGED vars PROVE HInv'
  <2>1. TypeOK'
    BY <1>2, TypeStep DEF HInv
  <2>2. UNCHANGED <<ordering, offered, opening, acked, opens, workers, net, node, store>>
    BY <1>2 DEF vars, params, attempt, serving
  <2> QED BY <1>2, <2>1, <2>2 DEF HInv, Quiet, Agreed, Tables, Used
<1> QED BY <1>1, <1>2

LEMMA AlwaysHInv == Spec => []HInv
  BY HInvInit, HInvStep, PTL DEF Spec

\* The tables have their types, and a Channel is got from an acceptor that registered
\* the name with the ordering asked for (core.py 801-861, 927-1015).
THEOREM HandshakeIsConsistent == Spec => []Consistent
<1>1. ASSUME HInv PROVE Consistent
  <2>1. node["acceptor"].objects > 0 => node["acceptor"].queue # None \/ node["acceptor"].dead
    BY <1>1 DEF HInv, Tables, Used, Nodes
  <2> QED BY <1>1, <2>1 DEF HInv, Agreed, Consistent
<1> QED BY <1>1, AlwaysHInv, PTL

\* However the end of a channel is learned, a callback set before it and not replaced or
\* cleared is called once, and no callback is called earlier (904-925).
THEOREM DisconnectIsToldOnce == Spec => []DisconnectOnce
<1>1. HInv => DisconnectOnce
  BY DEF HInv, Tables, DisconnectOnce
<1> QED BY <1>1, AlwaysHInv, PTL

-----------------------------------------------------------------------------
(* The order of sequenced data *)

\* The payloads among the items of a queue.
Payloads(items) == {i \in DOMAIN items : items[i] # Sentinel}

\* They are in order and above what was returned last; and at most b.
Ascending(items, last) ==
  \A i \in Payloads(items) :
    /\ last < items[i]
    /\ \A j \in Payloads(items) : i < j => items[i] < items[j]
UpTo(items, b) == \A i \in Payloads(items) : items[i] <= b

\* An arrival above everything seen goes to the end of the order.
LEMMA ArrivalAscends ==
  ASSUME NEW items \in Seq(Nat), NEW last \in Nat, NEW b \in Nat, NEW p \in Nat,
         Ascending(items, last), UpTo(items, b), last <= b, b < p
  PROVE  Ascending(Append(items, p), last) /\ UpTo(Append(items, p), p)
<1> DEFINE more == Append(items, p)
<1>1. /\ DOMAIN items = 1 .. Len(items) /\ Len(items) \in Nat
      /\ DOMAIN more = 1 .. Len(items) + 1 /\ more[Len(items) + 1] = p
      /\ \A i \in 1 .. Len(items) : more[i] = items[i] /\ items[i] \in Nat
  OBVIOUS
<1> HIDE DEF more
<1>2. ASSUME NEW i \in Payloads(more)
      PROVE  \/ i \in Payloads(items) /\ more[i] = items[i] /\ items[i] \in Nat /\ i <= Len(items)
             \/ i = Len(items) + 1
  BY <1>1 DEF Payloads
<1>3. ASSUME NEW i \in Payloads(more) PROVE i \in Nat /\ last < more[i] /\ more[i] <= p
  <2>1. i \in Nat
    BY <1>1 DEF Payloads
  <2>2. CASE i = Len(items) + 1
    BY <1>1, <2>1, <2>2
  <2>3. CASE i # Len(items) + 1
    <3>1. i \in Payloads(items) /\ more[i] = items[i] /\ items[i] \in Nat
      BY <1>2, <2>3
    <3>2. last < items[i] /\ items[i] <= b
      BY <3>1 DEF Ascending, UpTo
    <3> QED BY <2>1, <3>1, <3>2
  <2> QED BY <2>2, <2>3
<1>4. ASSUME NEW i \in Payloads(more), NEW j \in Payloads(more), i < j PROVE more[i] < more[j]
  <2>1. i \in Payloads(items) /\ more[i] = items[i] /\ items[i] \in Nat
    <3>1. j <= Len(items) + 1 /\ j \in Nat /\ i \in Nat
      BY <1>1, <1>4 DEF Payloads
    <3> QED BY <1>1, <1>2, <1>4, <3>1
  <2>2. CASE j = Len(items) + 1
    <3>1. items[i] <= b
      BY <2>1 DEF UpTo
    <3> QED BY <1>1, <2>1, <2>2, <3>1
  <2>3. CASE j # Len(items) + 1
    <3>1. j \in Payloads(items) /\ more[j] = items[j]
      BY <1>2, <2>3
    <3> QED BY <1>4, <2>1, <3>1 DEF Ascending
  <2> QED BY <2>2, <2>3
<1> QED BY <1>3, <1>4 DEF Ascending, UpTo, more

\* The sentinel does not count.
LEMMA SentinelAscends ==
  ASSUME NEW items \in Seq(Nat), NEW last \in Nat
  PROVE  /\ Ascending(items, last) => Ascending(Append(items, Sentinel), last)
         /\ Payloads(items) = {} => Payloads(Append(items, Sentinel)) = {}
<1> DEFINE more == Append(items, Sentinel)
<1>1. /\ DOMAIN items = 1 .. Len(items) /\ Len(items) \in Nat
      /\ DOMAIN more = 1 .. Len(items) + 1 /\ more[Len(items) + 1] = Sentinel
      /\ \A i \in 1 .. Len(items) : more[i] = items[i]
  OBVIOUS
<1> HIDE DEF more
<1>2. \A i \in Payloads(more) : i \in Payloads(items) /\ more[i] = items[i]
  BY <1>1 DEF Payloads
<1> QED BY <1>2 DEF Ascending, more

\* The head comes before the rest.
LEMMA TailAscends ==
  ASSUME NEW items \in Seq(Nat), items # <<>>, NEW last \in Nat
  PROVE  /\ Head(items) \in Nat /\ Tail(items) \in Seq(Nat)
         /\ Ascending(items, last) /\ Head(items) = Sentinel => Ascending(Tail(items), last)
         /\ Ascending(items, last) /\ Head(items) # Sentinel => Ascending(Tail(items), Head(items))
         /\ Payloads(items) = {} => Payloads(Tail(items)) = {} /\ Head(items) = Sentinel
         /\ \A b \in Nat : UpTo(items, b) =>
              UpTo(Tail(items), b) /\ (Head(items) # Sentinel => Head(items) <= b)
<1> DEFINE rest == Tail(items)
<1>1. /\ DOMAIN items = 1 .. Len(items) /\ Len(items) \in Nat \ {0}
      /\ DOMAIN rest = 1 .. Len(items) - 1 /\ Head(items) = items[1] /\ items[1] \in Nat
      /\ \A i \in 1 .. Len(items) - 1 : rest[i] = items[i + 1]
      /\ rest \in Seq(Nat)
  OBVIOUS
<1> HIDE DEF rest
<1>2. \A i \in Payloads(rest) : i + 1 \in Payloads(items) /\ rest[i] = items[i + 1] /\ i \in Nat \ {0}
  BY <1>1 DEF Payloads
<1>3. Head(items) # Sentinel <=> 1 \in Payloads(items)
  BY <1>1 DEF Payloads
<1>4. Ascending(items, last) => Ascending(rest, last)
  BY <1>2 DEF Ascending
<1>5. Ascending(items, last) /\ Head(items) # Sentinel => Ascending(rest, Head(items))
  <2> SUFFICES ASSUME Ascending(items, last), 1 \in Payloads(items) PROVE Ascending(rest, items[1])
    BY <1>1, <1>3
  <2>1. ASSUME NEW i \in Payloads(rest) PROVE items[1] < rest[i]
    <3>1. i + 1 \in Payloads(items) /\ rest[i] = items[i + 1] /\ 1 < i + 1
      BY <1>2
    <3> QED BY <3>1 DEF Ascending
  <2> QED BY <1>2, <2>1 DEF Ascending
<1>6. \A b \in Nat : UpTo(items, b) => UpTo(rest, b) /\ (Head(items) # Sentinel => Head(items) <= b)
  BY <1>1, <1>2, <1>3 DEF UpTo
<1>7. Payloads(items) = {} => Payloads(rest) = {}
  BY <1>2
<1> QED BY <1>1, <1>3, <1>4, <1>5, <1>6, <1>7 DEF rest

-----------------------------------------------------------------------------
(* The steps, as far as they move payloads *)

\* Fields of node n that a step leaves alone.
Same(n) == node'[n].last = node[n].last /\ node'[n].dead = node[n].dead
Numbers(n) == node'[n].sent = node[n].sent /\ node'[n].seqOut = node[n].seqOut

\* Nothing moves.
Still(n) ==
  /\ UNCHANGED store /\ Same(n)
  /\ node'[n].queue = node[n].queue /\ node'[n].on = node[n].on /\ node'[n].seqIn = node[n].seqIn
  /\ Numbers(n) \/ Send(n)

\* The channel gets a fresh queue, with open_channel() or the only channel_open.
Fresh(n) ==
  /\ Register(n) /\ Same(n)
  /\ \/ n = "opener" /\ opening = "idle"
     \/ n = "acceptor" /\ opens' = opens + 1
  /\ node'[n].queue = Len(store) + 1 /\ node'[n].on = node[n].on
  /\ node'[n].seqIn = 0 /\ node'[n].seqOut = 0 /\ node'[n].sent = node[n].sent

\* The channel is forgotten.
Forgotten(n) ==
  /\ CloseQueue(n)
  /\ node'[n].queue = None /\ node'[n].dead = TRUE
  /\ node'[n].on = node[n].on /\ node'[n].last = node[n].last

\* A datagram is let in.
Arrived(n) ==
  /\ Same(n) /\ Numbers(n)
  /\ node'[n].queue = node[n].queue /\ node'[n].on = node[n].on
  /\ ~node[n].dead /\ node[n].queue \in 1 .. Len(store)
  /\ \E m \in net :
       /\ m \in Messages /\ m.to = n /\ m.kind = "data" /\ InWindow(m, node[n])
       /\ node'[n].seqIn = m.seq
       /\ store' = [store EXCEPT ![node[n].queue].items =
                      Append(store[node[n].queue].items, m.payload)]
       /\ Append(store[node[n].queue].items, m.payload) \in Seq(Nat)

\* A reader finds its queue, makes one, takes the head of it, or leaves.
Found(n) ==
  /\ UNCHANGED store /\ Same(n) /\ Numbers(n)
  /\ node[n].queue # None /\ node'[n].on = node[n].queue
  /\ node'[n].queue = node[n].queue /\ node'[n].seqIn = node[n].seqIn
Made(n) ==
  /\ store' = Append(store, NewQueue(TRUE)) /\ Same(n) /\ Numbers(n)
  /\ node[n].queue = None /\ node[n].reader = "checked"
  /\ node'[n].on = Len(store) + 1 /\ node'[n].queue = Len(store) + 1
  /\ node'[n].seqIn = node[n].seqIn
Took(n) ==
  LET items == store[node[n].on].items IN
  /\ node[n].on \in 1 .. Len(store) /\ items \in Seq(Nat) /\ items # <<>>
  /\ node'[n].last = IF Head(items) # Sentinel THEN Head(items) ELSE node[n].last
  /\ store' = [store EXCEPT ![node[n].on].items = Tail(items)]
  /\ node'[n].on = None /\ node'[n].queue = node[n].queue /\ node'[n].seqIn = node[n].seqIn
  /\ node'[n].dead = node[n].dead /\ Numbers(n)
Left(n) ==
  /\ UNCHANGED store /\ Same(n) /\ Numbers(n)
  /\ node'[n].on = None /\ node'[n].queue = node[n].queue /\ node'[n].seqIn = node[n].seqIn

Moved(n) ==
  \/ Still(n) \/ Fresh(n) \/ Forgotten(n) \/ Arrived(n)
  \/ Found(n) \/ Made(n) \/ Took(n) \/ Left(n)

\* Every step moves the payloads of one node.
LEMMA Moves ==
  ASSUME TypeOK, Next
  PROVE  \E n \in Nodes : Moved(n) /\ \A m \in Nodes \ {n} : node'[m] = node[m]
<1> USE DEF params, attempt, serving
<1>0. "opener" \in Nodes /\ "acceptor" \in Nodes
  BY DEF Nodes
<1>1. ASSUME NEW n \in Nodes, Register(n), \/ n = "opener" /\ opening = "idle"
                                           \/ n = "acceptor" /\ opens' = opens + 1
      PROVE  Fresh(n) /\ \A m \in Nodes \ {n} : node'[m] = node[m]
  <2> DEFINE r == [node[n] EXCEPT !.queue = Len(store) + 1, !.seqIn = 0, !.seqOut = 0,
                                  !.awaited = (n = "opener")]
  <2>1. NowHolds(n, r) /\ node[n] \in NodeStates
    BY <1>1, RegisterNode, NodeType
  <2>2. /\ r.queue = Len(store) + 1 /\ r.on = node[n].on /\ r.seqIn = 0 /\ r.seqOut = 0
        /\ r.sent = node[n].sent /\ r.last = node[n].last /\ r.dead = node[n].dead
    BY <2>1 DEF NodeStates
  <2> HIDE DEF r
  <2> QED BY <1>1, <2>1, <2>2 DEF Fresh, Same, NowHolds
<1>2. ASSUME NEW n \in Nodes, Unregister(n)
      PROVE  Forgotten(n) /\ \A m \in Nodes \ {n} : node'[m] = node[m]
  <2>1. NowHolds(n, Forget(node[n])) /\ CloseQueue(n) /\ node[n] \in NodeStates
    BY <1>2, UnregisterNode, NodeType
  <2> QED BY <2>1, ForgetFields DEF Forgotten, NowHolds
<1>3. ASSUME NEW n \in Nodes, UNCHANGED store, NEW r, NowHolds(n, r),
             r.queue = node[n].queue, r.on = node[n].on, r.seqIn = node[n].seqIn,
             r.last = node[n].last, r.dead = node[n].dead,
             Send(n) \/ (r.sent = node[n].sent /\ r.seqOut = node[n].seqOut)
      PROVE  Moved(n) /\ \A m \in Nodes \ {n} : node'[m] = node[m]
  BY <1>3 DEF Moved, Still, Same, Numbers, NowHolds
<1>4. CASE OpenChannel
  BY <1>0, <1>1, <1>4 DEF OpenChannel, Moved
<1>5. CASE AcceptOpen
  BY <1>0, <1>1, <1>5 DEF AcceptOpen, ArrivalOfOpen, Moved
<1>6. CASE OpenExpires
  BY <1>0, <1>2, <1>6 DEF OpenExpires, Moved
<1>7. CASE AcceptFails
  BY <1>0, <1>2, <1>7 DEF AcceptFails, Moved
<1>8. CASE HandleAck \/ RejectOpen
  <2>1. UNCHANGED <<node, store>>
    BY <1>8 DEF HandleAck, RejectOpen
  <2> QED BY <1>0, <2>1 DEF Moved, Still, Same, Numbers
<1>9. CASE OpenAcked
  <2> DEFINE r == [node["opener"] EXCEPT !.awaited = FALSE, !.objects = @ + 1]
  <2>1. NowHolds("opener", r) /\ node["opener"] \in NodeStates /\ UNCHANGED store
    BY <1>0, <1>9, OpenReturnsNode, NodeType DEF OpenAcked, OpenReturns
  <2>2. /\ r.queue = node["opener"].queue /\ r.on = node["opener"].on
        /\ r.seqIn = node["opener"].seqIn /\ r.last = node["opener"].last
        /\ r.dead = node["opener"].dead /\ r.sent = node["opener"].sent
        /\ r.seqOut = node["opener"].seqOut
    BY <2>1 DEF NodeStates
  <2> HIDE DEF r
  <2> QED BY <1>0, <1>3, <2>1, <2>2
<1>10. CASE SendAck
  <2> DEFINE r == [node["acceptor"] EXCEPT !.objects = @ + 1]
  <2>1. NowHolds("acceptor", r) /\ node["acceptor"] \in NodeStates /\ UNCHANGED store
    BY <1>0, <1>10, SendAckNode, NodeType DEF SendAck
  <2>2. /\ r.queue = node["acceptor"].queue /\ r.on = node["acceptor"].on
        /\ r.seqIn = node["acceptor"].seqIn /\ r.last = node["acceptor"].last
        /\ r.dead = node["acceptor"].dead /\ r.sent = node["acceptor"].sent
        /\ r.seqOut = node["acceptor"].seqOut
    BY <2>1 DEF NodeStates
  <2> HIDE DEF r
  <2> QED BY <1>0, <1>3, <2>1, <2>2
<1>11. ASSUME NEW n \in Nodes, NodeStep(n)
       PROVE  Moved(n) /\ \A m \in Nodes \ {n} : node'[m] = node[m]
  <2>0. node[n] \in NodeStates
    BY NodeType
  <2>1. CASE Send(n)
    <3> DEFINE r == [node[n] EXCEPT !.sent = @ + 1,
                       !.seqOut = IF ordering = "sequence" THEN node[n].seqOut + 1 ELSE 0]
    <3>1. NowHolds(n, r) /\ UNCHANGED store
      BY <2>1, SendNode DEF Send
    <3>2. /\ r.queue = node[n].queue /\ r.on = node[n].on /\ r.seqIn = node[n].seqIn
          /\ r.last = node[n].last /\ r.dead = node[n].dead
      BY <2>0 DEF NodeStates
    <3> HIDE DEF r
    <3> QED BY <1>3, <2>1, <3>1, <3>2
  <2>2. CASE SetOnDisconnect(n)
    <3>1. UNCHANGED store
      BY <2>2 DEF SetOnDisconnect
    <3>2. PICK r \in NodeStates : NowHolds(n, r) /\ SameButCallback(r, node[n])
      BY <2>2, SetOnDisconnectNode
    <3> QED BY <1>3, <3>1, <3>2 DEF SameButCallback
  <2>3. CASE RecvStarts(n)
    <3> DEFINE r == [node[n] EXCEPT !.reader = "checked"]
    <3>1. NowHolds(n, r) /\ UNCHANGED store
      BY <2>3, RecvStartsNode DEF RecvStarts
    <3>2. /\ r.queue = node[n].queue /\ r.on = node[n].on /\ r.seqIn = node[n].seqIn
          /\ r.last = node[n].last /\ r.dead = node[n].dead
          /\ r.sent = node[n].sent /\ r.seqOut = node[n].seqOut
      BY <2>0 DEF NodeStates
    <3> HIDE DEF r
    <3> QED BY <1>3, <3>1, <3>2
  <2>4. CASE HandleClose(n)
    BY <1>2, <2>4 DEF HandleClose, Moved
  <2>5. CASE Close(n)
    <3> DEFINE f == Forget(node[n])
               r == [f EXCEPT !.objects = @ - 1]
    <3>1. NowHolds(n, r) /\ CloseQueue(n)
      BY <2>5, CloseNode
    <3>2. /\ f \in NodeStates /\ f.queue = None /\ f.dead = TRUE /\ f.on = node[n].on
          /\ f.last = node[n].last
      BY <2>0, ForgetFields
    <3> HIDE DEF f
    <3>3. r.queue = None /\ r.dead = TRUE /\ r.on = node[n].on /\ r.last = node[n].last
      BY <3>2 DEF NodeStates
    <3> HIDE DEF r
    <3> QED BY <3>1, <3>3 DEF Moved, Forgotten, NowHolds
  <2>6. CASE Ingest(n)
    <3>1. PICK m \in net :
            /\ m \in Messages /\ m.to = n /\ m.kind = "data" /\ InWindow(m, node[n])
            /\ ~node[n].dead /\ node[n].queue \in 1 .. Len(store)
            /\ NowHolds(n, [node[n] EXCEPT !.seqIn = m.seq])
            /\ store' = [store EXCEPT ![node[n].queue].items =
                           Append(store[node[n].queue].items, m.payload)]
            /\ Append(store[node[n].queue].items, m.payload) \in Seq(Nat)
      BY <2>6, IngestEffect
    <3> DEFINE r == [node[n] EXCEPT !.seqIn = m.seq]
    <3>2. /\ r.queue = node[n].queue /\ r.on = node[n].on /\ r.seqIn = m.seq
          /\ r.last = node[n].last /\ r.dead = node[n].dead
          /\ r.sent = node[n].sent /\ r.seqOut = node[n].seqOut
      BY <2>0 DEF NodeStates
    <3>3. node'[n] = r /\ \A x \in Nodes \ {n} : node'[x] = node[x]
      BY <3>1 DEF NowHolds
    <3> HIDE DEF r
    <3>4. Arrived(n)
      BY <3>1, <3>2, <3>3 DEF Arrived, Same, Numbers
    <3> QED BY <3>3, <3>4 DEF Moved
  <2>7. CASE RecvFindsQueue(n) /\ node[n].queue # None
    <3> DEFINE r == [node[n] EXCEPT !.reader = "getting", !.on = node[n].queue]
    <3>1. NowHolds(n, r) /\ UNCHANGED store
      BY <2>7, FindsEffect
    <3>2. /\ r.queue = node[n].queue /\ r.on = node[n].queue /\ r.seqIn = node[n].seqIn
          /\ r.last = node[n].last /\ r.dead = node[n].dead
          /\ r.sent = node[n].sent /\ r.seqOut = node[n].seqOut
      BY <2>0 DEF NodeStates
    <3> HIDE DEF r
    <3> QED BY <2>7, <3>1, <3>2 DEF Moved, Found, Same, Numbers, NowHolds
  <2>8. CASE RecvFindsQueue(n) /\ node[n].queue = None
    <3> DEFINE r == [node[n] EXCEPT !.reader = "getting", !.on = Len(store) + 1,
                                    !.queue = Len(store) + 1]
    <3>1. /\ NowHolds(n, r) /\ store' = Append(store, NewQueue(TRUE))
          /\ node[n].reader = "checked"
      BY <2>8, FindsEffect DEF RecvFindsQueue
    <3>2. /\ r.queue = Len(store) + 1 /\ r.on = Len(store) + 1 /\ r.seqIn = node[n].seqIn
          /\ r.last = node[n].last /\ r.dead = node[n].dead
          /\ r.sent = node[n].sent /\ r.seqOut = node[n].seqOut
      BY <2>0 DEF NodeStates
    <3> HIDE DEF r
    <3> QED BY <2>8, <3>1, <3>2 DEF Moved, Made, Same, Numbers, NowHolds
  <2>9. CASE RecvReturns(n)
    <3> DEFINE items == store[node[n].on].items
               got == IF items # <<>> /\ Head(items) # Sentinel THEN Head(items) ELSE node[n].last
               r == [node[n] EXCEPT !.reader = "idle", !.on = None, !.last = got]
    <3>1. /\ node[n].on \in 1 .. Len(store) /\ items \in Seq(Nat) /\ NowHolds(n, r)
          /\ items = <<>> => store' = store
          /\ items # <<>> => store' = [store EXCEPT ![node[n].on].items = Tail(items)]
      BY <2>9, ReturnsEffect
    <3>2. /\ r.queue = node[n].queue /\ r.on = None /\ r.seqIn = node[n].seqIn
          /\ r.last = got /\ r.dead = node[n].dead
          /\ r.sent = node[n].sent /\ r.seqOut = node[n].seqOut
      BY <2>0 DEF NodeStates
    <3>3. node'[n] = r /\ \A x \in Nodes \ {n} : node'[x] = node[x]
      BY <3>1 DEF NowHolds
    <3> HIDE DEF r
    <3>4. CASE items = <<>>
      <4>1. Left(n)
        BY <3>1, <3>2, <3>3, <3>4 DEF Left, Same, Numbers
      <4> QED BY <3>3, <4>1 DEF Moved
    <3>5. CASE items # <<>>
      <4>1. Took(n)
        BY <3>1, <3>2, <3>3, <3>5 DEF Took, Numbers
      <4> QED BY <3>3, <4>1 DEF Moved
    <3> QED BY <3>4, <3>5
  <2>10. CASE RecvExpires(n)
    <3> DEFINE r == [node[n] EXCEPT !.reader = "idle", !.on = None]
    <3>1. NowHolds(n, r) /\ UNCHANGED store
      BY <2>10, RecvExpiresNode DEF RecvExpires
    <3>2. /\ r.queue = node[n].queue /\ r.on = None /\ r.seqIn = node[n].seqIn
          /\ r.last = node[n].last /\ r.dead = node[n].dead
          /\ r.sent = node[n].sent /\ r.seqOut = node[n].seqOut
      BY <2>0 DEF NodeStates
    <3> HIDE DEF r
    <3> QED BY <3>1, <3>2 DEF Moved, Left, Same, Numbers, NowHolds
  <2> QED BY <1>11, <2>1, <2>2, <2>3, <2>4, <2>5, <2>6, <2>7, <2>8, <2>9, <2>10 DEF NodeStep
<1> QED BY <1>4, <1>5, <1>6, <1>7, <1>8, <1>9, <1>10, <1>11 DEF Next

-----------------------------------------------------------------------------
(* Readers of a channel that ends *)

\* A thread in recv() waits on the queue of the table, which the end of the channel
\* closes, or on one that has been closed, or on a stray one.
Reached(n) ==
  node[n].on # None => \/ node[n].on = node[n].queue
                       \/ store[node[n].on].closed \/ store[node[n].on].stray

RInv == HInv /\ \A n \in Nodes : Reached(n)

\* A queue that is closed or stray stays so.
LEMMA FlagsKept ==
  ASSUME TypeOK, NEW n \in Nodes, Moved(n), NEW k \in 1 .. Len(store)
  PROVE  store[k].closed \/ store[k].stray => store'[k].closed \/ store'[k].stray
<1>1. CASE UNCHANGED store  BY <1>1
<1>2. CASE Fresh(n)         BY <1>2, RegisterQueues DEF Fresh
<1>3. CASE Forgotten(n)     BY <1>3, CloseQueues DEF Forgotten
<1>4. CASE Arrived(n)
  <2> DEFINE q == node[n].queue
  <2>1. PICK items \in Seq(Nat) : q \in 1 .. Len(store) /\ store' = [store EXCEPT ![q].items = items]
    BY <1>4 DEF Arrived
  <2> HIDE DEF q
  <2> QED BY <2>1, SetItems
<1>5. CASE Made(n)
  <2>1. NewQueue(TRUE) \in QueueObjects BY DEF NewQueue, QueueObjects
  <2> QED BY <1>5, <2>1, AppendQueue DEF Made
<1>6. CASE Took(n)
  <2> DEFINE q == node[n].on
             items == store[q].items
  <2>1. /\ q \in 1 .. Len(store) /\ items \in Seq(Nat) /\ items # <<>>
        /\ store' = [store EXCEPT ![q].items = Tail(items)]
    BY <1>6 DEF Took
  <2> HIDE DEF q, items
  <2>2. Tail(items) \in Seq(Nat) BY <2>1
  <2> QED BY <2>1, <2>2, SetItems
<1> QED BY <1>1, <1>2, <1>3, <1>4, <1>5, <1>6 DEF Moved, Still, Found, Left

\* A step may take a reader's queue out of the table only by closing or by replacing it.
LEMMA ReachedStep == ASSUME RInv, Next PROVE \A n \in Nodes : Reached(n)'
<1> USE DEF RInv, HInv
<1>1. PICK n \in Nodes : Moved(n) /\ \A m \in Nodes \ {n} : node'[m] = node[m]
  BY Moves
<1>2. ASSUME NEW m \in Nodes \ {n} PROVE Reached(m)'
  <2>1. node'[m] = node[m] /\ Reached(m) /\ node[m].on \in 0 .. Len(store) /\ Len(store) \in Nat
    BY <1>1, NodeType
  <2>2. CASE node[m].on = None BY <2>1, <2>2 DEF Reached
  <2>3. CASE node[m].on # None
    <3>1. node[m].on \in 1 .. Len(store) BY <2>1, <2>3
    <3>2. store[node[m].on].closed \/ store[node[m].on].stray
            => store'[node[m].on].closed \/ store'[node[m].on].stray
      BY <1>1, <3>1, FlagsKept
    <3> QED BY <2>1, <3>2 DEF Reached
  <2> QED BY <2>2, <2>3
<1>3. Reached(n)'
  <2> DEFINE q == node[n].on
  <2>1. Reached(n) /\ node[n].on \in 0 .. Len(store) /\ Len(store) \in Nat
    BY NodeType
  <2>2. CASE node'[n].on = None \/ node'[n].on = node'[n].queue BY <2>2 DEF Reached
  <2>3. CASE node'[n].on # None /\ node'[n].on # node'[n].queue
    <3>1. node'[n].on = q
      BY <1>1, <2>3 DEF Moved, Still, Fresh, Forgotten, Arrived, Found, Made, Took, Left
    <3>2. q \in 1 .. Len(store) BY <2>1, <2>3, <3>1
    <3>3. CASE store[q].closed \/ store[q].stray
      BY <1>1, <3>1, <3>2, <3>3, FlagsKept DEF Reached
    <3>4. CASE q = node[n].queue
      <4>1. Fresh(n) \/ Forgotten(n)
        BY <1>1, <2>3, <3>1, <3>4 DEF Moved, Still, Arrived, Found, Made, Took, Left
      <4>2. CASE Fresh(n)
        <5>1. store'[q].stray BY <3>2, <3>4, <4>2, RegisterQueues DEF Fresh
        <5> QED BY <3>1, <5>1 DEF Reached
      <4>3. CASE Forgotten(n)
        <5>1. store'[q].closed BY <3>2, <3>4, <4>3, CloseQueues DEF Forgotten
        <5> QED BY <3>1, <5>1 DEF Reached
      <4> QED BY <4>1, <4>2, <4>3
    <3> QED BY <2>1, <2>3, <3>1, <3>3, <3>4 DEF Reached
  <2> QED BY <2>2, <2>3
<1> QED BY <1>2, <1>3

LEMMA AlwaysRInv == Spec => []RInv
<1>1. Init => RInv
  <2>1. Init => \A n \in Nodes : Reached(n) BY DEF Init, Reached, Blank
  <2> QED BY <2>1, HInvInit DEF RInv
<1>2. RInv /\ [Next]_vars => RInv'
  <2>1. ASSUME RInv, UNCHANGED vars PROVE \A n \in Nodes : Reached(n)'
    BY <2>1 DEF RInv, Reached, vars
  <2> QED BY <2>1, ReachedStep, HInvStep DEF RInv
<1> QED BY <1>1, <1>2, PTL DEF Spec

\* A closed channel has left the tables, but for a stray queue, and whoever still waits
\* in recv() does so on a queue that was closed, but for a stray one (863-871, 904-925).
THEOREM NothingStays == Spec => []NothingLeftBehind
<1>1. ASSUME RInv, NEW n \in Nodes, node[n].dead, node[n].reader = "getting"
      PROVE  store[node[n].on].closed \/ store[node[n].on].stray
  <2>1. node[n].on # None BY <1>1, NodeType DEF RInv, HInv
  <2> QED BY <1>1, <2>1 DEF RInv, HInv, Tables, Reached
<1>2. RInv => NothingLeftBehind
  BY <1>1 DEF RInv, HInv, Tables, NothingLeftBehind
<1> QED BY <1>2, AlwaysRInv, PTL

-----------------------------------------------------------------------------
(* The invariant of sequenced data *)

\* The nodes never share a queue.
OwnQueues(n) == {node[n].queue, node[n].on} \ {None}
Apart == OwnQueues("opener") \cap OwnQueues("acceptor") = {}

\* channel_open was not delivered twice at node n.
Once(n) == n = "acceptor" => opens <= 1

\* A sender that is alive numbers its payloads one by one.
Numbered(n) ==
  ~node[n].dead /\ Once(n) => node[n].seqOut = node[n].sent /\ ~Renumbered(Peer(n))

\* What waits for the readers of node n is in order, and up to the highest number seen;
\* only on a dead channel may a reader wait elsewhere than in the queue of the table.
InLine(n) == LET s == node[n] IN
  /\ s.queue # None => Ascending(store[s.queue].items, s.last)
  /\ s.on # None => Ascending(store[s.on].items, s.last) /\ (s.on = s.queue \/ s.dead)
  /\ s.dead /\ s.queue # None => Payloads(store[s.queue].items) = {}
  /\ ~s.dead => s.last <= s.seqIn /\ (s.queue # None => UpTo(store[s.queue].items, s.seqIn))

Lined(n) == ~Renumbered(n) /\ Once(n) => InLine(n)

SInv ==
  /\ HInv /\ Apart
  /\ ordering = "sequence" => \A n \in Nodes : Numbered(n) /\ Lined(n)

\* Datagrams and deliveries only grow in number, and data comes from send().
LEMMA NetStep ==
  ASSUME TypeOK, Next
  PROVE  /\ net \subseteq net' /\ ordering' = ordering
         /\ opens \in Nat /\ opens' \in Nat /\ opens <= opens'
         /\ \A m \in net' \ net : m.kind = "data" =>
              \E n \in Nodes :
                Send(n) /\ m = Data(Peer(n), IF ordering = "sequence" THEN node[n].seqOut + 1 ELSE 0,
                                    node[n].sent + 1)
<1> USE DEF params, attempt, serving
<1>0. opens \in Nat
  BY DEF TypeOK
<1>1. \A n, kind : Msg(n, kind).kind = kind
  BY DEF Msg
<1>2. CASE OpenChannel \/ OpenAcked \/ OpenExpires \/ HandleAck
  BY <1>0, <1>1, <1>2 DEF OpenChannel, OpenAcked, OpenReturns, OpenExpires, HandleAck
<1>3. CASE RejectOpen \/ AcceptOpen
  BY <1>0, <1>1, <1>3 DEF RejectOpen, AcceptOpen, ArrivalOfOpen
<1>4. CASE SendAck \/ AcceptFails
  BY <1>0, <1>1, <1>4 DEF SendAck, AcceptFails
<1>5. ASSUME NEW n \in Nodes, Send(n)
      PROVE  /\ UNCHANGED <<params, attempt, serving>>
             /\ net' = net \cup {Data(Peer(n), IF ordering = "sequence" THEN node[n].seqOut + 1 ELSE 0,
                                      node[n].sent + 1)}
  BY <1>5 DEF Send
<1>6. ASSUME NEW n \in Nodes, NodeStep(n), ~Send(n)
      PROVE  /\ UNCHANGED <<params, attempt, serving>> /\ net \subseteq net'
             /\ \A m \in net' \ net : m.kind # "data"
  <2>1. CASE Close(n)
    BY <1>1, <2>1 DEF Close
  <2>2. CASE ~Close(n)
    <3>1. UNCHANGED <<params, attempt, serving, net>>
      BY <1>6, <2>2 DEF NodeStep, Ingest, SetOnDisconnect, HandleClose, RecvStarts,
                        RecvFindsQueue, RecvReturns, RecvExpires, elsewhere
    <3> QED BY <3>1
  <2> QED BY <2>1, <2>2
<1>7. ASSUME NEW n \in Nodes, Send(n)
      PROVE  /\ net \subseteq net' /\ ordering' = ordering /\ opens' = opens
             /\ \A m \in net' \ net :
                  m = Data(Peer(n), IF ordering = "sequence" THEN node[n].seqOut + 1 ELSE 0,
                           node[n].sent + 1)
  BY <1>5, <1>7
<1> QED BY <1>0, <1>2, <1>3, <1>4, <1>6, <1>7 DEF Next

\* What the peer receives is not renumbered now if it was not and will not be.
LEMMA StillNumbered ==
  ASSUME TypeOK, Next, NEW n \in Nodes
  PROVE  /\ ~Renumbered(n)' => ~Renumbered(n)
         /\ Once(n)' => Once(n)
  BY NetStep DEF Renumbered, Once

LEMMA ApartStep == ASSUME SInv, Next PROVE Apart'
<1>1. TypeOK /\ Apart /\ "opener" \in Nodes /\ "acceptor" \in Nodes
      /\ \A n \in Nodes : n = "opener" \/ n = "acceptor"
  BY DEF SInv, HInv, Nodes
<1>2. PICK n \in Nodes : Moved(n) /\ \A m \in Nodes \ {n} : node'[m] = node[m]
  BY <1>1, Moves
<1>3. OwnQueues(n)' \subseteq OwnQueues(n) \cup {Len(store) + 1}
  BY <1>2 DEF Moved, Still, Fresh, Forgotten, Arrived, Found, Made, Took, Left, OwnQueues
<1>4. ASSUME NEW m \in Nodes PROVE Len(store) + 1 \notin OwnQueues(m)
  BY <1>1, NodeType DEF OwnQueues
<1>5. \A m \in Nodes \ {n} : OwnQueues(m)' = OwnQueues(m)
  BY <1>2 DEF OwnQueues
<1> QED BY <1>1, <1>3, <1>4, <1>5 DEF Apart

LEMMA NumberedStep ==
  ASSUME SInv, Next, ordering = "sequence", NEW n \in Nodes
  PROVE  Numbered(n)'
<1>0. TypeOK /\ HInv /\ Numbered(n) /\ node[n] \in NodeStates
  BY NodeType DEF SInv, HInv
<1> SUFFICES ASSUME ~node'[n].dead, Once(n)'
             PROVE  node'[n].seqOut = node'[n].sent /\ ~Renumbered(Peer(n))'
  BY DEF Numbered
<1>1. PICK k \in Nodes : Moved(k) /\ \A m \in Nodes \ {k} : node'[m] = node[m]
  BY <1>0, Moves
<1>2. ~node[n].dead
  <2>1. CASE n # k
    BY <1>1, <2>1
  <2>2. CASE n = k
    BY <1>1, <2>2 DEF Moved, Still, Fresh, Forgotten, Arrived, Found, Made, Took, Left, Same
  <2> QED BY <2>1, <2>2
<1>3. Once(n) /\ node[n].seqOut = node[n].sent /\ ~Renumbered(Peer(n))
  BY <1>0, <1>2, StillNumbered DEF Numbered
<1>4. CASE Send(n)
  <2>1. node[n].sent \in Nat
    BY <1>0 DEF NodeStates
  <2> DEFINE r == [node[n] EXCEPT !.sent = @ + 1,
                     !.seqOut = IF ordering = "sequence" THEN node[n].seqOut + 1 ELSE 0]
  <2>2. NowHolds(n, r) /\ net' = net \cup {Data(Peer(n), node[n].sent + 1, node[n].sent + 1)}
    BY <1>0, <1>3, <1>4, SendNode DEF Send
  <2>3. r.seqOut = node[n].sent + 1 /\ r.sent = node[n].sent + 1
    BY <1>0, <1>3 DEF NodeStates
  <2> HIDE DEF r
  <2>4. ~Renumbered(Peer(n))'
    BY <1>3, <2>2 DEF Renumbered, Data
  <2> QED BY <2>2, <2>3, <2>4 DEF NowHolds
<1>5. CASE ~Send(n)
  <2>1. ~Renumbered(Peer(n))'
    <3>1. ASSUME NEW m \in net', m \notin net, m.kind = "data" PROVE m.to # Peer(n)
      <4>1. PICK x \in Nodes : Send(x) /\ \E seq, p : m = Data(Peer(x), seq, p)
        BY <1>0, <3>1, NetStep
      <4>2. x # n
        BY <1>5, <4>1
      <4> QED BY <4>1, <4>2 DEF Data, Peer, Nodes
    <3> QED BY <1>3, <3>1 DEF Renumbered
  <2>2. node'[n].seqOut = node'[n].sent
    <3>1. CASE n # k
      BY <1>1, <1>3, <3>1
    <3>2. CASE n = k /\ Fresh(n)
      <4>1. node'[n].seqOut = 0 /\ node'[n].sent = node[n].sent
        BY <3>2 DEF Fresh
      <4>2. node[n].sent = 0
        <5>1. CASE n = "opener"
          <6>1. opening = "idle"
            BY <3>2, <5>1 DEF Fresh
          <6> QED BY <1>0, <5>1, <6>1 DEF HInv, Quiet, Blank
        <5>2. CASE n = "acceptor"
          <6>1. opens \in Nat /\ opens' = opens + 1 /\ opens' <= 1
            BY <3>2, <5>2, <1>0 DEF Fresh, Once, TypeOK
          <6>2. opens = 0
            BY <6>1
          <6> QED BY <1>0, <5>2, <6>2 DEF HInv, Quiet
        <5> QED BY <5>1, <5>2 DEF Nodes
      <4> QED BY <4>1, <4>2
    <3>3. CASE n = k /\ ~Fresh(n)
      <4>1. Numbers(n)
        BY <1>1, <1>5, <3>3 DEF Moved, Still, Forgotten, Arrived, Found, Made, Took, Left
      <4> QED BY <1>3, <4>1 DEF Numbers
    <3> QED BY <3>1, <3>2, <3>3
  <2> QED BY <2>1, <2>2
<1> QED BY <1>4, <1>5

\* A step of one node moves nothing in the queues that it does not hold.
LEMMA OtherItems ==
  ASSUME TypeOK, NEW k \in Nodes, Moved(k), NEW j \in 1 .. Len(store), j \notin OwnQueues(k)
  PROVE  store'[j].items = store[j].items
<1>1. j # node[k].queue /\ j # node[k].on /\ Len(store) \in Nat
  BY NodeType DEF OwnQueues
<1>2. CASE Still(k) \/ Found(k) \/ Left(k)
  BY <1>2 DEF Still, Found, Left
<1>3. CASE Fresh(k)
  BY <1>3, RegisterQueues DEF Fresh
<1>4. CASE Forgotten(k)
  BY <1>1, <1>4, CloseQueues DEF Forgotten
<1>5. CASE Arrived(k)
  <2>1. PICK m \in net :
          /\ store' = [store EXCEPT ![node[k].queue].items =
                         Append(store[node[k].queue].items, m.payload)]
          /\ Append(store[node[k].queue].items, m.payload) \in Seq(Nat)
          /\ node[k].queue \in 1 .. Len(store)
    BY <1>5 DEF Arrived
  <2> QED BY <1>1, <2>1, SetItems
<1>6. CASE Made(k)
  <2>1. NewQueue(TRUE) \in QueueObjects
    BY DEF NewQueue, QueueObjects
  <2> QED BY <1>6, <2>1, AppendQueue DEF Made
<1>7. CASE Took(k)
  <2> DEFINE q == node[k].on
             rest == Tail(store[q].items)
  <2>1. q \in 1 .. Len(store) /\ rest \in Seq(Nat) /\ store' = [store EXCEPT ![q].items = rest]
    BY <1>7 DEF Took
  <2>2. j # q
    BY <1>1
  <2> HIDE DEF q, rest
  <2> QED BY <2>1, <2>2, SetItems
<1> QED BY <1>2, <1>3, <1>4, <1>5, <1>6, <1>7 DEF Moved

\* A line is about its own node and queues.
LEMMA LineKept ==
  ASSUME NEW n \in Nodes, InLine(n), \A j \in OwnQueues(n) : store'[j].items = store[j].items,
         node'[n].queue = node[n].queue, node'[n].on = node[n].on, node'[n].last = node[n].last,
         node'[n].dead = node[n].dead, node'[n].seqIn = node[n].seqIn
  PROVE  InLine(n)'
  BY DEF InLine, OwnQueues

LEMMA LineStep ==
  ASSUME SInv, Next, ordering = "sequence", NEW n \in Nodes, InLine(n), ~Renumbered(n), Once(n)'
  PROVE  InLine(n)'
<1>0. /\ TypeOK /\ HInv /\ node[n] \in NodeStates /\ Len(store) \in Nat
      /\ node[n].last \in Nat /\ node[n].seqIn \in Nat
      /\ node[n].queue \in 0 .. Len(store) /\ node[n].on \in 0 .. Len(store)
  <2>1. TypeOK /\ HInv
    BY DEF SInv, HInv
  <2> QED BY <2>1, NodeType DEF NodeStates
<1>a. OwnQueues(n) \subseteq 1 .. Len(store)
  BY <1>0 DEF OwnQueues
<1>1. PICK k \in Nodes : Moved(k) /\ \A m \in Nodes \ {k} : node'[m] = node[m]
  BY <1>0, Moves
<1>2. CASE k # n
  <2>1. OwnQueues(n) \cap OwnQueues(k) = {}
    BY <1>2 DEF SInv, Apart, Nodes
  <2>2. \A j \in OwnQueues(n) : store'[j].items = store[j].items
    BY <1>0, <1>1, <1>a, <2>1, OtherItems
  <2> QED BY <1>1, <1>2, <2>2, LineKept
<1>3. CASE Still(n)
  BY <1>3, LineKept DEF Still, Same
<1>4. CASE Fresh(n)
  <2>1. store'[Len(store) + 1].items = <<>>
    <3>1. Register(n)
      BY <1>4 DEF Fresh
    <3>2. store'[Len(store) + 1] = NewQueue(node[n].dead)
      BY <1>0, <3>1, RegisterQueues
    <3>3. NewQueue(node[n].dead).items = <<>>
      BY DEF NewQueue
    <3> QED BY <3>2, <3>3
  <2>2. node[n].last = 0 /\ node[n].on = None
    <3>1. CASE n = "opener"
      <4>1. opening = "idle"
        BY <1>4, <3>1 DEF Fresh
      <4> QED BY <1>0, <3>1, <4>1 DEF HInv, Quiet, Blank
    <3>2. CASE n = "acceptor"
      <4>1. opens \in Nat /\ opens' = opens + 1 /\ opens' <= 1
        BY <1>0, <1>4, <3>2 DEF Fresh, Once, TypeOK
      <4>2. opens = 0
        BY <4>1
      <4> QED BY <1>0, <3>2, <4>2 DEF HInv, Quiet
    <3> QED BY <3>1, <3>2 DEF Nodes
  <2>3. Payloads(store'[Len(store) + 1].items) = {}
    BY <2>1 DEF Payloads
  <2>4. /\ node'[n].queue = Len(store) + 1 /\ node'[n].on = None /\ node'[n].last = 0
        /\ node'[n].seqIn = 0
    BY <1>4, <2>2 DEF Fresh, Same
  <2> QED BY <2>3, <2>4 DEF InLine, Ascending, UpTo
<1>5. CASE Forgotten(n)
  <2>1. node[n].on # None => Ascending(store'[node[n].on].items, node[n].last)
    <3> SUFFICES ASSUME node[n].on # None PROVE Ascending(store'[node[n].on].items, node[n].last)
      OBVIOUS
    <3>1. node[n].on \in 1 .. Len(store)
      BY <1>0
    <3>2. store[node[n].on].items \in Seq(Nat)
      BY <1>0, <3>1, QueueType
    <3>3. Ascending(store[node[n].on].items, node[n].last)
      BY DEF InLine
    <3>4. store'[node[n].on].items \in {store[node[n].on].items,
                                        Append(store[node[n].on].items, Sentinel)}
      BY <1>0, <1>5, <3>1, CloseQueues DEF Forgotten
    <3> QED BY <1>0, <3>2, <3>3, <3>4, SentinelAscends
  <2> QED BY <1>5, <2>1 DEF InLine, Forgotten
<1>6. CASE Arrived(n)
  <2> DEFINE q == node[n].queue
             items == store[q].items
  <2>1. PICK m \in net :
          /\ m \in Messages /\ m.to = n /\ m.kind = "data" /\ InWindow(m, node[n])
          /\ node'[n].seqIn = m.seq /\ q \in 1 .. Len(store)
          /\ store' = [store EXCEPT ![q].items = Append(items, m.payload)]
          /\ Append(items, m.payload) \in Seq(Nat)
    BY <1>6 DEF Arrived
  <2>2. m.payload = m.seq /\ m.seq \in Nat /\ node[n].seqIn < m.seq
    BY <2>1 DEF Renumbered, InWindow, Messages
  <2>3. /\ ~node[n].dead /\ Ascending(items, node[n].last) /\ UpTo(items, node[n].seqIn)
        /\ node[n].last <= node[n].seqIn /\ items \in Seq(Nat)
        /\ node[n].on # None => node[n].on = q
    BY <1>0, <1>6, <2>1, QueueType DEF Arrived, InLine
  <2>4. store'[q].items = Append(items, m.payload)
    <3> HIDE DEF q, items
    <3> QED BY <1>0, <2>1, SetItems
  <2>5. /\ Ascending(Append(items, m.payload), node[n].last)
        /\ UpTo(Append(items, m.payload), m.seq)
    <3> HIDE DEF items
    <3> QED BY <1>0, <2>2, <2>3, ArrivalAscends
  <2>6. /\ node'[n].queue = q /\ node'[n].on = node[n].on /\ node'[n].last = node[n].last
        /\ ~node'[n].dead /\ node'[n].seqIn = m.seq /\ node[n].last <= m.seq
    BY <1>0, <1>6, <2>1, <2>2, <2>3 DEF Arrived, Same
  <2> HIDE DEF q, items
  <2> QED BY <2>3, <2>4, <2>5, <2>6 DEF InLine
<1>7. CASE Found(n)
  <2>1. store' = store
    BY <1>7 DEF Found
  <2> QED BY <1>7, <2>1 DEF Found, Same, InLine
<1>8. CASE Made(n)
  <2>1. NewQueue(TRUE) \in QueueObjects /\ NewQueue(TRUE).items = <<>>
    BY DEF NewQueue, QueueObjects
  <2>2. store'[Len(store) + 1].items = <<>>
    <3>1. store' = Append(store, NewQueue(TRUE))
      BY <1>8 DEF Made
    <3>2. store'[Len(store) + 1] = NewQueue(TRUE)
      BY <1>0, <2>1, <3>1, AppendQueue
    <3> QED BY <2>1, <3>2
  <2>3. Payloads(store'[Len(store) + 1].items) = {}
    BY <2>2 DEF Payloads
  <2>4. /\ node'[n].queue = Len(store) + 1 /\ node'[n].on = Len(store) + 1
        /\ node'[n].last = node[n].last /\ node'[n].dead = node[n].dead
        /\ node'[n].seqIn = node[n].seqIn
    BY <1>8 DEF Made, Same
  <2>5. node[n].last <= node[n].seqIn \/ node[n].dead
    BY DEF InLine
  <2> QED BY <2>3, <2>4, <2>5 DEF InLine, Ascending, UpTo
<1>9. CASE Took(n)
  <2> DEFINE q == node[n].on
             items == store[q].items
             s == node[n]
             t == node'[n]
  <2>1. /\ q \in 1 .. Len(store) /\ q # None /\ items \in Seq(Nat) /\ items # <<>>
        /\ t.last = IF Head(items) # Sentinel THEN Head(items) ELSE s.last
        /\ store' = [store EXCEPT ![q].items = Tail(items)]
        /\ t.on = None /\ t.queue = s.queue /\ t.seqIn = s.seqIn /\ t.dead = s.dead
    BY <1>9 DEF Took
  <2>2. /\ Head(items) \in Nat /\ Tail(items) \in Seq(Nat)
        /\ Ascending(items, s.last) /\ Head(items) = Sentinel => Ascending(Tail(items), s.last)
        /\ Ascending(items, s.last) /\ Head(items) # Sentinel => Ascending(Tail(items), Head(items))
        /\ Payloads(items) = {} => Payloads(Tail(items)) = {} /\ Head(items) = Sentinel
        /\ \A b \in Nat : UpTo(items, b) =>
             UpTo(Tail(items), b) /\ (Head(items) # Sentinel => Head(items) <= b)
    <3> HIDE DEF items
    <3> QED BY <1>0, <2>1, TailAscends DEF s
  <2>3. store'[q].items = Tail(items) /\ \A j \in 1 .. Len(store) : j # q => store'[j] = store[j]
    <3> HIDE DEF items, q
    <3> QED BY <1>0, <2>1, <2>2, SetItems
  <2>4. Ascending(items, s.last) /\ (q = s.queue \/ s.dead)
    BY <2>1 DEF InLine
  <2>5. Ascending(Tail(items), t.last)
    BY <2>1, <2>2, <2>4
  <2>6. CASE s.queue = q
    <3>1. s.dead => Payloads(items) = {}
      BY <2>1, <2>6 DEF InLine
    <3>2. ~s.dead => s.last <= s.seqIn /\ UpTo(items, s.seqIn)
      BY <2>1, <2>6 DEF InLine
    <3>3. ~s.dead => t.last <= s.seqIn /\ UpTo(Tail(items), s.seqIn)
      BY <1>0, <2>1, <2>2, <3>2
    <3>4. s.dead => Payloads(Tail(items)) = {}
      BY <2>2, <3>1
    <3> HIDE DEF items, q
    <3> QED BY <2>1, <2>3, <2>5, <2>6, <3>3, <3>4 DEF InLine
  <2>7. CASE s.queue # q
    <3>1. s.dead /\ (s.queue # None => Payloads(store[s.queue].items) = {})
      BY <2>4, <2>7 DEF InLine
    <3>2. s.queue # None => Payloads(store'[s.queue].items) = {}
      BY <1>0, <2>3, <2>7, <3>1
    <3> HIDE DEF items, q
    <3> QED BY <2>1, <3>1, <3>2 DEF InLine, Ascending
  <2> QED BY <2>6, <2>7
<1>10. CASE Left(n)
  <2>1. store' = store
    BY <1>10 DEF Left
  <2> QED BY <1>10, <2>1 DEF Left, Same, InLine
<1> QED BY <1>1, <1>2, <1>3, <1>4, <1>5, <1>6, <1>7, <1>8, <1>9, <1>10 DEF Moved

LEMMA SInvInit == Init => SInv
<1> SUFFICES ASSUME Init PROVE SInv
  OBVIOUS
<1>1. net = {} /\ \A n \in Nodes : node[n] = Blank
  BY DEF Init
<1>2. Apart
  BY <1>1 DEF Apart, OwnQueues, Blank, Nodes
<1>3. ASSUME NEW n \in Nodes PROVE Numbered(n) /\ Lined(n)
  BY <1>1 DEF Numbered, Renumbered, Lined, InLine, Blank
<1> QED BY <1>2, <1>3, HInvInit DEF SInv

LEMMA SInvStep == SInv /\ [Next]_vars => SInv'
<1>1. ASSUME SInv, Next PROVE SInv'
  <2>1. HInv /\ HInv' /\ TypeOK
    BY <1>1, HInvStep DEF SInv, HInv
  <2>2. ordering' = ordering
    BY <1>1, <2>1, NetStep
  <2>3. ASSUME ordering = "sequence", NEW n \in Nodes PROVE Numbered(n)' /\ Lined(n)'
    <3>1. Numbered(n)'
      BY <1>1, <2>3, NumberedStep
    <3>2. Lined(n)'
      <4> SUFFICES ASSUME ~Renumbered(n)', Once(n)' PROVE InLine(n)'
        BY DEF Lined
      <4>1. ~Renumbered(n) /\ Once(n)
        BY <1>1, <2>1, StillNumbered
      <4>2. InLine(n)
        BY <1>1, <2>3, <4>1 DEF SInv, Lined
      <4> QED BY <1>1, <2>3, <4>1, <4>2, LineStep
    <3> QED BY <3>1, <3>2
  <2> QED BY <1>1, <2>1, <2>2, <2>3, ApartStep DEF SInv
<1>2. ASSUME SInv, UNCHANGED vars PROVE SInv'
  <2>1. HInv'
    BY <1>2, HInvStep DEF SInv
  <2>2. UNCHANGED <<ordering, opens, net, node, store>>
    BY <1>2 DEF vars, params, attempt, serving
  <2>3. Apart'
    BY <1>2, <2>2 DEF SInv, Apart, OwnQueues
  <2>4. \A n \in Nodes : Numbered(n) /\ Lined(n) => Numbered(n)' /\ Lined(n)'
    BY <2>2 DEF Numbered, Lined, InLine, Once, Renumbered
  <2> QED BY <1>2, <2>1, <2>2, <2>3, <2>4 DEF SInv
<1> QED BY <1>1, <1>2

LEMMA AlwaysSInv == Spec => []SInv
  BY SInvInit, SInvStep, PTL DEF Spec

\* Sequenced data is returned once and in order, as long as its sender did not start its
\* numbers again, which takes an end of the channel or a second channel_open (316-337,
\* 873-902, 985-1003).
THEOREM SequenceIsKept == Spec => []SequencedOnce
<1>1. ASSUME SInv PROVE SequencedOnce
  <2> SUFFICES ASSUME ordering = "sequence", NEW n \in Nodes
               PROVE  /\ ~Renumbered(n) /\ Once(n) => OneByOne(n)
                      /\ Renumbered(n) => node[Peer(n)].dead \/ (n = "opener" /\ opens > 1)
    BY DEF SequencedOnce, Once
  <2>1. Lined(n) /\ Numbered(Peer(n)) /\ opens \in Nat
    BY <1>1 DEF SInv, HInv, TypeOK, Peer, Nodes
  <2>2. InLine(n) => OneByOne(n)
    BY DEF InLine, OneByOne, Ascending, Payloads, Waiting
  <2>3. Peer(Peer(n)) = n /\ (Peer(n) = "acceptor" => n = "opener")
    BY DEF Peer, Nodes
  <2> QED BY <2>1, <2>2, <2>3 DEF Lined, Numbered, Once
<1> QED BY <1>1, AlwaysSInv, PTL

=============================================================================
