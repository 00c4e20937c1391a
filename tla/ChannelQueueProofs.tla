------------------------- MODULE ChannelQueueProofs -------------------------
(***************************************************************************)
(* Proofs about ChannelQueue: its invariant, that no wakeup of a reader is *)
(* lost, and that it implements the contract of QueueContract.             *)
(***************************************************************************)
EXTENDS ChannelQueue, FiniteSetTheorems, TLAPS

USE DEF Sentinel

-----------------------------------------------------------------------------
(* Sequences *)

\* Taking the head out of a deque moves the rest one place to the front.
LEMMA TailFacts ==
  ASSUME NEW q \in Seq(Nat), q # <<>>
  PROVE  /\ Len(q) \in Nat \ {0} /\ DOMAIN q = 1 .. Len(q)
         /\ Head(q) = q[1] /\ Head(q) \in Nat
         /\ Tail(q) \in Seq(Nat) /\ Len(Tail(q)) = Len(q) - 1
         /\ DOMAIN Tail(q) = 1 .. Len(q) - 1
         /\ \A i \in DOMAIN Tail(q) : i + 1 \in DOMAIN q /\ Tail(q)[i] = q[i + 1]
  OBVIOUS

\* Appending to a deque leaves what is there in its place.
LEMMA AppendFacts ==
  ASSUME NEW q \in Seq(Nat), NEW e \in Nat
  PROVE  /\ Len(q) \in Nat /\ DOMAIN q = 1 .. Len(q)
         /\ Append(q, e) \in Seq(Nat) /\ Len(Append(q, e)) = Len(q) + 1
         /\ DOMAIN Append(q, e) = 1 .. Len(q) + 1
         /\ \A i \in DOMAIN q : i # Len(q) + 1 /\ Append(q, e)[i] = q[i]
         /\ Append(q, e)[Len(q) + 1] = e
  OBVIOUS

\* InOrder, for any deque q, payloads t that were returned, and next payload n.
Ordered(q, t, n) ==
  /\ \A i, j \in DOMAIN t : i < j => t[i] < t[j]
  /\ \A i \in DOMAIN t : 0 < t[i] /\ t[i] < n
  /\ \A i \in DOMAIN q : q[i] < n
  /\ \A i, j \in DOMAIN q : i < j /\ q[i] # 0 /\ q[j] # 0 => q[i] < q[j]
  /\ \A i \in DOMAIN t, j \in DOMAIN q : q[j] # 0 => t[i] < q[j]

\* The order survives the loss of the head.
LEMMA TailOrdered ==
  ASSUME NEW q \in Seq(Nat), NEW t \in Seq(Nat), NEW n \in Nat, q # <<>>, Ordered(q, t, n)
  PROVE  Ordered(Tail(q), t, n)
  BY TailFacts DEF Ordered

\* The order survives the return of the head.
LEMMA TakeOrdered ==
  ASSUME NEW q \in Seq(Nat), NEW t \in Seq(Nat), NEW n \in Nat, q # <<>>, Ordered(q, t, n),
         Head(q) # 0
  PROVE  Ordered(Tail(q), Append(t, Head(q)), n)
<1> DEFINE u == Append(t, Head(q))
<1>1. /\ Len(q) \in Nat \ {0} /\ DOMAIN q = 1 .. Len(q) /\ Head(q) = q[1] /\ q[1] \in Nat
      /\ \A i \in DOMAIN Tail(q) : i \in Nat \ {0} /\ i + 1 \in DOMAIN q /\ Tail(q)[i] = q[i + 1]
  BY TailFacts
<1>2. /\ Len(t) \in Nat /\ DOMAIN t = 1 .. Len(t) /\ DOMAIN u = 1 .. Len(t) + 1
      /\ \A i \in DOMAIN t : u[i] = t[i]
      /\ u[Len(t) + 1] = q[1]
  BY <1>1, AppendFacts
<1>3. \A i, j \in DOMAIN u : i < j => u[i] < u[j]
  BY <1>1, <1>2 DEF Ordered
<1>4. \A i \in DOMAIN u : 0 < u[i] /\ u[i] < n
  BY <1>1, <1>2 DEF Ordered
<1>5. ASSUME NEW i \in DOMAIN u, NEW j \in DOMAIN Tail(q), Tail(q)[j] # 0
      PROVE  u[i] < Tail(q)[j]
  <2>1. CASE i \in DOMAIN t
    <3>1. /\ u[i] = t[i] /\ Tail(q)[j] = q[j + 1] /\ j + 1 \in DOMAIN q
      BY <1>1, <1>2, <2>1
    <3>2. \A k \in DOMAIN t, l \in DOMAIN q : q[l] # 0 => t[k] < q[l] BY DEF Ordered
    <3>3. q[j + 1] # 0 BY <1>5, <3>1
    <3>4. t[i] < q[j + 1] BY <2>1, <3>1, <3>2, <3>3
    <3> QED BY <3>1, <3>4, Zenon
  <2>2. CASE i = Len(t) + 1
    <3>1. /\ u[i] = q[1] /\ Tail(q)[j] = q[j + 1]
          /\ 1 \in DOMAIN q /\ j + 1 \in DOMAIN q /\ 1 < j + 1
      BY <1>1, <1>2, <2>2
    <3> QED BY <3>1, <1>1, <1>5 DEF Ordered
  <2>3. i \in DOMAIN t \/ i = Len(t) + 1 BY <1>2
  <2> QED BY <2>1, <2>2, <2>3, Zenon
<1> QED BY <1>3, <1>4, <1>5, TailOrdered DEF Ordered

\* The order survives the arrival of payload n.
LEMMA AppendOrdered ==
  ASSUME NEW q \in Seq(Nat), NEW t \in Seq(Nat), NEW n \in Nat \ {0}, Ordered(q, t, n)
  PROVE  Ordered(Append(q, n), t, n + 1)
<1>1. \A i \in DOMAIN q : q[i] \in Nat OBVIOUS
<1>2. \A i \in DOMAIN t : t[i] \in Nat OBVIOUS
<1> QED BY <1>1, <1>2, AppendFacts DEF Ordered

\* The order survives the sentinel.
LEMMA CloseOrdered ==
  ASSUME NEW q \in Seq(Nat), NEW t \in Seq(Nat), NEW n \in Nat \ {0}, Ordered(q, t, n)
  PROVE  Ordered(Append(q, 0), t, n)
<1>1. \A i \in DOMAIN q : q[i] \in Nat OBVIOUS
<1> QED BY <1>1, AppendFacts DEF Ordered

-----------------------------------------------------------------------------
(* The invariant, without what it says of waiting readers *)

Sound == TypeOK /\ InOrder /\ Bounded /\ Evictions /\ Accounted /\ SentinelLast

\* A fresh queue satisfies the invariant.
LEMMA InitSound == ASSUME Init PROVE Sound
<1>1. /\ DOMAIN items = {} /\ DOMAIN taken = {} /\ evicted = {}
      /\ Len(items) = 0 /\ 1 .. next - 1 = {}
  BY DEF Init
<1>2. TypeOK
  <2>1. items \in Seq(Nat) /\ taken \in Seq(Nat) BY DEF Init
  <2>2. awake \in SUBSET Getters /\ evicted \in SUBSET Nat BY DEF Init
  <2>3. mode \in [Getters -> {"idle", "untimed", "timed"}] BY DEF Init
  <2>4. next \in Nat \ {0} BY DEF Init
  <2>6. closed \in BOOLEAN /\ blocked \in BOOLEAN /\ ended \in BOOLEAN BY DEF Init
  <2>5. maxsize \in Sizes /\ policy \in Policies BY DEF Init
  <2> QED BY <2>1, <2>2, <2>3, <2>4, <2>5, <2>6 DEF TypeOK
<1>3. Bounded BY <1>1, QueueAssumption DEF Init, Bounded
<1>4. InOrder BY <1>1 DEF InOrder
<1>5. Evictions /\ Accounted BY <1>1 DEF Evictions, Accounted
<1>6. SentinelLast BY <1>1 DEF Init, SentinelLast
<1> QED BY <1>2, <1>3, <1>4, <1>5, <1>6 DEF Sound

\* A put() that adds its payload keeps the invariant.
LEMMA DeliverKeepsSound ==
  ASSUME Sound, ~Full, Deliver(items), UNCHANGED evicted,
         blocked \/ ~closed
  PROVE  Sound'
<1> USE DEF Sound
<1>1. /\ items \in Seq(Nat) /\ taken \in Seq(Nat) /\ next \in Nat \ {0}
      /\ Ordered(items, taken, next)
  BY DEF TypeOK, InOrder, Ordered
<1>2. /\ items' = Append(items, next) /\ next' = next + 1 /\ blocked' = FALSE
      /\ awake' \in SUBSET Getters
      /\ UNCHANGED <<maxsize, policy, closed, mode, taken, ended, evicted>>
  BY DEF Deliver, Notify, Asleep, TypeOK
<1>9. /\ items' \in Seq(Nat) /\ next' \in Nat \ {0}
      /\ Len(items) \in Nat /\ DOMAIN items = 1 .. Len(items)
      /\ DOMAIN items' = 1 .. Len(items) + 1
      /\ \A i \in DOMAIN items : i \in DOMAIN items' /\ items'[i] = items[i]
      /\ \A i \in DOMAIN items' : i \in DOMAIN items \/ i = Len(items) + 1
      /\ items'[Len(items) + 1] = next
  BY <1>1, <1>2, AppendFacts
<1>3. TypeOK'
  BY <1>2, <1>9 DEF TypeOK
<1>4. InOrder'
  BY <1>1, <1>2, AppendOrdered DEF Ordered, InOrder
<1>5. Bounded'
  BY <1>1, <1>2, AppendFacts, QueueAssumption DEF Bounded, Full, TypeOK
<1>6. Evictions'
  <2>1. ASSUME NEW p \in evicted'
        PROVE  p < next' /\ \A j \in DOMAIN items' : items'[j] # 0 => p < items'[j]
    BY <1>1, <1>2, <1>9 DEF Evictions, TypeOK
  <2> QED BY <2>1, <1>2 DEF Evictions
<1>7. Accounted'
  <2> SUFFICES ASSUME ~closed, NEW p \in 1 .. next
               PROVE  \/ p \in evicted
                      \/ \E i \in DOMAIN taken : taken[i] = p
                      \/ \E i \in DOMAIN items' : items'[i] = p
    BY <1>1, <1>2 DEF Accounted
  <2>1. CASE p = next
    BY <1>9, <2>1
  <2>2. CASE p # next
    <3>1. p \in 1 .. next - 1 BY <1>1, <2>2
    <3>2. \/ p \in evicted
          \/ \E i \in DOMAIN taken : taken[i] = p
          \/ \E i \in DOMAIN items : items[i] = p
      BY <3>1 DEF Accounted
    <3> QED BY <1>9, <3>2
  <2> QED BY <2>1, <2>2
<1>8. SentinelLast'
  <2>1. ~closed => ~ended /\ \A i \in DOMAIN items' : items'[i] # 0
    BY <1>1, <1>9 DEF SentinelLast
  <2>2. closed => policy = "block"
    BY DEF SentinelLast
  <2>3. closed /\ ~ended => \E i \in DOMAIN items' : items'[i] = 0
    BY <1>1, <1>9 DEF SentinelLast
  <2> QED BY <1>2, <2>1, <2>2, <2>3 DEF SentinelLast
<1> QED BY <1>3, <1>4, <1>5, <1>6, <1>7, <1>8

\* So does one that makes room first.
LEMMA EvictingKeepsSound ==
  ASSUME Sound, PutEvicting
  PROVE  Sound'
<1> USE DEF Sound
<1> DEFINE q == Tail(items)
<1>1. /\ items \in Seq(Nat) /\ taken \in Seq(Nat) /\ next \in Nat \ {0}
      /\ Ordered(items, taken, next)
  BY DEF TypeOK, InOrder, Ordered
<1>2. items # <<>> /\ maxsize \in Nat \ {0} /\ Len(items) >= maxsize
  BY <1>1, QueueAssumption DEF PutEvicting, Full, TypeOK
<1>3. /\ items' = Append(q, next) /\ next' = next + 1 /\ blocked' = FALSE
      /\ awake' \in SUBSET Getters /\ evicted' = evicted \cup {Head(items)}
      /\ UNCHANGED <<maxsize, policy, closed, mode, taken, ended>>
      /\ ~closed /\ policy = "drop_oldest"
  BY DEF PutEvicting, Deliver, Notify, Asleep, TypeOK
<1>4. /\ q \in Seq(Nat) /\ Len(q) = Len(items) - 1 /\ Head(items) = items[1]
      /\ items[1] \in Nat /\ 1 \in DOMAIN items
      /\ DOMAIN items = 1 .. Len(items) /\ DOMAIN q = 1 .. Len(items) - 1
      /\ \A i \in DOMAIN q : i + 1 \in DOMAIN items /\ q[i] = items[i + 1]
  BY <1>1, <1>2, TailFacts
<1>5. Ordered(q, taken, next)
  BY <1>1, <1>2, TailOrdered
<1>6. TypeOK'
  <2>1. items' \in Seq(Nat) /\ next' \in Nat \ {0}
    BY <1>1, <1>3, <1>4, AppendFacts
  <2>2. evicted' \in SUBSET Nat
    BY <1>3, <1>4 DEF TypeOK
  <2> QED BY <1>3, <2>1, <2>2 DEF TypeOK
<1>7. InOrder'
  BY <1>1, <1>3, <1>4, <1>5, AppendOrdered DEF Ordered, InOrder
<1>8. Bounded'
  BY <1>1, <1>2, <1>3, <1>4, AppendFacts DEF Bounded
<1>9. Evictions'
  <2>1. \A i \in DOMAIN items : items[i] # 0 /\ items[i] < next
    BY <1>1, <1>3 DEF SentinelLast, Ordered
  <2>2. \A p \in evicted' : p < next'
    BY <1>1, <1>3, <1>4, <2>1 DEF Evictions, TypeOK
  <2>3. ASSUME NEW p \in evicted', NEW j \in DOMAIN items' PROVE p < items'[j]
    <3>1. CASE j \in DOMAIN q
      <4>1. items'[j] = items[j + 1] /\ j + 1 \in DOMAIN items /\ 1 < j + 1
        BY <1>1, <1>3, <1>4, <3>1, AppendFacts
      <4>2. items[1] < items[j + 1]
        BY <1>1, <1>4, <2>1, <4>1 DEF Ordered
      <4> QED BY <1>3, <1>4, <2>1, <4>1, <4>2 DEF Evictions
    <3>2. CASE j = Len(q) + 1
      BY <1>1, <1>3, <1>4, <2>1, <3>2, AppendFacts DEF Evictions
    <3> QED BY <1>1, <1>3, <1>4, <3>1, <3>2, AppendFacts
  <2> QED BY <1>2, <1>3, <2>2, <2>3 DEF Evictions
<1>10. Accounted'
  <2> SUFFICES ASSUME NEW p \in 1 .. next' - 1
               PROVE  \/ p \in evicted'
                      \/ \E i \in DOMAIN taken : taken[i] = p
                      \/ \E i \in DOMAIN items' : items'[i] = p
    BY <1>3 DEF Accounted
  <2>1. CASE p = next
    <3>1. /\ Len(q) + 1 \in DOMAIN items' /\ items'[Len(q) + 1] = next
      BY <1>1, <1>3, <1>4, AppendFacts
    <3> QED BY <2>1, <3>1
  <2>2. ASSUME NEW i \in DOMAIN items, items[i] = p
        PROVE  p \in evicted' \/ \E k \in DOMAIN items' : items'[k] = p
    <3>1. CASE i = 1 BY <1>3, <1>4, <2>2, <3>1
    <3>2. CASE i # 1
      <4>1. i - 1 \in DOMAIN q /\ q[i - 1] = items[i] BY <1>1, <1>4, <3>2
      <4> QED BY <1>1, <1>3, <1>4, <2>2, <4>1, AppendFacts
    <3> QED BY <3>1, <3>2
  <2>3. p = next \/ p \in 1 .. next - 1 BY <1>1, <1>3
  <2>4. CASE p \in 1 .. next - 1
    <3>1. \/ p \in evicted
          \/ \E i \in DOMAIN taken : taken[i] = p
          \/ \E i \in DOMAIN items : items[i] = p
      BY <1>3, <2>4 DEF Accounted
    <3> QED BY <1>3, <2>2, <3>1
  <2> QED BY <2>1, <2>3, <2>4
<1>11. SentinelLast'
  BY <1>1, <1>3, <1>4, AppendFacts DEF SentinelLast
<1> QED BY <1>6, <1>7, <1>8, <1>9, <1>10, <1>11
-----------------------------------------------------------------------------

\* close() keeps the invariant.
LEMMA CloseKeepsSound ==
  ASSUME Sound, Close
  PROVE  Sound'
<1> USE DEF Sound
<1>1. /\ items \in Seq(Nat) /\ taken \in Seq(Nat) /\ next \in Nat \ {0}
      /\ Ordered(items, taken, next)
  BY DEF TypeOK, InOrder, Ordered
<1>2. /\ items' = Append(items, 0) /\ ~closed /\ closed' = TRUE
      /\ awake' \in SUBSET Getters
      /\ UNCHANGED <<maxsize, policy, next, blocked, mode, taken, evicted, ended>>
  BY DEF Close, putter, history
<1>3. /\ items' \in Seq(Nat) /\ Len(items) \in Nat /\ Len(items') = Len(items) + 1
      /\ DOMAIN items = 1 .. Len(items)
      /\ \A i \in DOMAIN items : i \in DOMAIN items' /\ items'[i] = items[i]
      /\ \A i \in DOMAIN items' : i \in DOMAIN items \/ i = Len(items')
      /\ Len(items') \in DOMAIN items' /\ items'[Len(items')] = 0
  BY <1>1, <1>2, AppendFacts
<1>4. TypeOK'
  BY <1>2, <1>3 DEF TypeOK
<1>5. InOrder'
  BY <1>1, <1>2, CloseOrdered DEF Ordered, InOrder
<1>6. Bounded'
  <2>1. maxsize \in Nat BY QueueAssumption DEF TypeOK
  <2> QED BY <1>2, <1>3, <2>1 DEF Bounded
<1>7. Evictions'
  BY <1>2, <1>3 DEF Evictions
<1>8. Accounted'
  BY <1>2 DEF Accounted
<1>9. SentinelLast'
  <2>1. ~ended /\ \A i \in DOMAIN items : items[i] # 0
    BY <1>2 DEF SentinelLast
  <2>2. \A i \in DOMAIN items' : items'[i] = 0 => i = Len(items')
    BY <1>3, <2>1
  <2>3. \E i \in DOMAIN items' : items'[i] = 0
    BY <1>3
  <2> QED BY <1>2, <2>1, <2>2, <2>3 DEF SentinelLast
<1> QED BY <1>4, <1>5, <1>6, <1>7, <1>8, <1>9

\* A get() that takes the head keeps the invariant.
LEMMA TakeHeadKeepsSound ==
  ASSUME Sound, NEW g \in Getters, TakeHead(g)
  PROVE  Sound'
<1> USE DEF Sound
<1>1. /\ items \in Seq(Nat) /\ taken \in Seq(Nat) /\ next \in Nat \ {0}
      /\ Ordered(items, taken, next) /\ items # <<>>
  BY DEF TypeOK, InOrder, Ordered, TakeHead
<1>2. /\ items' = Tail(items)
      /\ Head(items) = 0 => taken' = taken /\ ended' = TRUE
      /\ Head(items) # 0 => taken' = Append(taken, Head(items)) /\ ended' = ended
      /\ mode' = [mode EXCEPT ![g] = "idle"] /\ awake' \in SUBSET Getters
      /\ UNCHANGED <<maxsize, policy, closed, next, blocked, evicted>>
  BY DEF TakeHead, putter, TypeOK
<1>3. /\ items' \in Seq(Nat) /\ Len(items') = Len(items) - 1 /\ Len(items) \in Nat \ {0}
      /\ Head(items) = items[1] /\ Head(items) \in Nat /\ 1 \in DOMAIN items
      /\ DOMAIN items' = 1 .. Len(items')
      /\ \A i \in DOMAIN items' : i + 1 \in DOMAIN items /\ items'[i] = items[i + 1]
      /\ \A i \in DOMAIN items : i = 1 \/ (i - 1 \in DOMAIN items' /\ items'[i - 1] = items[i])
  BY <1>1, <1>2, TailFacts
<1>4. /\ taken' \in Seq(Nat)
      /\ \A i \in DOMAIN taken : i \in DOMAIN taken' /\ taken'[i] = taken[i]
      /\ Head(items) # 0 => \E i \in DOMAIN taken' : taken'[i] = Head(items)
  <2>1. CASE Head(items) = 0 BY <1>1, <1>2, <2>1
  <2>2. CASE Head(items) # 0
    <3>1. /\ Len(taken) + 1 \in DOMAIN taken' /\ taken'[Len(taken) + 1] = Head(items)
          /\ taken' \in Seq(Nat)
          /\ \A i \in DOMAIN taken : i \in DOMAIN taken' /\ taken'[i] = taken[i]
      <4>1. taken' = Append(taken, Head(items)) BY <1>2, <2>2
      <4>2. taken \in Seq(Nat) /\ Head(items) \in Nat BY <1>1, <1>3
      <4> HIDE DEF Sound
      <4>3. /\ Len(taken) \in Nat /\ DOMAIN taken = 1 .. Len(taken)
            /\ DOMAIN taken' = 1 .. Len(taken) + 1 /\ taken' \in Seq(Nat)
            /\ \A i \in DOMAIN taken : taken'[i] = taken[i]
            /\ taken'[Len(taken) + 1] = Head(items)
        BY <4>1, <4>2, AppendFacts
      <4> QED BY <4>3
    <3> QED BY <3>1
  <2> QED BY <2>1, <2>2
<1>5. TypeOK'
  <2>1. mode' \in [Getters -> {"idle", "untimed", "timed"}] BY <1>2 DEF TypeOK
  <2>2. ended' \in BOOLEAN BY <1>2 DEF TypeOK
  <2> QED BY <1>2, <1>3, <1>4, <2>1, <2>2 DEF TypeOK
<1>6. InOrder'
  <2>1. CASE Head(items) = 0
    <3>1. Ordered(items', taken', next) BY <1>1, <1>2, <2>1, TailOrdered
    <3> QED BY <1>2, <3>1 DEF Ordered, InOrder
  <2>2. CASE Head(items) # 0
    <3>1. Ordered(items', taken', next) BY <1>1, <1>2, <2>2, TakeOrdered
    <3> QED BY <1>2, <3>1 DEF Ordered, InOrder
  <2> QED BY <2>1, <2>2
<1>7. Bounded'
  <2>1. maxsize \in Nat BY QueueAssumption DEF TypeOK
  <2> QED BY <1>2, <1>3, <2>1 DEF Bounded
<1>8. Evictions'
  BY <1>2, <1>3 DEF Evictions
<1>9. Accounted'
  <2> SUFFICES ASSUME ~closed, NEW p \in 1 .. next - 1
               PROVE  \/ p \in evicted
                      \/ \E i \in DOMAIN taken' : taken'[i] = p
                      \/ \E i \in DOMAIN items' : items'[i] = p
    BY <1>2 DEF Accounted
  <2>1. ASSUME NEW i \in DOMAIN items, items[i] = p
        PROVE  \/ \E k \in DOMAIN taken' : taken'[k] = p
               \/ \E k \in DOMAIN items' : items'[k] = p
    <3>1. CASE i = 1
      <4>1. Head(items) = p /\ p # 0 BY <1>3, <2>1, <3>1
      <4> QED BY <1>4, <4>1
    <3>2. CASE i # 1
      <4>1. i - 1 \in DOMAIN items' /\ items'[i - 1] = items[i] BY <1>3, <3>2
      <4> QED BY <2>1, <4>1
    <3> QED BY <3>1, <3>2
  <2>2. ASSUME NEW i \in DOMAIN taken, taken[i] = p
        PROVE  \E k \in DOMAIN taken' : taken'[k] = p
    BY <1>4, <2>2
  <2> QED BY <2>1, <2>2 DEF Accounted
<1>10. SentinelLast'
  <2>1. ~closed => Head(items) # 0 /\ ~ended /\ \A i \in DOMAIN items' : items'[i] # 0
    BY <1>3 DEF SentinelLast
  <2>2. ASSUME closed, policy = "drop_oldest", Head(items) = 0
        PROVE  items' = <<>>
    <3>1. Len(items) = 1 BY <1>3, <2>2 DEF SentinelLast
    <3> QED BY <1>3, <3>1
  <2>3. ASSUME closed, policy = "drop_oldest", ended
        PROVE  FALSE
    BY <1>1, <2>3 DEF SentinelLast
  <2>4. ASSUME closed, policy = "drop_oldest", NEW i \in DOMAIN items', items'[i] = 0
        PROVE  i = Len(items')
    BY <1>3, <2>4 DEF SentinelLast
  <2>5. ASSUME closed, ~ended'
        PROVE  \E i \in DOMAIN items' : items'[i] = 0
    <3>1. Head(items) # 0 /\ ~ended BY <1>2, <2>5
    <3>2. PICK i \in DOMAIN items : items[i] = 0 BY <2>5, <3>1 DEF SentinelLast
    <3> QED BY <1>3, <3>1, <3>2
  <2>6. blocked => policy = "block" BY DEF SentinelLast
  <2> QED BY <1>2, <2>1, <2>2, <2>3, <2>4, <2>5, <2>6 DEF SentinelLast
<1> QED BY <1>5, <1>6, <1>7, <1>8, <1>9, <1>10
-----------------------------------------------------------------------------

\* get() that waits on, expires or finds the queue closed and empty changes no payload.
LEMMA LeaveKeepsSound ==
  ASSUME Sound, NEW g \in Getters, NEW m \in {"idle", "untimed", "timed"}, Leave(g, m),
         \/ UNCHANGED ended
         \/ closed /\ items = <<>> /\ ended' = TRUE
  PROVE  Sound'
<1> USE DEF Sound
<1>1. UNCHANGED <<maxsize, policy, items, closed, next, blocked, taken, evicted>>
  BY DEF Leave, putter
<1>2. TypeOK'
  <2>1. mode' \in [Getters -> {"idle", "untimed", "timed"}] BY DEF Leave, TypeOK
  <2>2. awake' \in SUBSET Getters /\ ended' \in BOOLEAN BY DEF Leave, TypeOK
  <2> QED BY <1>1, <2>1, <2>2 DEF TypeOK
<1>3. InOrder' /\ Bounded' /\ Evictions' /\ Accounted'
  BY <1>1 DEF InOrder, Bounded, Evictions, Accounted, Full
<1>4. SentinelLast'
  <2>1. CASE UNCHANGED ended BY <1>1, <2>1 DEF SentinelLast
  <2>2. CASE closed /\ items = <<>> /\ ended' = TRUE BY <1>1, <2>2 DEF SentinelLast
  <2> QED BY <2>1, <2>2
<1> QED BY <1>2, <1>3, <1>4

\* Every step keeps the invariant.
LEMMA NextKeepsSound ==
  ASSUME Sound, [Next]_vars
  PROVE  Sound'
<1>1. CASE PutRefused
  <2>1. /\ UNCHANGED <<maxsize, policy, items, closed, blocked, mode, awake, taken, evicted, ended>>
        /\ next' = next + 1 /\ closed
    BY <1>1 DEF PutRefused, readers, history
  <2>2. TypeOK' BY <2>1 DEF Sound, TypeOK
  <2>3. next \in Nat /\ items \in Seq(Nat) /\ taken \in Seq(Nat) BY DEF Sound, TypeOK
  <2>4. InOrder' BY <2>1, <2>3 DEF Sound, InOrder
  <2>5. Evictions' BY <2>1, <2>3 DEF Sound, Evictions, TypeOK
  <2>6. Bounded' /\ Accounted' BY <2>1 DEF Sound, Bounded, Accounted
  <2>7. SentinelLast' BY <2>1 DEF Sound, SentinelLast
  <2> QED BY <2>2, <2>4, <2>5, <2>6, <2>7 DEF Sound
<1>2. CASE PutWithRoom
  BY <1>2, DeliverKeepsSound DEF PutWithRoom
<1>3. CASE PutEvicting
  BY <1>3, EvictingKeepsSound
<1>4. CASE PutBlocks
  <2>1. /\ UNCHANGED <<maxsize, policy, items, closed, next, mode, awake, taken, evicted, ended>>
        /\ blocked' = TRUE /\ policy = "block"
    BY <1>4 DEF PutBlocks, readers, history
  <2>2. TypeOK' BY <2>1 DEF Sound, TypeOK
  <2>3. InOrder' /\ Evictions' /\ Bounded' /\ Accounted'
    BY <2>1 DEF Sound, InOrder, Evictions, Bounded, Accounted
  <2>4. SentinelLast' BY <2>1 DEF Sound, SentinelLast
  <2> QED BY <2>2, <2>3, <2>4 DEF Sound
<1>5. CASE PutResumes
  BY <1>5, DeliverKeepsSound DEF PutResumes
<1>6. CASE Close
  BY <1>6, CloseKeepsSound
<1>7. ASSUME NEW g \in Getters, Get(g) PROVE Sound'
  BY <1>7, TakeHeadKeepsSound, LeaveKeepsSound DEF Get
<1>8. ASSUME NEW g \in Getters, Recheck(g) PROVE Sound'
  <2>1. mode[g] \in {"untimed", "timed"} BY <1>8 DEF Recheck
  <2> QED BY <1>8, <2>1, TakeHeadKeepsSound, LeaveKeepsSound DEF Recheck
<1>9. ASSUME NEW g \in Getters, Expire(g) PROVE Sound'
  BY <1>9, LeaveKeepsSound DEF Expire
<1>10. CASE UNCHANGED vars
  <2>1. UNCHANGED <<maxsize, policy, items, closed, next, blocked, mode, awake, taken, evicted, ended>>
    BY <1>10 DEF vars, putter, readers, history
  <2> QED BY <2>1 DEF Sound, TypeOK, InOrder, Bounded, Evictions, Accounted, SentinelLast
<1> QED BY <1>1, <1>2, <1>3, <1>4, <1>5, <1>6, <1>7, <1>8, <1>9, <1>10 DEF Next

LEMMA AlwaysSound == Spec => []Sound
<1>1. Init => Sound BY InitSound
<1>2. Sound /\ [Next]_vars => Sound' BY NextKeepsSound
<1> QED BY <1>1, <1>2, PTL DEF Spec

-----------------------------------------------------------------------------
(* Wakeups *)

Inside == {g \in Getters : mode[g] # "idle"}

\* Only readers inside get() are awake; at any time there are finitely many of them,
\* even if infinitely many threads may call it.
ReadersInside == awake \subseteq Inside /\ IsFiniteSet(Inside)

WakeInv == ReadersInside /\ NoLostWakeup

\* One notify() makes up for one payload.
LEMMA NotifySuffices ==
  ASSUME TypeOK, WakeInv, Notify, UNCHANGED <<mode, closed>>,
         NEW k \in Nat, Len(items') = k, k <= Len(items) + 1
  PROVE  WakeInv'
<1>1. Inside' = Inside /\ IsFiniteSet(awake) /\ Len(items) \in Nat
  BY FS_Subset DEF Inside, WakeInv, ReadersInside, TypeOK
<1>2. CASE Asleep = {}
  <2>1. awake' = awake /\ Asleep' = {}
    BY <1>2 DEF Notify, Asleep
  <2> QED
    BY <1>1, <2>1 DEF WakeInv, ReadersInside, NoLostWakeup
<1>3. CASE Asleep # {}
  <2>1. PICK g \in Asleep : awake' = awake \cup {g}
    BY <1>3 DEF Notify
  <2>2. g \in Inside /\ g \notin awake
    BY <2>1 DEF Asleep, Inside
  <2>3. Cardinality(awake') = Cardinality(awake) + 1 /\ Cardinality(awake) \in Nat
    BY <1>1, <2>1, <2>2, FS_AddElement, FS_CardinalityType
  <2>4. Len(items') <= Cardinality(awake')
    BY <1>1, <1>3, <2>3 DEF WakeInv, NoLostWakeup
  <2> QED
    BY <1>1, <2>1, <2>2, <2>4 DEF WakeInv, ReadersInside, NoLostWakeup
<1> QED
  BY <1>2, <1>3

\* The reader that takes a payload leaves as many awake as there are payloads left.
LEMMA TakeLeavesEnough ==
  ASSUME TypeOK, WakeInv, NEW g \in Getters, TakeHead(g)
  PROVE  WakeInv'
<1>1. /\ items \in Seq(Nat) /\ items # <<>> /\ items' = Tail(items)
      /\ awake' = awake \ {g} /\ mode' = [mode EXCEPT ![g] = "idle"] /\ closed' = closed
  BY DEF TakeHead, TypeOK
<1>2. Len(items) \in Nat \ {0} /\ Len(items') = Len(items) - 1
  BY <1>1, TailFacts
<1>3. Inside' = Inside \ {g} /\ Asleep' \subseteq Asleep
  BY <1>1 DEF Inside, Asleep, TypeOK
<1>4. IsFiniteSet(awake) /\ IsFiniteSet(Inside')
  BY <1>3, FS_Subset DEF WakeInv, ReadersInside
<1>5. Cardinality(awake) \in Nat /\ Cardinality(awake') >= Cardinality(awake) - 1
  <2>1. Cardinality(awake \ {g}) = IF g \in awake THEN Cardinality(awake) - 1
                                   ELSE Cardinality(awake)
    BY <1>4, FS_RemoveElement
  <2>2. Cardinality(awake) \in Nat
    BY <1>4, FS_CardinalityType
  <2>3. Cardinality(awake') = Cardinality(awake \ {g})
    BY <1>1
  <2> QED
    BY <2>1, <2>2, <2>3
<1>6. Asleep' # {} => Len(items') <= Cardinality(awake')
  <2>1. Asleep' # {} => Len(items) <= Cardinality(awake)
    BY <1>3 DEF WakeInv, NoLostWakeup
  <2>2. Cardinality(awake') \in Nat
    <3>1. IsFiniteSet(awake')
      BY <1>1, <1>4, FS_RemoveElement
    <3> QED
      BY <3>1, FS_CardinalityType
  <2> QED
    BY <1>2, <1>5, <2>1, <2>2
<1>7. closed' => \A h \in Getters : mode'[h] = "untimed" => h \in awake'
  BY <1>1 DEF WakeInv, NoLostWakeup, TypeOK
<1> QED
  BY <1>1, <1>3, <1>4, <1>6, <1>7 DEF WakeInv, ReadersInside, NoLostWakeup

\* A reader goes to sleep in an empty queue only, and without a timeout in an open one.
LEMMA LeaveIsSafe ==
  ASSUME TypeOK, WakeInv, NEW g \in Getters, NEW m \in {"idle", "untimed", "timed"},
         Leave(g, m), items = <<>>, ~(m = "untimed" /\ closed)
  PROVE  WakeInv'
<1>1. /\ awake' = awake \ {g} /\ mode' = [mode EXCEPT ![g] = m]
      /\ UNCHANGED <<items, closed>>
  BY DEF Leave
<1>2. Inside' \subseteq Inside \cup {g} /\ Inside \ {g} \subseteq Inside'
  BY <1>1 DEF Inside, TypeOK
<1>3. IsFiniteSet(Inside') /\ awake' \subseteq Inside'
  BY <1>1, <1>2, FS_AddElement, FS_Subset DEF WakeInv, ReadersInside
<1>4. IsFiniteSet(awake') /\ Cardinality(awake') \in Nat
  BY <1>3, FS_Subset, FS_CardinalityType
<1>5. Len(items') = 0
  BY <1>1
<1>6. closed' => \A h \in Getters : mode'[h] = "untimed" => h \in awake'
  BY <1>1 DEF WakeInv, NoLostWakeup, TypeOK
<1> QED
  BY <1>3, <1>4, <1>5, <1>6 DEF WakeInv, ReadersInside, NoLostWakeup

LEMMA WakeStep == Sound /\ WakeInv /\ [Next]_vars => WakeInv'
<1> SUFFICES ASSUME Sound, WakeInv, [Next]_vars PROVE WakeInv'
  OBVIOUS
<1>0. TypeOK /\ items \in Seq(Nat) /\ next \in Nat
  BY DEF Sound, TypeOK
<1>1. CASE UNCHANGED <<items, closed, mode, awake>>
  BY <1>1 DEF WakeInv, ReadersInside, NoLostWakeup, Inside, Asleep
<1>2. CASE Deliver(items)
  <2>1. items' = Append(items, next) /\ Notify /\ UNCHANGED <<mode, closed>>
    BY <1>2 DEF Deliver
  <2>2. Len(items') = Len(items) + 1 /\ Len(items) \in Nat
    BY <1>0, <2>1, AppendFacts
  <2> QED
    BY <1>0, <2>1, <2>2, NotifySuffices
<1>3. CASE PutEvicting
  <2>1. /\ items' = Append(Tail(items), next) /\ Notify /\ UNCHANGED <<mode, closed>>
        /\ Full
    BY <1>3 DEF PutEvicting, Deliver
  <2>2. maxsize \in Nat /\ items # <<>>
    BY <1>0, <2>1, QueueAssumption DEF QueueAssumption, TypeOK, Full
  <2>3. Len(items') = Len(items) /\ Len(items) \in Nat
    BY <1>0, <2>1, <2>2, TailFacts, AppendFacts
  <2> QED
    BY <1>0, <2>1, <2>3, NotifySuffices
<1>4. CASE Close
  <2>1. awake' = Inside /\ UNCHANGED mode
    BY <1>4 DEF Close, Inside
  <2>2. Inside' = Inside /\ Asleep' = {} /\ \A g \in Getters : mode[g] = "untimed" => g \in Inside
    BY <2>1 DEF Inside, Asleep
  <2> QED
    BY <2>1, <2>2 DEF WakeInv, ReadersInside, NoLostWakeup
<1>5. ASSUME NEW g \in Getters, Get(g) PROVE WakeInv'
  BY <1>0, <1>5, TakeLeavesEnough, LeaveIsSafe DEF Get
<1>6. ASSUME NEW g \in Getters, Recheck(g) PROVE WakeInv'
  <2>1. mode[g] \in {"untimed", "timed"}
    BY <1>6 DEF Recheck
  <2> QED
    BY <1>0, <1>6, <2>1, TakeLeavesEnough, LeaveIsSafe DEF Recheck
<1>7. ASSUME NEW g \in Getters, Expire(g) PROVE WakeInv'
  BY <1>0, <1>7, LeaveIsSafe DEF Expire
<1>8. PutRefused \/ PutBlocks \/ UNCHANGED vars => UNCHANGED <<items, closed, mode, awake>>
  BY DEF PutRefused, PutBlocks, vars, readers
<1> QED
  BY <1>1, <1>2, <1>3, <1>4, <1>5, <1>6, <1>7, <1>8 DEF Next, PutWithRoom, PutResumes

\* For any number of readers and any bound, _ChannelQueue returns payloads in the order
\* of put(), at most once each, loses only the oldest and only under drop_oldest, never
\* exceeds its bound by more than the sentinel, keeps the sentinel last, and loses no
\* wakeup.
THEOREM QueueIsConsistent == Spec => []Consistent
<1>1. Init => WakeInv
  <2> SUFFICES ASSUME Init PROVE WakeInv
    OBVIOUS
  <2>1. Inside = {} /\ Asleep = {} /\ awake = {} /\ ~closed
    BY DEF Init, Inside, Asleep
  <2> QED
    BY <2>1, FS_EmptySet DEF WakeInv, ReadersInside, NoLostWakeup
<1>2. Sound /\ WakeInv => Consistent
  BY DEF Sound, WakeInv, Consistent
<1> QED
  BY <1>1, <1>2, WakeStep, AlwaysSound, PTL DEF Spec

-----------------------------------------------------------------------------
(* The contract *)

\* The payloads in a deque.
Held(q) == {q[i] : i \in DOMAIN q} \ {Sentinel}

LEMMA HeldAppended ==
  ASSUME NEW q \in Seq(Nat), NEW e \in Nat
  PROVE  Held(Append(q, e)) = Held(q) \cup ({e} \ {Sentinel})
<1>1. /\ DOMAIN q = 1 .. Len(q) /\ DOMAIN Append(q, e) = 1 .. Len(q) + 1 /\ Len(q) \in Nat
      /\ Append(q, e)[Len(q) + 1] = e
      /\ \A i \in DOMAIN q : Append(q, e)[i] = q[i]
  BY AppendFacts
<1>2. \A i \in 1 .. Len(q) + 1 : i \in 1 .. Len(q) \/ i = Len(q) + 1
  BY <1>1
<1>3. 1 .. Len(q) \subseteq 1 .. Len(q) + 1 /\ Len(q) + 1 \in 1 .. Len(q) + 1
  BY <1>1
<1> QED
  BY <1>1, <1>2, <1>3 DEF Held

LEMMA HeldTail ==
  ASSUME NEW q \in Seq(Nat), q # <<>>
  PROVE  Held(q) = Held(Tail(q)) \cup ({Head(q)} \ {Sentinel})
<1>1. /\ DOMAIN q = 1 .. Len(q) /\ Len(q) \in Nat \ {0} /\ DOMAIN Tail(q) = 1 .. Len(q) - 1
      /\ Head(q) = q[1]
      /\ \A i \in DOMAIN Tail(q) : i + 1 \in DOMAIN q /\ Tail(q)[i] = q[i + 1]
  BY TailFacts
<1>2. \A i \in 1 .. Len(q) : i = 1 \/ (i - 1 \in 1 .. Len(q) - 1 /\ (i - 1) + 1 = i)
  BY <1>1
<1>3. \A i \in 1 .. Len(q) : i = 1 \/ \E j \in DOMAIN Tail(q) : Tail(q)[j] = q[i]
  BY <1>1, <1>2
<1>4. 1 \in DOMAIN q
  BY <1>1
<1>5. \A x : (\E i \in DOMAIN q : q[i] = x) <=>
              (x = Head(q) \/ \E j \in DOMAIN Tail(q) : Tail(q)[j] = x)
  BY <1>1, <1>3, <1>4
<1>6. \A x : x \in Held(q) <=> x # Sentinel /\ \E i \in DOMAIN q : q[i] = x
  BY DEF Held
<1>7. \A x : x \in Held(Tail(q)) <=> x # Sentinel /\ \E i \in DOMAIN Tail(q) : Tail(q)[i] = x
  BY DEF Held
<1>8. \A x : x \in Held(q) <=> x \in Held(Tail(q)) \cup ({Head(q)} \ {Sentinel})
  BY <1>5, <1>6, <1>7
<1> QED
  BY <1>8

\* A deque holds no more payloads than it has entries, and as many if all differ.
LEMMA HeldSize ==
  ASSUME NEW q \in Seq(Nat)
  PROVE  /\ IsFiniteSet(Held(q)) /\ Cardinality(Held(q)) \in Nat
         /\ Cardinality(Held(q)) <= Len(q)
         /\ (\A i \in DOMAIN q : q[i] # Sentinel)
              /\ (\A i, j \in DOMAIN q : i < j => q[i] < q[j])
              => Cardinality(Held(q)) = Len(q)
<1> DEFINE n == Len(q)
           I == {q[i] : i \in 1 .. n}
           f == [i \in 1 .. n |-> q[i]]
<1>1. n \in Nat /\ DOMAIN q = 1 .. n /\ \A i \in 1 .. n : q[i] \in Nat
  OBVIOUS
<1>2. IsFiniteSet(1 .. n) /\ Cardinality(1 .. n) = n
  BY <1>1, FS_Interval
<1>3. f \in Surjection(1 .. n, I)
  BY DEF Surjection
<1>4. IsFiniteSet(I) /\ Cardinality(I) <= n /\ Cardinality(I) \in Nat
      /\ (Cardinality(I) = n <=> f \in Injection(1 .. n, I))
  BY <1>2, <1>3, FS_Surjection, FS_CardinalityType
<1>5. Held(q) = I \ {Sentinel}
  BY <1>1 DEF Held
<1>6. IsFiniteSet(Held(q)) /\ Cardinality(Held(q)) \in Nat /\ Cardinality(Held(q)) <= n
  <2>1. Held(q) \subseteq I
    BY <1>5
  <2>2. IsFiniteSet(Held(q)) /\ Cardinality(Held(q)) <= Cardinality(I)
    BY <1>4, <2>1, FS_Subset
  <2>3. Cardinality(Held(q)) \in Nat
    BY <2>2, FS_CardinalityType
  <2> HIDE DEF n, I, f
  <2>4. \A a, b, c \in Nat : a <= b /\ b <= c => a <= c
    OBVIOUS
  <2> QED
    BY <1>1, <1>4, <2>2, <2>3, <2>4
<1>7. ASSUME \A i \in 1 .. n : q[i] # Sentinel, \A i, j \in 1 .. n : i < j => q[i] < q[j]
      PROVE  Cardinality(Held(q)) = n
  <2>1. Held(q) = I
    BY <1>5, <1>7
  <2>2. ASSUME NEW i \in 1 .. n, NEW j \in 1 .. n, f[i] = f[j] PROVE i = j
    <3>1. i \in Int /\ j \in Int /\ q[i] = q[j] /\ q[i] \in Nat
      BY <1>1, <2>2
    <3>2. ~(i < j) /\ ~(j < i)
      BY <1>7, <3>1
    <3> QED
      BY <3>1, <3>2
  <2>3. f \in Injection(1 .. n, I)
    BY <2>2 DEF Injection, IsInjective
  <2> QED
    BY <1>4, <2>1, <2>3
<1> QED
  BY <1>1, <1>6, <1>7

\* put() is called for the payloads up to MaxPuts.
InRange == next <= MaxPuts + 1 /\ (blocked => next <= MaxPuts)

LEMMA AlwaysInRange == Spec => []InRange
<1>1. Init => InRange
  BY QueueAssumption DEF QueueAssumption, Init, InRange
<1>2. Sound /\ InRange /\ [Next]_vars => InRange'
  <2> SUFFICES ASSUME Sound, InRange, [Next]_vars PROVE InRange'
    OBVIOUS
  <2>0. next \in Nat /\ MaxPuts \in Nat
    BY QueueAssumption DEF QueueAssumption, Sound, TypeOK
  <2>1. CASE Next /\ next' = next + 1
    <3>1. next <= MaxPuts
      BY <2>0, <2>1 DEF Next, PutRefused, PutWithRoom, PutEvicting, PutBlocks, PutResumes, Calling,
        Close, Get, Recheck, Expire, TakeHead, Leave, InRange, putter
    <3>2. ~blocked'
      BY <2>0, <2>1 DEF Next, PutRefused, PutWithRoom, PutEvicting, PutBlocks, PutResumes, Calling,
        Deliver, Close, Get, Recheck, Expire, TakeHead, Leave, putter
    <3> QED
      BY <2>0, <2>1, <3>1, <3>2 DEF InRange
  <2>2. CASE PutBlocks
    BY <2>0, <2>2 DEF PutBlocks, Calling, InRange
  <2>3. CASE UNCHANGED <<next, blocked>>
    BY <2>3 DEF InRange
  <2>4. PutRefused \/ PutWithRoom \/ PutEvicting \/ PutResumes => next' = next + 1
    BY DEF PutRefused, PutWithRoom, PutEvicting, PutResumes, Deliver
  <2>5. Close \/ UNCHANGED vars => UNCHANGED <<next, blocked>>
    BY DEF Close, vars, putter
  <2>6. ASSUME NEW g \in Getters, Get(g) \/ Recheck(g) \/ Expire(g)
        PROVE  UNCHANGED <<next, blocked>>
    BY <2>6 DEF Get, Recheck, Expire, TakeHead, Leave, putter
  <2> QED
    BY <2>1, <2>2, <2>3, <2>4, <2>5, <2>6 DEF Next
<1> QED
  BY <1>1, <1>2, AlwaysSound, PTL DEF Spec

\* The contract counts as this module does.
LEMMA SameCardinality == \A S : Contract!Cardinality(S) = Cardinality(S)
  BY DEF Contract!Cardinality, Cardinality

\* What the deque holds is older than the next payload, and so is what left it.
LEMMA NextIsFresh ==
  ASSUME Sound
  PROVE  Contract!Fresh(next) /\ next # Sentinel
<1>1. /\ \A i \in DOMAIN items : items[i] < next
      /\ \A i \in DOMAIN taken : taken[i] < next
      /\ \A p \in evicted : p < next
  BY DEF Sound, InOrder, Evictions
<1>2. next # Sentinel
  BY DEF Sound, TypeOK
<1> QED
  BY <1>1, <1>2 DEF Contract!Fresh

\* The head of the deque is its oldest payload.
LEMMA HeadIsOldest ==
  ASSUME Sound, items # <<>>, Head(items) # Sentinel
  PROVE  /\ Contract!Oldest(Head(items))
         /\ Held(Tail(items)) = Held(items) \ {Head(items)}
<1>1. /\ items \in Seq(Nat) /\ DOMAIN items = 1 .. Len(items) /\ Len(items) \in Nat \ {0}
      /\ Head(items) = items[1] /\ DOMAIN Tail(items) = 1 .. Len(items) - 1
      /\ \A i \in DOMAIN Tail(items) : i + 1 \in DOMAIN items /\ Tail(items)[i] = items[i + 1]
  BY TailFacts DEF Sound, TypeOK
<1>2. \A i \in DOMAIN items : i = 1 \/ items[i] = Sentinel \/ items[1] < items[i]
  <2> SUFFICES ASSUME NEW i \in DOMAIN items, i # 1, items[i] # Sentinel
               PROVE  items[1] < items[i]
    OBVIOUS
  <2>1. 1 \in DOMAIN items /\ 1 < i /\ items[1] # Sentinel
    BY <1>1
  <2> QED
    BY <2>1 DEF Sound, InOrder
<1>3. \A i \in DOMAIN items : items[i] \in Nat
  BY <1>1
<1>4. Contract!Oldest(Head(items))
  <2>1. 1 \in DOMAIN items
    BY <1>1
  <2>2. \A i \in DOMAIN items : items[i] # Sentinel => items[1] <= items[i]
    BY <1>2, <1>3, <2>1
  <2> QED
    BY <1>1, <2>1, <2>2 DEF Contract!Oldest
<1>5. Head(items) \notin Held(Tail(items))
  <2>1. \A i \in DOMAIN Tail(items) : Tail(items)[i] # Head(items)
    <3> TAKE i \in DOMAIN Tail(items)
    <3>1. i + 1 \in DOMAIN items /\ i + 1 # 1 /\ Tail(items)[i] = items[i + 1]
      BY <1>1
    <3>2. items[i + 1] # items[1]
      <4>1. items[i + 1] \in Nat /\ items[1] \in Nat /\ items[1] # Sentinel
        BY <1>1, <1>3, <3>1
      <4> QED
        BY <1>2, <3>1, <4>1
    <3> QED
      BY <1>1, <3>1, <3>2
  <2> QED
    BY <2>1 DEF Held
<1> QED
  BY <1>1, <1>4, <1>5, HeldTail

LEMMA DeliverAccepts ==
  ASSUME Sound, InRange, next <= MaxPuts, ~Full, Deliver(items), UNCHANGED evicted,
         blocked \/ ~closed
  PROVE  Contract!Next
<1>1. items \in Seq(Nat) /\ next \in Nat \ {0} /\ maxsize \in Nat /\ MaxPuts \in Nat
  BY QueueAssumption DEF QueueAssumption, Sound, TypeOK
<1>2. items' = Append(items, next) /\ UNCHANGED <<maxsize, policy, taken, closed, ended>>
  BY DEF Deliver
<1>3. Held(items') = Held(items) \cup {next}
  BY <1>1, <1>2, HeldAppended
<1>4. maxsize > 0 => Cardinality(Held(items)) < maxsize
  <2>1. Cardinality(Held(items)) \in Nat /\ Cardinality(Held(items)) <= Len(items)
    BY <1>1, HeldSize
  <2>2. maxsize > 0 => Len(items) < maxsize /\ Len(items) \in Nat
    BY <1>1 DEF Full
  <2> QED
    BY <1>1, <2>1, <2>2
<1>5. ~(closed /\ policy = "drop_oldest")
  BY DEF Sound, SentinelLast
<1>6. PICK p \in 1 .. MaxPuts : p = next
  BY <1>1
<1>7. Contract!Accept(p)
  BY <1>2, <1>3, <1>4, <1>5, <1>6, NextIsFresh, SameCardinality DEF Contract!Accept, Held
<1> QED
  BY <1>7, Zenon DEF Contract!Next

LEMMA EvictingReplaces ==
  ASSUME Sound, InRange, PutEvicting
  PROVE  Contract!Next
<1>1. items \in Seq(Nat) /\ next \in Nat \ {0} /\ maxsize \in Nat /\ MaxPuts \in Nat
  BY QueueAssumption DEF QueueAssumption, Sound, TypeOK
<1>2. /\ items' = Append(Tail(items), next) /\ evicted' = evicted \cup {Head(items)}
      /\ UNCHANGED <<maxsize, policy, taken, closed, ended>>
      /\ ~closed /\ Full /\ policy = "drop_oldest" /\ next <= MaxPuts
  BY DEF PutEvicting, Deliver, Calling
<1>3. maxsize > 0 /\ Len(items) >= maxsize /\ items # <<>>
  BY <1>1, <1>2 DEF Full
<1>4. \A i \in DOMAIN items : items[i] # Sentinel
  BY <1>2 DEF Sound, SentinelLast
<1>5. Head(items) # Sentinel /\ Head(items) \in Nat /\ Head(items) < next /\ Tail(items) \in Seq(Nat)
  <2>1. 1 \in DOMAIN items /\ Head(items) = items[1] /\ Tail(items) \in Seq(Nat) /\ items[1] \in Nat
    BY <1>1, <1>3, TailFacts
  <2> QED
    BY <1>4, <2>1 DEF Sound, InOrder
<1>6. Held(items') = (Held(items) \ {Head(items)}) \cup {next}
  <2>1. Held(Tail(items)) = Held(items) \ {Head(items)}
    BY <1>3, <1>5, HeadIsOldest
  <2>2. Held(items') = Held(Tail(items)) \cup ({next} \ {Sentinel})
    BY <1>1, <1>2, <1>5, HeldAppended
  <2>3. next # Sentinel
    BY <1>1
  <2> QED
    BY <2>1, <2>2, <2>3
<1>7. Cardinality(Held(items)) = maxsize
  <2>1. Cardinality(Held(items)) = Len(items)
    BY <1>1, <1>4, HeldSize DEF Sound, InOrder
  <2>2. Len(items) \in Nat /\ Len(items) <= maxsize
    BY <1>1, <1>2, <1>3 DEF Sound, Bounded
  <2> QED
    BY <1>1, <1>3, <2>1, <2>2
<1>8. PICK p \in 1 .. MaxPuts, q \in 1 .. MaxPuts : p = next /\ q = Head(items)
  <2>1. next \in 1 .. MaxPuts
    BY <1>1, <1>2
  <2>2. Head(items) \in 1 .. MaxPuts
    BY <1>1, <1>2, <1>5
  <2> QED
    BY <2>1, <2>2, Zenon
<1>9. Contract!Fresh(next) /\ Contract!Oldest(Head(items))
  BY <1>3, <1>5, NextIsFresh, HeadIsOldest
<1>10. Contract!Replace(p, q)
  BY <1>2, <1>3, <1>6, <1>7, <1>8, <1>9, SameCardinality DEF Contract!Replace, Held
<1> QED
  BY <1>10, Zenon DEF Contract!Next

LEMMA TakeGivesOrEnds ==
  ASSUME Sound, InRange, NEW g \in Getters, TakeHead(g)
  PROVE  Contract!Next
<1>1. items \in Seq(Nat) /\ next \in Nat \ {0} /\ MaxPuts \in Nat
  BY QueueAssumption DEF QueueAssumption, Sound, TypeOK
<1>2. /\ items # <<>> /\ items' = Tail(items)
      /\ taken' = IF Head(items) = Sentinel THEN taken ELSE Append(taken, Head(items))
      /\ ended' = (ended \/ Head(items) = Sentinel)
      /\ UNCHANGED <<maxsize, policy, evicted, closed>>
  BY DEF TakeHead
<1>3. /\ 1 \in DOMAIN items /\ Head(items) = items[1] /\ items[1] \in Nat
      /\ Len(items) \in Nat /\ DOMAIN items = 1 .. Len(items)
  BY <1>1, <1>2, TailFacts
<1>4. CASE Head(items) # Sentinel
  <2>1. PICK p \in 1 .. MaxPuts : p = Head(items)
    BY <1>1, <1>3, <1>4 DEF Sound, InOrder, InRange
  <2>2. Held(items') = Held(items) \ {p} /\ Contract!Oldest(p)
    BY <1>2, <1>4, <2>1, HeadIsOldest
  <2>3. taken' = Append(taken, p) /\ ended' = ended
    BY <1>2, <1>4, <2>1 DEF Sound, TypeOK
  <2>4. Contract!Give(p)
    BY <1>2, <2>2, <2>3 DEF Contract!Give, Held
  <2> QED
    BY <2>4, Zenon DEF Contract!Next
<1>5. CASE Head(items) = Sentinel
  <2>1. closed /\ ended'
    BY <1>2, <1>3, <1>5 DEF Sound, SentinelLast
  <2>2. policy = "drop_oldest" => Held(items) = {}
    <3> SUFFICES ASSUME policy = "drop_oldest" PROVE Held(items) = {}
      OBVIOUS
    <3>1. Len(items) = 1
      BY <1>3, <1>5, <2>1 DEF Sound, SentinelLast
    <3>2. \A i \in DOMAIN items : items[i] = Sentinel
      BY <1>3, <1>5, <3>1
    <3> QED
      BY <3>2 DEF Held
  <2>3. Held(items') = Held(items)
    BY <1>1, <1>2, <1>5, HeldTail
  <2> QED
    BY <1>2, <1>5, <2>1, <2>2, <2>3 DEF Contract!Next, Contract!End, Held
<1> QED
  BY <1>4, <1>5

LEMMA LeaveEndsOrStutters ==
  ASSUME NEW g \in Getters, NEW m, Leave(g, m),
         \/ UNCHANGED ended
         \/ closed /\ items = <<>> /\ ended' = TRUE
  PROVE  Contract!Next \/ UNCHANGED Contract!contractVars
<1>1. UNCHANGED <<maxsize, policy, items, taken, evicted, closed>>
  BY DEF Leave
<1> QED
  BY <1>1 DEF Contract!Next, Contract!End, Contract!contractVars

\* Every step is a step of the contract or does not concern it.
LEMMA ContractStep == Sound /\ InRange /\ [Next]_vars => [Contract!Next]_(Contract!contractVars)
<1> SUFFICES ASSUME Sound, InRange, [Next]_vars
             PROVE  Contract!Next \/ UNCHANGED Contract!contractVars
  OBVIOUS
<1>1. CASE PutRefused \/ PutBlocks \/ UNCHANGED vars
  BY <1>1 DEF PutRefused, PutBlocks, vars, history, Contract!contractVars
<1>2. CASE PutWithRoom
  BY <1>2, DeliverAccepts DEF PutWithRoom, Calling
<1>3. CASE PutEvicting
  BY <1>3, EvictingReplaces
<1>4. CASE PutResumes
  BY <1>4, DeliverAccepts DEF PutResumes, InRange
<1>5. CASE Close
  <2>1. /\ ~closed /\ closed' = TRUE /\ items' = Append(items, Sentinel)
        /\ UNCHANGED <<maxsize, policy, taken, evicted, ended>>
    BY <1>5 DEF Close, history
  <2>2. Held(items') = Held(items)
    <3>1. items \in Seq(Nat) /\ Sentinel \in Nat
      BY DEF Sound, TypeOK
    <3> QED
      BY <2>1, <3>1, HeldAppended
  <2> QED
    BY <2>1, <2>2 DEF Contract!Shut, Contract!Next, Held
<1>6. ASSUME NEW g \in Getters, Get(g) \/ Recheck(g) \/ Expire(g)
      PROVE  Contract!Next \/ UNCHANGED Contract!contractVars
  <2>1. CASE TakeHead(g)
    BY <2>1, TakeGivesOrEnds
  <2>2. CASE \E m : Leave(g, m) /\ (UNCHANGED ended \/ (closed /\ items = <<>> /\ ended' = TRUE))
    BY <2>2, LeaveEndsOrStutters
  <2> QED
    BY <1>6, <2>1, <2>2 DEF Get, Recheck, Expire
<1> QED
  BY <1>1, <1>2, <1>3, <1>4, <1>5, <1>6 DEF Next

\* _ChannelQueue implements the contract: whoever reads it sees the payloads in order,
\* each once, none lost but the oldest of a full drop_oldest queue, and under drop_oldest
\* nothing after the first "Channel is closed".
THEOREM QueueKeepsContract == Spec => ImplementsQueue
<1>1. Init => Contract!Init
  BY QueueAssumption DEF QueueAssumption, Init, Contract!Init
<1> QED
  BY <1>1, ContractStep, AlwaysSound, AlwaysInRange, PTL DEF Spec, ImplementsQueue, Contract!Spec
=============================================================================
