-------------------------- MODULE DiscoveryProofs --------------------------
(***************************************************************************)
(* What holds of Discovery for any number of peers and of threads that     *)
(* resolve at the same time, any TTL, and any course of advertisements.    *)
(***************************************************************************)
EXTENDS Discovery, FiniteSetTheorems, SequenceTheorems, TLAPS

\* What a step of the browser thread finds at the head of its queue.
LEMMA EventHead ==
  ASSUME events \in Seq({"seen", "gone"} \X Names), events # <<>>
  PROVE  Peer \in Names /\ Tail(events) \in Seq({"seen", "gone"} \X Names)
BY DEF Peer

LEMMA NoticeShapes ==
  ASSUME NEW n \in Names
  PROVE  /\ <<>> \in Seq({"up", "down"} \X Names)
         /\ <<<<"up", n>>>> \in Seq({"up", "down"} \X Names)
         /\ <<<<"down", n>>>> \in Seq({"up", "down"} \X Names)
         /\ <<>> \o <<<<"up", n>>>> \in Seq({"up", "down"} \X Names)
         /\ <<<<"down", n>>>> \o <<<<"up", n>>>> \in Seq({"up", "down"} \X Names)
OBVIOUS

LEMMA RecordsOfNames ==
  /\ NoRecord \in AllRecords
  /\ \A n \in Names : Records[n] \subseteq AllRecords
BY DEF AllRecords

LEMMA NothingFetched == NoFetch \in Fetches
BY RecordsOfNames DEF NoFetch, Fetches

LEMMA IdleIsOp == DiscoveryAssumption => Idle \in Ops
BY DEF DiscoveryAssumption, Idle, Ops

\* What the browser thread has fetched belongs to the notification it works on.
Fetching ==
  fetch # NoFetch => /\ events # <<>> /\ Head(events)[1] = "seen"
                     /\ Peer # Self /\ Usable(fetch.record)

\* Every step keeps the types; in particular the node never caches itself.
LEMMA TypeStep == TypeOK /\ Fetching /\ [Next]_vars => TypeOK'
<1> USE DiscoveryAssumption DEF DiscoveryAssumption
<1> SUFFICES ASSUME TypeOK, Fetching, [Next]_vars PROVE TypeOK'
  OBVIOUS
<1>1. ASSUME NEW n \in Names, NEW r \in Records[n], Announce(n, r) PROVE TypeOK'
  <2>1. Append(events, <<"seen", n>>) \in Seq({"seen", "gone"} \X Names)
    BY DEF TypeOK
  <2> QED
    BY <1>1, <2>1, RecordsOfNames DEF Announce, Notify, TypeOK, peerVars, todoVars, opVars, tellVars
<1>2. ASSUME NEW n \in Names, Withdraw(n) PROVE TypeOK'
  <2>1. Append(events, <<"gone", n>>) \in Seq({"seen", "gone"} \X Names)
    BY DEF TypeOK
  <2> QED
    BY <1>2, <2>1, RecordsOfNames DEF Withdraw, Notify, TypeOK, peerVars, todoVars, opVars, tellVars
<1>3. CASE Tick
  BY <1>3 DEF Tick, TypeOK, peerVars, todoVars, opVars, tellVars
<1>4. CASE IgnoreSeen
  <2>1. events' \in Seq({"seen", "gone"} \X Names)
    BY <1>4, EventHead DEF IgnoreSeen, NextEvent, TypeOK
  <2> QED
    BY <1>4, <2>1 DEF IgnoreSeen, NextEvent, TypeOK, peerVars, tellVars
<1>f. CASE Fetch
  <2>1. Peer \in Names
    BY <1>f, EventHead DEF Fetch, TypeOK
  <2>2. fetch' \in Fetches
    BY <1>f, <2>1 DEF Fetch, Fetches, TypeOK
  <2> QED
    BY <1>f, <2>2 DEF Fetch, TypeOK, netVars, peerVars, opVars, tellVars
<1>5. CASE OnAdded
  <2>1. Peer \in Names /\ events' \in Seq({"seen", "gone"} \X Names)
    BY <1>5, EventHead DEF OnAdded, Insert, NextEvent, TypeOK
  <2>2. Peer # Self
    BY <1>5 DEF OnAdded, Insert, Fetching
  <2>3. PICK now \in fetch.since..clock :
          entry' = [entry EXCEPT ![Peer] = [record |-> fetch.record, seen |-> now]]
    BY <1>5 DEF OnAdded
  <2>4. [record |-> fetch.record, seen |-> now] \in Entries
    BY <2>3 DEF TypeOK, Fetches, Entries
  <2>5. /\ entry' \in [Names -> Entries] /\ known' \in SUBSET (Names \ {Self})
        /\ lapsed' \in SUBSET Names /\ late' \in [Threads -> SUBSET Names] /\ fetch' \in Fetches
    BY <1>5, <2>1, <2>2, <2>3, <2>4, NothingFetched DEF OnAdded, Insert, TypeOK
  <2>6. notice' \in Seq({"up", "down"} \X Names)
    BY <1>5, <2>1, NoticeShapes DEF OnAdded, Insert
  <2>7. owed' \in [Names -> Int]
    BY <1>5, <2>1 DEF OnAdded, Insert, TypeOK
  <2> QED
    BY <1>5, <2>1, <2>5, <2>6, <2>7 DEF OnAdded, Insert, NextEvent, TypeOK, tellVars
<1>6. CASE OnRemoved
  <2>1. Peer \in Names /\ events' \in Seq({"seen", "gone"} \X Names)
    BY <1>6, EventHead DEF OnRemoved, NextEvent, TypeOK
  <2>2. notice' \in Seq({"up", "down"} \X Names)
    BY <1>6, <2>1, NoticeShapes DEF OnRemoved
  <2>3. /\ owed' \in [Names -> Int] /\ known' \in SUBSET (Names \ {Self})
        /\ lapsed' \in SUBSET Names
    BY <1>6, <2>1 DEF OnRemoved, TypeOK
  <2> QED
    BY <1>6, <2>1, <2>2, <2>3 DEF OnRemoved, NextEvent, TypeOK, tellVars
<1>7. CASE Cancel
  BY <1>7 DEF Cancel, TypeOK, peerVars, todoVars, opVars, tellVars
<1>8. CASE FireNotice
  <2>1. Head(notice)[2] \in Names /\ notice' \in Seq({"up", "down"} \X Names)
    BY <1>8 DEF FireNotice, TypeOK
  <2> QED
    BY <1>8, <2>1 DEF FireNotice, Tell, TypeOK, netVars, peerVars, opVars
<1>9. CASE SetCallbacks
  BY <1>9 DEF SetCallbacks, TypeOK, netVars, peerVars, todoVars, opVars
<1>10. ASSUME NEW t \in Threads, NEW x \in Targets, ReadTime(t, x) PROVE TypeOK'
  <2>1. [Idle EXCEPT !.pc = "prune", !.target = x, !.now = clock] \in Ops
    BY DEF Idle, Ops, TypeOK
  <2> QED
    BY <1>10, <2>1 DEF ReadTime, TypeOK, netVars, peerVars, todoVars, opVars, tellVars
<1>11. ASSUME NEW t \in Threads, Prune(t) PROVE TypeOK'
  <2>0. op[t] \in Ops
    BY DEF TypeOK
  <2>1. [op[t] EXCEPT !.pc = "lookup"] \in Ops
    BY <2>0 DEF Ops
  <2>2. op' \in [Threads -> Ops]
    BY <1>11, <2>1 DEF Prune, TypeOK
  <2>3. /\ owed' \in [Names -> Int] /\ known' \in SUBSET (Names \ {Self})
        /\ lapsed' \in SUBSET Names
    BY <1>11 DEF Prune, TypeOK
  <2>4. expired' \in [Threads -> SUBSET Names]
    BY <1>11 DEF Prune, TypeOK
  <2> QED
    BY <1>11, <2>2, <2>3, <2>4 DEF Prune, TypeOK, netVars, tellVars
<1>12. ASSUME NEW t \in Threads, Lookup(t) PROVE TypeOK'
  <2>1. Idle \in Ops /\ \A n \in Names : [Idle EXCEPT !.found = n] \in Ops
    BY DEF Idle, Ops
  <2>2. op[t].target \in Names
    BY DEF TypeOK, Ops
  <2>3. Candidates(op[t].target) \subseteq Names
    BY <2>2 DEF Candidates, TypeOK
  <2>4. \E o \in Ops : op' = [op EXCEPT ![t] = o]
    BY <1>12, <2>1, <2>3 DEF Lookup
  <2>5. op' \in [Threads -> Ops] /\ late' \in [Threads -> SUBSET Names]
    BY <1>12, <2>4 DEF Lookup, TypeOK
  <2> QED
    BY <1>12, <2>5 DEF Lookup, TypeOK, netVars, peerVars, todoVars, opVars, tellVars
<1>13. ASSUME NEW t \in Threads, NEW n \in Names, FireExpired(t, n) PROVE TypeOK'
  <2>1. owed' \in [Names -> Int] /\ view' \in SUBSET Names /\ muddled' \in SUBSET Names
    BY <1>13 DEF FireExpired, Tell, TypeOK
  <2> QED
    BY <1>13, <2>1 DEF FireExpired, Tell, TypeOK, netVars, peerVars, opVars
<1>14. CASE UNCHANGED vars
  BY <1>14 DEF TypeOK, vars, netVars, peerVars, todoVars, opVars, tellVars
<1> QED
  BY <1>1, <1>2, <1>3, <1>4, <1>5, <1>6, <1>7, <1>8, <1>9, <1>10, <1>11, <1>12, <1>13,
    <1>14, <1>f
  DEF Next, Network, BrowserStep, ThreadStep

LEMMA FetchingStep == TypeOK /\ Fetching /\ [Next]_vars => Fetching'
<1> SUFFICES ASSUME TypeOK, Fetching, [Next]_vars PROVE Fetching'
  OBVIOUS
<1> USE DEF Fetching, Peer
<1>1. CASE UNCHANGED <<events, fetch>>
  BY <1>1
<1>2. ASSUME NEW n \in Names, (\E r \in Records[n] : Announce(n, r)) \/ Withdraw(n)
      PROVE  Fetching'
  <2>1. /\ fetch' = fetch
        /\ \E e \in {"seen", "gone"} \X Names : events' = Append(events, e)
    BY <1>2 DEF Announce, Withdraw, Notify, todoVars
  <2>2. events # <<>> => events' # <<>> /\ Head(events') = Head(events)
    BY <2>1 DEF TypeOK
  <2> QED
    BY <2>1, <2>2
<1>3. CASE fetch' = NoFetch
  BY <1>3
<1>4. CASE Fetch
  <2>1. /\ UNCHANGED <<events, record>> /\ events # <<>> /\ Head(events)[1] = "seen"
        /\ Usable(record[Peer]) /\ Peer # Self
        /\ fetch' = [record |-> record[Peer], since |-> clock]
    BY <1>4 DEF Fetch, netVars
  <2> QED
    BY <2>1
<1>5. OnRemoved => fetch' = NoFetch
  BY DEF OnRemoved, NextEvent
<1>6. IgnoreSeen \/ OnAdded => fetch' = NoFetch
  BY DEF IgnoreSeen, OnAdded, Insert
<1>7. Tick \/ Cancel \/ FireNotice \/ SetCallbacks \/ UNCHANGED vars
        => UNCHANGED <<events, fetch>>
  BY DEF Tick, Cancel, FireNotice, Tell, SetCallbacks, vars, netVars, todoVars
<1>8. ASSUME NEW t \in Threads, ThreadStep(t) PROVE UNCHANGED <<events, fetch>>
  BY <1>8 DEF ThreadStep, ReadTime, Prune, Lookup, FireExpired, Tell, netVars, todoVars
<1> QED
  BY <1>1, <1>2, <1>3, <1>4, <1>5, <1>6, <1>7, <1>8 DEF Next, Network, BrowserStep

LEMMA AlwaysFetching == Spec => [](TypeOK /\ Fetching)
<1>1. Init => TypeOK /\ Fetching
  BY DiscoveryAssumption, IdleIsOp, RecordsOfNames, NothingFetched
  DEF DiscoveryAssumption, Init, TypeOK, Entries, NoEntry, Fetching
<1> QED
  BY <1>1, TypeStep, FetchingStep, PTL DEF Spec

\* Every variable keeps its type.
THEOREM TypeCorrect == Spec => []TypeOK
BY AlwaysFetching, PTL

\* The clocks that were read, and the entries' time stamps, lie in the past.
TimesPast ==
  /\ \A t \in Threads : op[t].now <= clock
  /\ \A n \in Names : entry[n].seen <= clock

FreshInv == TypeOK /\ TimesPast /\ LookupSeesFresh

\* Every step keeps FreshInv: only Prune and OnAdded matter.  What OnAdded caches may
\* be stale at once for a thread between its prune and its lookup, and is late for it.
LEMMA FreshStep == FreshInv /\ [Next]_vars => TimesPast' /\ LookupSeesFresh'
<1> USE DiscoveryAssumption DEF DiscoveryAssumption
<1> SUFFICES ASSUME FreshInv, [Next]_vars PROVE TimesPast' /\ LookupSeesFresh'
  OBVIOUS
<1> USE DEF FreshInv, TimesPast, LookupSeesFresh, Stale
<1>0. /\ clock \in Nat
      /\ \A n \in Names : entry[n].seen \in Nat
      /\ \A t \in Threads : op[t].now \in Nat /\ late[t] \subseteq Names
      /\ known \subseteq Names /\ fetch.since \in Nat
  BY DEF TypeOK, Entries, Ops, Fetches
<1>1. CASE UNCHANGED <<clock, known, entry, op, late>>
  BY <1>1
<1>2. CASE Tick
  <2>1. clock' = clock + 1 /\ UNCHANGED <<known, entry, op, late>>
    BY <1>2 DEF Tick, peerVars, opVars
  <2> QED
    BY <1>0, <2>1
<1>3. CASE OnAdded
  <2>1. Peer \in Names /\ UNCHANGED <<clock, op>>
    BY <1>3, EventHead DEF OnAdded, Insert, NextEvent, TypeOK
  <2>2. PICK now \in fetch.since..clock :
          entry' = [entry EXCEPT ![Peer] = [record |-> fetch.record, seen |-> now]]
    BY <1>3 DEF OnAdded
  <2>3. /\ entry'[Peer].seen = now /\ now <= clock
        /\ \A n \in Names \ {Peer} : entry'[n] = entry[n]
        /\ known' = known \cup {Peer}
    BY <1>0, <1>3, <2>1, <2>2 DEF OnAdded, Insert, TypeOK
  <2>4. \A t \in Threads : op[t].pc = "lookup" => late'[t] = late[t] \cup {Peer}
    BY <1>3 DEF OnAdded, Insert
  <2>5. TimesPast'
    BY <2>1, <2>3
  <2>6. LookupSeesFresh'
    BY <1>0, <2>1, <2>3, <2>4
  <2> QED
    BY <2>5, <2>6
<1>4. CASE OnRemoved
  <2>1. UNCHANGED <<clock, entry, op, late>> /\ known' \subseteq known
    BY <1>4 DEF OnRemoved, NextEvent
  <2> QED
    BY <1>0, <2>1
<1>5. ASSUME NEW t \in Threads, NEW x \in Targets, ReadTime(t, x)
      PROVE  TimesPast' /\ LookupSeesFresh'
  <2>1. UNCHANGED <<clock, known, entry, late>>
    BY <1>5 DEF ReadTime, netVars, peerVars
  <2>2. /\ op'[t].now = clock /\ op'[t].pc = "prune"
        /\ \A u \in Threads \ {t} : op'[u] = op[u]
    BY <1>5 DEF ReadTime, TypeOK, Idle
  <2> QED
    BY <1>0, <2>1, <2>2
<1>6. ASSUME NEW t \in Threads, Prune(t) PROVE TimesPast' /\ LookupSeesFresh'
  <2>1. UNCHANGED <<clock, entry, late>> /\ known' = {n \in known : ~Stale(n, op[t].now)}
    BY <1>6 DEF Prune, netVars
  <2>2. /\ op'[t].now = op[t].now
        /\ \A u \in Threads \ {t} : op'[u] = op[u]
    BY <1>6 DEF Prune, TypeOK, Ops
  <2> QED
    BY <1>0, <2>1, <2>2
<1>7. ASSUME NEW t \in Threads, Lookup(t) PROVE TimesPast' /\ LookupSeesFresh'
  <2>1. UNCHANGED <<clock, known, entry>>
    BY <1>7 DEF Lookup, netVars, peerVars
  <2>2. /\ op'[t].now = 0 /\ op'[t].pc = "idle"
        /\ \A u \in Threads \ {t} : op'[u] = op[u] /\ late'[u] = late[u]
    BY <1>7 DEF Lookup, TypeOK, Idle
  <2> QED
    BY <1>0, <2>1, <2>2
<1> QED
  <2>1. ASSUME NEW n \in Names, (\E r \in Records[n] : Announce(n, r)) \/ Withdraw(n)
        PROVE  UNCHANGED <<clock, known, entry, op, late>>
    BY <2>1 DEF Announce, Withdraw, Notify, peerVars, opVars
  <2>2. CASE IgnoreSeen \/ Fetch \/ Cancel \/ FireNotice \/ SetCallbacks \/ UNCHANGED vars
    BY <1>1, <2>2 DEF IgnoreSeen, NextEvent, Fetch, Cancel, FireNotice, Tell, SetCallbacks,
      vars, netVars, peerVars, opVars
  <2>3. ASSUME NEW t \in Threads, NEW n \in Names, FireExpired(t, n)
        PROVE  UNCHANGED <<clock, known, entry, op, late>>
    BY <2>3 DEF FireExpired, Tell, netVars, peerVars, opVars
  <2> QED
    BY <1>1, <1>2, <1>3, <1>4, <1>5, <1>6, <1>7, <2>1, <2>2, <2>3
    DEF Next, Network, BrowserStep, ThreadStep

LEMMA AlwaysFresh == Spec => []FreshInv
<1>1. Init => TimesPast /\ LookupSeesFresh
  BY DiscoveryAssumption
  DEF DiscoveryAssumption, Init, TimesPast, LookupSeesFresh, NoEntry, Idle
<1> QED
  BY <1>1, FreshStep, TypeCorrect, PTL DEF Spec, FreshInv

\* Between its prune and its lookup a thread can find an entry that was stale at the time
\* the thread read only if it was cached in between, with an older time than that.
THEOREM ResolveIsFresh == Spec => []LookupSeesFresh
<1>1. FreshInv => LookupSeesFresh
  BY DEF FreshInv
<1> QED
  BY <1>1, AlwaysFresh, PTL

\* A peer expires only if its last refresh is longer ago than the TTL, although
\* the time is read before the lock is taken.
THEOREM ExpiryIsJust == Spec => PruneOnlyStale
<1> DEFINE Just == \A t \in Threads : \A n \in expired'[t] \ expired[t] :
                     clock - entry[n].seen > TTL
<1>1. FreshInv /\ [Next]_vars => [Just]_vars
  <2> USE DiscoveryAssumption DEF DiscoveryAssumption
  <2> SUFFICES ASSUME FreshInv, Next PROVE Just
    OBVIOUS
  <2>1. ASSUME NEW t \in Threads, Prune(t) PROVE Just
    <3>1. \A u \in Threads : expired'[u] # expired[u] => u = t
      BY <2>1 DEF Prune, FreshInv, TypeOK
    <3>2. \A n \in expired'[t] : n \in Names /\ op[t].now - entry[n].seen > TTL
      BY <2>1 DEF Prune, Stale, FreshInv, TypeOK
    <3>3. /\ clock \in Nat /\ op[t].now \in Nat /\ op[t].now <= clock
          /\ \A n \in Names : entry[n].seen \in Nat
      BY DEF FreshInv, TimesPast, TypeOK, Entries, Ops
    <3> QED
      BY <3>1, <3>2, <3>3
  <2>2. ASSUME NEW t \in Threads, NEW n \in Names, FireExpired(t, n) PROVE Just
    <3>1. \A u \in Threads : expired'[u] \subseteq expired[u]
      BY <2>2 DEF FireExpired, FreshInv, TypeOK
    <3> QED
      BY <3>1
  <2>3. CASE UNCHANGED expired
    BY <2>3
  <2>4. ASSUME NEW n \in Names, (\E r \in Records[n] : Announce(n, r)) \/ Withdraw(n)
        PROVE  UNCHANGED expired
    BY <2>4 DEF Announce, Withdraw, Notify, todoVars
  <2>5. Tick \/ IgnoreSeen \/ Fetch \/ OnAdded \/ OnRemoved \/ Cancel => UNCHANGED expired
    BY DEF Tick, IgnoreSeen, Fetch, OnAdded, Insert, OnRemoved, Cancel, NextEvent, todoVars
  <2>6. FireNotice \/ SetCallbacks => UNCHANGED expired
    BY DEF FireNotice, SetCallbacks, todoVars
  <2>7. ASSUME NEW t \in Threads, (\E x \in Targets : ReadTime(t, x)) \/ Lookup(t)
        PROVE  UNCHANGED expired
    BY <2>7 DEF ReadTime, Lookup, todoVars
  <2> QED
    BY <2>1, <2>2, <2>3, <2>4, <2>5, <2>6, <2>7 DEF Next, Network, BrowserStep, ThreadStep
<1> QED
  BY <1>1, AlwaysFresh, PTL DEF Spec, PruneOnlyStale

-----------------------------------------------------------------------------
(* The cache converges.  The last notification about a name tells whether it   *)
(* still has a record, so the one that is handled last leaves the cache right. *)

\* The last notification about a name agrees with what the name advertises now.
LastTells ==
  \A i \in 1..Len(events) :
    (\A j \in 1..Len(events) : j > i => events[j][2] # events[i][2])
      => (events[i][1] = "gone" <=> record[events[i][2]] = NoRecord)

\* What was fetched is still what the peer advertises, or it was notified of again.
FetchTells ==
  fetch # NoFetch =>
    \/ fetch.record = record[events[1][2]]
    \/ \E i \in 2..Len(events) : events[i][2] = events[1][2]

\* What CacheConverges asks of one name.
Converged(n) ==
  /\ Usable(record[n]) => \/ n \in known /\ entry[n].record = record[n]
                          \/ n \in lapsed \ known
  /\ record[n] = NoRecord /\ Label[n] = n => n \notin known

ConvergeInv == TypeOK /\ Fetching /\ LastTells /\ FetchTells /\ CacheConverges

\* The ends of a queue, by index.
LEMMA QueueEnds ==
  ASSUME NEW S, NEW q \in Seq(S), NEW e \in S
  PROVE  /\ Len(q) \in Nat /\ DOMAIN q = 1..Len(q)
         /\ Len(Append(q, e)) = Len(q) + 1
         /\ Append(q, e)[Len(q) + 1] = e
         /\ \A i \in 1..Len(q) : Append(q, e)[i] = q[i]
         /\ q # <<>> => /\ Len(q) >= 1 /\ Head(q) = q[1]
                        /\ Len(Tail(q)) = Len(q) - 1
                        /\ \A i \in 1..(Len(q) - 1) : Tail(q)[i] = q[i + 1]
OBVIOUS

\* What an advertisement or a withdrawal adds to the notifications.
LEMMA NotifyConverges ==
  ASSUME ConvergeInv, NEW n \in Names, NEW kind \in {"seen", "gone"},
         NEW r \in AllRecords, kind = "gone" <=> r = NoRecord,
         events' = Append(events, <<kind, n>>),
         record' = [record EXCEPT ![n] = r],
         UNCHANGED <<known, entry, lapsed, fetch>>
  PROVE  LastTells' /\ FetchTells' /\ CacheConverges'
<1> DEFINE m == Len(events)
<1>1. /\ m \in Nat /\ DOMAIN events = 1..m /\ DOMAIN events' = 1..(m + 1)
      /\ Len(events') = m + 1 /\ events'[m + 1] = <<kind, n>>
      /\ \A i \in 1..m : events'[i] = events[i] /\ events[i][2] \in Names
      /\ events # <<>> => m >= 1
  BY QueueEnds DEF ConvergeInv, TypeOK
<1>2. record'[n] = r /\ \A x \in Names \ {n} : record'[x] = record[x]
  BY DEF ConvergeInv, TypeOK
<1> HIDE DEF m
<1>3. LastTells'
  <2> SUFFICES ASSUME NEW i \in 1..(m + 1),
                      \A j \in 1..(m + 1) : j > i => events'[j][2] # events'[i][2]
               PROVE  events'[i][1] = "gone" <=> record'[events'[i][2]] = NoRecord
    BY <1>1 DEF LastTells
  <2>1. CASE i = m + 1
    BY <1>1, <1>2, <2>1
  <2>2. CASE i \in 1..m
    <3>1. events'[i] = events[i] /\ events[i][2] \in Names \ {n}
      BY <1>1, <2>2
    <3>2. \A j \in 1..m : j > i => events[j][2] # events[i][2]
      BY <1>1, <2>2
    <3>3. events[i][1] = "gone" <=> record[events[i][2]] = NoRecord
      BY <3>2, <2>2 DEF ConvergeInv, LastTells, m
    <3> QED
      BY <1>2, <3>1, <3>3
  <2> QED
    BY <1>1, <2>1, <2>2
<1>4. CacheConverges'
  <2> SUFFICES ASSUME NEW x \in Names \ {Self}, \A i \in 1..(m + 1) : events'[i][2] # x
               PROVE  Converged(x)'
    BY <1>1 DEF CacheConverges, Converged
  <2>1. x # n /\ \A i \in 1..m : events[i][2] # x
    BY <1>1
  <2>2. Converged(x)
    BY <1>1, <2>1 DEF ConvergeInv, CacheConverges, Converged
  <2> QED
    BY <1>2, <2>1, <2>2 DEF Converged
<1>5. FetchTells'
  <2> SUFFICES ASSUME fetch # NoFetch PROVE FetchTells'
    BY DEF FetchTells
  <2>1. m >= 1 /\ events'[1] = events[1] /\ events[1][2] \in Names
    BY <1>1 DEF ConvergeInv, Fetching
  <2>2. CASE \E i \in 2..m : events[i][2] = events[1][2]
    BY <1>1, <2>1, <2>2 DEF FetchTells
  <2>3. CASE fetch.record = record[events[1][2]] /\ events[1][2] # n
    BY <1>2, <2>1, <2>3 DEF FetchTells
  <2>4. CASE events[1][2] = n
    <3>1. m + 1 \in 2..Len(events') /\ events'[m + 1][2] = events'[1][2]
      BY <1>1, <2>1, <2>4
    <3> QED
      BY <3>1 DEF FetchTells
  <2> QED
    BY <2>2, <2>3, <2>4 DEF ConvergeInv, FetchTells, m
<1> QED
  BY <1>3, <1>4, <1>5

\* What the browser thread leaves behind when it takes the first notification.
LEMMA TakeConverges ==
  ASSUME ConvergeInv, events # <<>>, events' = Tail(events), UNCHANGED record
  PROVE  /\ LastTells'
         /\ fetch # NoFetch =>
              \/ fetch.record = record[Peer]
              \/ \E i \in DOMAIN events' : events'[i][2] = Peer
         /\ \A x \in Names : /\ x # Peer
                             /\ \A i \in DOMAIN events' : events'[i][2] # x
                             => \A i \in DOMAIN events : events[i][2] # x
         /\ \/ \E i \in DOMAIN events' : events'[i][2] = Peer
            \/ Head(events)[1] = "gone" <=> record[Peer] = NoRecord
<1> DEFINE m == Len(events)
<1>1. /\ m \in Nat /\ m >= 1 /\ DOMAIN events = 1..m /\ DOMAIN events' = 1..(m - 1)
      /\ Len(events') = m - 1 /\ Head(events) = events[1] /\ Peer = events[1][2]
      /\ \A i \in 1..(m - 1) : events'[i] = events[i + 1]
  BY QueueEnds DEF ConvergeInv, TypeOK, Peer
<1> HIDE DEF m
<1>a. \A j \in 1..m : j = 1 \/ (j - 1 \in 1..(m - 1) /\ events'[j - 1] = events[j])
  <2> TAKE j \in 1..m
  <2>1. j # 1 => j - 1 \in 1..(m - 1) /\ (j - 1) + 1 = j
    BY <1>1
  <2> QED
    BY <1>1, <2>1
<1>2. LastTells'
  <2> SUFFICES ASSUME NEW i \in 1..(m - 1),
                      \A j \in 1..(m - 1) : j > i => events'[j][2] # events'[i][2]
               PROVE  events'[i][1] = "gone" <=> record[events'[i][2]] = NoRecord
    BY <1>1 DEF LastTells
  <2>1. i + 1 \in 1..m /\ events'[i] = events[i + 1]
    BY <1>1
  <2>2. \A j \in 1..m : j > i + 1 => events[j][2] # events[i + 1][2]
    <3> SUFFICES ASSUME NEW j \in 1..m, j > i + 1 PROVE events[j][2] # events[i + 1][2]
      OBVIOUS
    <3>1. j - 1 \in 1..(m - 1) /\ j - 1 > i /\ events'[j - 1] = events[j]
      BY <1>1, <1>a
    <3> QED
      BY <2>1, <3>1
  <2> QED
    BY <2>1, <2>2 DEF ConvergeInv, LastTells, m
<1>3. \A x \in Names : x # Peer /\ (\A i \in 1..(m - 1) : events'[i][2] # x)
                       => \A i \in 1..m : events[i][2] # x
  BY <1>1, <1>a
<1>4. (\E i \in 1..(m - 1) : events'[i][2] = Peer)
        \/ (events[1][1] = "gone" <=> record[Peer] = NoRecord)
  <2>1. (\A i \in 1..(m - 1) : events'[i][2] # Peer)
          => \A j \in 1..m : j > 1 => events[j][2] # events[1][2]
    BY <1>1, <1>a
  <2> QED
    BY <1>1, <2>1 DEF ConvergeInv, LastTells, m
<1>5. ASSUME fetch # NoFetch, fetch.record # record[Peer]
      PROVE  \E i \in 1..(m - 1) : events'[i][2] = Peer
  <2>1. PICK i \in 2..m : events[i][2] = Peer
    BY <1>1, <1>5 DEF ConvergeInv, FetchTells, m
  <2>2. i - 1 \in 1..(m - 1) /\ events'[i - 1] = events[i]
    BY <1>1, <1>a
  <2> QED
    BY <2>1, <2>2
<1> QED
  BY <1>1, <1>2, <1>3, <1>4, <1>5

LEMMA ConvergeStep ==
  ConvergeInv /\ TypeOK' /\ [Next]_vars => LastTells' /\ FetchTells' /\ CacheConverges'
<1> USE DiscoveryAssumption DEF DiscoveryAssumption
<1> SUFFICES ASSUME ConvergeInv, TypeOK', [Next]_vars
             PROVE  LastTells' /\ FetchTells' /\ CacheConverges'
  OBVIOUS
<1>0. TypeOK /\ Fetching /\ \A x \in Names \ {Self} :
        (\A i \in DOMAIN events : events[i][2] # x) => Converged(x)
  BY DEF ConvergeInv, CacheConverges, Converged
<1>a. ASSUME \A x \in Names \ {Self} :
               (\A i \in DOMAIN events' : events'[i][2] # x) => Converged(x)'
      PROVE  CacheConverges'
  BY <1>a DEF CacheConverges, Converged
<1>b. fetch' = NoFetch => FetchTells'
  BY DEF FetchTells
<1>1. ASSUME NEW n \in Names, NEW r \in Records[n], Announce(n, r)
      PROVE  LastTells' /\ FetchTells' /\ CacheConverges'
  <2>1. r \in AllRecords /\ r # NoRecord
    BY RecordsOfNames
  <2> QED
    BY <1>1, <2>1, NotifyConverges DEF Announce, Notify, peerVars, todoVars
<1>2. ASSUME NEW n \in Names, Withdraw(n) PROVE LastTells' /\ FetchTells' /\ CacheConverges'
  BY <1>2, RecordsOfNames, NotifyConverges DEF Withdraw, Notify, peerVars, todoVars
<1>3. CASE IgnoreSeen
  <2>1. /\ events # <<>> /\ events' = Tail(events) /\ Head(events)[1] = "seen"
        /\ UNCHANGED <<record, known, entry, lapsed>> /\ fetch' = NoFetch
        /\ ~Usable(record[Peer]) \/ Peer = Self
    BY <1>3 DEF IgnoreSeen, NextEvent, peerVars
  <2>2. ASSUME NEW x \in Names \ {Self}, \A i \in DOMAIN events' : events'[i][2] # x
        PROVE  Converged(x)'
    <3>1. CASE x = Peer
      BY <2>1, <2>2, <3>1, TakeConverges DEF Converged
    <3>2. CASE x # Peer
      BY <1>0, <2>1, <2>2, <3>2, TakeConverges DEF Converged
    <3> QED
      BY <3>1, <3>2
  <2> QED
    BY <1>a, <1>b, <2>1, <2>2, TakeConverges
<1>4. CASE OnAdded
  <2>1. /\ events # <<>> /\ events' = Tail(events) /\ UNCHANGED record
        /\ known' = known \cup {Peer} /\ lapsed' = lapsed \ {Peer}
        /\ fetch # NoFetch /\ fetch' = NoFetch
    BY <1>4 DEF OnAdded, Insert, NextEvent
  <2>2. Peer \in Names
    BY <1>0, <2>1, EventHead DEF TypeOK
  <2>3. /\ entry'[Peer].record = fetch.record
        /\ \A x \in Names \ {Peer} : entry'[x] = entry[x]
    BY <1>0, <1>4, <2>2 DEF OnAdded, TypeOK
  <2>4. Usable(fetch.record) /\ fetch.record # NoRecord
    BY <1>0, <2>1 DEF Fetching, Usable
  <2>5. ASSUME NEW x \in Names \ {Self}, \A i \in DOMAIN events' : events'[i][2] # x
        PROVE  Converged(x)'
    <3>1. CASE x = Peer
      <4>1. fetch.record = record[Peer]
        BY <2>1, <2>5, <3>1, TakeConverges
      <4> QED
        BY <2>1, <2>3, <2>4, <3>1, <4>1 DEF Converged
    <3>2. CASE x # Peer
      BY <1>0, <2>1, <2>3, <2>5, <3>2, TakeConverges DEF Converged
    <3> QED
      BY <3>1, <3>2
  <2> QED
    BY <1>a, <1>b, <2>1, <2>5, TakeConverges
<1>5. CASE OnRemoved
  <2>1. /\ events # <<>> /\ events' = Tail(events) /\ Head(events)[1] = "gone"
        /\ UNCHANGED <<record, entry, fetch>>
        /\ known' = known \ {Label[Peer]}
        /\ lapsed' = IF Label[Peer] \in known \ {Peer} THEN lapsed \cup {Label[Peer]} ELSE lapsed
    BY <1>5 DEF OnRemoved, NextEvent
  <2>2. fetch' = NoFetch
    BY <1>0, <2>1 DEF Fetching
  <2>3. ASSUME NEW x \in Names \ {Self}, \A i \in DOMAIN events' : events'[i][2] # x
        PROVE  Converged(x)'
    <3>1. CASE x = Peer
      <4>1. record[Peer] = NoRecord
        BY <2>1, <2>3, <3>1, TakeConverges
      <4> QED
        BY <2>1, <3>1, <4>1 DEF Converged, Usable
    <3>2. CASE x # Peer
      <4>1. Converged(x)
        BY <1>0, <2>1, <2>3, <3>2, TakeConverges
      <4> QED
        BY <2>1, <3>2, <4>1 DEF Converged
    <3> QED
      BY <3>1, <3>2
  <2> QED
    BY <1>a, <1>b, <2>1, <2>2, <2>3, TakeConverges
<1>6. CASE /\ UNCHANGED <<record, events, entry, fetch>>
           /\ known' \subseteq known /\ lapsed' = lapsed \cup (known \ known')
  <2>1. \A x : Converged(x) => Converged(x)'
    BY <1>6 DEF Converged
  <2>2. LastTells' /\ FetchTells'
    BY <1>6 DEF ConvergeInv, LastTells, FetchTells
  <2> QED
    BY <1>0, <1>6, <1>a, <2>1, <2>2
<1>7. Tick \/ Cancel \/ FireNotice \/ SetCallbacks \/ UNCHANGED vars
        => UNCHANGED <<record, events, entry, known, lapsed, fetch>>
  BY DEF Tick, Cancel, FireNotice, Tell, SetCallbacks, vars, netVars, peerVars, todoVars
<1>8. ASSUME NEW t \in Threads, ThreadStep(t)
      PROVE  /\ UNCHANGED <<record, events, entry, fetch>>
             /\ known' \subseteq known /\ lapsed' = lapsed \cup (known \ known')
  <2>1. ASSUME NEW x \in Targets, ReadTime(t, x)
        PROVE  UNCHANGED <<record, events, entry, known, lapsed, fetch>>
    BY <2>1 DEF ReadTime, netVars, peerVars, todoVars
  <2>2. CASE Prune(t)
    BY <2>2 DEF Prune, netVars
  <2>3. CASE Lookup(t)
    BY <2>3 DEF Lookup, netVars, peerVars, todoVars
  <2>4. ASSUME NEW n \in Names, FireExpired(t, n)
        PROVE  UNCHANGED <<record, events, entry, known, lapsed, fetch>>
    BY <2>4 DEF FireExpired, Tell, netVars, peerVars
  <2> QED
    BY <1>8, <2>1, <2>2, <2>3, <2>4 DEF ThreadStep
<1>9. CASE Fetch
  <2>1. /\ UNCHANGED <<record, events, entry, known, lapsed>>
        /\ fetch'.record = record[events[1][2]]
    BY <1>9 DEF Fetch, netVars, peerVars, Peer
  <2>2. LastTells' /\ FetchTells'
    BY <2>1 DEF ConvergeInv, LastTells, FetchTells
  <2>3. \A x : Converged(x) => Converged(x)'
    BY <2>1 DEF Converged
  <2> QED
    BY <1>0, <1>a, <2>1, <2>2, <2>3
<1> QED
  BY <1>1, <1>2, <1>3, <1>4, <1>5, <1>6, <1>7, <1>8, <1>9 DEF Next, Network, BrowserStep

\* A peer with no notification outstanding is cached as it advertises itself now, unless
\* its entry lapsed since.
THEOREM CacheFollowsNetwork == Spec => []CacheConverges
<1>1. Init => LastTells /\ FetchTells /\ CacheConverges
  BY DEF Init, LastTells, FetchTells, CacheConverges, Usable
<1>2. ConvergeInv => CacheConverges
  BY DEF ConvergeInv
<1>3. ConvergeInv /\ [Next]_vars /\ TypeOK' /\ Fetching' => ConvergeInv'
  BY ConvergeStep DEF ConvergeInv
<1>4. Init /\ TypeOK /\ Fetching => ConvergeInv
  BY <1>1 DEF ConvergeInv
<1> QED
  BY <1>2, <1>3, <1>4, AlwaysFetching, PTL DEF Spec

-----------------------------------------------------------------------------
(* What the browser thread has still to tell after one notification. *)

\* The callbacks that one notification about n may leave the browser thread to run.
Notices(n) == {<<>>, <<<<"up", n>>>>, <<<<"down", n>>>>, <<<<"down", n>>, <<"up", n>>>>}

\* What is still to be said about x, how it ends, and whether a loss is part of it.
Told(q, x) == \E i \in DOMAIN q : q[i][2] = x
Lost(q, x) == \E i \in DOMAIN q : q[i] = <<"down", x>>
EndsUp(q)  == q # <<>> /\ q[Len(q)][1] = "up"

LEMMA Joined ==
  ASSUME NEW n
  PROVE  /\ <<>> \o <<<<"up", n>>>> = <<<<"up", n>>>>
         /\ <<<<"down", n>>>> \o <<<<"up", n>>>> = <<<<"down", n>>, <<"up", n>>>>
<1> DEFINE d == <<"down", n>>
           e == <<"up", n>>
<1> HIDE DEF d, e
<1>1. <<>> \o <<e>> = <<e>>
  OBVIOUS
<1>2. <<d>> \o <<e>> = <<d, e>>
  <2>1. /\ <<d>> \in Seq({d, e}) /\ <<e>> \in Seq({d, e}) /\ <<d, e>> \in Seq({d, e})
        /\ Len(<<d>>) = 1 /\ Len(<<e>>) = 1 /\ Len(<<d, e>>) = 2
    OBVIOUS
  <2>2. /\ <<d>> \o <<e>> \in Seq({d, e}) /\ Len(<<d>> \o <<e>>) = 2
        /\ (<<d>> \o <<e>>)[1] = d /\ (<<d>> \o <<e>>)[2] = e
    OBVIOUS
  <2>3. \A i \in 1..2 : (<<d>> \o <<e>>)[i] = <<d, e>>[i]
    <3>1. \A i \in 1..2 : i = 1 \/ i = 2
      OBVIOUS
    <3> QED
      BY <2>2, <3>1
  <2> QED
    BY <2>1, <2>2, <2>3, SeqEqual
<1> QED
  BY <1>1, <1>2 DEF d, e

LEMMA NoneTold == \A x : ~Told(<<>>, x) /\ ~Lost(<<>>, x)
BY DEF Told, Lost

LEMMA UpTold ==
  ASSUME NEW n, NEW q, q = <<<<"up", n>>>>
  PROVE  /\ q # <<>> /\ Head(q)[1] = "up" /\ Head(q)[2] = n /\ Tail(q) = <<>> /\ EndsUp(q)
         /\ \A x : ~Lost(q, x) /\ (Told(q, x) <=> x = n)
BY DEF Told, Lost, EndsUp

LEMMA DownTold ==
  ASSUME NEW n, NEW q, q = <<<<"down", n>>>>
  PROVE  /\ q # <<>> /\ Head(q)[1] = "down" /\ Head(q)[2] = n /\ Tail(q) = <<>> /\ ~EndsUp(q)
         /\ \A x : (Lost(q, x) <=> x = n) /\ (Told(q, x) <=> x = n)
BY DEF Told, Lost, EndsUp

LEMMA DownUpTold ==
  ASSUME NEW n, NEW q, q = <<<<"down", n>>, <<"up", n>>>>
  PROVE  /\ q # <<>> /\ Head(q)[1] = "down" /\ Head(q)[2] = n /\ Tail(q) = <<<<"up", n>>>>
         /\ EndsUp(q)
         /\ \A x : (Lost(q, x) <=> x = n) /\ (Told(q, x) <=> x = n)
BY DEF Told, Lost, EndsUp

-----------------------------------------------------------------------------
(* The callbacks and the cache. *)

Expiring(x) == \E t \in Threads : x \in expired[t]

\* The shape of what is pending: a single notification's callbacks at a time, and
\* expiries only between a prune and its lookup.
Shaped ==
  /\ \E n \in Names : notice \in Notices(n)
  /\ \A t \in Threads : op[t].pc # "lookup" => expired[t] = {}

\* What on_down and on_up have still to say brings view to known.
Agrees(x) ==
  /\ ~Told(notice, x) /\ ~Expiring(x) => (x \in view <=> x \in known)
  /\ Told(notice, x) /\ ~Expiring(x) => (EndsUp(notice) <=> x \in known)
  /\ ~Told(notice, x) /\ Expiring(x) => x \notin known

ViewInv == TypeOK /\ Shaped /\ \A x \in Names \ muddled : Agrees(x)

\* What the browser thread says after a notification: nothing, or callbacks for one name.
LEMMA AddedShape ==
  ASSUME TypeOK, OnAdded
  PROVE  /\ notice = <<>> /\ Peer \in Names
         /\ notice' = IF Peer \in known /\ Replaces(fetch.record, entry[Peer].record)
                      THEN <<<<"down", Peer>>, <<"up", Peer>>>> ELSE <<<<"up", Peer>>>>
         /\ notice' \in Notices(Peer)
         /\ known' = known \cup {Peer}
         /\ owed' = [owed EXCEPT ![Peer] = @ +
              (IF Peer \in known /\ Replaces(fetch.record, entry[Peer].record) THEN 1 ELSE 0)]
         /\ UNCHANGED <<expired, op, view, muddled, listening>>
<1>1. notice = <<>> /\ Peer \in Names
  BY EventHead DEF OnAdded, Insert, NextEvent, TypeOK
<1>2. notice' = (IF Peer \in known /\ Replaces(fetch.record, entry[Peer].record)
                 THEN <<<<"down", Peer>>>> ELSE <<>>) \o <<<<"up", Peer>>>>
  BY DEF OnAdded, Insert
<1> QED
  BY <1>1, <1>2, Joined DEF OnAdded, Insert, NextEvent, Notices, tellVars

LEMMA RemovedShape ==
  ASSUME TypeOK, OnRemoved
  PROVE  /\ notice = <<>> /\ Peer \in Names /\ Label[Peer] \in Names
         /\ notice' = IF Label[Peer] \in known THEN <<<<"down", Label[Peer]>>>> ELSE <<>>
         /\ notice' \in Notices(Label[Peer])
         /\ known' = known \ {Label[Peer]}
         /\ owed' = [owed EXCEPT ![Label[Peer]] = @ +
                       (IF Label[Peer] \in known THEN 1 ELSE 0)]
         /\ UNCHANGED <<expired, op, view, muddled, listening>>
<1>1. notice = <<>> /\ Peer \in Names
  BY EventHead DEF OnRemoved, NextEvent, TypeOK
<1>2. Label[Peer] \in Names
  BY <1>1, DiscoveryAssumption DEF DiscoveryAssumption
<1> QED
  BY <1>1, <1>2 DEF OnRemoved, NextEvent, Notices, tellVars

\* The steps that neither run a callback nor change the cache.
Aloof == UNCHANGED <<known, notice, expired, view, muddled, listening, owed>>

LEMMA AloofSteps ==
  ASSUME TypeOK, Shaped
  PROVE  /\ \A n \in Names : (\E r \in Records[n] : Announce(n, r)) \/ Withdraw(n)
              => Aloof /\ UNCHANGED op
         /\ Tick \/ IgnoreSeen \/ Fetch \/ Cancel \/ UNCHANGED vars => Aloof /\ UNCHANGED op
         /\ \A t \in Threads : (\E x \in Targets : ReadTime(t, x)) \/ Lookup(t)
              => Aloof /\ Shaped'
<1>1. ASSUME NEW n \in Names, (\E r \in Records[n] : Announce(n, r)) \/ Withdraw(n)
      PROVE  Aloof /\ UNCHANGED op
  BY <1>1 DEF Announce, Withdraw, Notify, Aloof, peerVars, todoVars, opVars, tellVars
<1>2. Tick \/ IgnoreSeen \/ Fetch \/ Cancel \/ UNCHANGED vars => Aloof /\ UNCHANGED op
  BY DEF Tick, IgnoreSeen, Fetch, NextEvent, Cancel, Aloof, vars, peerVars, todoVars, opVars,
    tellVars
<1>3. ASSUME NEW t \in Threads, NEW x \in Targets, ReadTime(t, x) PROVE Aloof /\ Shaped'
  <2>1. Aloof /\ op[t].pc = "idle" /\ \A u \in Threads \ {t} : op'[u] = op[u]
    BY <1>3 DEF ReadTime, Aloof, TypeOK, peerVars, todoVars, opVars, tellVars
  <2> QED
    BY <2>1 DEF Shaped, Aloof
<1>4. ASSUME NEW t \in Threads, Lookup(t) PROVE Aloof /\ Shaped'
  <2>1. Aloof /\ expired[t] = {} /\ \A u \in Threads \ {t} : op'[u] = op[u]
    BY <1>4 DEF Lookup, Aloof, TypeOK, peerVars, todoVars, opVars, tellVars
  <2> QED
    BY <2>1 DEF Shaped, Aloof
<1> QED
  BY <1>1, <1>2, <1>3, <1>4

LEMMA PruneShape ==
  ASSUME TypeOK, Shaped, NEW t \in Threads, Prune(t)
  PROVE  \E old \in SUBSET known :
           /\ expired[t] = {} /\ expired'[t] = old
           /\ \A u \in Threads \ {t} : expired'[u] = expired[u]
           /\ known' = known \ old
           /\ owed' = [n \in Names |-> owed[n] + (IF n \in old THEN 1 ELSE 0)]
           /\ Shaped' /\ UNCHANGED <<notice, view, muddled, listening>>
<1> DEFINE old == {n \in known : Stale(n, op[t].now)}
<1>1. /\ op[t].pc = "prune" /\ known' = known \ old /\ expired' = [expired EXCEPT ![t] = old]
      /\ owed' = [n \in Names |-> owed[n] + (IF n \in old THEN 1 ELSE 0)]
      /\ UNCHANGED <<notice, view, muddled, listening>>
      /\ op' = [op EXCEPT ![t].pc = "lookup"]
  BY DEF Prune, tellVars
<1>2. old \subseteq known /\ expired[t] = {}
  BY <1>1 DEF Shaped
<1> HIDE DEF old
<1>3. /\ expired'[t] = old
      /\ \A u \in Threads \ {t} : expired'[u] = expired[u] /\ op'[u] = op[u]
      /\ op'[t].pc = "lookup"
  BY <1>1 DEF TypeOK, Ops
<1>4. Shaped'
  BY <1>1, <1>3 DEF Shaped
<1> QED
  BY <1>1, <1>2, <1>3, <1>4

LEMMA ShapedStep == TypeOK /\ Shaped /\ [Next]_vars => Shaped'
<1> SUFFICES ASSUME TypeOK, Shaped, [Next]_vars PROVE Shaped'
  OBVIOUS
<1>1. CASE Aloof /\ UNCHANGED op
  BY <1>1 DEF Aloof, Shaped
<1>2. CASE OnAdded
  BY <1>2, AddedShape DEF Shaped
<1>3. CASE OnRemoved
  BY <1>3, RemovedShape DEF Shaped
<1>4. CASE FireNotice
  <2>1. notice # <<>> /\ notice' = Tail(notice) /\ UNCHANGED <<expired, op>>
    BY <1>4 DEF FireNotice, opVars
  <2>2. PICK n \in Names : notice \in Notices(n)
    BY DEF Shaped
  <2>3. Tail(notice) \in Notices(n)
    BY <2>1, <2>2, UpTold, DownTold, DownUpTold DEF Notices
  <2> QED
    BY <2>1, <2>3 DEF Shaped
<1>5. CASE SetCallbacks
  BY <1>5 DEF SetCallbacks, Shaped, todoVars, opVars
<1>6. ASSUME NEW t \in Threads, Prune(t) PROVE Shaped'
  BY <1>6, PruneShape
<1>7. ASSUME NEW t \in Threads, NEW n \in Names, FireExpired(t, n) PROVE Shaped'
  <2>1. UNCHANGED <<notice, op>> /\ \A u \in Threads : expired'[u] \subseteq expired[u]
    BY <1>7 DEF FireExpired, TypeOK, opVars
  <2> QED
    BY <2>1 DEF Shaped
<1> QED
  BY <1>1, <1>2, <1>3, <1>4, <1>5, <1>6, <1>7, AloofSteps
  DEF Next, Network, BrowserStep, ThreadStep

LEMMA ViewStep == ViewInv /\ [Next]_vars => \A x \in Names \ muddled' : Agrees(x)'
<1> SUFFICES ASSUME ViewInv, [Next]_vars, NEW x \in Names, x \notin muddled'
             PROVE  Agrees(x)'
  OBVIOUS
<1>0. TypeOK /\ Shaped /\ (x \notin muddled => Agrees(x))
  BY DEF ViewInv
<1>1. CASE UNCHANGED <<known, notice, expired, view, muddled>>
  BY <1>0, <1>1 DEF Agrees, Told, Expiring, EndsUp
<1>2. CASE OnAdded
  <2>1. ~Told(notice, x)
    BY <1>0, <1>2, AddedShape, NoneTold
  <2>2. (Told(notice', x) <=> x = Peer) /\ EndsUp(notice')
    BY <1>0, <1>2, AddedShape, UpTold, DownUpTold
  <2>3. (Expiring(x)' <=> Expiring(x)) /\ view' = view /\ x \notin muddled /\ known' = known \cup {Peer}
    BY <1>0, <1>2, AddedShape DEF Expiring
  <2> QED
    BY <1>0, <2>1, <2>2, <2>3 DEF Agrees
<1>3. CASE OnRemoved
  <2> DEFINE n == Label[Peer]
  <2>1. ~Told(notice, x)
    BY <1>0, <1>3, RemovedShape, NoneTold
  <2>2. (Told(notice', x) <=> x = n /\ n \in known) /\ (Told(notice', x) => ~EndsUp(notice'))
    BY <1>0, <1>3, RemovedShape, NoneTold, DownTold
  <2>3. (Expiring(x)' <=> Expiring(x)) /\ view' = view /\ x \notin muddled /\ known' = known \ {n}
    BY <1>0, <1>3, RemovedShape DEF Expiring
  <2> QED
    BY <1>0, <2>1, <2>2, <2>3 DEF Agrees
<1>4. CASE FireNotice
  <2>1. PICK n \in Names : notice \in Notices(n)
    BY <1>0 DEF Shaped
  <2> DEFINE kind == Head(notice)[1]
  <2>2. /\ Head(notice)[2] = n
        /\ notice # <<>> /\ notice' = Tail(notice) /\ UNCHANGED <<expired, known>>
    BY <1>4, <2>1, UpTold, DownTold, DownUpTold DEF FireNotice, Tell, Notices, peerVars
  <2>3. /\ view' = IF ~listening THEN view
                   ELSE IF kind = "up" THEN view \cup {n} ELSE view \ {n}
        /\ muddled' = IF Expiring(n) \/ ~listening THEN muddled \cup {n} ELSE muddled
    BY <1>4, <2>2 DEF FireNotice, Tell, Expiring
  <2>4. /\ Told(notice, x) <=> x = n
        /\ Told(notice', x) => x = n
        /\ Told(notice', n) => EndsUp(notice') /\ EndsUp(notice)
        /\ ~Told(notice', n) => (EndsUp(notice) <=> kind = "up")
    <3>1. CASE notice = <<<<"up", n>>>>
      BY <2>2, <3>1, NoneTold, UpTold
    <3>2. CASE notice = <<<<"down", n>>>>
      BY <2>2, <3>2, NoneTold, DownTold
    <3>3. CASE notice = <<<<"down", n>>, <<"up", n>>>>
      <4>1. notice' = <<<<"up", n>>>>
        BY <2>2, <3>3, DownUpTold
      <4>2. EndsUp(notice') /\ \A y : Told(notice', y) <=> y = n
        BY <4>1, UpTold
      <4>3. EndsUp(notice) /\ \A y : Told(notice, y) <=> y = n
        BY <3>3, DownUpTold
      <4> QED
        BY <4>2, <4>3
    <3> QED
      BY <2>1, <2>2, <3>1, <3>2, <3>3 DEF Notices
  <2>5. (Expiring(x)' <=> Expiring(x)) /\ x \notin muddled
    BY <2>2, <2>3 DEF Expiring
  <2>6. CASE x = n
    BY <1>0, <2>2, <2>3, <2>4, <2>5, <2>6 DEF Agrees
  <2>7. CASE x # n
    BY <1>0, <2>2, <2>3, <2>4, <2>5, <2>7 DEF Agrees
  <2> QED
    BY <2>6, <2>7
<1>5. CASE SetCallbacks
  BY <1>1, <1>5 DEF SetCallbacks, peerVars, todoVars
<1>6. ASSUME NEW t \in Threads, Prune(t) PROVE Agrees(x)'
  <2>1. PICK old \in SUBSET known :
          /\ expired[t] = {} /\ expired'[t] = old
          /\ \A u \in Threads \ {t} : expired'[u] = expired[u]
          /\ known' = known \ old /\ UNCHANGED <<notice, view, muddled>>
    BY <1>0, <1>6, PruneShape
  <2>2. Expiring(x)' <=> (Expiring(x) \/ x \in old)
    BY <2>1 DEF Expiring
  <2>3. /\ Told(notice, x)' <=> Told(notice, x)
        /\ EndsUp(notice)' <=> EndsUp(notice)
    BY <2>1
  <2> QED
    BY <1>0, <2>1, <2>2, <2>3 DEF Agrees
<1>7. ASSUME NEW t \in Threads, NEW n \in Names, FireExpired(t, n) PROVE Agrees(x)'
  <2>1. /\ n \in expired[t] /\ UNCHANGED <<notice, known>>
        /\ expired'[t] = expired[t] \ {n}
        /\ \A u \in Threads \ {t} : expired'[u] = expired[u]
    BY <1>0, <1>7 DEF FireExpired, Tell, TypeOK, peerVars
  <2>2. /\ view' = IF ~listening THEN view ELSE view \ {n}
        /\ muddled' = IF \/ \E u \in Threads \ {t} : n \in expired[u]
                         \/ Told(notice, n)
                         \/ ~listening
                      THEN muddled \cup {n} ELSE muddled
    BY <1>7 DEF FireExpired, Tell, Told
  <2>3. Expiring(n) /\ x \notin muddled
    BY <2>1, <2>2 DEF Expiring
  <2>4. x # n => (Expiring(x)' <=> Expiring(x))
    BY <2>1 DEF Expiring
  <2>5. x = n => ~Expiring(x)' /\ ~Told(notice, x) /\ view' = view \ {n}
    BY <2>1, <2>2 DEF Expiring
  <2> QED
    BY <1>0, <2>1, <2>2, <2>3, <2>4, <2>5 DEF Agrees
<1>8. CASE Aloof
  BY <1>1, <1>8 DEF Aloof
<1> QED
  BY <1>0, <1>1, <1>2, <1>3, <1>4, <1>5, <1>6, <1>7, <1>8, AloofSteps
  DEF Next, Network, BrowserStep, ThreadStep

LEMMA AlwaysShaped == Spec => [](TypeOK /\ Shaped)
<1>1. Init => Shaped
  BY DiscoveryAssumption DEF DiscoveryAssumption, Init, Shaped, Notices
<1>2. Shaped /\ TypeOK /\ [Next]_vars => Shaped'
  BY ShapedStep
<1> QED
  BY <1>1, <1>2, TypeCorrect, PTL DEF Spec

\* A name whose callbacks never crossed is up, as the callbacks tell it, exactly
\* while it is cached, once nothing about it is outstanding.
THEOREM CallbacksTellTheCache == Spec => []ViewMatchesUnlessMuddled
<1> DEFINE Tells == \A x \in Names \ muddled : Agrees(x)
<1>1. Init => Tells
  BY NoneTold DEF Init, Agrees, Expiring
<1>2. TypeOK /\ Shaped /\ Tells /\ [Next]_vars => Tells'
  BY ViewStep DEF ViewInv
<1>3. Tells => ViewMatchesUnlessMuddled
  BY DEF ViewMatchesUnlessMuddled, Agrees, Outstanding, Told, Expiring
<1> HIDE DEF Tells
<1> QED
  BY <1>1, <1>2, <1>3, AlwaysShaped, PTL DEF Spec

-----------------------------------------------------------------------------
(* Each loss is counted once. *)

\* The threads that have still to report x as expired.
Owers(x) == {t \in Threads : x \in expired[t]}

Counted(x) == /\ IsFiniteSet(Owers(x))
              /\ owed[x] = Pending(x) + Cardinality(Owers(x))

LEMMA PendingIsLost == \A x : Pending(x) = IF Lost(notice, x) THEN 1 ELSE 0
BY DEF Pending, Lost

LEMMA CountStep ==
  TypeOK /\ Shaped /\ (\A x \in Names : Counted(x)) /\ [Next]_vars
    => \A x \in Names : Counted(x)'
<1> SUFFICES ASSUME TypeOK, Shaped, [Next]_vars, NEW x \in Names, Counted(x)
             PROVE  Counted(x)'
  OBVIOUS
<1> USE DEF Counted
<1>0. /\ owed[x] \in Int
      /\ Pending(x) = (IF Lost(notice, x) THEN 1 ELSE 0)
      /\ Pending(x)' = (IF Lost(notice', x) THEN 1 ELSE 0)
      /\ Cardinality(Owers(x)) \in Nat
  <2>1. Pending(x)' = (IF Lost(notice', x) THEN 1 ELSE 0)
    BY DEF Pending, Lost
  <2> QED
    BY <2>1, PendingIsLost, FS_CardinalityType DEF TypeOK
<1>1. CASE UNCHANGED <<notice, expired, owed>>
  BY <1>1 DEF Pending, Owers
<1>2. CASE OnAdded
  <2> DEFINE replaced == Peer \in known /\ Replaces(fetch.record, entry[Peer].record)
  <2>1. ~Lost(notice, x)
    BY <1>2, AddedShape, NoneTold
  <2>2. Lost(notice', x) <=> x = Peer /\ replaced
    BY <1>2, AddedShape, UpTold, DownUpTold
  <2>3. owed'[x] = owed[x] + (IF x = Peer /\ replaced THEN 1 ELSE 0)
    BY <1>0, <1>2, AddedShape DEF TypeOK
  <2>4. Owers(x)' = Owers(x)
    BY <1>2, AddedShape DEF Owers
  <2> HIDE DEF replaced
  <2> QED
    BY <1>0, <2>1, <2>2, <2>3, <2>4
<1>3. CASE OnRemoved
  <2> DEFINE n == Label[Peer]
  <2>1. ~Lost(notice, x)
    BY <1>3, RemovedShape, NoneTold
  <2>2. Lost(notice', x) <=> x = n /\ n \in known
    BY <1>3, RemovedShape, NoneTold, DownTold
  <2>3. owed'[x] = owed[x] + (IF x = n /\ n \in known THEN 1 ELSE 0)
    BY <1>0, <1>3, RemovedShape DEF TypeOK
  <2>4. Owers(x)' = Owers(x)
    BY <1>3, RemovedShape DEF Owers
  <2> HIDE DEF n
  <2> QED
    BY <1>0, <2>1, <2>2, <2>3, <2>4
<1>4. CASE FireNotice
  <2>1. PICK n \in Names : notice \in Notices(n)
    BY DEF Shaped
  <2> DEFINE kind == Head(notice)[1]
  <2>2. /\ Head(notice)[2] = n
        /\ notice # <<>> /\ notice' = Tail(notice) /\ UNCHANGED expired
    BY <1>4, <2>1, UpTold, DownTold, DownUpTold DEF FireNotice, Notices
  <2>3. owed' = IF kind = "down" THEN [owed EXCEPT ![n] = @ - 1] ELSE owed
    BY <1>4, <2>2 DEF FireNotice, Tell
  <2>4. (Lost(notice, x) <=> x = n /\ kind = "down") /\ ~Lost(notice', x)
    <3>1. CASE notice = <<<<"up", n>>>>
      BY <2>2, <3>1, NoneTold, UpTold
    <3>2. CASE notice = <<<<"down", n>>>>
      BY <2>2, <3>2, NoneTold, DownTold
    <3>3. CASE notice = <<<<"down", n>>, <<"up", n>>>>
      <4>1. notice' = <<<<"up", n>>>> /\ kind = "down" /\ (Lost(notice, x) <=> x = n)
        BY <2>2, <3>3, DownUpTold
      <4> QED
        BY <4>1, UpTold
    <3> QED
      BY <2>1, <2>2, <3>1, <3>2, <3>3 DEF Notices
  <2>5. owed'[x] = owed[x] - (IF x = n /\ kind = "down" THEN 1 ELSE 0)
    BY <1>0, <2>3 DEF TypeOK
  <2>6. Owers(x)' = Owers(x)
    BY <2>2 DEF Owers
  <2> HIDE DEF kind
  <2> QED
    BY <1>0, <2>4, <2>5, <2>6
<1>5. CASE SetCallbacks
  BY <1>1, <1>5 DEF SetCallbacks, todoVars
<1>6. ASSUME NEW t \in Threads, Prune(t) PROVE Counted(x)'
  <2>1. PICK old \in SUBSET known :
          /\ expired[t] = {} /\ expired'[t] = old
          /\ \A u \in Threads \ {t} : expired'[u] = expired[u]
          /\ owed' = [n \in Names |-> owed[n] + (IF n \in old THEN 1 ELSE 0)]
          /\ UNCHANGED notice
    BY <1>6, PruneShape
  <2>2. owed'[x] = owed[x] + (IF x \in old THEN 1 ELSE 0)
    BY <2>1
  <2>3. Pending(x)' = Pending(x)
    BY <2>1 DEF Pending
  <2>4. CASE x \in old
    <3>1. Owers(x)' = Owers(x) \cup {t} /\ t \notin Owers(x)
      BY <2>1, <2>4 DEF Owers
    <3>2. /\ IsFiniteSet(Owers(x) \cup {t})
          /\ Cardinality(Owers(x) \cup {t}) = Cardinality(Owers(x)) + 1
      BY <3>1, FS_AddElement
    <3> QED
      BY <1>0, <2>2, <2>3, <2>4, <3>1, <3>2
  <2>5. CASE x \notin old
    <3>1. Owers(x)' = Owers(x)
      BY <2>1, <2>5 DEF Owers
    <3> QED
      BY <1>0, <2>2, <2>3, <2>5, <3>1
  <2> QED
    BY <2>4, <2>5
<1>7. ASSUME NEW t \in Threads, NEW n \in Names, FireExpired(t, n) PROVE Counted(x)'
  <2>1. /\ n \in expired[t] /\ expired'[t] = expired[t] \ {n} /\ UNCHANGED notice
        /\ \A u \in Threads \ {t} : expired'[u] = expired[u]
    BY <1>7 DEF FireExpired, TypeOK
  <2>2. owed' = [owed EXCEPT ![n] = @ - 1]
    BY <1>7 DEF FireExpired, Tell
  <2>3. Pending(x)' = Pending(x)
    BY <2>1 DEF Pending
  <2>4. CASE x = n
    <3>1. Owers(x)' = Owers(x) \ {t} /\ t \in Owers(x)
      BY <2>1, <2>4 DEF Owers
    <3>2. /\ IsFiniteSet(Owers(x) \ {t})
          /\ Cardinality(Owers(x) \ {t}) = Cardinality(Owers(x)) - 1
      BY <3>1, FS_RemoveElement
    <3>3. owed'[x] = owed[x] - 1
      BY <2>2, <2>4 DEF TypeOK
    <3> QED
      BY <1>0, <2>3, <3>1, <3>2, <3>3
  <2>5. CASE x # n
    <3>1. Owers(x)' = Owers(x) /\ owed'[x] = owed[x]
      BY <2>1, <2>2, <2>5 DEF Owers, TypeOK
    <3> QED
      BY <1>0, <2>3, <3>1
  <2> QED
    BY <2>4, <2>5
<1>8. CASE Aloof
  BY <1>1, <1>8 DEF Aloof
<1> QED
  BY <1>1, <1>2, <1>3, <1>4, <1>5, <1>6, <1>7, <1>8, AloofSteps
  DEF Next, Network, BrowserStep, ThreadStep

\* However many threads expire a name while the browser thread removes or replaces it,
\* the on_down calls still to be made are as many as its unreported disappearances.
THEOREM LossesToldOnce == Spec => []EachLossToldOnce
<1> DEFINE Counts == \A x \in Names : Counted(x)
<1>1. Init => Counts
  <2> SUFFICES ASSUME Init, NEW x \in Names PROVE Counted(x)
    OBVIOUS
  <2>1. Owers(x) = {} /\ ~Lost(notice, x) /\ owed[x] = 0
    BY NoneTold DEF Init, Owers
  <2>2. IsFiniteSet({}) /\ Cardinality({}) = 0
    BY FS_EmptySet
  <2> QED
    BY <2>1, <2>2, PendingIsLost DEF Counted
<1>2. TypeOK /\ Shaped /\ Counts /\ [Next]_vars => Counts'
  BY CountStep
<1>3. Counts => EachLossToldOnce
  BY DEF EachLossToldOnce, Counted, Owers
<1> HIDE DEF Counts
<1> QED
  BY <1>1, <1>2, <1>3, AlwaysShaped, PTL DEF Spec
=============================================================================
