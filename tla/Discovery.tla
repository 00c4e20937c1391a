----------------------------- MODULE Discovery -----------------------------
(***************************************************************************)
(* The peer cache of one node: Zeroconf's browser thread feeds it, threads *)
(* of the application resolve names against it and drop what has expired,  *)
(* and both run the lifecycle callbacks after they have left the lock.     *)
(*                                                                         *)
(* What the other nodes advertise is external: record[n] is the service    *)
(* record Zeroconf holds for n, and `events` the notifications its browser *)
(* thread has still to work on.  The clock counts units of time; TTL is    *)
(* PEER_TTL in these units; MaxTime bounds it, MaxNews the notifications.   *)
(***************************************************************************)
EXTENDS Integers, Sequences, FiniteSets

CONSTANTS Names,      \* node names on the network
          Self,       \* this node's name
          Label,      \* Label[n]: the part of n before its first dot, if any
          Records,    \* Records[n]: service records of n, an instance id and an endpoint
          NoRecord,
          NoInstance, \* the record carries no instance_id
          NoAddress,  \* the endpoint of a record that carries no address
          Matches,    \* Matches[x]: the names that contain x, ignoring case
          Targets,    \* the names the application resolves
          Threads,    \* application threads
          ListensFirst, \* callbacks are set before start() (on Discovery itself)
          TTL, MaxTime, MaxNews

ASSUME DiscoveryAssumption ==
  /\ Self \in Names /\ Targets \subseteq Names
  /\ Label \in [Names -> Names]
  /\ \A n \in Names : /\ NoRecord \notin Records[n]
                      /\ \A r \in Records[n] : DOMAIN r = {"instance", "endpoint"}
  /\ Matches \in [Names -> SUBSET Names]
  /\ \A n \in Names : n \in Matches[n]
  /\ ListensFirst \in BOOLEAN
  /\ TTL \in Nat /\ MaxTime \in Nat /\ MaxNews \in Nat

VARIABLES
  clock,
  record,    \* record[n]: what n advertises now, or NoRecord
  events,    \* notifications for the browser thread: <<kind, name>>
  news,      \* how many notifications there were so far
  browsing,  \* the browser was not cancelled
  known,     \* the names in _peers
  entry,     \* entry[n]: the PeerInfo of n, meaningful while n is known
  lapsed,    \* names that expired, or were removed for another peer, since cached (history)
  fetch,     \* the record the browser thread has fetched and not yet cached
  notice,    \* callbacks the browser thread has still to run: <<kind, name>>
  expired,   \* expired[t]: names whose on_down thread t has still to run
  op,        \* op[t]: where application thread t is in resolve()
  late,      \* late[t]: names cached since t pruned, while it is in resolve() (history)
  listening, \* callbacks were set
  view,      \* the names that are up as the callbacks tell it
  owed,      \* owed[n]: disappearances of n not yet reported (history)
  muddled    \* names whose callbacks crossed, or ran before any was set (history)

netVars  == <<clock, record, events, news, browsing>>
peerVars == <<known, entry, lapsed>>
todoVars == <<fetch, notice, expired>>
opVars   == <<op, late>>
tellVars == <<listening, view, muddled>>
vars == <<netVars, peerVars, todoVars, opVars, tellVars, owed>>

NoEntry == [record |-> NoRecord, seen |-> 0]
NoFetch == [record |-> NoRecord, since |-> 0]
Idle    == [pc |-> "idle", target |-> Self, now |-> 0, found |-> Self]

Init ==
  /\ clock = 0
  /\ record = [n \in Names |-> NoRecord]
  /\ events = <<>>
  /\ news = 0
  /\ browsing = TRUE
  /\ known = {}
  /\ entry = [n \in Names |-> NoEntry]
  /\ lapsed = {}
  /\ fetch = NoFetch
  /\ notice = <<>>
  /\ expired = [t \in Threads |-> {}]
  /\ op = [t \in Threads |-> Idle]
  /\ late = [t \in Threads |-> {}]
  /\ listening = ListensFirst
  /\ view = {}
  /\ owed = [n \in Names |-> 0]
  /\ muddled = {}

-----------------------------------------------------------------------------
(* The network (external): other nodes start, restart, refresh and leave.  What *)
(* they do after the browser was cancelled is no concern of the cache.          *)

Notify(kind, n) ==
  /\ browsing
  /\ news < MaxNews
  /\ news' = news + 1
  /\ events' = Append(events, <<kind, n>>)
  /\ UNCHANGED <<clock, browsing, peerVars, todoVars, opVars, tellVars, owed>>

\* n advertises r: for the first time, after a restart, or again.
Announce(n, r) ==
  /\ record' = [record EXCEPT ![n] = r]
  /\ Notify("seen", n)

\* n says goodbye, or its record expires in Zeroconf's own cache.
Withdraw(n) ==
  /\ record[n] # NoRecord
  /\ record' = [record EXCEPT ![n] = NoRecord]
  /\ Notify("gone", n)

Tick ==
  /\ clock < MaxTime
  /\ clock' = clock + 1
  /\ UNCHANGED <<record, events, news, browsing, peerVars, todoVars, opVars, tellVars, owed>>

-----------------------------------------------------------------------------
(* The browser thread: _Listener, _on_added and _on_removed. *)

NextEvent(kind) ==
  /\ notice = <<>>
  /\ events # <<>>
  /\ Head(events)[1] = kind
  /\ events' = Tail(events)
  /\ UNCHANGED <<clock, record, news, browsing, expired, op, tellVars>>

Peer == Head(events)[2]

Usable(r) == r # NoRecord /\ r.endpoint # NoAddress

\* There is no record any more, or no address in it, or it is the node's own.
IgnoreSeen ==
  /\ NextEvent("seen")
  /\ fetch = NoFetch
  /\ ~Usable(record[Peer]) \/ Peer = Self
  /\ UNCHANGED <<peerVars, fetch, notice, late, owed>>

\* Fetch what Zeroconf holds NOW for the name: it may be newer than the notification,
\* which stays at the head of the queue until what was fetched is cached.
Fetch ==
  /\ notice = <<>>
  /\ fetch = NoFetch
  /\ events # <<>> /\ Head(events)[1] = "seen"
  /\ Usable(record[Peer]) /\ Peer # Self
  /\ fetch' = [record |-> record[Peer], since |-> clock]
  /\ UNCHANGED <<netVars, peerVars, notice, expired, opVars, tellVars, owed>>

\* Another process, or the same one at another address or port.
Replaces(new, old) ==
  \/ /\ NoInstance \notin {new.instance, old.instance}
     /\ new.instance # old.instance
  \/ new.endpoint # old.endpoint

\* Under the lock, cache what was fetched, with a time read in between.
Insert(replaced, order) ==
  /\ NextEvent("seen")
  /\ fetch # NoFetch
  /\ fetch' = NoFetch
  /\ known' = known \cup {Peer}
  /\ lapsed' = lapsed \ {Peer}
  /\ late' = [t \in Threads |-> IF op[t].pc = "lookup" THEN late[t] \cup {Peer} ELSE late[t]]
  /\ notice' = order
  /\ owed' = [owed EXCEPT ![Peer] = @ + (IF replaced THEN 1 ELSE 0)]

\* Mutants: a replaced peer goes up before it goes down; a known peer is only touched
\* while its endpoint stays.
OnAddedUpFirst ==
  LET replaced == Peer \in known /\ Replaces(fetch.record, entry[Peer].record) IN
  /\ Insert(replaced, <<<<"up", Peer>>>> \o (IF replaced THEN <<<<"down", Peer>>>> ELSE <<>>))
  /\ \E now \in fetch.since..clock :
       entry' = [entry EXCEPT ![Peer] = [record |-> fetch.record, seen |-> now]]

OnAddedOnce ==
  LET replaced == Peer \in known /\ entry[Peer].record.endpoint # fetch.record.endpoint IN
  /\ Insert(replaced, (IF replaced THEN <<<<"down", Peer>>>> ELSE <<>>) \o <<<<"up", Peer>>>>)
  /\ \E now \in fetch.since..clock :
       entry' = IF Peer \in known /\ ~replaced THEN [entry EXCEPT ![Peer].seen = now]
                ELSE [entry EXCEPT ![Peer] = [record |-> fetch.record, seen |-> now]]

OnAdded ==
  LET replaced == Peer \in known /\ Replaces(fetch.record, entry[Peer].record) IN
  /\ Insert(replaced, (IF replaced THEN <<<<"down", Peer>>>> ELSE <<>>) \o <<<<"up", Peer>>>>)
  /\ \E now \in fetch.since..clock :
       entry' = [entry EXCEPT ![Peer] = [record |-> fetch.record, seen |-> now]]

\* Mutant: on_down is run whether or not the name was in the cache.
OnRemovedAlways ==
  LET n == Label[Peer] IN
  /\ NextEvent("gone")
  /\ known' = known \ {n}
  /\ lapsed' = IF n \in known \ {Peer} THEN lapsed \cup {n} ELSE lapsed
  /\ notice' = <<<<"down", n>>>>
  /\ owed' = [owed EXCEPT ![n] = @ + (IF n \in known THEN 1 ELSE 0)]
  /\ UNCHANGED <<entry, fetch, late>>

\* The name comes from the service name here: what precedes its first dot.
OnRemoved ==
  LET n == Label[Peer] IN
  /\ NextEvent("gone")
  /\ known' = known \ {n}
  /\ lapsed' = IF n \in known \ {Peer} THEN lapsed \cup {n} ELSE lapsed
  /\ notice' = IF n \in known THEN <<<<"down", n>>>> ELSE <<>>
  /\ owed' = [owed EXCEPT ![n] = @ + (IF n \in known THEN 1 ELSE 0)]
  /\ UNCHANGED <<entry, fetch, late>>

\* stop() cancels the browser: it handles what it was notified of, and nothing else.
\* The cache stays, and expires.
Cancel ==
  /\ browsing
  /\ browsing' = FALSE
  /\ UNCHANGED <<clock, record, events, news, peerVars, todoVars, opVars, tellVars, owed>>

-----------------------------------------------------------------------------
(* Application threads: resolve(), whose first half is _prune(). *)

Stale(n, now) == now - entry[n].seen > TTL

\* _prune() reads the time before it takes the lock.
ReadTime(t, x) ==
  /\ op[t].pc = "idle"
  /\ op' = [op EXCEPT ![t] = [Idle EXCEPT !.pc = "prune", !.target = x, !.now = clock]]
  /\ UNCHANGED <<netVars, peerVars, todoVars, late, tellVars, owed>>

\* Mutants: entries of exactly the maximal age go too; the name that is about to
\* be resolved is spared.
PruneEarly(t) ==
  LET old == {n \in known : op[t].now - entry[n].seen >= TTL} IN
  /\ op[t].pc = "prune"
  /\ known' = known \ old
  /\ lapsed' = lapsed \cup old
  /\ expired' = [expired EXCEPT ![t] = old]
  /\ owed' = [n \in Names |-> owed[n] + (IF n \in old THEN 1 ELSE 0)]
  /\ op' = [op EXCEPT ![t].pc = "lookup"]
  /\ UNCHANGED <<netVars, entry, fetch, notice, late, tellVars>>

PruneAllButTarget(t) ==
  LET old == {n \in known : Stale(n, op[t].now)} \ {op[t].target} IN
  /\ op[t].pc = "prune"
  /\ known' = known \ old
  /\ lapsed' = lapsed \cup old
  /\ expired' = [expired EXCEPT ![t] = old]
  /\ owed' = [n \in Names |-> owed[n] + (IF n \in old THEN 1 ELSE 0)]
  /\ op' = [op EXCEPT ![t].pc = "lookup"]
  /\ UNCHANGED <<netVars, entry, fetch, notice, late, tellVars>>

\* Under the lock, delete what was stale at that time.
Prune(t) ==
  LET old == {n \in known : Stale(n, op[t].now)} IN
  /\ op[t].pc = "prune"
  /\ known' = known \ old
  /\ lapsed' = lapsed \cup old
  /\ expired' = [expired EXCEPT ![t] = old]
  /\ owed' = [n \in Names |-> owed[n] + (IF n \in old THEN 1 ELSE 0)]
  /\ op' = [op EXCEPT ![t].pc = "lookup"]
  /\ UNCHANGED <<netVars, entry, fetch, notice, late, tellVars>>

\* Under the lock again: the exact name, or else some name that contains it.
\* (_peers is searched in insertion order, which is not modelled.)
Candidates(x) == IF x \in known THEN {x} ELSE Matches[x] \cap known

Lookup(t) ==
  /\ op[t].pc = "lookup"
  /\ expired[t] = {}
  /\ \/ \E n \in Candidates(op[t].target) : op' = [op EXCEPT ![t] = [Idle EXCEPT !.found = n]]
     \/ Candidates(op[t].target) = {} /\ op' = [op EXCEPT ![t] = Idle]
  /\ late' = [late EXCEPT ![t] = {}]
  /\ UNCHANGED <<netVars, peerVars, todoVars, tellVars, owed>>

-----------------------------------------------------------------------------
(* The callbacks: _fire_up and _fire_down, run outside the lock. *)

SetCallbacks ==
  /\ ~listening
  /\ listening' = TRUE
  /\ UNCHANGED <<netVars, peerVars, todoVars, opVars, view, muddled, owed>>

\* The callback reaches the application, if one was set.
Tell(kind, n, crossed) ==
  /\ view' = IF ~listening THEN view
             ELSE IF kind = "up" THEN view \cup {n} ELSE view \ {n}
  /\ muddled' = IF crossed \/ ~listening THEN muddled \cup {n} ELSE muddled
  /\ owed' = IF kind = "down" THEN [owed EXCEPT ![n] = @ - 1] ELSE owed
  /\ UNCHANGED <<netVars, peerVars, listening>>

\* The browser thread runs its next callback.
FireNotice ==
  LET kind == Head(notice)[1]
      n    == Head(notice)[2]
  IN
  /\ notice # <<>>
  /\ notice' = Tail(notice)
  /\ Tell(kind, n, \E t \in Threads : n \in expired[t])
  /\ UNCHANGED <<fetch, expired, opVars>>

\* An application thread runs on_down(n, "expired").
FireExpired(t, n) ==
  /\ n \in expired[t]
  /\ expired' = [expired EXCEPT ![t] = @ \ {n}]
  /\ Tell("down", n, \/ \E u \in Threads \ {t} : n \in expired[u]
                     \/ \E i \in DOMAIN notice : notice[i][2] = n)
  /\ UNCHANGED <<fetch, notice, opVars>>

-----------------------------------------------------------------------------
Network ==
  \/ \E n \in Names : (\E r \in Records[n] : Announce(n, r)) \/ Withdraw(n)
  \/ Tick

BrowserStep == IgnoreSeen \/ Fetch \/ OnAdded \/ OnRemoved \/ Cancel \/ FireNotice

ThreadStep(t) ==
  \/ \E x \in Targets : ReadTime(t, x)
  \/ Prune(t)
  \/ Lookup(t)
  \/ \E n \in Names : FireExpired(t, n)

Next == Network \/ BrowserStep \/ SetCallbacks \/ \E t \in Threads : ThreadStep(t)

Spec == Init /\ [][Next]_vars

-----------------------------------------------------------------------------
(* Properties *)

AllRecords == {NoRecord} \cup UNION {Records[n] : n \in Names}

Entries == [record : AllRecords, seen : Nat]
Fetches == [record : AllRecords, since : Nat]
Ops     == [pc : {"idle", "prune", "lookup"}, target : Names, now : Nat, found : Names]

\* The node's own record never enters its cache.
TypeOK ==
  /\ clock \in Nat
  /\ record \in [Names -> AllRecords]
  /\ events \in Seq({"seen", "gone"} \X Names)
  /\ news \in Nat
  /\ browsing \in BOOLEAN
  /\ known \in SUBSET (Names \ {Self})
  /\ entry \in [Names -> Entries]
  /\ lapsed \in SUBSET Names
  /\ fetch \in Fetches
  /\ notice \in Seq({"up", "down"} \X Names)
  /\ expired \in [Threads -> SUBSET Names]
  /\ op \in [Threads -> Ops]
  /\ late \in [Threads -> SUBSET Names]
  /\ listening \in BOOLEAN
  /\ view \in SUBSET Names
  /\ owed \in [Names -> Int]
  /\ muddled \in SUBSET Names

\* resolve() sees an entry that was stale when it looked at the clock only if the
\* browser thread, which read an older time before it took the lock, cached it after
\* the prune: _prune() gives the lock back before the lookup takes it again.
LookupSeesFresh ==
  \A t \in Threads :
    op[t].pc = "lookup" => \A n \in known : Stale(n, op[t].now) => n \in late[t]

\* Only an entry older than the TTL expires: a refresh that gets in between the
\* reading of the clock and the deletion saves the peer.
PruneOnlyStale ==
  [][\A t \in Threads : \A n \in expired'[t] \ expired[t] : clock - entry[n].seen > TTL]_vars

\* Each disappearance of a peer - removed, expired or replaced - is reported by
\* exactly one on_down, whichever threads notice it at the same time.
Pending(n) == (IF \E i \in DOMAIN notice : notice[i] = <<"down", n>> THEN 1 ELSE 0)
EachLossToldOnce == \A n \in Names :
  owed[n] = Pending(n) + Cardinality({t \in Threads : n \in expired[t]})

\* Once a name has no notification outstanding, the peer is cached with the record it
\* advertises now if that has an address, although each notification reads the record
\* only when it is handled - unless the entry expired since, or was removed for another
\* peer, one with a dot, whose label is this name: it is missing then until it is
\* announced again.  And one that has withdrawn is gone, unless its own name has a dot.
CacheConverges ==
  \A n \in Names \ {Self} : (\A i \in DOMAIN events : events[i][2] # n) =>
    /\ Usable(record[n]) => \/ n \in known /\ entry[n].record = record[n]
                            \/ n \in lapsed \ known
    /\ record[n] = NoRecord /\ Label[n] = n => n \notin known

\* "on_up - peer appeared or reconnected; on_down - peer gone" (node.py:336): a peer
\* in the cache with no callback outstanding was last reported up.
Outstanding(n) ==
  \/ \E i \in DOMAIN notice : notice[i][2] = n
  \/ \E t \in Threads : n \in expired[t]

CachedPeersAreUp == \A n \in known : ~Outstanding(n) => n \in view

\* So it is, and one that is not in the cache was last reported down, for every name
\* whose callbacks never crossed between two threads and never ran before
\* set_peer_lifecycle() had set them.
ViewMatchesUnlessMuddled ==
  \A n \in Names \ muddled : ~Outstanding(n) => (n \in view <=> n \in known)
=============================================================================
