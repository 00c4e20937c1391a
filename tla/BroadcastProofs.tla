--------------------------- MODULE BroadcastProofs ---------------------------
(***************************************************************************)
(* Broadcast, for any set of names and any matching of one by another: the *)
(* table and the names the calls are filed under.                          *)
(***************************************************************************)
EXTENDS Broadcast, TLAPS

\* What a step of one unicast call does to the call's own state.
LEMMA CallTypes ==
  ASSUME TypeOK, NEW x \in Names,
         \/ Call!Open(x) \/ Call!Refuse(x)
         \/ \E k \in Call!Kinds : Call!Produce(x, k)
         \/ \E o \in Call!Outcomes \ {"none", "not_found"} : Call!Close(x, o)
  PROVE  /\ status' \in [Names -> {"idle", "open", "closed"}]
         /\ outcome' \in [Names -> Call!Outcomes]
         /\ produced' \in [Names -> SUBSET Call!Kinds]
  BY DEF TypeOK, Call!Open, Call!Refuse, Call!Produce, Call!Close, Call!Kinds,
         Call!Outcomes, Call!Unsent

LEMMA TypeStep == BroadcastAssumption /\ TypeOK /\ [Next]_vars => TypeOK'
<1> SUFFICES ASSUME BroadcastAssumption, TypeOK, [Next]_vars PROVE TypeOK'
  OBVIOUS
<1> USE DEF TypeOK, callVars, history
<1>1. CASE List
  BY <1>1 DEF List
<1>2. CASE CallerStep
  BY <1>2 DEF CallerStep, StartJoining, Return, StartWorker, Join, JoinTimesOut
<1>3. ASSUME NEW x \in Names, Appear(x) \/ Disappear(x) PROVE TypeOK'
  BY <1>3 DEF Appear, Disappear
<1>4. ASSUME NEW x \in Names, Resolve(x) PROVE TypeOK'
  <2>1. /\ status' \in [Names -> {"idle", "open", "closed"}]
        /\ outcome' \in [Names -> Call!Outcomes]
        /\ produced' \in [Names -> SUBSET Call!Kinds]
    BY <1>4, CallTypes DEF Resolve
  <2>2. target' \in [Names -> Names \cup {Nobody}]
    BY <1>4 DEF Resolve, Candidates, BroadcastAssumption
  <2>3. /\ worker' \in [Names -> {"none", "started", "calling", "done"}]
        /\ \A y \in Names \ listed : worker'[y] = "none"
    BY <1>4 DEF Resolve
  <2> QED
    BY <1>4, <2>1, <2>2, <2>3 DEF Resolve
<1>5. ASSUME NEW x \in Names, Produce(x) \/ Close(x) PROVE TypeOK'
  <2>1. /\ status' \in [Names -> {"idle", "open", "closed"}]
        /\ outcome' \in [Names -> Call!Outcomes]
        /\ produced' \in [Names -> SUBSET Call!Kinds]
    BY <1>5, CallTypes DEF Produce, Close
  <2> QED
    BY <1>5, <2>1 DEF Produce, Close
<1>6. ASSUME NEW x \in Names, File(x) PROVE TypeOK'
  BY <1>6 DEF File
<1>7. CASE UNCHANGED vars
  BY <1>7 DEF vars
<1> QED
  BY <1>1, <1>2, <1>3, <1>4, <1>5, <1>6, <1>7 DEF Next, WorkerStep

LEMMA TypeInit == Init => TypeOK
  BY DEF Init, TypeOK, Call!Init, Call!Outcomes, Call!Kinds, Silent

\* Every variable keeps its type, and only the names that the broadcast listed have a
\* thread (_call_all).
THEOREM TypeCorrect == Spec => []TypeOK
<1>1. TypeOK /\ [Next]_vars => TypeOK'
  BY TypeStep, BroadcastAssumption
<1> QED
  BY TypeInit, <1>1, PTL DEF Spec

-----------------------------------------------------------------------------
LEMMA FollowStep ==
  Consistent /\ TypeOK' /\ [Next]_vars => ThreadsFollowCalls' /\ CallerFollowsThreads'
<1> SUFFICES ASSUME Consistent, TypeOK', [Next]_vars
             PROVE  ThreadsFollowCalls' /\ CallerFollowsThreads'
  OBVIOUS
<1> USE DEF Consistent, TypeOK, ThreadsFollowCalls, CallerFollowsThreads, callVars, history
<1>1. CASE List
  BY <1>1 DEF List
<1>2. CASE CallerStep
  BY <1>2 DEF CallerStep, StartJoining, Return, StartWorker, Join, JoinTimesOut
<1>3. ASSUME NEW x \in Names, Appear(x) \/ Disappear(x)
      PROVE  ThreadsFollowCalls' /\ CallerFollowsThreads'
  BY <1>3 DEF Appear, Disappear
<1>4. ASSUME NEW x \in Names, Resolve(x)
      PROVE  ThreadsFollowCalls' /\ CallerFollowsThreads'
  <2>1. ThreadsFollowCalls'
    BY <1>4 DEF Resolve, Call!Open, Call!Refuse, Call!Kinds, Silent
  <2>2. CallerFollowsThreads'
    BY <1>4 DEF Resolve
  <2> QED
    BY <2>1, <2>2
<1>5. ASSUME NEW x \in Names, Produce(x) \/ Close(x)
      PROVE  ThreadsFollowCalls' /\ CallerFollowsThreads'
  <2>1. ThreadsFollowCalls'
    BY <1>5 DEF Produce, Close, Call!Produce, Call!Close, Call!Kinds, Silent
  <2>2. CallerFollowsThreads'
    BY <1>5 DEF Produce, Close
  <2> QED
    BY <2>1, <2>2
<1>6. ASSUME NEW x \in Names, File(x)
      PROVE  ThreadsFollowCalls' /\ CallerFollowsThreads'
  BY <1>6 DEF File
<1>7. CASE UNCHANGED vars
  BY <1>7 DEF vars
<1> QED
  BY <1>1, <1>2, <1>3, <1>4, <1>5, <1>6, <1>7 DEF Next, WorkerStep

LEMMA CachedStep == Consistent /\ TypeOK' /\ [Next]_vars => StayersAreCached'
<1> SUFFICES ASSUME Consistent, TypeOK', [Next]_vars PROVE StayersAreCached'
  OBVIOUS
<1> USE DEF Consistent, TypeOK, StayersAreCached, callVars, history
<1>1. CASE List
  \* Nothing was listed, so no thread and no call exists yet.
  <2>1. \A x \in Names : target[x] = Nobody /\ outcome[x] = Silent
    BY <1>1 DEF List, ThreadsFollowCalls
  <2> QED
    BY <1>1, <2>1 DEF List, Silent
<1>2. CASE CallerStep
  BY <1>2 DEF CallerStep, StartJoining, Return, StartWorker, Join, JoinTimesOut
<1>3. ASSUME NEW x \in Names, Appear(x) \/ Disappear(x) PROVE StayersAreCached'
  BY <1>3 DEF Appear, Disappear
<1>4. ASSUME NEW x \in Names, Resolve(x) PROVE StayersAreCached'
  <2>1. x \in listed \ left => Candidates(x) = {x}
    BY DEF Candidates
  <2> QED
    BY <1>4, <2>1 DEF Resolve, Call!Open, Call!Refuse
<1>5. ASSUME NEW x \in Names, Produce(x) \/ Close(x) PROVE StayersAreCached'
  BY <1>5 DEF Produce, Close, Call!Produce, Call!Close
<1>6. ASSUME NEW x \in Names, File(x) PROVE StayersAreCached'
  BY <1>6 DEF File
<1>7. CASE UNCHANGED vars
  BY <1>7 DEF vars
<1> QED
  BY <1>1, <1>2, <1>3, <1>4, <1>5, <1>6, <1>7 DEF Next, WorkerStep

LEMMA AlwaysConsistent == Spec => []Consistent
<1>1. Init => Consistent
  <2>1. ASSUME Init PROVE ThreadsFollowCalls
    <3>1. \A x \in Names : /\ worker[x] = "none" /\ target[x] = Nobody
                           /\ status[x] = "idle" /\ outcome[x] = "none"
                           /\ results[x] = Silent
      BY <2>1 DEF Init, Call!Init
    <3> QED
      BY <3>1 DEF ThreadsFollowCalls, Call!Kinds, Silent
  <2>2. Init => CallerFollowsThreads /\ StayersAreCached
    BY DEF Init, CallerFollowsThreads, StayersAreCached
  <2> QED
    BY <2>1, <2>2, TypeInit DEF Consistent
<1>2. Consistent /\ [Next]_vars => Consistent'
  <2> SUFFICES ASSUME Consistent, [Next]_vars PROVE Consistent'
    OBVIOUS
  <2>1. TypeOK'
    BY TypeStep, BroadcastAssumption DEF Consistent
  <2> QED
    BY <2>1, FollowStep, CachedStep DEF Consistent
<1> QED
  BY <1>1, <1>2, PTL DEF Spec

\* The table that _call_all returns has an entry for every name whose thread the caller
\* saw end, and every value in it was produced for the call it is filed under.
THEOREM TablesAreComplete == Spec => []TableIsComplete
<1>1. Consistent => TableIsComplete
  BY DEF Consistent, TypeOK, ThreadsFollowCalls, CallerFollowsThreads, TableIsComplete,
         Silent, Call!Kinds
<1> QED
  BY <1>1, AlwaysConsistent, PTL

\* The second look of every thread at the cache (resolve() in _call_one) finds the peer it
\* was made for, unless that peer left.
THEOREM StayersKeepTheirCalls == Spec => []StayersAreCalledOnce
<1>1. ASSUME Consistent PROVE StayersAreCalledOnce
  <2>1. \A x \in listed \ left : target[x] \in {x, Nobody} /\ outcome[x] # "not_found"
    BY <1>1 DEF Consistent, StayersAreCached
  <2>2. left = {} => \A x \in Names : target[x] \in {x, Nobody}
    BY <1>1 DEF Consistent, TypeOK, ThreadsFollowCalls, StayersAreCached
  <2> QED
    BY <2>1, <2>2 DEF StayersAreCalledOnce
<1> QED
  BY <1>1, AlwaysConsistent, PTL

\* After _call_all has returned its table, late threads add entries for names that the
\* caller gave up on, and nobody changes an entry.
THEOREM OnlyLateEntriesAppear == Spec => OnlyLateEntries
<1> DEFINE Step == \A x \in Names :
             results'[x] # results[x] =>
               results[x] = Silent /\ (caller = "returned" => x \in abandoned)
<1>1. ASSUME Consistent, [Next]_vars PROVE [Step]_vars
  <2>1. CASE UNCHANGED results
    BY <2>1
  <2>2. ASSUME NEW x \in Names, File(x) PROVE Step
    BY <1>1, <2>2 DEF Consistent, TypeOK, ThreadsFollowCalls, CallerFollowsThreads, File
  <2>3. UNCHANGED results \/ \E x \in Names : File(x)
    BY <1>1 DEF Next, vars, List, CallerStep, StartJoining, Return, StartWorker, Join,
                JoinTimesOut, WorkerStep, Resolve, Appear, Disappear, Produce, Close
  <2> QED
    BY <2>1, <2>2, <2>3
<1> QED
  BY <1>1, AlwaysConsistent, PTL DEF Spec, OnlyLateEntries

-----------------------------------------------------------------------------
(* The unicast calls *)

\* The threads drive their calls as RpcContract allows: each is opened, or refused, once,
\* by the thread it is named after, and goes on by itself from there.
THEOREM CallsKeepContract == Spec => Call!Spec
<1>1. Init => Call!Init
  BY DEF Init
<1>2. [Next]_vars => [Call!Next]_(Call!contractVars)
  <2> SUFFICES ASSUME [Next]_vars PROVE Call!Next \/ UNCHANGED callVars
    BY DEF callVars, Call!contractVars
  <2>1. ASSUME NEW x \in Names, Resolve(x) PROVE Call!Next
    BY <2>1 DEF Resolve, Call!Next
  <2>2. ASSUME NEW x \in Names, Produce(x) \/ Close(x) PROVE Call!Next
    BY <2>2 DEF Produce, Close, Call!Next
  <2>3. ASSUME NEW x \in Names, Appear(x) \/ Disappear(x) \/ File(x) PROVE UNCHANGED callVars
    BY <2>3 DEF Appear, Disappear, File
  <2>4. CASE List \/ CallerStep
    BY <2>4 DEF List, CallerStep, StartJoining, Return, StartWorker, Join, JoinTimesOut
  <2>5. CASE UNCHANGED vars
    BY <2>5 DEF vars
  <2> QED
    BY <2>1, <2>2, <2>3, <2>4, <2>5 DEF Next, WorkerStep
<1> QED
  BY <1>1, <1>2, PTL DEF Spec, Call!Spec
=============================================================================
