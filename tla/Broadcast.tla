------------------------------ MODULE Broadcast ------------------------------
(***************************************************************************)
(* call("ALL", ...): one daemon thread per known peer makes a unicast call *)
(* and files what came of it in a shared table; the caller waits a limited *)
(* time for each thread and then returns that very table.                  *)
(*                                                                         *)
(* What a unicast call does is RpcContract, which UdpRpc and TcpRpc        *)
(* implement; calls are named after the peer name their thread was given.  *)
(* `peers` is the cache of Discovery, which changes all the time.          *)
(***************************************************************************)
CONSTANTS Names,    \* node names
          Nobody,   \* no peer
          Matches,  \* Matches[x]: the names that contain x, ignoring case
          Hanging   \* names whose call may never end (TCP: no timeout on the reply)

ASSUME BroadcastAssumption ==
  /\ Nobody \notin Names
  /\ Matches \in [Names -> SUBSET Names]
  /\ \A x \in Names : x \in Matches[x]
  /\ Hanging \subseteq Names

VARIABLES
  peers,     \* the names in the cache
  caller,    \* where the thread in call("ALL") is
  listed,    \* the names the broadcast is for
  joined,    \* threads the caller is done waiting for
  worker,    \* worker[x]: where the thread for name x is
  target,    \* target[x]: the peer that this thread's resolve() returned
  results,   \* results[x]: what the table says under name x
  status, outcome, produced, \* the unicast calls, see RpcContract
  abandoned, \* threads whose join() timed out (history)
  left       \* names that were not cached at some time since the listing (history)

callVars == <<status, outcome, produced>>
history  == <<abandoned, left>>
vars == <<peers, caller, listed, joined, worker, target, results, callVars, history>>

Call == INSTANCE RpcContract WITH Calls <- Names

Silent == "none"

Init ==
  /\ peers \in SUBSET Names
  /\ caller = "idle"
  /\ listed = {}
  /\ joined = {}
  /\ worker = [x \in Names |-> "none"]
  /\ target = [x \in Names |-> Nobody]
  /\ results = [x \in Names |-> Silent]
  /\ Call!Init
  /\ abandoned = {}
  /\ left = {}

-----------------------------------------------------------------------------
(* The cache changes: announcements, goodbyes, expiry (module Discovery). *)

Appear(x) ==
  /\ peers' = peers \cup {x}
  /\ UNCHANGED <<caller, listed, joined, worker, target, results, callVars, history>>

Disappear(x) ==
  /\ peers' = peers \ {x}
  /\ left' = left \cup ({x} \cap listed)
  /\ UNCHANGED <<caller, listed, joined, worker, target, results, callVars, abandoned>>

-----------------------------------------------------------------------------
(* The calling thread. *)

List ==
  /\ caller = "idle"
  /\ caller' = "starting"
  /\ listed' = peers
  /\ UNCHANGED <<peers, joined, worker, target, results, callVars, history>>

StartWorker(x) ==
  /\ caller = "starting"
  /\ x \in listed
  /\ worker[x] = "none"
  /\ worker' = [worker EXCEPT ![x] = "started"]
  /\ UNCHANGED <<peers, caller, listed, joined, target, results, callVars, history>>

\* t.start() has returned for all of them.
StartJoining ==
  /\ caller = "starting"
  /\ \A x \in listed : worker[x] # "none"
  /\ caller' = "joining"
  /\ UNCHANGED <<peers, listed, joined, worker, target, results, callVars, history>>

\* Mutant: the caller waits for the call, not for its thread.
JoinEarly(x) ==
  /\ caller = "joining"
  /\ x \in listed \ joined
  /\ status[x] = "closed"
  /\ joined' = joined \cup {x}
  /\ UNCHANGED <<peers, caller, listed, worker, target, results, callVars, history>>

Join(x) ==
  /\ caller = "joining"
  /\ x \in listed \ joined
  /\ worker[x] = "done"
  /\ joined' = joined \cup {x}
  /\ UNCHANGED <<peers, caller, listed, worker, target, results, callVars, history>>

\* Mutant: join() is given no timeout.
JoinForever(x) == x \in listed \ joined /\ FALSE /\ UNCHANGED vars

\* join(timeout + 1) gives up.  It may for every transport: the thread's own timeout
\* starts to run after resolve() and the callbacks it may have to run.
JoinTimesOut(x) ==
  /\ caller = "joining"
  /\ x \in listed \ joined
  /\ worker[x] # "done"
  /\ joined' = joined \cup {x}
  /\ abandoned' = abandoned \cup {x}
  /\ UNCHANGED <<peers, caller, listed, worker, target, results, callVars, left>>

Return ==
  /\ caller = "joining"
  /\ joined = listed
  /\ caller' = "returned"
  /\ UNCHANGED <<peers, listed, joined, worker, target, results, callVars, history>>

-----------------------------------------------------------------------------
(* The thread for name x: _call_one(x, ...) and then the table, under its lock. *)

\* Mutant: an exact match is not preferred.
AnyMatch(x) == Matches[x] \cap peers

\* resolve(x), again: the name itself, or else one that contains it.
Candidates(x) == IF x \in peers THEN {x} ELSE Matches[x] \cap peers

Resolve(x) ==
  /\ worker[x] = "started"
  /\ worker' = [worker EXCEPT ![x] = "calling"]
  /\ \/ \E p \in Candidates(x) : target' = [target EXCEPT ![x] = p] /\ Call!Open(x)
     \/ Candidates(x) = {} /\ Call!Refuse(x) /\ UNCHANGED target
  /\ UNCHANGED <<peers, caller, listed, joined, results, history>>

\* The unicast call goes on, or ends.
Produce(x) ==
  /\ \E k \in Call!Kinds : Call!Produce(x, k)
  /\ UNCHANGED <<peers, caller, listed, joined, worker, target, results, history>>

Close(x) ==
  /\ \E o \in Call!Outcomes \ {"none", "not_found"} : Call!Close(x, o)
  /\ UNCHANGED <<peers, caller, listed, joined, worker, target, results, history>>

\* Mutants: an exception is not filed; nothing is filed once the caller has returned.
FileValue(x) ==
  /\ worker[x] = "calling"
  /\ status[x] = "closed"
  /\ worker' = [worker EXCEPT ![x] = "done"]
  /\ results' = IF outcome[x] = "value" THEN [results EXCEPT ![x] = "value"] ELSE results
  /\ UNCHANGED <<peers, caller, listed, joined, target, callVars, history>>

\* results[name] = the value or the exception, also after the caller has returned.
File(x) ==
  /\ worker[x] = "calling"
  /\ status[x] = "closed"
  /\ worker' = [worker EXCEPT ![x] = "done"]
  /\ results' = [results EXCEPT ![x] = outcome[x]]
  /\ UNCHANGED <<peers, caller, listed, joined, target, callVars, history>>

-----------------------------------------------------------------------------
CallerStep == StartJoining \/ Return \/
              \E x \in Names : StartWorker(x) \/ Join(x) \/ JoinTimesOut(x)

WorkerStep(x) == Resolve(x) \/ File(x)

Next ==
  \/ List
  \/ CallerStep
  \/ \E x \in Names : \/ Appear(x) \/ Disappear(x)
                      \/ WorkerStep(x) \/ Produce(x) \/ Close(x)

Spec == Init /\ [][Next]_vars

\* Threads are scheduled, join() has a timeout, and a call ends unless it may hang.
Fairness ==
  /\ WF_vars(CallerStep)
  /\ \A x \in Names : WF_vars(WorkerStep(x))
  /\ \A x \in Names \ Hanging : WF_vars(Close(x))

LiveSpec == Spec /\ Fairness

-----------------------------------------------------------------------------
(* Properties *)

\* The types; nothing is listed before the broadcast starts, and only listed names have
\* threads.
TypeOK ==
  /\ peers \in SUBSET Names
  /\ caller \in {"idle", "starting", "joining", "returned"}
  /\ listed \in SUBSET Names
  /\ joined \in SUBSET listed
  /\ worker \in [Names -> {"none", "started", "calling", "done"}]
  /\ target \in [Names -> Names \cup {Nobody}]
  /\ results \in [Names -> Call!Outcomes]
  /\ status \in [Names -> {"idle", "open", "closed"}]
  /\ outcome \in [Names -> Call!Outcomes]
  /\ produced \in [Names -> SUBSET Call!Kinds]
  /\ abandoned \in SUBSET joined
  /\ left \in SUBSET listed
  /\ caller = "idle" => listed = {}
  /\ \A x \in Names \ listed : worker[x] = "none"

\* A name whose thread the caller saw end is in the table that it returns, with a value
\* that the handler produced for this call, or an exception; one not listed never is.
TableIsComplete ==
  \A x \in Names :
    /\ x \in joined \ abandoned => results[x] # Silent
    /\ results[x] # Silent => x \in listed /\ results[x] = outcome[x]
    /\ results[x] \in Call!Kinds => results[x] \in produced[x]

\* A peer that stays in the cache is called under its own name, and by no thread but
\* its own as long as all listed peers stay, although every thread resolves its name anew.
StayersAreCalledOnce ==
  /\ \A x \in listed \ left : target[x] \in {x, Nobody} /\ outcome[x] # "not_found"
  /\ left = {} => \A x, y \in Names : target[x] = target[y] /\ target[x] # Nobody => x = y

\* The returned table is shared with the threads that are still running: only the names
\* that the caller gave up on can still get an entry, and no entry ever changes.
OnlyLateEntries ==
  [][\A x \in Names :
       results'[x] # results[x] =>
         results[x] = Silent /\ (caller = "returned" => x \in abandoned)]_vars

\* The inductive invariant behind the three properties above: how far a thread is tells
\* how far its call is, and a listed name that never left is still cached.
ThreadsFollowCalls ==
  \A x \in Names :
    /\ worker[x] \in {"none", "started"} => /\ status[x] = "idle"
                                            /\ target[x] = Nobody
    /\ worker[x] = "calling" => status[x] # "idle"
    /\ worker[x] = "done" => status[x] = "closed" /\ results[x] = outcome[x]
    /\ worker[x] # "done" => results[x] = Silent
    /\ status[x] = "closed" <=> outcome[x] # Silent
    /\ outcome[x] \in Call!Kinds => outcome[x] \in produced[x]

CallerFollowsThreads ==
  /\ caller = "returned" => joined = listed
  /\ \A x \in joined \ abandoned : worker[x] = "done"

StayersAreCached ==
  /\ listed \ left \subseteq peers
  /\ \A x \in listed \ left : target[x] \in {x, Nobody} /\ outcome[x] # "not_found"

Consistent ==
  TypeOK /\ ThreadsFollowCalls /\ CallerFollowsThreads /\ StayersAreCached

\* A broadcast returns, even if none of its calls does.
BroadcastReturns == caller = "starting" ~> caller = "returned"
=============================================================================
