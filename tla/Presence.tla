------------------------------- MODULE Presence -------------------------------
(***************************************************************************)
(* The presence manager of internal/store/presence.go, composed with the   *)
(* locks table.  An agent registers for some seconds at a time; a reaper   *)
(* releases the locks of the agents whose registration lapsed, and deletes *)
(* their rows.                                                             *)
(*                                                                         *)
(* The reaper queries once and then works through the answer, two          *)
(* transactions for each agent; it does not look at the row again.  The    *)
(* lock manager is represented by the abstract lease that it implements    *)
(* (LockManagerProofs, Refines).                                           *)
(***************************************************************************)
EXTENDS Naturals, FiniteSets

CONSTANTS
    Names, Agents, TTLs, NoRow,   \* as in LeaseLock
    Spans,       \* ttl_seconds of register_agent
    Nobody,      \* no agent
    Crashes,     \* whether clients crash
    MaxFaults,   \* bound on the transactions that fail and the daemons that crash
    MaxGrants,   \* bound on the grants of locks
    LastCall, MaxClock   \* no call starts, no second passes, after these

ASSUME PresenceConstants ==
    /\ TTLs \subseteq Nat /\ Spans \subseteq Nat
    /\ Nobody \notin Agents /\ Crashes \in BOOLEAN
    /\ NoRow \notin [agent : Agents, token : Names \X Nat, expires : Nat]
    /\ {MaxFaults, MaxGrants, LastCall, MaxClock} \subseteq Nat

VARIABLES
    clock, row, grants,   \* as in LeaseLock
    agents,      \* table agents: expiry of each agent's row, 0 without a row
    alive,       \* clients that have not crashed
    restarts,    \* of the daemon, so far
    pc, now,     \* where each agent's register or unregister is, and the second it read
    span,        \* the registration it asks for
    locking,     \* agents with a lock_resource in flight
    since,       \* when that call began
    rpc, rnow,   \* the reaper, and the second it read
    doomed,      \* agents of its query that are left
    victim,      \* the agent in progress
    fails,       \* transactions that failed
    lapsed       \* agents whose registration lapsed and that have not come back, or came
                 \* back when a sweep had them on its list already (a history)

locks  == <<row, grants>>
calls  == <<pc, now, span>>
reaper == <<rpc, rnow, doomed, victim, fails>>
vars   == <<clock, locks, agents, alive, restarts, calls, locking, since, reaper, lapsed>>

Lease == INSTANCE LeaseLock WITH clock <- clock, row <- row, grants <- grants

Held(a) == {n \in Names : row[n] # NoRow /\ row[n].agent = a}

Init ==
    /\ clock = 0 /\ row = [n \in Names |-> NoRow] /\ grants = 0
    /\ agents = [a \in Agents |-> 0] /\ alive = Agents /\ restarts = 0
    /\ pc = [a \in Agents |-> "idle"] /\ now = [a \in Agents |-> 0]
    /\ span = [a \in Agents |-> 0] /\ locking = {} /\ since = [a \in Agents |-> 0]
    /\ rpc = "idle" /\ rnow = 0 /\ doomed = {} /\ victim = Nobody /\ fails = 0
    /\ lapsed = {}

-----------------------------------------------------------------------------
(* register_agent and unregister_agent *)

\* ErrInvalidTTL returns before anything happens.
RegisterCall(a) ==
    /\ a \in alive /\ pc[a] = "idle" /\ clock <= LastCall
    /\ \E s \in Spans :
          /\ s > 0
          /\ span' = [span EXCEPT ![a] = s]
    /\ now' = [now EXCEPT ![a] = clock]
    /\ pc' = [pc EXCEPT ![a] = "register"]
    /\ UNCHANGED <<clock, locks, agents, alive, restarts, locking, since, reaper, lapsed>>

Return(a) ==
    /\ pc' = [pc EXCEPT ![a] = "idle"]
    /\ now' = [now EXCEPT ![a] = 0]
    /\ span' = [span EXCEPT ![a] = 0]

\* An agent that registers is back, unless that is for no time at all or a sweep
\* has it on its list.
Back(a) ==
    lapsed' = IF agents'[a] <= clock THEN lapsed \cup {a}
              ELSE IF a \in doomed \cup {victim} THEN lapsed
              ELSE lapsed \ {a}

\* Mutant: a heartbeat prolongs the registration that is there.
RegisterProlongs(a) ==
    /\ pc[a] = "register"
    /\ agents' = [agents EXCEPT ![a] = @ + span[a]]
    /\ Back(a)
    /\ Return(a)
    /\ UNCHANGED <<clock, locks, alive, restarts, locking, since, reaper>>

\* The upsert.  A handler that was slow may write an expiry that has passed.
Register(a) ==
    /\ pc[a] = "register"
    /\ agents' = [agents EXCEPT ![a] = now[a] + span[a]]
    /\ Back(a)
    /\ Return(a)
    /\ UNCHANGED <<clock, locks, alive, restarts, locking, since, reaper>>

\* The first of two transactions: ReleaseAgentLocks.
Unregister(a) ==
    /\ a \in alive /\ pc[a] = "idle" /\ clock <= LastCall
    /\ Lease!Release(Held(a), a)
    /\ pc' = [pc EXCEPT ![a] = "leave"]
    /\ UNCHANGED <<now, span, agents, alive, restarts, locking, since, reaper, lapsed>>

\* The second: the row.
Leave(a) ==
    /\ pc[a] = "leave"
    /\ agents' = [agents EXCEPT ![a] = 0]
    /\ Return(a)
    /\ UNCHANGED <<clock, locks, alive, restarts, locking, since, reaper, lapsed>>

-----------------------------------------------------------------------------
(* Locks, as the abstract lease sees them *)

LockCall(a) ==
    /\ a \in alive \ locking /\ clock <= LastCall
    /\ grants + Cardinality(locking) < MaxGrants
    /\ locking' = locking \cup {a} /\ since' = [since EXCEPT ![a] = clock]
    /\ UNCHANGED <<clock, locks, agents, alive, restarts, calls, reaper, lapsed>>

LockAnswer(a) ==
    /\ a \in locking
    /\ locking' = locking \ {a} /\ since' = [since EXCEPT ![a] = 0]
    /\ UNCHANGED <<agents, alive, restarts, calls, reaper, lapsed>>

\* The call is served at any later moment, or never.
Granted(a) ==
    /\ LockAnswer(a)
    /\ \E n \in Names, t \in since[a]..clock, ttl \in TTLs : Lease!Grant({n}, a, t, ttl)

Refused(a) == LockAnswer(a) /\ UNCHANGED <<clock, locks>>

Unlock(a) ==
    /\ a \in alive
    /\ \E n \in Held(a) : Lease!Release({n}, a)
    /\ UNCHANGED <<agents, alive, restarts, calls, locking, since, reaper, lapsed>>

\* The lock manager's own reaper.
LockExpires ==
    /\ \E n \in Names : Lease!Expire({n})
    /\ UNCHANGED <<agents, alive, restarts, calls, locking, since, reaper, lapsed>>

-----------------------------------------------------------------------------
(* The presence reaper, every second *)

\* Mutant: the second is rounded up.
ReapStartAhead ==
    /\ rpc = "idle"
    /\ rpc' = "query" /\ rnow' = clock + 1
    /\ UNCHANGED <<clock, locks, agents, alive, restarts, calls, locking, since, doomed, victim, fails, lapsed>>

ReapStart ==
    /\ rpc = "idle"
    /\ rpc' = "query" /\ rnow' = clock
    /\ UNCHANGED <<clock, locks, agents, alive, restarts, calls, locking, since, doomed, victim, fails, lapsed>>

Fails == fails + restarts < MaxFaults /\ fails' = fails + 1 /\ UNCHANGED <<clock, locks, agents>>

\* Mutant: off by one second.
QueryEarly ==
    /\ rpc = "query"
    /\ doomed' = {a \in Agents : agents[a] # 0 /\ agents[a] <= rnow + 1}
    /\ rpc' = "next"
    /\ UNCHANGED <<clock, locks, agents, alive, restarts, calls, locking, since, rnow, victim, fails, lapsed>>

\* The query, or the reading of its rows, may fail: the sweep is over.
ReapQuery ==
    /\ rpc = "query"
    /\ \/ /\ doomed' = {a \in Agents : agents[a] # 0 /\ agents[a] <= rnow}
          /\ rpc' = "next"
          /\ UNCHANGED <<clock, locks, agents, rnow, fails>>
       \/ /\ Fails
          /\ rpc' = "idle" /\ rnow' = 0
          /\ UNCHANGED doomed
    /\ UNCHANGED <<alive, restarts, calls, locking, since, victim, lapsed>>

\* Mutant: only the row goes.
SkipRelease ==
    /\ rpc = "next"
    /\ \E a \in doomed : doomed' = doomed \ {a} /\ victim' = a
    /\ rpc' = "remove"
    /\ UNCHANGED <<clock, locks, agents, alive, restarts, calls, locking, since, rnow, fails, lapsed>>

\* ReleaseAgentLocks; its error is dropped.
ReapRelease ==
    /\ rpc = "next"
    /\ \E a \in doomed :
          /\ doomed' = doomed \ {a} /\ victim' = a
          /\ \/ Lease!Release(Held(a), a) /\ UNCHANGED <<agents, fails>>
             \/ Fails
    /\ rpc' = "remove"
    /\ UNCHANGED <<alive, restarts, calls, locking, since, rnow, lapsed>>

\* DELETE FROM agents, whatever became of the locks and of the row.
ReapRemove ==
    /\ rpc = "remove"
    /\ \/ agents' = [agents EXCEPT ![victim] = 0] /\ UNCHANGED <<clock, locks, fails>>
       \/ Fails
    /\ victim' = Nobody /\ rpc' = "next"
    /\ UNCHANGED <<alive, restarts, calls, locking, since, rnow, doomed, lapsed>>

ReapEnd ==
    /\ rpc = "next" /\ doomed = {}
    /\ rpc' = "idle" /\ rnow' = 0
    /\ UNCHANGED <<clock, locks, agents, alive, restarts, calls, locking, since, doomed, victim, fails, lapsed>>

-----------------------------------------------------------------------------
(* The rest of the world *)

\* A client crashes; the calls it has in flight go on.
Dies(a) ==
    /\ Crashes
    /\ a \in alive /\ alive' = alive \ {a}
    /\ UNCHANGED <<clock, locks, agents, restarts, calls, locking, since, reaper, lapsed>>

\* A register_agent, or the second half of an unregister_agent, fails.
CallFails(a) ==
    /\ pc[a] \in {"register", "leave"}
    /\ Fails
    /\ Return(a)
    /\ UNCHANGED <<alive, restarts, locking, since, rpc, rnow, doomed, victim, lapsed>>

\* The daemon stops and starts again: the tables are on disk.  A reaper or an
\* unregister_agent in the middle is not resumed.
Restart ==
    /\ fails + restarts < MaxFaults /\ restarts' = restarts + 1
    /\ pc' = [a \in Agents |-> "idle"] /\ now' = [a \in Agents |-> 0]
    /\ span' = [a \in Agents |-> 0] /\ locking' = {} /\ since' = [a \in Agents |-> 0]
    /\ rpc' = "idle" /\ rnow' = 0 /\ doomed' = {} /\ victim' = Nobody
    /\ UNCHANGED <<clock, locks, agents, alive, fails, lapsed>>

Tick ==
    /\ clock < MaxClock
    /\ clock' = clock + 1
    /\ lapsed' = lapsed \cup {a \in Agents : agents[a] # 0 /\ agents[a] <= clock'}
    /\ UNCHANGED <<locks, agents, alive, restarts, calls, locking, since, reaper>>

-----------------------------------------------------------------------------

Reap == ReapStart \/ ReapQuery \/ ReapRelease \/ ReapRemove \/ ReapEnd

\* What the clients ask for, and what the handlers do for them.
Calls(a) ==
    \/ RegisterCall(a) \/ Register(a) \/ Unregister(a) \/ Leave(a) \/ CallFails(a)
    \/ LockCall(a) \/ Granted(a) \/ Refused(a) \/ Unlock(a)

Next ==
    \/ \E a \in Agents : Calls(a) \/ Dies(a)
    \/ Reap \/ LockExpires \/ Restart \/ Tick

Spec == Init /\ [][Next]_vars

\* The reaper's ticker fires, its goroutine runs, time passes, and handlers
\* come back.  Nobody has to call, and no lock has to expire.
Fairness ==
    /\ WF_vars(Reap)
    /\ WF_vars(Tick)
    /\ \A a \in Agents : WF_vars(Register(a) \/ Leave(a)) /\ WF_vars(Granted(a) \/ Refused(a))

FairSpec == Spec /\ Fairness

-----------------------------------------------------------------------------
(* Properties *)

\* Every variable has its type, and whoever has read the clock read the past.
TypeOK ==
    /\ clock \in Nat /\ grants \in Nat /\ agents \in [Agents -> Nat] /\ restarts \in Nat
    /\ row \in [Names -> Lease!Row \cup {NoRow}]
    /\ alive \subseteq Agents /\ locking \subseteq Agents /\ lapsed \subseteq Agents
    /\ pc \in [Agents -> {"idle", "register", "leave"}]
    /\ now \in [Agents -> Nat] /\ span \in [Agents -> Nat] /\ since \in [Agents -> Nat]
    /\ rpc \in {"idle", "query", "next", "remove"} /\ rnow \in Nat /\ fails \in Nat
    /\ doomed \subseteq Agents /\ victim \in Agents \cup {Nobody}
    /\ rpc = "remove" => victim \in Agents
    /\ rnow <= clock /\ \A a \in Agents : now[a] <= clock /\ since[a] <= clock

Reaping == rpc \in {"next", "remove"} /\ rpc' # rpc

\* An agent whose registration has not lapsed since it last registered loses
\* neither a lock nor its row to the reaper, however late the reaper's steps come:
\* neither one that renews in time, every time, nor one that lapsed and came back,
\* except to the sweep that had it on its list by then.
TimelyKeepsLocks ==
    [][Reaping =>
          /\ \A n \in Names : row'[n] # row[n] => row[n].agent \in lapsed
          /\ \A a \in Agents : agents'[a] # agents[a] => a \in lapsed]_vars

\* The locks of a client that crashed are released when its registration
\* lapses, long before they expire themselves, unless it still has a lock call
\* in flight, the crash falls into a sweep that already has it on its list, or
\* a transaction fails.  (The registration lapses before time ends.)
Dead(a) ==
    /\ a \notin alive \cup locking /\ pc[a] = "idle" /\ rpc = "idle"
    /\ agents[a] # 0 /\ agents[a] <= MaxClock
Recovered(a) == Held(a) = {} /\ agents[a] = 0
DeadRecovered ==
    \A a \in Agents : (Dead(a) /\ fails = 0) ~> (Recovered(a) \/ fails > 0)

-----------------------------------------------------------------------------
(* What a comment says and the code does not keep. *)

\* presence.go, reapOnce: "a transient failure just leaves the agent to be reaped
\* on the next tick".  It does not when what fails is the release: the row is
\* deleted all the same, and no tick looks for the locks again.
TransientOnlyDelays == \A a \in Agents : Dead(a) ~> Recovered(a)
=============================================================================
