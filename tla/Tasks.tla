--------------------------------- MODULE Tasks ---------------------------------
(***************************************************************************)
(* The lease-based work queue of internal/store/tasks.go, for one queue    *)
(* name: names share nothing but the table's identifiers.                  *)
(*                                                                         *)
(* Every statement runs in one transaction on the one connection, so it is *)
(* one action; the second it compares with was read before.  An agent has  *)
(* one call in flight at a time.  The agents table belongs to the presence *)
(* manager (Presence); here it changes in any way that one may change it.  *)
(***************************************************************************)
EXTENDS Naturals, FiniteSets

CONSTANTS
    Agents,
    Joiners,       \* the agents that register
    TTLs, Leases,  \* lengths clients ask for, of a registration and of a claim
    DefaultLease,  \* defaultLeaseSeconds
    Priorities,
    NoAgent,       \* a NULL lease_agent
    Faults,        \* which of "txfail", "lost", "die" and "restart" may happen
    MaxTasks, MaxClaims,   \* bounds: tasks pushed, claims granted
    LastCall, MaxClock     \* no call starts, no second passes, after these

ASSUME TaskConstants ==
    /\ Joiners \subseteq Agents /\ NoAgent \notin Agents
    /\ TTLs \subseteq Nat \ {0} /\ Leases \subseteq Nat /\ DefaultLease \in Nat \ {0}
    /\ Priorities \subseteq Nat
    /\ {MaxTasks, MaxClaims, LastCall, MaxClock} \subseteq Nat

VARIABLES
    clock,       \* the wall clock in whole seconds
    agents,      \* expiry of each agent's registration, 0 without a row
    task,        \* table tasks, by id
    claims,      \* claims granted so far, the source of fresh lease tokens
    told,        \* what each client was told: the claims <<id, token>> it made
    alive,       \* clients that have not crashed
    finished,    \* how many calls were told that they finished the task (a history)
    pc, now,     \* where each agent's call is, and the second it read
    claim, span, \* the claim it shows, and the lease it asks for
    rpc, rnow    \* the reaper

clients == <<told, alive>>
table   == <<task, claims, finished>>
calls   == <<pc, now, claim, span>>
reaper  == <<rpc, rnow>>
vars    == <<clock, agents, table, clients, calls, reaper>>

Ids == 1..MaxTasks
Claims == Ids \X Nat
NoClaim == <<0, 0>>

Record(state, priority, agent, token, expires) ==
    [state |-> state, priority |-> priority, agent |-> agent, token |-> token,
     expires |-> expires]

Absent == Record("absent", 0, NoAgent, 0, 0)

\* A row without a lease: lease_agent, lease_token and lease_expires_at NULL.
Pending(priority) == Record("pending", priority, NoAgent, 0, 0)

Init ==
    /\ clock = 0 /\ agents = [a \in Agents |-> 0]
    /\ task = [i \in Ids |-> Absent] /\ claims = 0 /\ finished = [i \in Ids |-> 0]
    /\ told = [a \in Agents |-> {}] /\ alive = Agents
    /\ pc = [a \in Agents |-> "idle"] /\ now = [a \in Agents |-> 0]
    /\ claim = [a \in Agents |-> NoClaim] /\ span = [a \in Agents |-> 0]
    /\ rpc = "idle" /\ rnow = 0

-----------------------------------------------------------------------------
(* Calls *)

Begin(a, place, c, s) ==
    /\ a \in alive /\ pc[a] = "idle" /\ clock <= LastCall
    /\ pc' = [pc EXCEPT ![a] = place] /\ now' = [now EXCEPT ![a] = clock]
    /\ claim' = [claim EXCEPT ![a] = c] /\ span' = [span EXCEPT ![a] = s]
    /\ UNCHANGED <<clock, agents, table, clients, reaper>>

Return(a) ==
    /\ pc' = [pc EXCEPT ![a] = "idle"] /\ now' = [now EXCEPT ![a] = 0]
    /\ claim' = [claim EXCEPT ![a] = NoClaim] /\ span' = [span EXCEPT ![a] = 0]

\* The id is the next of an autoincrement key.
Push ==
    /\ clock <= LastCall
    /\ \E i \in Ids, p \in Priorities :
          /\ task[i] = Absent /\ \A j \in Ids : j < i => task[j] # Absent
          /\ task' = [task EXCEPT ![i] = Pending(p)]
    /\ UNCHANGED <<clock, agents, claims, finished, clients, calls, reaper>>

\* Mutant: the youngest first.
Youngest(i) ==
    /\ task[i].state = "pending"
    /\ \A j \in Ids \ {i} :
          task[j].state = "pending" =>
             \/ task[j].priority < task[i].priority
             \/ task[j].priority = task[i].priority /\ j < i

\* ORDER BY priority DESC, id ASC.
First(i) ==
    /\ task[i].state = "pending"
    /\ \A j \in Ids \ {i} :
          task[j].state = "pending" =>
             \/ task[j].priority < task[i].priority
             \/ task[j].priority = task[i].priority /\ i < j

\* The bound: every call in flight still has a claim to make.
Room == claims + Cardinality({a \in Agents : pc[a] = "claim"}) < MaxClaims

ClaimCall(a) ==
    /\ Room
    /\ \E s \in Leases : Begin(a, "claim", NoClaim, IF s = 0 THEN DefaultLease ELSE s)

\* SELECT and UPDATE in one transaction.  The answer may get lost.
ClaimNext(a) ==
    /\ pc[a] = "claim"
    /\ \/ \E i \in Ids :
             /\ First(i)
             /\ task' = [task EXCEPT ![i] = Record("claimed", task[i].priority, a,
                                                   claims + 1, now[a] + span[a])]
             /\ claims' = claims + 1
             /\ \/ told' = [told EXCEPT ![a] = @ \cup {<<i, claims + 1>>}]
                \/ "lost" \in Faults /\ UNCHANGED told
       \/ /\ \A i \in Ids : task[i].state # "pending"
          /\ UNCHANGED <<task, claims, told>>
    /\ Return(a)
    /\ UNCHANGED <<clock, agents, finished, alive, reaper>>

\* Mutant: a row that is done still answers to its token.
HeldOrDone(c) == task[c[1]].state # "pending" /\ task[c[1]].token = c[2]

\* Mutant: any token once minted for the task will do.
ClaimedByAnyone(c) == task[c[1]].state = "claimed"

\* state='claimed' AND lease_token=?
Held(c) == task[c[1]].state = "claimed" /\ task[c[1]].token = c[2]

TransitionCall(a) ==
    \E c \in told[a], place \in {"finish", "requeue"} : Begin(a, place, c, 0)

\* Complete, and Fail without requeue, keep the lease columns.
Finish(a) ==
    /\ pc[a] = "finish"
    /\ LET i == claim[a][1]
       IN IF Held(claim[a])
          THEN /\ task' = [task EXCEPT ![i] = Record("done", @.priority, @.agent, @.token, @.expires)]
               /\ finished' = [finished EXCEPT ![i] = @ + 1]
          ELSE UNCHANGED <<task, finished>>
    /\ Return(a)
    /\ UNCHANGED <<clock, agents, claims, clients, reaper>>

Requeue(a) ==
    /\ pc[a] = "requeue"
    /\ task' = IF Held(claim[a])
               THEN [task EXCEPT ![claim[a][1]] = Pending(@.priority)]
               ELSE task
    /\ Return(a)
    /\ UNCHANGED <<clock, agents, claims, finished, clients, reaper>>

RenewCall(a) ==
    \E c \in told[a], s \in Leases \ {0} : Begin(a, "renew", c, s)

RenewLease(a) ==
    /\ pc[a] = "renew"
    /\ LET i == claim[a][1]
       IN task' = IF Held(claim[a]) /\ task[i].expires > now[a]
                  THEN [task EXCEPT ![i] = Record("claimed", @.priority, @.agent, @.token,
                                                  now[a] + span[a])]
                  ELSE task
    /\ Return(a)
    /\ UNCHANGED <<clock, agents, claims, finished, clients, reaper>>

-----------------------------------------------------------------------------
(* The reaper, every second *)

\* Mutant: the second is rounded up.
ReapStartAhead ==
    /\ rpc = "idle"
    /\ rpc' = "update" /\ rnow' = clock + 1
    /\ UNCHANGED <<clock, agents, table, clients, calls>>

ReapStart ==
    /\ rpc = "idle"
    /\ rpc' = "update" /\ rnow' = clock
    /\ UNCHANGED <<clock, agents, table, clients, calls>>

\* Mutant: only the lease counts.
LeaseOver(i) == task[i].state = "claimed" /\ task[i].expires <= rnow

\* Mutant: off by one second.
LapsedEarly(i) ==
    /\ task[i].state = "claimed"
    /\ task[i].expires > rnow => agents[task[i].agent] <= rnow + 1

\* lease_expires_at <= now OR lease_agent NOT IN (the agents present at now)
Lapsed(i) ==
    /\ task[i].state = "claimed"
    /\ task[i].expires > rnow => agents[task[i].agent] <= rnow

\* A statement that fails leaves the tasks for the next tick.
ReapUpdate ==
    /\ rpc = "update"
    /\ \/ task' = [i \in Ids |-> IF Lapsed(i) THEN Pending(task[i].priority) ELSE task[i]]
       \/ "txfail" \in Faults /\ UNCHANGED task
    /\ rpc' = "idle" /\ rnow' = 0
    /\ UNCHANGED <<clock, agents, claims, finished, clients, calls>>

-----------------------------------------------------------------------------
(* The rest of the world *)

\* A heartbeat counts from whatever second its handler had read; the client may
\* have crashed since.
Heartbeat(a) ==
    /\ a \in Joiners
    /\ \E t \in 0..clock, ttl \in TTLs : agents' = [agents EXCEPT ![a] = t + ttl]
    /\ UNCHANGED <<clock, table, clients, calls, reaper>>

\* The row goes: unregistered, or reaped by the presence manager, which may
\* come late enough to hit a renewed registration.
Departs(a) ==
    /\ agents[a] # 0
    /\ agents' = [agents EXCEPT ![a] = 0]
    /\ UNCHANGED <<clock, table, clients, calls, reaper>>

TxFails(a) ==
    /\ "txfail" \in Faults
    /\ pc[a] # "idle"
    /\ Return(a)
    /\ UNCHANGED <<clock, agents, table, clients, reaper>>

\* A client crashes; a call it has in flight goes on.
Dies(a) ==
    /\ "die" \in Faults
    /\ a \in alive /\ alive' = alive \ {a}
    /\ UNCHANGED <<clock, agents, table, told, calls, reaper>>

\* The daemon stops and starts again: both tables are on disk.
Restart ==
    /\ "restart" \in Faults
    /\ pc' = [a \in Agents |-> "idle"] /\ now' = [a \in Agents |-> 0]
    /\ claim' = [a \in Agents |-> NoClaim] /\ span' = [a \in Agents |-> 0]
    /\ rpc' = "idle" /\ rnow' = 0
    /\ UNCHANGED <<clock, agents, table, clients>>

Tick ==
    /\ clock < MaxClock
    /\ clock' = clock + 1
    /\ UNCHANGED <<agents, table, clients, calls, reaper>>

-----------------------------------------------------------------------------

Steps(a) == ClaimNext(a) \/ Finish(a) \/ Requeue(a) \/ RenewLease(a)

Reap == ReapStart \/ ReapUpdate

Next ==
    \/ Push \/ Reap \/ Restart \/ Tick
    \/ \E a \in Agents :
          \/ ClaimCall(a) \/ TransitionCall(a) \/ RenewCall(a) \/ Steps(a)
          \/ Heartbeat(a) \/ Departs(a) \/ TxFails(a) \/ Dies(a)

Spec == Init /\ [][Next]_vars

-----------------------------------------------------------------------------
(* Properties *)

States == {"absent", "pending", "claimed", "done"}

Row == [state : States, priority : Nat, agent : Agents \cup {NoAgent}, token : Nat, expires : Nat]

\* Every variable has its type; whoever compares an expiry with a second
\* compares it with one that has come; and a task has a claimant if and only if
\* it is claimed, or was claimed when it was finished.
TypeOK ==
    /\ clock \in Nat /\ agents \in [Agents -> Nat] /\ claims \in Nat
    /\ task \in [Ids -> Row]
    /\ finished \in [Ids -> Nat]
    /\ told \in [Agents -> SUBSET Claims] /\ alive \subseteq Agents
    /\ pc \in [Agents -> {"idle", "claim", "finish", "requeue", "renew"}]
    /\ now \in [Agents -> Nat] /\ span \in [Agents -> Nat]
    /\ claim \in [Agents -> Claims \cup {NoClaim}]
    /\ rpc \in {"idle", "update"} /\ rnow \in Nat
    /\ rnow <= clock /\ \A a \in Agents : now[a] <= clock
    /\ \A i \in Ids : task[i].agent \in Agents <=> task[i].state \in {"claimed", "done"}

\* A task is finished at most once, for good, however often it was claimed: of
\* all the clients that were ever leased it, one is told that it finished it.
OneFinish ==
    \A i \in Ids : /\ finished[i] <= 1
                   /\ finished[i] = 1 <=> task[i].state = "done"

Ends(i) == task[i].state = "claimed"
           /\ (task'[i].state # "claimed" \/ task'[i].token # task[i].token)

\* A claim ends because its claimant shows its token, or because the reaper
\* finds the lease elapsed or the claimant not present; never through a token
\* of an earlier claim, and never while both the lease and the registration run.
ClaimEnds ==
    [][\A i \in Ids : Ends(i) =>
          \/ /\ rpc = "update" /\ rpc' = "idle"
             /\ task[i].expires <= clock \/ agents[task[i].agent] <= clock
          \/ /\ pc[task[i].agent] \in {"finish", "requeue"} /\ pc'[task[i].agent] = "idle"
             /\ claim[task[i].agent] = <<i, task[i].token>>]_vars

\* What WorkQueue sees of the table.  The row of a task that is not claimed says
\* nothing of a lease.
Waiting  == {i \in Ids : task[i].state = "pending"}
Done     == {i \in Ids : task[i].state = "done"}
Priority == [i \in Ids |-> task[i].priority]
LeaseOf(r) ==
    IF r.state = "claimed"
    THEN [agent |-> r.agent, token |-> r.token, expires |-> r.expires]
    ELSE [agent |-> NoAgent, token |-> 0, expires |-> 0]
Leased   == [i \in Ids |-> LeaseOf(task[i])]
Lengths  == (Leases \ {0}) \cup {DefaultLease}

Work == INSTANCE WorkQueue WITH
            waiting <- Waiting, done <- Done, priority <- Priority, lease <- Leased

\* Whatever calls are in flight, fail, or work with a second or a token that is
\* no longer the present one, every step is one that the abstract queue takes
\* (ClaimNext, transition, RenewLease, reapOnce).
WorkRefined == Work!WorkSpec

-----------------------------------------------------------------------------
(* What a document says and the code does not keep. *)

\* README: "if the claimant doesn't complete_task/fail_task within
\* lease_seconds, the task auto-requeues".  It is requeued at once when its
\* claimant never registered.
LeaseHonoured ==
    [][\A i \in Ids : (Ends(i) /\ rpc = "update" /\ rpc' = "idle") =>
          task[i].expires <= clock \/ task[i].agent \notin alive]_vars
=============================================================================
