------------------------------- MODULE WorkQueue -------------------------------
(***************************************************************************)
(* What the task queue promises, without calls, transactions or reapers.   *)
(* A task waits, is leased to one claimant, or is done for good.  A lease  *)
(* is a claimant, a token and the second at which it expires.  Whoever     *)
(* asks for work is given the most urgent task that waits, the oldest of   *)
(* those.  A claimant that knows its token may keep the task for longer,   *)
(* finish it or give it back; nobody else can.  A task is taken from its   *)
(* claimant only when the lease has expired or the claimant is not         *)
(* present, and then it waits again, as urgent as before.                  *)
(*                                                                         *)
(* Handlers read the clock before they get the one database connection, so *)
(* a lease may count from any second up to the present.                    *)
(***************************************************************************)
EXTENDS Naturals

CONSTANTS
    Agents,
    NoAgent,     \* the claimant of a task that has none
    Priorities,
    Lengths,     \* how long leases may be, in seconds
    MaxTasks     \* bound: tasks pushed

VARIABLES
    clock,       \* the wall clock in whole seconds
    agents,      \* until when each agent is present
    waiting,     \* the tasks that wait
    done,        \* the tasks that are done
    priority,    \* how urgent each task is
    lease,       \* of each task, the lease or NoLease
    claims,      \* claims granted so far, the source of fresh tokens
    told         \* the claims <<id, token>> that each agent knows of

workVars == <<clock, agents, waiting, done, priority, lease, claims, told>>

Ids == 1..MaxTasks

Lease(a, n, e) == [agent |-> a, token |-> n, expires |-> e]

NoLease == Lease(NoAgent, 0, 0)

Leased(i) == lease[i] # NoLease

Pushed(i) == i \in waiting \/ i \in done \/ Leased(i)

WorkInit ==
    /\ clock = 0 /\ agents = [a \in Agents |-> 0]
    /\ waiting = {} /\ done = {} /\ priority = [i \in Ids |-> 0]
    /\ lease = [i \in Ids |-> NoLease]
    /\ claims = 0 /\ told = [a \in Agents |-> {}]

Advance ==
    /\ clock' = clock + 1
    /\ UNCHANGED <<agents, waiting, done, priority, lease, claims, told>>

\* Agents come and go as they please.
ComeAndGo ==
    /\ agents' \in [Agents -> Nat]
    /\ UNCHANGED <<clock, waiting, done, priority, lease, claims, told>>

\* Identifiers are given out in order.
Add(i, p) ==
    /\ ~Pushed(i) /\ \A j \in Ids : j < i => Pushed(j)
    /\ waiting' = waiting \cup {i} /\ priority' = [priority EXCEPT ![i] = p]
    /\ UNCHANGED <<clock, agents, done, lease, claims, told>>

\* The most urgent task that waits, and the oldest of those.
Foremost(i) ==
    /\ i \in waiting
    /\ \A j \in waiting \ {i} :
          \/ priority[j] < priority[i]
          \/ priority[j] = priority[i] /\ i < j

\* Its claimant learns of the claim, or the answer is lost.
Claim(i, a, t, s) ==
    /\ Foremost(i)
    /\ waiting' = waiting \ {i} /\ claims' = claims + 1
    /\ lease' = [lease EXCEPT ![i] = Lease(a, claims + 1, t + s)]
    /\ told' \in {told, [told EXCEPT ![a] = @ \cup {<<i, claims + 1>>}]}
    /\ UNCHANGED <<clock, agents, done, priority>>

\* The claimant knows the token of its lease.
Known(i) == Leased(i) /\ <<i, lease[i].token>> \in told[lease[i].agent]

\* A lease that has not expired yet runs for longer, under the same token.
Extend(i, t, s) ==
    /\ Known(i) /\ lease[i].expires > t
    /\ lease' = [lease EXCEPT ![i].expires = t + s]
    /\ UNCHANGED <<clock, agents, waiting, done, priority, claims, told>>

Complete(i) ==
    /\ Known(i)
    /\ lease' = [lease EXCEPT ![i] = NoLease] /\ done' = done \cup {i}
    /\ UNCHANGED <<clock, agents, waiting, priority, claims, told>>

GiveBack(i) ==
    /\ Known(i)
    /\ lease' = [lease EXCEPT ![i] = NoLease] /\ waiting' = waiting \cup {i}
    /\ UNCHANGED <<clock, agents, done, priority, claims, told>>

\* Some leases have expired, or their claimants are not present.
Lapse(S) ==
    /\ \A i \in S : Leased(i) /\ (lease[i].expires <= clock \/ agents[lease[i].agent] <= clock)
    /\ lease' = [i \in Ids |-> IF i \in S THEN NoLease ELSE lease[i]]
    /\ waiting' = waiting \cup S
    /\ UNCHANGED <<clock, agents, done, priority, claims, told>>

WorkNext ==
    \/ Advance \/ ComeAndGo
    \/ \E i \in Ids, p \in Priorities : Add(i, p)
    \/ \E i \in Ids, a \in Agents, t \in 0..clock, s \in Lengths : Claim(i, a, t, s)
    \/ \E i \in Ids, t \in 0..clock, s \in Lengths : Extend(i, t, s)
    \/ \E i \in Ids : Complete(i) \/ GiveBack(i)
    \/ \E S \in SUBSET Ids : Lapse(S)

WorkSpec == WorkInit /\ [][WorkNext]_workVars
===============================================================================
