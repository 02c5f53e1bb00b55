----------------------------- MODULE Coordination -----------------------------
(***************************************************************************)
(* The managers side by side, as main.go starts them: agents register,     *)
(* lock and work on tasks, and three reapers run.  Presence takes the      *)
(* locks of the agents whose registration lapsed; the task queue reads     *)
(* the agents table and takes back the tasks of the agents it does not     *)
(* find there.                                                             *)
(*                                                                         *)
(* Locks and presence are Presence.  The tasks are an instance of Tasks    *)
(* over the same clock, the same agents table and the same clients.  What  *)
(* Tasks assumes of that table is proved of Presence here.                 *)
(***************************************************************************)
EXTENDS Presence

CONSTANTS
    Leases, DefaultLease, Priorities, MaxTasks, MaxClaims,   \* as in Tasks
    TaskFaults,  \* Faults of Tasks
    LastWork     \* LastCall of Tasks: no call to the queue starts after this second

ASSUME CoordinationConstants ==
    /\ Leases \subseteq Nat /\ DefaultLease \in Nat \ {0} /\ Priorities \subseteq Nat
    /\ {MaxTasks, MaxClaims, LastWork} \subseteq Nat
    /\ {"die", "restart"} \subseteq TaskFaults

VARIABLES
    task, claims, told, finished,       \* as in Tasks
    tpc, tnow, claim, lease,            \* its pc, now, claim and span
    trpc, trnow,                        \* its reaper
    member       \* agents whose last registration they have not taken back (a history)

work == <<task, claims, told, finished, tpc, tnow, claim, lease, trpc, trnow>>
own  == <<locks, restarts, calls, locking, since, reaper, lapsed, member>>
all  == <<vars, work, member>>

T == INSTANCE Tasks WITH
        Joiners <- Agents, TTLs <- Spans \ {0}, NoAgent <- Nobody,
        Faults <- TaskFaults, LastCall <- LastWork,
        pc <- tpc, now <- tnow, span <- lease, rpc <- trpc, rnow <- trnow

CoordInit == Init /\ T!Init /\ member = {}

\* Steps of the clients, of Presence and of the locks.
PresenceStep ==
    /\ (\E a \in Agents : Calls(a)) \/ Reap \/ LockExpires
    /\ member' = {a \in Agents : (a \in member \/ Register(a)) /\ ~Unregister(a)}
    /\ UNCHANGED work

\* Steps of the task queue; it reads the agents table and never writes it.  No
\* tool renews the lease of a task.
TaskStep ==
    /\ \/ T!Push \/ T!Reap
       \/ \E a \in Agents :
             T!ClaimCall(a) \/ T!TransitionCall(a) \/ T!Steps(a) \/ T!TxFails(a)
    /\ UNCHANGED own

\* What happens to all managers at once.
CommonStep ==
    \/ /\ Tick \/ \E a \in Agents : Dies(a)
       /\ UNCHANGED <<work, member>>
    \/ Restart /\ T!Restart /\ UNCHANGED member

CoordNext == PresenceStep \/ TaskStep \/ CommonStep

CoordSpec == CoordInit /\ [][CoordNext]_all

\* The handlers and the reapers of the task queue are scheduled as well.
CoordFairSpec ==
    /\ CoordSpec /\ Fairness
    /\ WF_work(T!Reap) /\ \A a \in Agents : WF_work(T!Steps(a))

-----------------------------------------------------------------------------
(* Properties *)

CoordTypeOK == TypeOK /\ T!TypeOK /\ member \subseteq Agents

\* The agents table that Presence keeps is one that Tasks was checked against:
\* whatever registrations, reapers and failures do to it, the queue sees
\* heartbeats that count from a second of the past, and rows that go.
TasksEnvironment == T!Spec

\* An agent that registered, did not leave, and whose registration has not lapsed
\* since, keeps the tasks it claimed until their leases run out: no late sweep of
\* the presence reaper makes the task reaper believe that it has gone (tasks.go:101,
\* presence.go:71).  An agent that lapsed and came back has this from the moment
\* it registers again, unless the sweep had it on its list by then.
TimelyKeepsWork ==
    [][\A i \in T!Ids :
          (T!Ends(i) /\ trpc = "update" /\ trpc' = "idle") =>
             task[i].expires <= clock \/ task[i].agent \notin member \ lapsed]_all

\* "No work is lost to a crashed worker" (README), here with leases that outlast
\* the run: it is the registration's end that brings the task back.
OrphansReturn ==
    \A i \in T!Ids, a \in Agents :
        (/\ task[i].state = "claimed" /\ task[i].agent = a
         /\ a \notin alive /\ pc[a] = "idle" /\ agents[a] <= MaxClock)
        ~> ~(task[i].state = "claimed" /\ task[i].agent = a)
===============================================================================
