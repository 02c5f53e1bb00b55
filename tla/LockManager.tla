----------------------------- MODULE LockManager -----------------------------
(***************************************************************************)
(* The lock manager of internal/store/locks.go.                            *)
(*                                                                         *)
(* The locks table is the only record of who holds what.  Every access to  *)
(* it is one transaction on one connection (db.go, Store.tx), hence one    *)
(* action.  The wait queues live in memory under a mutex; each section     *)
(* under the mutex is one action too.  Between two such sections anything  *)
(* else may happen, and a handler goes on with what it read before.        *)
(*                                                                         *)
(* A request is a goroutine serving one tool call of one agent, or the     *)
(* reaper of the presence manager (presence.go), which ends the leases of  *)
(* agents that are gone by the very call that unregister_agent makes.      *)
(*                                                                         *)
(* A waiter (a queue slot) is the number of its arrival: the slices only   *)
(* ever grow at the tail and are filtered in place, so a queue is the set  *)
(* of the numbers in it, in increasing order.  The number is its wake      *)
(* token too.                                                              *)
(*                                                                         *)
(* A token is the name it was minted for and the number of the grant.      *)
(***************************************************************************)
EXTENDS Naturals, FiniteSets

CONSTANTS
    Names, Agents, TTLs, NoRow,   \* as in LeaseLock
    Requests,    \* handler goroutines, and presence reapers
    Reapers,     \* the presence reapers among them
    AgentOf,     \* the agent each handler speaks for
    Waits,       \* values clients pass as wait_seconds
    MaxWait,     \* maxWaitSeconds
    Slack,       \* waiterGCSlack
    NoToken,     \* the empty lock_token
    Tools,       \* the calls clients make: "lock", "many", "unlock", "release", "renew"
    Faults,      \* which of "txfail", "disconnect", "crash" and "second" may happen
    MaxGrants, MaxTickets,        \* bounds on the two counters
    LastCall, MaxClock            \* no call starts, no second passes, after these

ASSUME LockConstants ==
    /\ TTLs \subseteq Nat
    /\ Waits \subseteq Nat /\ MaxWait \in Nat /\ Slack \in Nat
    /\ IsFiniteSet(Requests) /\ Reapers \subseteq Requests
    /\ AgentOf \in [Requests -> Agents]
    /\ NoRow \notin [agent : Agents, token : Names \X Nat, expires : Nat]
    /\ NoToken \notin Names \X Nat
    /\ MaxTickets \in Nat /\ LastCall \in Nat /\ MaxClock \in Nat

VARIABLES
    clock,       \* the wall clock in whole seconds (db.go, Now)
    row,         \* table locks
    grants,      \* successful acquisitions so far, so that tokens are fresh
    told,        \* lock tokens granted to each agent
    wakes,       \* wake tokens returned to each agent
    queue,       \* queues[name].waiters
    horizon,     \* waiter.expiresAt
    pending,     \* waiters with a signal in their channel
    tickets,     \* waiters created so far
    pc, arg,     \* where each request is, and its arguments
    now,         \* the second it read before its transaction
    slot,        \* the waiter it is attached to, or is about to signal
    deadline,    \* when its timer fires
    freed,       \* names whose head it still has to wake
    rpc, rnow, heads, rslot   \* the reaper: place, its now, heads left, head to signal

table  == <<row, grants, told>>
waits  == <<queue, horizon, pending, tickets>>
local  == <<arg, now, slot, deadline, freed>>
reaper == <<rpc, rnow, heads, rslot>>
vars   == <<clock, table, wakes, waits, pc, local, reaper>>

Token == Names \X Nat
Row   == [agent : Agents, token : Token, expires : Nat]
Args  == [names : SUBSET Names, ttl : Nat, wait : Nat, wake : Nat, token : Token \cup {NoToken}]
With(S, ttl, wait, wake, token) ==
    [names |-> S, ttl |-> ttl, wait |-> wait, wake |-> wake, token |-> token]
NoArgs == With({}, 0, 0, 0, NoToken)

Init ==
    /\ clock = 0
    /\ row = [n \in Names |-> NoRow] /\ grants = 0
    /\ told = [a \in Agents |-> {}] /\ wakes = [a \in Agents |-> {}]
    /\ queue = [n \in Names |-> {}] /\ horizon = [w \in 1..MaxTickets |-> 0]
    /\ pending = {} /\ tickets = 0
    /\ pc = [p \in Requests |-> "idle"] /\ arg = [p \in Requests |-> NoArgs]
    /\ now = [p \in Requests |-> 0] /\ slot = [p \in Requests |-> 0]
    /\ deadline = [p \in Requests |-> 0] /\ freed = [p \in Requests |-> {}]
    /\ rpc = "idle" /\ rnow = 0 /\ heads = {} /\ rslot = 0

-----------------------------------------------------------------------------
(* Helpers of the handlers. *)

Goto(p, place) == pc' = [pc EXCEPT ![p] = place]

\* The handler answers: its goroutine and everything local to it are gone.
Return(p) ==
    /\ Goto(p, "idle")
    /\ arg' = [arg EXCEPT ![p] = NoArgs]
    /\ now' = [now EXCEPT ![p] = 0]
    /\ slot' = [slot EXCEPT ![p] = 0]
    /\ deadline' = [deadline EXCEPT ![p] = 0]
    /\ freed' = [freed EXCEPT ![p] = {}]

Proceed(p, place) == Goto(p, place) /\ UNCHANGED local

\* A name is free if its row, when it has one, had expired at second t.
FreeAt(n, t) == row[n] # NoRow => row[n].expires <= t

Held(a) == {n \in Names : row[n] # NoRow /\ row[n].agent = a}

\* Mutant: the upsert takes an expired row over without a new token.
AcquireOldToken(p, S) ==
    LET token(n) == IF row[n] # NoRow THEN row[n].token ELSE <<n, grants + 1>>
    IN /\ row' = [n \in Names |->
                     IF n \in S
                     THEN [agent |-> AgentOf[p], token |-> token(n),
                           expires |-> now[p] + arg[p].ttl]
                     ELSE row[n]]
       /\ grants' = grants + 1
       /\ told' = [told EXCEPT ![AgentOf[p]] = @ \cup {token(n) : n \in S}]

\* A transaction writes a fresh lease for each of the names.
Acquire(p, S) ==
    /\ row' = [n \in Names |->
                  IF n \in S
                  THEN [agent |-> AgentOf[p], token |-> <<n, grants + 1>>,
                        expires |-> now[p] + arg[p].ttl]
                  ELSE row[n]]
    /\ grants' = grants + 1
    /\ told' = [told EXCEPT ![AgentOf[p]] = @ \cup {<<n, grants + 1>> : n \in S}]

Delete(S) ==
    /\ row' = [n \in Names |-> IF n \in S THEN NoRow ELSE row[n]]
    /\ UNCHANGED <<grants, told>>

IsHead(n, w) == w \in queue[n] /\ \A v \in queue[n] : w <= v

Clamp(wait) == IF wait > MaxWait THEN MaxWait ELSE wait

\* Mutant: a slot lives as long as the lease it asks for.
HorizonByTTL(ttl, wait) == ttl

\* The reaper must not drop a slot before a client that waited its whole
\* window can have come back.
WaiterHorizon(ttl, wait) ==
    IF wait + Slack > 2 * ttl THEN wait + Slack ELSE 2 * ttl

\* The bounds: every call in flight still has a grant and a ticket to spend.
Acquiring == {p \in Requests : pc[p] \in {"first", "enqueue", "head", "retry", "parked", "many"}}
Arriving == {p \in Requests : pc[p] \in {"first", "enqueue"}}
Room ==
    /\ clock <= LastCall
    /\ grants + Cardinality(Acquiring) < MaxGrants
    /\ tickets + Cardinality(Arriving) < MaxTickets

\* A handler begins: it keeps its arguments and reads the clock.
Begin(p, place, args) ==
    /\ pc[p] = "idle"
    /\ Goto(p, place)
    /\ arg' = [arg EXCEPT ![p] = args]
    /\ now' = [now EXCEPT ![p] = clock]
    /\ UNCHANGED <<clock, table, wakes, waits, slot, deadline, freed, reaper>>

-----------------------------------------------------------------------------
(* lock_resource *)

\* ErrInvalidTTL returns before anything happens; the wait is clamped.  A
\* client re-polls with any wake token its agent was given, on any name.
LockCall(p) ==
    /\ Room
    /\ \E n \in Names, ttl \in TTLs, wait \in Waits, wake \in wakes[AgentOf[p]] \cup {0} :
          /\ ttl > 0
          /\ Begin(p, "first", With({n}, ttl, Clamp(wait), wake, NoToken))

\* The first attempt looks at the row alone, whoever is queued.
LockFirst(p, n) ==
    /\ pc[p] = "first" /\ arg[p].names = {n}
    /\ \/ /\ FreeAt(n, now[p])
          /\ Acquire(p, {n})
          /\ Return(p)
       \/ /\ ~FreeAt(n, now[p]) /\ arg[p].wait = 0
          /\ Return(p)
          /\ UNCHANGED table
       \/ /\ ~FreeAt(n, now[p]) /\ arg[p].wait > 0
          /\ Proceed(p, "enqueue")
          /\ UNCHANGED table
    /\ UNCHANGED <<clock, wakes, waits, reaper>>

\* A wake token still in this queue is resumed where it stands; anything else
\* gets a new slot at the tail.  The request's timer starts.
Enqueue(p, n) ==
    /\ pc[p] = "enqueue" /\ arg[p].names = {n}
    /\ LET found == arg[p].wake \in queue[n]
           w == IF found THEN arg[p].wake ELSE tickets + 1
       IN /\ queue' = [queue EXCEPT ![n] = @ \cup {w}]
          /\ tickets' = IF found THEN tickets ELSE tickets + 1
          /\ horizon' = [horizon EXCEPT ![w] = clock + WaiterHorizon(arg[p].ttl, arg[p].wait)]
          /\ slot' = [slot EXCEPT ![p] = w]
    /\ deadline' = [deadline EXCEPT ![p] = clock + arg[p].wait]
    /\ Goto(p, "head")
    /\ UNCHANGED <<clock, table, wakes, pending, arg, now, freed, reaper>>

\* The loop's test, under the mutex; a head goes on to read the clock.
CheckHead(p, n) ==
    /\ pc[p] = "head" /\ arg[p].names = {n}
    /\ \/ /\ IsHead(n, slot[p])
          /\ now' = [now EXCEPT ![p] = clock]
          /\ Goto(p, "retry")
       \/ /\ ~IsHead(n, slot[p])
          /\ Goto(p, "parked")
          /\ UNCHANGED now
    /\ UNCHANGED <<clock, table, wakes, waits, arg, slot, deadline, freed, reaper>>

\* The head's attempt, in a transaction; the mutex is no longer held.
LockRetry(p, n) ==
    /\ pc[p] = "retry" /\ arg[p].names = {n}
    /\ \/ /\ FreeAt(n, now[p])
          /\ Acquire(p, {n})
          /\ Proceed(p, "dequeue")
       \/ /\ ~FreeAt(n, now[p])
          /\ Proceed(p, "parked")
          /\ UNCHANGED table
    /\ UNCHANGED <<clock, wakes, waits, reaper>>

Dequeue(p, n) ==
    /\ pc[p] = "dequeue" /\ arg[p].names = {n}
    /\ queue' = [queue EXCEPT ![n] = @ \ {slot[p]}]
    /\ horizon' = [horizon EXCEPT ![slot[p]] = 0]
    /\ Return(p)
    /\ UNCHANGED <<clock, table, wakes, pending, tickets, reaper>>

\* Mutant: the timer starts again instead of ending the call.
TimerRearmed(p) ==
    /\ pc[p] = "parked" /\ clock >= deadline[p]
    /\ Goto(p, "head")
    /\ deadline' = [deadline EXCEPT ![p] = clock + arg[p].wait]
    /\ UNCHANGED <<clock, table, wakes, waits, arg, now, slot, freed, reaper>>

\* The select: a signal, the timer, or the end of the client's connection.
Woken(p) ==
    /\ pc[p] = "parked" /\ slot[p] \in pending
    /\ pending' = pending \ {slot[p]}
    /\ Proceed(p, "head")
    /\ UNCHANGED <<clock, table, wakes, queue, horizon, tickets, reaper>>

Timeout(p) ==
    /\ pc[p] = "parked" /\ clock >= deadline[p]
    /\ Proceed(p, "position")
    /\ UNCHANGED <<clock, table, wakes, waits, reaper>>

\* The slot stays.  The answer reaches nobody, so its wake token stays unknown.
Disconnect(p) ==
    /\ "disconnect" \in Faults
    /\ pc[p] = "parked"
    /\ Return(p)
    /\ UNCHANGED <<clock, table, wakes, waits, reaper>>

\* notAcquiredResult: a slot that is gone is not advertised.
ReportPosition(p, n) ==
    /\ pc[p] = "position" /\ arg[p].names = {n}
    /\ wakes' = IF slot[p] \in queue[n]
                THEN [wakes EXCEPT ![AgentOf[p]] = @ \cup {slot[p]}] ELSE wakes
    /\ Return(p)
    /\ UNCHANGED <<clock, table, waits, reaper>>

-----------------------------------------------------------------------------
(* lock_resources: all of the names or none, at once, never queued *)

LockManyCall(p) ==
    /\ Room
    /\ \E S \in SUBSET Names, ttl \in TTLs :
          /\ S # {} /\ ttl > 0
          /\ Begin(p, "many", With(S, ttl, 0, 0, NoToken))

\* Mutant: one free name lets the whole batch through.
LockAny(p) ==
    /\ pc[p] = "many"
    /\ IF \E n \in arg[p].names : FreeAt(n, now[p])
       THEN Acquire(p, arg[p].names)
       ELSE UNCHANGED table
    /\ Return(p)
    /\ UNCHANGED <<clock, wakes, waits, reaper>>

LockMany(p) ==
    /\ pc[p] = "many"
    /\ IF \A n \in arg[p].names : FreeAt(n, now[p])
       THEN Acquire(p, arg[p].names)
       ELSE UNCHANGED table
    /\ Return(p)
    /\ UNCHANGED <<clock, wakes, waits, reaper>>

-----------------------------------------------------------------------------
(* unlock_resource, renew_lock, and the release of all an agent holds *)

\* Mutant: any token once minted for the name will do.
AnyTokenOfName(p, n, tok) ==
    /\ row[n] # NoRow
    /\ tok # NoToken => tok[1] = n
    /\ tok = NoToken => AgentOf[p] = row[n].agent

\* An empty lock token stands for the agent's own name.
Authorised(p, n, tok) ==
    /\ row[n] # NoRow
    /\ tok # NoToken => tok = row[n].token
    /\ tok = NoToken => AgentOf[p] = row[n].agent

\* The row goes in a transaction, expired or not; the wake-up comes later.
Unlock(p) ==
    /\ pc[p] = "idle"
    /\ \E n \in Names, tok \in told[AgentOf[p]] \cup {NoToken} :
          /\ Authorised(p, n, tok)
          /\ Delete({n})
          /\ freed' = [freed EXCEPT ![p] = {n}]
    /\ Goto(p, "wake")
    /\ UNCHANGED <<clock, wakes, waits, arg, now, slot, deadline, reaper>>

\* A handler serves its own agent (unregister_agent); the presence reaper any
\* agent whose registration has lapsed, live leases or not.  Registrations are
\* in Presence; here they may lapse at any time.
Buries(p, a) == a = AgentOf[p] \/ p \in Reapers

ReleaseAgentLocks(p, a) ==
    /\ pc[p] = "idle" /\ Buries(p, a)
    /\ Held(a) # {}
    /\ Delete(Held(a))
    /\ freed' = [freed EXCEPT ![p] = Held(a)]
    /\ Goto(p, "wake")
    /\ UNCHANGED <<clock, wakes, waits, arg, now, slot, deadline, reaper>>

\* wakeHead: who is head is read under the mutex, the signal is sent after.
WakeHead(p, n) ==
    /\ pc[p] = "wake" /\ n \in freed[p]
    /\ freed' = [freed EXCEPT ![p] = @ \ {n}]
    /\ \/ \E w \in queue[n] : /\ IsHead(n, w)
                              /\ slot' = [slot EXCEPT ![p] = w]
                              /\ Goto(p, "send")
       \/ queue[n] = {} /\ UNCHANGED <<slot, pc>>
    /\ UNCHANGED <<clock, table, wakes, waits, arg, now, deadline, reaper>>

Signal(p) ==
    /\ pc[p] = "send"
    /\ pending' = pending \cup {slot[p]}
    /\ slot' = [slot EXCEPT ![p] = 0]
    /\ Goto(p, "wake")
    /\ UNCHANGED <<clock, table, wakes, queue, horizon, tickets, arg, now, deadline, freed, reaper>>

Released(p) ==
    /\ pc[p] = "wake" /\ freed[p] = {}
    /\ Return(p)
    /\ UNCHANGED <<clock, table, wakes, waits, reaper>>

RenewCall(p) ==
    /\ clock <= LastCall
    /\ \E n \in Names, ttl \in TTLs, tok \in told[AgentOf[p]] \cup {NoToken} :
          /\ ttl > 0
          /\ Begin(p, "renew", With({n}, ttl, 0, 0, tok))

\* Renew and RenewByAgent: not found, expired or not owned change nothing.
Renew(p, n) ==
    /\ pc[p] = "renew" /\ arg[p].names = {n}
    /\ row' = IF ~FreeAt(n, now[p]) /\ Authorised(p, n, arg[p].token)
              THEN [row EXCEPT ![n] = [agent |-> row[n].agent, token |-> row[n].token,
                                       expires |-> now[p] + arg[p].ttl]]
              ELSE row
    /\ Return(p)
    /\ UNCHANGED <<clock, grants, told, wakes, waits, reaper>>

-----------------------------------------------------------------------------
(* The reaper, every 250 ms *)

\* Mutant: the second is rounded up.
ReapStartAhead ==
    /\ rpc = "idle"
    /\ rpc' = "delete" /\ rnow' = clock + 1
    /\ UNCHANGED <<clock, table, wakes, waits, pc, local, heads, rslot>>

ReapStart ==
    /\ rpc = "idle"
    /\ rpc' = "delete" /\ rnow' = clock
    /\ UNCHANGED <<clock, table, wakes, waits, pc, local, heads, rslot>>

\* Mutant: expired rows are left to the next acquirer.
ReapNothing ==
    /\ rpc = "delete" /\ rpc' = "sweep"
    /\ UNCHANGED <<clock, table, wakes, waits, pc, local, rnow, heads, rslot>>

\* A transaction that fails leaves the rows for a later tick; the sweep goes on.
ReapDelete ==
    /\ rpc = "delete"
    /\ \/ Delete({n \in Names : FreeAt(n, rnow)})
       \/ "txfail" \in Faults /\ UNCHANGED table
    /\ rpc' = "sweep"
    /\ UNCHANGED <<clock, wakes, waits, pc, local, rnow, heads, rslot>>

\* Mutant: abandoned slots are kept.
SweepKeepsAll ==
    /\ rpc = "sweep" /\ rpc' = "probe"
    /\ heads' = {e \in Names \X (1..MaxTickets) : IsHead(e[1], e[2])}
    /\ UNCHANGED <<clock, table, wakes, waits, pc, local, rnow, rslot>>

\* Under the mutex: drop the abandoned slots, then note who is head of what.
ReapSweep ==
    /\ rpc = "sweep"
    /\ queue' = [n \in Names |-> {w \in queue[n] : horizon[w] > rnow}]
    /\ heads' = {e \in Names \X (1..MaxTickets) :
                    /\ e[2] \in queue'[e[1]]
                    /\ \A v \in queue'[e[1]] : e[2] <= v}
    /\ horizon' = [w \in 1..MaxTickets |-> IF horizon[w] > rnow THEN horizon[w] ELSE 0]
    /\ rpc' = "probe"
    /\ UNCHANGED <<clock, table, wakes, pending, tickets, pc, local, rnow, rslot>>

\* Mutant: only an expired row counts as free, a missing one does not.
ProbeExpiredOnly ==
    /\ rpc = "probe"
    /\ \E e \in heads :
          /\ heads' = heads \ {e}
          /\ IF row[e[1]] # NoRow /\ FreeAt(e[1], rnow)
             THEN rslot' = e[2] /\ rpc' = "signal"
             ELSE UNCHANGED <<rslot, rpc>>
    /\ UNCHANGED <<clock, table, wakes, waits, pc, local, rnow>>

\* lockIsFree, outside any transaction, against the second the sweep began.  A
\* query that fails counts as not free.
ReapProbe ==
    /\ rpc = "probe"
    /\ \E e \in heads :
          /\ heads' = heads \ {e}
          /\ \/ FreeAt(e[1], rnow) /\ rslot' = e[2] /\ rpc' = "signal"
             \/ (~FreeAt(e[1], rnow) \/ "txfail" \in Faults) /\ UNCHANGED <<rslot, rpc>>
    /\ UNCHANGED <<clock, table, wakes, waits, pc, local, rnow>>

ReapSignal ==
    /\ rpc = "signal"
    /\ pending' = pending \cup {rslot}
    /\ rslot' = 0 /\ rpc' = "probe"
    /\ UNCHANGED <<clock, table, wakes, queue, horizon, tickets, pc, local, rnow, heads>>

ReapEnd ==
    /\ rpc = "probe" /\ heads = {}
    /\ rpc' = "idle" /\ rnow' = 0
    /\ UNCHANGED <<clock, table, wakes, waits, pc, local, heads, rslot>>

-----------------------------------------------------------------------------
(* The rest of the world *)

\* A transaction is rolled back and its handler reports the error; a request
\* that had a slot leaves it behind.
TxFails(p) ==
    /\ "txfail" \in Faults
    /\ pc[p] \in {"first", "retry", "many", "renew"}
    /\ Return(p)
    /\ UNCHANGED <<clock, table, wakes, waits, reaper>>

\* The daemon stops and starts again: the table is on disk, the queues and
\* the goroutines are not.  Clients remember their tokens.
Crash ==
    /\ "crash" \in Faults
    /\ queue' = [n \in Names |-> {}] /\ horizon' = [w \in 1..MaxTickets |-> 0]
    /\ pending' = {}
    /\ pc' = [p \in Requests |-> "idle"] /\ arg' = [p \in Requests |-> NoArgs]
    /\ now' = [p \in Requests |-> 0] /\ slot' = [p \in Requests |-> 0]
    /\ deadline' = [p \in Requests |-> 0] /\ freed' = [p \in Requests |-> {}]
    /\ rpc' = "idle" /\ rnow' = 0 /\ heads' = {} /\ rslot' = 0
    /\ UNCHANGED <<clock, table, wakes, tickets>>

\* A second daemon on the same file reaps before it finds the port taken: its
\* lock manager expired rows, its presence manager those of a lapsed agent.  Its
\* queues are empty: it wakes nobody.
SecondDaemon ==
    /\ "second" \in Faults
    /\ \/ \E t \in 0..clock : Delete({n \in Names : FreeAt(n, t)})
       \/ \E a \in Agents : Delete(Held(a))
    /\ UNCHANGED <<clock, wakes, waits, pc, local, reaper>>

\* After LastCall the clock waits for the calls that are about to enqueue or to
\* set an expiry, so that every deadline and expiry comes before MaxClock.
Tick ==
    /\ clock < MaxClock
    /\ clock <= LastCall \/ \A p \in Requests : pc[p] \notin {"first", "enqueue", "many", "renew"}
    /\ clock' = clock + 1
    /\ UNCHANGED <<table, wakes, waits, pc, local, reaper>>

-----------------------------------------------------------------------------

\* What clients ask for; a presence reaper only ever releases.
Calls(p) ==
    \/ /\ p \notin Reapers
       /\ \/ "lock" \in Tools /\ LockCall(p)
          \/ "many" \in Tools /\ LockManyCall(p)
          \/ "renew" \in Tools /\ RenewCall(p)
          \/ "unlock" \in Tools /\ Unlock(p)
    \/ "release" \in Tools /\ \E a \in Agents : ReleaseAgentLocks(p, a)

\* What a request does of its own accord, and the scheduler lets it do.
Steps(p) ==
    \/ \E n \in Names :
          \/ LockFirst(p, n) \/ Enqueue(p, n) \/ CheckHead(p, n) \/ LockRetry(p, n)
          \/ Dequeue(p, n) \/ ReportPosition(p, n) \/ WakeHead(p, n) \/ Renew(p, n)
    \/ LockMany(p) \/ Signal(p) \/ Released(p)

Reap == ReapStart \/ ReapDelete \/ ReapSweep \/ ReapProbe \/ ReapSignal \/ ReapEnd

Next ==
    \/ \E p \in Requests :
          Calls(p) \/ Steps(p) \/ Woken(p) \/ Timeout(p) \/ Disconnect(p) \/ TxFails(p)
    \/ Reap
    \/ Crash
    \/ SecondDaemon
    \/ Tick

Spec == Init /\ [][Next]_vars

\* The runtime schedules every goroutine, the ticker fires and time passes.  A
\* select with several ready cases picks among them at random, hence the
\* separate fairness of the signal and of the timer.
Fairness ==
    /\ \A p \in Requests : WF_vars(Steps(p)) /\ WF_vars(Woken(p)) /\ WF_vars(Timeout(p))
    /\ WF_vars(Reap)
    /\ WF_vars(Tick)

FairSpec == Spec /\ Fairness

-----------------------------------------------------------------------------
(* Properties *)

TableType ==
    /\ clock \in Nat /\ grants \in Nat
    /\ row \in [Names -> Row \cup {NoRow}]
    /\ told \in [Agents -> SUBSET Token]
    /\ wakes \in [Agents -> SUBSET Nat]

QueueType ==
    /\ queue \in [Names -> SUBSET Nat]
    /\ horizon \in [1..MaxTickets -> Nat]
    /\ pending \subseteq Nat
    /\ tickets \in Nat

Places == {"idle", "first", "enqueue", "head", "retry", "dequeue", "parked", "position",
           "many", "renew", "wake", "send"}

RequestType ==
    /\ pc \in [Requests -> Places]
    /\ arg \in [Requests -> Args]
    /\ now \in [Requests -> Nat]
    /\ slot \in [Requests -> Nat]
    /\ deadline \in [Requests -> Nat]
    /\ freed \in [Requests -> SUBSET Names]

ReaperType ==
    /\ rpc \in {"idle", "delete", "sweep", "probe", "signal"}
    /\ rnow \in Nat /\ rslot \in Nat
    /\ heads \subseteq Names \X Nat

\* Nobody compares an expiry with a second that has not come yet.
ClocksBehind == (\A p \in Requests : now[p] <= clock) /\ rnow <= clock

\* Every variable has its type, and every second that a handler or the reaper
\* has read lies in the past.
TypeOK == TableType /\ QueueType /\ RequestType /\ ReaperType /\ ClocksBehind

\* A token is known to one agent only, never beyond the last grant, and the
\* token of a row is known to the agent that the row names: what a request
\* can show as its token never opens another agent's lease.
TokensOwned ==
    /\ \A a \in Agents : \A t \in told[a] : t[2] <= grants
    /\ \A a, b \in Agents : a # b => told[a] \cap told[b] = {}
    /\ \A n \in Names : row[n] # NoRow => row[n].token \in told[row[n].agent]

\* A call in progress carries one of the lease lengths a client may ask for.
ArgsValid ==
    \A p \in Requests :
        pc[p] \in {"first", "enqueue", "head", "retry", "parked", "many", "renew"}
            => arg[p].ttl \in TTLs

\* The detailed lock manager implements the abstract lease: whatever the
\* requests and the reaper read before their transactions, a name is granted
\* only over no lease or an expired one, and always under a fresh token.
Lease == INSTANCE LeaseLock WITH clock <- clock, row <- row, grants <- grants
LeaseRefined == Lease!LeaseSpec

\* A lease that has not expired ends in two ways only: a request of the agent
\* that holds it gives it up; or a presence reaper ends it, without any handler
\* or the lock manager's own reaper, and with it every other lease of that agent
\* and none of anybody else's.  No stale token, no batch, no sweep that started
\* long ago takes it away.
Buried(a) ==
    /\ \A p \in Requests \ Reapers : pc'[p] = pc[p]
    /\ rpc' = rpc
    /\ row' = [n \in Names |-> IF n \in Held(a) THEN NoRow ELSE row[n]]

OwnerEndsLease ==
    [][\A n \in Names :
          (/\ row[n] # NoRow /\ row[n].expires > clock
           /\ row'[n] = NoRow \/ row'[n].token # row[n].token)
          => \/ \E p \in Requests \ Reapers :
                   /\ AgentOf[p] = row[n].agent
                   /\ pc[p] = "idle" /\ pc'[p] = "wake" /\ n \in freed'[p]
             \/ Buried(row[n].agent)]_vars

\* A request that is served within its window plus the slack still has its
\* slot, and the head it saw itself be before it went to the table is still
\* the head when it acquires there: no sweep and no other request has removed
\* or overtaken it meanwhile.  (Each agent has one call in flight at a time.)
AttachedKeepsPlace ==
    \A p \in Requests, n \in Names :
        (/\ pc[p] \in {"head", "retry", "dequeue", "parked", "position"}
         /\ arg[p].names = {n}
         /\ clock < deadline[p] + Slack)
        => /\ slot[p] \in queue[n]
           /\ pc[p] \in {"retry", "dequeue"} => IsHead(n, slot[p])

\* Every call whose window ends before time does returns, whatever the others
\* do: no request waits on another longer than its own window.
CallsReturn ==
    \A p \in Requests : (pc[p] # "idle" /\ clock + arg[p].wait <= MaxClock) ~> pc[p] = "idle"

\* The lease of a holder that is gone does not stay in the table.
ExpiredRowsGo ==
    \A n \in Names :
        (row[n] # NoRow /\ row[n].expires <= clock) ~> (row[n] = NoRow \/ row[n].expires > clock)

Attached(w) == \E p \in Requests :
    slot[p] = w /\ pc[p] \in {"head", "retry", "dequeue", "parked", "position"}

\* A slot whose client never comes back leaves the queue once its horizon is
\* past, if time gets that far.
AbandonedSlotsGo ==
    \A n \in Names, w \in 1..MaxTickets :
        (w \in queue[n] /\ ~Attached(w) /\ horizon[w] <= MaxClock)
        ~> (w \notin queue[n] \/ Attached(w))

\* A request parked at the head of a free lock does not sleep on: some signal
\* reaches it, even when the one the release sent went to a slot that had just
\* left the queue.  (Windows that outlast the run make the timer no help.)
HeadIsWoken ==
    \A p \in Requests, n \in Names :
        (/\ pc[p] = "parked" /\ arg[p].names = {n}
         /\ IsHead(n, slot[p]) /\ row[n] = NoRow)
        ~> (pc[p] # "parked" \/ row[n] # NoRow)

=============================================================================
