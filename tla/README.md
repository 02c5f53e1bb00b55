# Airlock in TLA+

A verification project for the Go daemon in this repository (module `airlock`,
called `agentpeek` in places): a single process that gives coding agents locks,
notes, counters, presence, events and a task queue over HTTP.

Contents: [the system](#1-the-system), [the modules](#2-the-modules),
[the runs](#3-the-runs), [fairness](#4-fairness), [the proofs](#5-the-proofs),
[what is not modelled](#6-not-modelled), [the plan](#7-plan).

## 1. The system

Every tool call is a goroutine. It decodes its arguments (`internal/mcp`), calls
one manager (`internal/store`) and answers. The managers share one SQLite
connection (`db.go`, `SetMaxOpenConns(1)`), so every statement outside a
transaction and every transaction is atomic; nothing holds a transaction while
it waits. Three goroutines, the reapers, tick beside the handlers.

| component | state | operations | hard behaviour | what makes it correct |
|---|---|---|---|---|
| lock manager, `locks.go` | table `locks`; in memory one FIFO queue of waiters per name, each with a channel of one signal | lock (blocking), lock many, unlock, renew (by token, by agent), release all of an agent, reaper each 250 ms | the second is read before the transaction; head-of-queue is read under the mutex and used after it; slots outlive calls; restarts drop queues and keep rows | a live lease ends only at its owner's hand, or with all of the owner's leases at the presence reaper's; fresh tokens; batches whole or not at all; slots kept while they matter and dropped when they do not; the head of a free lock is woken |
| events, `events.go` | table `events` (generation); in memory one broadcast channel per name | signal, wait, clear | commit and broadcast are separate; a wait captures the channel and then reads | no lost wake-up; no missed signal between calls |
| tasks, `tasks.go` | table `tasks` | push, claim, complete, fail, renew lease, reaper each second | stale tokens; claims bound to a lease and to presence | finished once; a claim ends only at its worker's hand or when the worker is gone; orphans come back |
| presence, `presence.go` | table `agents` | register, unregister, reaper each second, which calls the lock manager | query and action of the reaper are separate transactions; errors are ignored | dead agents' locks go; an agent that renews in time keeps its own |
| notes and counters, `notes.go` | tables `notes`, `counters` | set, set-if, get, delete, increment | the second is read before the transaction; answers are delayed or lost | swaps name what they replace; callers that add never share a number |
| store, `db.go` | the file | transaction, clock | rollback | all or nothing |
| daemon, `main.go` | place in `runDaemon`, the context, three reapers | start, stop, join, close | errors on every path; a shutdown of five seconds against waits of fifty; two daemons on one port, file and token | reapers joined before the store closes; stops end; the token file is the serving process's |
| server, `internal/mcp/server.go` | listener, token file | checks of a request, envelope, shutdown, first start | client disconnects, processes that race for the file | requests are checked in order |
| tool handler, `handler.go`, `tools.go` | none | 22 tools: decode, insist, call | schemas and handlers kept in two places; float to int, minutes to seconds | they agree; a lifetime lasts as long as it was asked for, unless the agent ends it or is taken for dead |
| status, `internal/cli` | none (reader) | six queries | not one snapshot | |
| service install, `internal/service` | unit file | write, enable, remove; `Restart=always` | the port may be taken | an installed service comes back |

Interaction: `presence.go` calls `LockManager.ReleaseAgentLocks`; `tasks.go` reads
the table `agents` in its reaper; a lost connection cancels the context a blocked
`Lock` or `Wait` selects on; the daemon's context stops the reapers.

The hazards found in reading are listed with their lines in `PROJECT.json`.

## 2. The modules

| module | what it is |
|---|---|
| `LeaseLock` | the abstract promise of the lock manager: names with leases, granted over nothing or over an expired lease, under fresh tokens |
| `LockManager` | `locks.go` in full detail; `MCLockManager` gives each request an agent of its own and the symmetry |
| `LockGhost` | `LockManager` with a history of the reaper's sweeps (`MCLockGhost` instantiates it) |
| `Events` | `events.go`, one event |
| `WorkQueue` | the abstract promise of the task queue: tasks wait, are leased to a claimant or are done; the most urgent and oldest goes first; a lease is taken only when it has expired or its claimant is gone |
| `Tasks` | `tasks.go`, one queue, with the part of `presence.go` its reaper reads (`MCTasks`: symmetry) |
| `Presence` | `presence.go` beside the part of the lock table it changes |
| `Notes` | `notes.go`, one key and one counter (`MCNotes`: negative steps, symmetry) |
| `Coordination` | `Presence` and an instance of `Tasks` over one clock, one `agents` table and the same clients: what the three managers do to each other |
| `Daemon` | `runDaemon`, `Server.Start`, `EnsureTokenFile`, the reapers' goroutines and the systemd unit, for several processes |
| `ToolCalls` | `server.go`'s checks, `handler.go`'s methods, the 22 tools of `tools.go`, over the row of one lock and the registered agents |
| `...Proofs` | the theorems about the module of that name |

### How state and actions correspond to the code

*Grain.* One action is one transaction, one section under a mutex, or one event
of a `select`. A handler that reads the clock and then opens a transaction is two
actions with the second it read in `now`. The reapers are cut the same way
(`rpc`, `rnow`). This matters: most of the hazards live in those gaps.

*Time.* `clock` is `time.Now().Unix()`: whole seconds, compared as the code does
(`expires_at <= now` is expired). It never runs backwards: the model assumes no
clock is set back.

*Locks.* `row` is the table. A token is the name with the number of the grant
instead of 128 random bits: freshness is assumed of `crypto/rand`. Waiters only
ever join a queue at its tail and the reaper filters in place, so a queue is the
set of its waiters' arrival numbers and its head the least; the number doubles as
wake token. `told` and `wakes` are what clients know: they show any token they
were ever given, however old. `pending` is the set of waiters whose one-place
channel is full. `pc` is `first` (before the first `tryAcquire`), `enqueue`, `head`
(before the loop's test), `retry` (between `isHead` and the transaction), `dequeue`
(between the grant and the removal of the slot), `parked` (the `select`), `position`
(`notAcquiredResult`), `wake`/`send` (the two halves of `wakeHead`), `many`, `renew`.
The reaper's places are `delete`, `sweep`, `probe`, and `signal`. `Reapers` are requests that no
client makes: the presence reaper's calls of `ReleaseAgentLocks` (`presence.go:92`). They name any
agent at any time, whether its leases have expired or not, and wake the heads as an
`unregister_agent` does; which agents are really dead is `Presence`'s business.

*Events.* A captured channel is the registered, open one or closed: `listening` is
the set of waiters that hold an open one. `known` and `news` are the clients' side.

*Tasks.* `task` is the table; `told` the leases each client was given; `finished`
counts the clients told they completed a task. `fail_task` without requeue moves a
task to `done` as `complete_task` does, so both are `Finish`. `WorkQueue` sees of the table
which tasks wait, which are done, and the lease of a claimed row (`Waiting`, `Done`, `Leased`): the
columns of a row that is not claimed say nothing. Its steps have no calls, no seconds read
ahead of a transaction other than "some second up to now", and no reaper.

*Presence.* `agents` is the table, 0 for no row. `locking` marks a lock call in
flight and `since` when it began; `lapsed` is the history of the agents whose
registration ran out and that have not registered again since, or did so only when the sweep
under way had them on its list already. Locks are steps of `LeaseLock` itself, which `LockManager` is shown
to implement; the reaper of `locks.go` is its `Expire`. The waiters' side of the lock manager plays no part and is left out.

*Notes.* `note.expires = 0` stands for NULL. `number` is the value an increment
read back; `numbers` and `answers` are the history of those that arrived, and `epoch` counts the
increments by zero or less: `by` may be negative (`tools.go:173`), so a counter may come back to a
number it had. `MaxInt` stands for the largest 64-bit integer: beyond it, and below `-MaxInt-1`,
SQLite's sum is a float, which cannot be scanned into the `int64`, so the transaction rolls
back (`Overflow`).

*Coordination.* `Presence` keeps the table `agents`; `T!`, the instance of `Tasks`, reads it.
`Tasks` alone has an environment of its own (`Heartbeat`, `Departs`) that changes the
table; `TasksEnvironment` says that `Presence`, with its reaper, failures and slow handlers, is
such an environment, so what holds of `Tasks` holds here. `Restart` stops all managers at once.

*Daemon.* `pc` is the place in `runDaemon`: `open`, `token`, `mint`/`write` (the two halves of
`os.WriteFile`), `bind`, `probe` (`reportPortInUse`), `serve`, `drain` (`Shutdown`), `return`
(the deferred function), `join`, `exit`. Any process may be stopped, killed or fail at any
of them. A reaper is `idle` in its `select`, inside a `sweep`, or `gone`. `working` and `parked`
are requests in handlers; `Shutdown` does not cancel their contexts. `raced` marks the
processes that looked for a token while another minted one.

*ToolCalls.* An argument is absent or a value of some JSON kind; Go's `int` is scaled to
`-MaxInt-1..MaxInt` and arithmetic wraps. A number is read into a `float64`, which beyond 2^53
(`Exact`) does not hold every integer (`Double`). A float with no int becomes what the build
makes of it, the nearest or the least (`saturates`, chosen once). `And` joins tables of
tools as `@@` of the module TLC would, which the provers do not know. `until` is the end of the
lifetime the holder asked for, in the schema's words, computed without any wrap from the
number as it was read. `registered` is whose rows are in the table `agents`; any of them may be found
expired at any time (`AgentReaped`).

*Failures.* A failing transaction (`TxFails`, `Fails`) changes nothing and returns an
error. The reapers ignore theirs: the lock reaper goes on to its sweep and its probes, which
take a name they cannot read for one that is held (`ReapDelete`, `ReapProbe`), the task reaper waits for
its next tick (`ReapUpdate`), and the presence reaper gives up its sweep when the query
fails, but not when a release does (`ReapQuery`, `ReapRelease`, `ReapRemove`). A wait whose read fails
returns with the error (`ReadFails`). `Disconnect` and `Lost` break a connection, `Dies`
stops a client for good, `Crash` and `Restart` stop the daemon: memory is lost,
tables stay, clients remember.

## 3. The runs

| run | checks | what it shows |
|---|---|---|
| `LockQueue` | `TypeOK`, `AttachedKeepsPlace` | three agents wait, re-poll and unlock one name, and a presence reaper releases their locks: a request within its window plus slack has its slot, and is still head when it acquires as head |
| `LockFaults` | `TokensOwned`, `LeaseRefined`, `OwnerEndsLease` | all tools and all faults over two names, the presence reaper and both reapers of a second daemon on the same file included: `LockManager` implements `LeaseLock`, batches included, and a live lease ends at its owner's hand or with all of its agent's leases at a presence reaper's |
| `LockLive` | `CallsReturn`, `ExpiredRowsGo`, `AbandonedSlotsGo`, `HeadIsWoken` | calls return; dead leases and abandoned slots go; a parked head of a free lock gets a signal (some windows outlast the run, so the timer does not help) |
| `EventsWait` | `TypeOK`, `NoLostWakeup`, `NoMissedSignal`, `SignalWakes` | signals, clears, broken connections, restarts; no window has to end |
| `TasksSafe` | `TypeOK`, `OneFinish`, `ClaimEnds`, `WorkRefined` | `Tasks` implements `WorkQueue` under failed transactions, lost answers, clients that crash, restarts |
| `NotesSafe` | `TypeOK`, `NumbersUnique`, `LiveNoteKept` | two clients, all operations, all faults, steps up, down and by zero, a counter that overflows at both ends |
| `Coordination` | `CoordTypeOK`, `TimelyKeepsLocks`, `TimelyKeepsWork`, `TasksEnvironment`, `DeadRecovered`, `OrphansReturn` | an agent whose registration does not lapse keeps locks and tasks, also past the expiry of an earlier registration; one that crashed loses both though its own TTLs and leases would last, also when the daemon restarts in the middle of a sweep; the composition implements `Tasks` |
| `Daemon` | `TypeOK`, `NoReaperMidQuery`, `ServesFile`, `GraceKept`, `Stops`, `Returns` | a service and a process started by hand, with one fault |
| `ToolCalls` | `TypeOK`, `SchemaMatches`, `LifetimeKept` | every tool under every combination of absent, mistyped, empty and extreme arguments: only named agents hold locks, and for as long as they asked |

Three more runs check what a comment or a document says and the code does not do;
TLC finds a counterexample in each.

| run | the statement | the code |
|---|---|---|
| `LockGhostSlot` | "wakes it the instant the lock frees" (`README.md:39`) | a re-poll that wins at its first attempt (`locks.go:220`) leaves its slot behind, and the next waiter sleeps its whole window on a free lock |
| `TasksUnregistered` | a task is requeued after `lease_seconds` (`README.md:178`) | an unregistered claimant loses it at the next tick (`tasks.go:110`) |
| `PresenceTransient` | "a transient failure just leaves the agent to be reaped on the next tick" (`presence.go:64`) | the row goes though the release failed (`presence.go:92`) |

Some statements are looser than they read, and the models have the steps that show
it. No run is spent on them; the properties are worded around them.

- A renewal (`locks.go:625`, `682`) and a swap (`notes.go:130`) read the second before their
  transaction, so either can match a lease or a note that expired meanwhile, which
  `locks.go:645` and `notes.go:116` exclude. `LeaseLock` lets `Extend` do so; `LiveNoteKept`
  speaks of live notes.
- "We only return Locked if WE are the FIFO head" (`locks.go:244`) is true of the loop; the
  first attempt (`locks.go:220`) comes before the queue and may overtake it.
- "A signal that fired between calls is never missed" (`README.md:166`) holds until the event
  is cleared, which starts generations over (`events.go:168`): a client that remembers an older,
  larger generation sleeps through signals. `NoMissedSignal` excepts it (`stale`) until it is
  told something after the clear, so it says nothing of that hazard.
- The presence reaper does not look again before it acts (`presence.go:71`, `92`), so an agent
  that lapsed and came back in between loses its locks. `TimelyKeepsLocks` and `TimelyKeepsWork` except
  what that one sweep does, and hold again for the agent afterwards (`lapsed`).
- A lease that has not expired is ended by the presence reaper, whatever lifetime was asked for,
  when the registration of its agent ran out (`presence.go:92`); `OwnerEndsLease` and `LifetimeKept`
  say so.
- The grace of a shutdown is five seconds: after it the store closes under handlers that are still
  parked (`server.go:150`). `GraceKept` speaks of the time before (`over`).
- "Exactly one of Result or Error is populated" (`server.go:311`): a `notifications/initialized`
  sent with an id gets a 200 with neither (`handler.go:61`), as in `Envelope`.
- `renew_lock` declares only `name` required (`tools.go:107`) and refuses a call without
  `lock_token` and `agent_id`. `SchemaMatches` excepts it. An empty text keeps to the
  words of every schema and is refused as an identifier; `Conforms` asks for one that is not.
- An expiry that leaves 64 bits wraps, and the lease is expired at birth (`locks.go:289`);
  `ttl_seconds: 0.5` is 0 and refused; a text as `ttl_seconds` is silently the default
  (`argInt`), a number as `value` silently `""` (`argStr`). `LifetimeKept` speaks of whole
  numbers whose end is an int; that leases beyond that are cut short is a hazard no property covers.
- A process killed between creating the token file and writing it leaves an empty file,
  whose content, nothing, later starts take for the token (`server.go:359`). In the model
  that is `Empty`, and `ServesFile` still holds.

### Bounds

Every bound is a constant in a guard. `MaxGrants` and `MaxTickets` bound the locks'
counters; a call starts only when the grants and tickets that calls in flight may
still need are left over (`Room`), so no call in progress is cut short by a bound.
`LastCall` and `MaxClock` bound time. In the liveness runs `MaxClock` lies past every
deadline, expiry and horizon that can arise (the clock waits for a call that is
about to set one), so nothing is left hanging because time ends. The one exception
is meant: the window of nine seconds in `LockLive` never ends, and `CallsReturn` and
`AbandonedSlotsGo` say so in their premises. `MaxGen`, `MaxTasks`,
`MaxClaims`, `MaxInt` and `MaxFaults` do the same for their counters.

Why so small is enough: names, keys, events and queues share no state except that a
batch takes several names (`LockFaults` has two). An overtaking, an abandoned slot or a
stale token needs two agents; a queue in which somebody stands behind a head that is
not the newcomer needs three (`LockQueue`). Times are only compared, so the runs get by with TTLs
of one or two seconds. `MaxWait` (50 in the code) and `Slack` (30) are constants
because only the order of the times they produce matters; `Waits = {0, 2}` over
`MaxWait = 1` exercises the clamp. Two grants let a lease lapse, pass on, and its old token be shown.
In `LockFaults` the presence reaper is a third request beside two agents; it has one ticket, and leaves
re-polls with a wake token to `LockQueue` and `LockLive`. Its agents have one call each at a time: two calls of one agent that share a slot
(`locks.go:383`) are met by the theorems only. In `LockQueue` the clock ends soon after the first horizons,
so sweeps take few slots; `KeepsPlace` proves the property for any clock. `LockLive` has no
failing transactions, since a reaper whose transactions always fail would delete nothing: its
liveness is that of a database that answers. Of presence reapers it has only a second daemon's.

`TasksSafe` has two tasks of one priority, so a queue is seen in which a requeued task is older than
the one that waits; two priorities put it out of reach, and that urgency comes before age is
left to the theorem, which holds for any priorities. Its leases are
of one second, asked for, or of the default, and both lapse inside the run.

`Coordination` has one agent, one name and one task: its properties relate the three reapers
and the calls of one agent, and other agents only meet it in the tables, which the runs
of the single managers show. Calls to the queue start in the first second (`LastWork`), and are
answered in any. Registrations last two seconds (`Spans`), so that one made in the first second and
renewed in the next outlives the first one's expiry at the last second of the run, while both reapers
look. Its leases (`lease_seconds` 0, the default of 5) outlast the run, so that a
task can only come back because its agent went. `Daemon` has one reaper per process, one
client and one fault: the three reapers have the same code and share nothing, and one
fault already puts a process at each of its places on the way out (the safety properties
were also run with two reapers and two faults). `ToolCalls` has `MaxInt = 15`, a
minute of 3 seconds and numbers on both sides of every wrap: 6 minutes and 20 seconds leave
the int, and 11, which no float of the model holds beyond `Exact = 8`, is read as 12, whose minutes
wrap all the way round to a small positive number. `NotesSafe` has steps of -2, 0 and 1 over
-3..2, and one increment by zero or less that is committed (`MaxEpochs`): a number comes back across
it, and a second step of -2 leaves the integers.

## 4. Fairness

`LockManager`: weak fairness of each request's own steps, since the runtime schedules
every goroutine; of `Woken` and of `Timeout` separately, since a `select` with several
ready cases picks one at random and the timer's channel stays ready; of the reaper,
whose ticker fires as long as the daemon runs; of `Tick`. Nothing makes a client call,
unlock or come back, and nothing makes a fault happen. `Events`, `Tasks` and `Presence` are
fair in the same way; in `Events` not even a window has to end. `LockLive` has no restarts: a
daemon that restarts for ever never finishes a sweep. `Coordination` has as many as
`MaxFaults` allows, and the reapers of the process that stays are fair.

`Daemon`: weak fairness of what each process does of its own accord (`Main`), which includes
the end of the five seconds, and of a sweep's end; nothing makes a request end. Strong
fairness of `Leaves`: a reaper's `select` may choose the ticker although the context
is cancelled, but between two ticks only the context is ready, so it cannot do so for ever.
Weak fairness of `Launch(Service)` is `Restart=always` (`service.go:76`); systemd's limit on
starts in quick succession is taken as not reached (`RestartSec=2`).

## 5. The proofs

TLAPS checks these for every value of the constants that satisfies the named
assumption of the module (sets of naturals, a null value outside its type).

| module | theorem | invariant used |
|---|---|---|
| `LockManagerProofs` | `TypeCorrect`, `Secrets`, `OwnerEnds`, `Refines` | `TypeOK`, `TokensOwned`, `ArgsValid` |
| | `KeepsPlace` | `TypeOK`, `TicketsKnown`, `SlotsOwned`, `PlacesKept` |
| `EventsProofs` | `TypeCorrect`, `NeverLost`, `NeverMissed` | `TypeOK`, `NoLostWakeup`, `NewsAhead` |
| `TasksProofs` | `TypeCorrect`, `FinishedOnce`, `ClaimsKept` | `TypeOK`, `OneFinish`, `TokensOwned`, `TokensPositive` |
| | `ImplementsWorkQueue` | those, `RowsReal`, `SpansAsked` |
| `PresenceProofs` | `TypeCorrect`, `TimelyKept` | `TypeOK`, `LapsesKnown` |
| `NotesProofs` | `TypeCorrect`, `Unique`, `Kept` | `TypeOK`, `NumbersOnTheWay`, `NumbersUnique` |
| `CoordinationProofs` | `CoordTypeCorrect`, `LocksKept`, `Environment`, `WorkKept`, `WorkPromised` | those of `PresenceProofs` and `TasksProofs`, `Members` |
| `DaemonProofs` | `TypeCorrect`, `ReapersJoined`, `TokenKept`, `ClosedLate` | `TypeOK`, `ReapersServed`, `RequestsKept`, `TokensAgree` |
| `ToolCallsProofs` | `TypeCorrect`, `SchemasMatch`, `LifetimesKept` | `TypeOK`, `SchemaMatches`, `Outlives` |

The arguments in brief:

- *Locks.* All rests on one fact of `TypeOK`: a second that was read is never ahead of
  the clock. A row expired at a stale second is expired now, so a grant over it, or
  its removal by the reaper, maps to a step of `LeaseLock`. A renewal may extend a
  lease that has expired; `LeaseLock` therefore allows `Extend` on
  any lease. Owner and token agree because tokens are owned: the token of a row is
  known to the agent of the row, and to nobody else (`TokensOwned`), which is not
  implied by types and has to be carried along. The step of a presence reaper, or of a second
  daemon's, ends an agent's leases without a request of that agent; `OwnerEnds` shows that such a
  step moves no handler and ends all of them and no other (`Buried`). `ArgsValid` keeps the TTL of a call in the
  set `LeaseLock` knows.
- *Events.* A waiter that read a generation behind the current one has either an open
  channel and a broadcast due, or a closed one. For `NeverMissed`, `NewsAhead` says that
  a client with news, and told something since the last clear, remembers less than the
  current generation.
- *Tasks.* A claim's token is the number of the claim; two clients never hold the
  same one, and a requeued task has none. A stale token opens nothing. For the refinement,
  `RowsReal` says that a row nobody pushed yet is as it was made, so a push changes
  nothing else, and `SpansAsked` that a call in flight asks for a lease of a length `WorkQueue` knows.
  A row that is not claimed still holds the columns of its last lease when it was finished
  (`tasks.go:247`), which is why the mapping looks at the state first. `WorkPromised` follows
  since the composition implements `Tasks` (`Environment`).
- *Presence.* Whoever is on the reaper's list, or will be selected by the second it
  read, is known to have lapsed, or to be one this sweep had listed before it came back (`LapsesKnown`).
- *Notes.* A number under way is of an earlier epoch or at most the counter, is in nobody's hands
  and is under way once (`NumbersOnTheWay`). An increment that adds makes a number greater than all of
  its epoch, any other begins an epoch; so an answer always adds one to the set of pairs.

- *Place in the queue.* A sweep takes a slot whose horizon is behind the second it read. A
  slot's horizon is set to the end of the window plus the slack whenever a request
  attaches to it, and only its own agent's calls attach to it; so the theorem assumes
  `OneCallEach`, that no two requests are of one agent. `Refines` and `OwnerEnds` do not: two
  calls that share a slot may wake in the wrong order, and still never share a lock.
- *Coordination.* Each step of `Presence` is shown to be a step of the environment `Tasks`
  allows, so `Environment` is a refinement whose invariant comes from both parts. `Members`
  says that an agent that registered, did not leave and is not in `lapsed` has a row, and by
  `LapsesKnown` one that has not expired; the task reaper, whose second is in the past,
  therefore finds it.
- *Daemon.* By place: before `exit` an opened store stays open while a reaper is not gone;
  the file changes only while it is absent or being minted, and whoever reads it then is in
  `raced`.
- *Tool calls.* The invariant adds `Outlives`: a row lasts at least as long as the lifetime its
  holder was promised, or that lifetime is over. A promise is a sum that is an int, and
  if the whole sum is an int, so are the product with the minute and every step on the
  way (`PromiseKept`), so none of them wraps. Each schema is compared with its handler
  tool by tool (`SchemasAgree`): what the schema requires is what the handler
  insists on, but for `renew_lock`, and a call with arguments of the right types has what a
  handler looks for just when the coercion leaves something to use (`CallsMatch`).

Only model-checked: every liveness property (`CallsReturn`, `ExpiredRowsGo`,
`AbandonedSlotsGo`, `HeadIsWoken`, `SignalWakes`, `DeadRecovered`, `OrphansReturn`, `Stops`,
`Returns`), which is out of the prover's reach. Every safety invariant and every action
property of a passing run is stated by a theorem.

## 6. Not modelled

- The status report (`internal/cli/status.go`): it reads the tables in six statements of its own
  connection, changes nothing, and nothing decides by what it prints. That its
  sections may come from different moments is plain from the code.
- launchd and the dry run of `internal/service`; the commands' own errors.
- `AIRLOCK_TOKEN` and the tokenless posture on darwin; `/healthz`; what exactly makes a
  host, an origin or a header acceptable.
- `list_*` calls, authors, payloads and messages: read only or data.
- Packaging, the web site and the retired Swift daemon.
- `RenewLease` is modelled, though no tool calls it at this commit; `Coordination` leaves it out.
- In `Daemon` requests do nothing to the tables, and in the managers a stop is one
  action: what a handler does to a store that closes under it is an error it returns to nobody.
- The clock is never set back; SQLite's atomicity and durability, `crypto/rand` and
  Go's scheduler are taken as their documentation says.

## 7. Plan

Written, most important first: `LeaseLock`, `LockManager` and its proofs; `Events`; `WorkQueue`
and `Tasks`; `Presence`; `Notes`; `Coordination` and its proofs; `Daemon` and its proofs;
`ToolCalls` and its proofs. What would come next: the status report against the one state it
should show, and `LockManager` itself in place of `LeaseLock` in `Coordination`, for the
waiters of a dead agent's locks.
