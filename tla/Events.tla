-------------------------------- MODULE Events --------------------------------
(***************************************************************************)
(* Generation-counted events, internal/store/events.go, for one event      *)
(* name: names share nothing but the mutex.                                *)
(*                                                                         *)
(* The generation is a row of the database.  The broadcast channel is in   *)
(* memory: to wake everybody, it is closed and a fresh one takes its       *)
(* place.  So a channel that a waiter has captured is either the one in    *)
(* the registry, and open, or closed; "listening" is the set of waiters    *)
(* with an open one.                                                       *)
(***************************************************************************)
EXTENDS Integers

CONSTANTS
    Waiters,     \* clients that wait for the event, one call at a time
    Notifiers,   \* handlers of signal_event and clear_event
    MaxGen       \* bound on the generation

ASSUME EventConstants ==
    /\ Waiters \cap Notifiers = {}
    /\ MaxGen \in Nat

VARIABLES
    gen,         \* the row's generation, 0 when there is no row
    listening,   \* waiters whose captured channel is still open
    wpc,         \* where each wait_for_event call is
    npc,         \* where each signal or clear is
    last,        \* the call's last_seen_generation
    blocking,    \* whether its wait_seconds is positive
    seen,        \* the generation it read before it blocked
    known,       \* the generation the client was last told
    news,        \* clients not yet told of a signal (a history of the clients' side)
    stale        \* clients given no generation since the last clear (likewise)

vars == <<gen, listening, wpc, npc, last, blocking, seen, known, news, stale>>

Init ==
    /\ gen = 0 /\ listening = {}
    /\ wpc = [w \in Waiters |-> "idle"] /\ npc = [s \in Notifiers |-> "idle"]
    /\ last = [w \in Waiters |-> 0] /\ blocking = [w \in Waiters |-> FALSE]
    /\ seen = [w \in Waiters |-> 0] /\ known = [w \in Waiters |-> 0]
    /\ news = {} /\ stale = {}

\* The row is written first; the broadcast follows the commit.
Signal(s) ==
    /\ npc[s] = "idle" /\ gen < MaxGen
    /\ gen' = gen + 1
    /\ news' = Waiters
    /\ npc' = [npc EXCEPT ![s] = "broadcast"]
    /\ UNCHANGED <<listening, wpc, last, blocking, seen, known, stale>>

\* Mutant: a clear takes one signal back.
ClearOne(s) ==
    /\ npc[s] = "idle"
    /\ gen' = gen - 1
    /\ stale' = Waiters
    /\ npc' = [npc EXCEPT ![s] = "broadcast"]
    /\ UNCHANGED <<listening, wpc, last, blocking, seen, known, news>>

Clear(s) ==
    /\ npc[s] = "idle"
    /\ gen' = 0
    /\ stale' = Waiters
    /\ npc' = [npc EXCEPT ![s] = "broadcast"]
    /\ UNCHANGED <<listening, wpc, last, blocking, seen, known, news>>

\* Mutant: a value sent on the channel wakes one waiter, where closing it
\* wakes them all.
BroadcastOne(s) ==
    /\ npc[s] = "broadcast"
    /\ listening' = IF listening = {} THEN {} ELSE listening \ {CHOOSE w \in listening : TRUE}
    /\ npc' = [npc EXCEPT ![s] = "idle"]
    /\ UNCHANGED <<gen, wpc, last, blocking, seen, known, news, stale>>

Broadcast(s) ==
    /\ npc[s] = "broadcast"
    /\ listening' = {}
    /\ npc' = [npc EXCEPT ![s] = "idle"]
    /\ UNCHANGED <<gen, wpc, last, blocking, seen, known, news, stale>>

\* A client passes the generation it was last told, or none.
Wait(w) ==
    /\ wpc[w] = "idle"
    /\ wpc' = [wpc EXCEPT ![w] = "capture"]
    /\ \E g \in {0, known[w]} : last' = [last EXCEPT ![w] = g]
    /\ \E b \in BOOLEAN : blocking' = [blocking EXCEPT ![w] = b]
    /\ UNCHANGED <<gen, listening, npc, seen, known, news, stale>>

\* broadcastChan, before the generation is read.
Capture(w) ==
    /\ wpc[w] = "capture"
    /\ listening' = listening \cup {w}
    /\ wpc' = [wpc EXCEPT ![w] = "read"]
    /\ UNCHANGED <<gen, npc, last, blocking, seen, known, news, stale>>

\* The answer carries generation g; the call's variables are gone.
Answer(w, g) ==
    /\ wpc' = [wpc EXCEPT ![w] = "idle"]
    /\ known' = [known EXCEPT ![w] = g]
    /\ listening' = listening \ {w}
    /\ last' = [last EXCEPT ![w] = 0]
    /\ blocking' = [blocking EXCEPT ![w] = FALSE]
    /\ seen' = [seen EXCEPT ![w] = 0]

Block(w) ==
    /\ wpc' = [wpc EXCEPT ![w] = "blocked"]
    /\ seen' = [seen EXCEPT ![w] = gen]
    /\ UNCHANGED <<listening, last, blocking, known, news, stale>>

\* A generation just read is news of every signal up to it.  When it is no
\* greater than what the client remembers, only a clear can have hidden signals.
Tell(w, missed) ==
    /\ Answer(w, gen)
    /\ news' = news \ missed
    /\ stale' = stale \ {w}

\* Mutant: a blocking call relies on the channel and does not compare.
ReadAndBlock(w) ==
    /\ wpc[w] = "read"
    /\ \/ gen > last[w] /\ ~blocking[w] /\ Tell(w, {w})
       \/ gen <= last[w] /\ ~blocking[w] /\ Tell(w, {w} \cap stale)
       \/ blocking[w] /\ Block(w)
    /\ UNCHANGED <<gen, npc>>

Read(w) ==
    /\ wpc[w] = "read"
    /\ \/ gen > last[w] /\ Tell(w, {w})
       \/ gen <= last[w] /\ ~blocking[w] /\ Tell(w, {w} \cap stale)
       \/ gen <= last[w] /\ blocking[w] /\ Block(w)
    /\ UNCHANGED <<gen, npc>>

\* The query fails, and with it the call.
ReadFails(w) ==
    /\ wpc[w] = "read"
    /\ Answer(w, known[w])
    /\ UNCHANGED <<gen, npc, news, stale>>

\* The select.  The deadline may win over a closed channel: the answer is then
\* the generation read before, not fired.
Woken(w) ==
    /\ wpc[w] = "blocked" /\ w \notin listening
    /\ wpc' = [wpc EXCEPT ![w] = "capture"]
    /\ seen' = [seen EXCEPT ![w] = 0]
    /\ UNCHANGED <<gen, listening, npc, last, blocking, known, news, stale>>

Timeout(w) ==
    /\ wpc[w] = "blocked"
    /\ Answer(w, seen[w])
    /\ UNCHANGED <<gen, npc, news, stale>>

\* The client's connection is gone: it never learns the answer.
Disconnect(w) ==
    /\ wpc[w] = "blocked"
    /\ Answer(w, known[w])
    /\ UNCHANGED <<gen, npc, news, stale>>

\* The row survives a restart; calls and channels do not.
Restart ==
    /\ listening' = {}
    /\ wpc' = [w \in Waiters |-> "idle"] /\ npc' = [s \in Notifiers |-> "idle"]
    /\ last' = [w \in Waiters |-> 0] /\ blocking' = [w \in Waiters |-> FALSE]
    /\ seen' = [w \in Waiters |-> 0]
    /\ UNCHANGED <<gen, known, news, stale>>

Next ==
    \/ \E s \in Notifiers : Signal(s) \/ Clear(s) \/ Broadcast(s)
    \/ \E w \in Waiters :
          \/ Wait(w) \/ Capture(w) \/ Read(w) \/ ReadFails(w)
          \/ Woken(w) \/ Timeout(w) \/ Disconnect(w)
    \/ Restart

Spec == Init /\ [][Next]_vars

\* Handlers that can run do run; nobody has to signal or to wait.
Fairness ==
    /\ \A s \in Notifiers : WF_vars(Broadcast(s))
    /\ \A w \in Waiters : WF_vars(Capture(w) \/ Read(w) \/ Woken(w))

FairSpec == Spec /\ Fairness

-----------------------------------------------------------------------------

\* Every variable has its type.
TypeOK ==
    /\ gen \in Nat /\ {listening, news, stale} \subseteq SUBSET Waiters
    /\ wpc \in [Waiters -> {"idle", "capture", "read", "blocked"}]
    /\ npc \in [Notifiers -> {"idle", "broadcast"}]
    /\ last \in [Waiters -> Nat] /\ seen \in [Waiters -> Nat] /\ known \in [Waiters -> Nat]
    /\ blocking \in [Waiters -> BOOLEAN]

BroadcastDue == \E s \in Notifiers : npc[s] = "broadcast"

\* The comment on EventManager: "This makes signals durable against the classic
\* lost-wakeup".  A waiter that sleeps on an open channel has nothing to wake
\* up for, or somebody is about to close its channel.
NoLostWakeup ==
    \A w \in listening : (wpc[w] = "blocked" /\ gen > last[w]) => BroadcastDue

\* README: "pass back the generation you last saw and a signal that fired
\* between calls is never missed".  A client that was not yet told of a signal,
\* and passes back what it was told, does not sleep, unless a broadcast is due
\* or the event was cleared after it was told (Clear starts the count over).
NoMissedSignal ==
    \A w \in (listening \cap news) \ stale :
        (wpc[w] = "blocked" /\ last[w] = known[w]) => BroadcastDue

\* Without any help from the end of a window, a waiter behind the current
\* generation gets its answer, unless the event is cleared first.
SignalWakes ==
    \A w \in Waiters :
        (wpc[w] # "idle" /\ gen > last[w]) ~> (wpc[w] = "idle" \/ gen <= last[w])
=============================================================================
