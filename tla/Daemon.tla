-------------------------------- MODULE Daemon --------------------------------
(***************************************************************************)
(* The life of a daemon process: main.go (runDaemon), the HTTP server's    *)
(* Start and EnsureTokenFile (server.go), the reapers' goroutines, and the *)
(* systemd unit of service.go that starts the process again.               *)
(*                                                                         *)
(* Several processes may run: the service's own and those started by hand. *)
(* They share the port, the token file and the database file.  What the    *)
(* requests do is not looked at: each works for a while, and may be parked *)
(* for longer than a shutdown waits.                                       *)
(***************************************************************************)
EXTENDS Naturals

CONSTANTS
    Procs,          \* processes
    Service,        \* the one of them that the unit starts
    Reapers,        \* of locks, presence and tasks: one goroutine each, per process
    Clients,
    Nobody,         \* no process
    NoFile, Empty,  \* no token file; the empty token
    MaxFaults       \* bound on the signals, crashes and errors

ASSUME DaemonConstants ==
    /\ Service \in Procs /\ MaxFaults \in Nat
    /\ Nobody \notin Procs /\ NoFile \notin Procs \cup {Empty} /\ Empty \notin Procs

VARIABLES
    pc,        \* where runDaemon is in each process
    opened,    \* processes whose database connection is open
    done,      \* processes whose context is cancelled
    reaper,    \* where each reaper of each process is
    token,     \* the token each process asks for
    working, parked,   \* the requests in progress, in each process
    over,      \* processes that stopped waiting for their requests
    port,      \* the process that listens
    file,      \* the token file: the process that minted what it holds
    unit,      \* the unit file
    faults,
    raced      \* processes that looked for a token while one was being minted (a history)

process  == <<pc, opened, done, reaper, token>>
requests == <<working, parked, over>>
world    == <<port, file, unit, faults, raced>>
vars     == <<process, requests, world>>

Calls(d) == working[d] \cup parked[d]

Init ==
    /\ pc = [d \in Procs |-> "off"] /\ opened = {} /\ done = {}
    /\ reaper = [d \in Procs |-> [r \in Reapers |-> "off"]]
    /\ token = [d \in Procs |-> Empty]
    /\ working = [d \in Procs |-> {}] /\ parked = [d \in Procs |-> {}] /\ over = {}
    /\ port = Nobody /\ file = NoFile /\ unit = "absent" /\ faults = 0 /\ raced = {}

Goes(d, from, to) == pc[d] = from /\ pc' = [pc EXCEPT ![d] = to]

Fault == faults < MaxFaults /\ faults' = faults + 1

\* The process is no more, and whatever it was doing is cut off.
Ends(d) ==
    /\ pc' = [pc EXCEPT ![d] = "off"]
    /\ opened' = opened \ {d} /\ done' = done \ {d} /\ over' = over \ {d}
    /\ reaper' = [reaper EXCEPT ![d] = [r \in Reapers |-> "off"]]
    /\ token' = [token EXCEPT ![d] = Empty]
    /\ working' = [working EXCEPT ![d] = {}] /\ parked' = [parked EXCEPT ![d] = {}]
    /\ port' = IF port = d THEN Nobody ELSE port
    /\ raced' = raced \ {d}

-----------------------------------------------------------------------------
(* runDaemon, from its start to Server.Start *)

Launch(d) ==
    /\ d = Service => unit = "enabled"
    /\ Goes(d, "off", "open")
    /\ UNCHANGED <<opened, done, reaper, token, requests, world>>

\* OpenDB; then the reapers are started, before the port is looked at.
Open(d) ==
    /\ Goes(d, "open", "token")
    /\ opened' = opened \cup {d}
    /\ reaper' = [reaper EXCEPT ![d] = [r \in Reapers |-> "idle"]]
    /\ UNCHANGED <<done, token, requests, world>>

\* Nothing to undo yet: the process just exits.
OpenFails(d) ==
    /\ pc[d] = "open" /\ Fault /\ Ends(d)
    /\ UNCHANGED <<file, unit>>

Minting == {p \in Procs : pc[p] \in {"mint", "write"}}

\* Whose idea of the token may differ from the file's.
Overlap(d) ==
    raced' = IF Minting = {} THEN raced
             ELSE raced \cup {d} \cup (IF file = NoFile THEN Minting ELSE {})

\* Mutant: a token for every start.
MintAlways(d) ==
    /\ pc[d] = "token"
    /\ pc' = [pc EXCEPT ![d] = "mint"] /\ Overlap(d)
    /\ UNCHANGED <<opened, done, reaper, token, requests, port, file, unit, faults>>

\* EnsureTokenFile: what the file holds is the token, an empty file included.
ReadToken(d) ==
    /\ pc[d] = "token"
    /\ IF file = NoFile
       THEN pc' = [pc EXCEPT ![d] = "mint"] /\ UNCHANGED token
       ELSE pc' = [pc EXCEPT ![d] = "bind"] /\ token' = [token EXCEPT ![d] = file]
    /\ Overlap(d)
    /\ UNCHANGED <<opened, done, reaper, requests, port, file, unit, faults>>

\* os.WriteFile creates or truncates, ...
CreateFile(d) ==
    /\ Goes(d, "mint", "write")
    /\ file' = Empty
    /\ UNCHANGED <<opened, done, reaper, token, requests, port, unit, faults, raced>>

\* ... and then writes.
WriteFile(d) ==
    /\ Goes(d, "write", "bind")
    /\ file' = d /\ token' = [token EXCEPT ![d] = d]
    /\ UNCHANGED <<opened, done, reaper, requests, port, unit, faults, raced>>

\* The token cannot be read or written, or the port not be bound.
StartFails(d) ==
    /\ pc[d] \in {"token", "mint", "write", "bind"} /\ Fault
    /\ pc' = [pc EXCEPT ![d] = "return"]
    /\ UNCHANGED <<opened, done, reaper, token, requests, port, file, unit, raced>>

Bind(d) ==
    /\ \/ port = Nobody /\ Goes(d, "bind", "serve") /\ port' = d
       \/ port # Nobody /\ Goes(d, "bind", "probe") /\ UNCHANGED port
    /\ UNCHANGED <<opened, done, reaper, token, requests, file, unit, faults, raced>>

\* reportPortInUse asks who is there, for two seconds at most.
Probe(d) ==
    /\ Goes(d, "probe", "return")
    /\ UNCHANGED <<opened, done, reaper, token, requests, world>>

-----------------------------------------------------------------------------
(* Requests *)

\* In a shutdown, those whose connection was there before.
Accept(d, c) ==
    /\ pc[d] \in {"serve", "drain"} /\ \A p \in Procs : c \notin Calls(p)
    /\ working' = [working EXCEPT ![d] = @ \cup {c}]
    /\ UNCHANGED <<process, parked, over, world>>

\* Lock and Wait block on a channel, for fifty seconds at most; no shutdown
\* cancels the request's context.
Park(d, c) ==
    /\ c \in working[d]
    /\ working' = [working EXCEPT ![d] = @ \ {c}] /\ parked' = [parked EXCEPT ![d] = @ \cup {c}]
    /\ UNCHANGED <<process, over, world>>

Wake(d, c) ==
    /\ c \in parked[d]
    /\ working' = [working EXCEPT ![d] = @ \cup {c}] /\ parked' = [parked EXCEPT ![d] = @ \ {c}]
    /\ UNCHANGED <<process, over, world>>

Answer(d, c) ==
    /\ c \in working[d]
    /\ working' = [working EXCEPT ![d] = @ \ {c}]
    /\ UNCHANGED <<process, parked, over, world>>

-----------------------------------------------------------------------------
(* The end of Server.Start, and of runDaemon *)

\* Mutant: the listener lives as long as the server.
DrainListening(d) ==
    /\ d \in done /\ Goes(d, "serve", "drain")
    /\ UNCHANGED <<opened, done, reaper, token, requests, world>>

\* Shutdown: first of all, the listener is closed.
Shutdown(d) ==
    /\ d \in done /\ Goes(d, "serve", "drain")
    /\ port' = Nobody
    /\ UNCHANGED <<opened, done, reaper, token, requests, file, unit, faults, raced>>

\* Mutant: Start returns when Serve does, which is when Shutdown begins.
ReturnsWithServe(d) ==
    /\ Goes(d, "drain", "return")
    /\ UNCHANGED <<opened, done, reaper, token, requests, world>>

Drained(d) ==
    /\ Calls(d) = {} /\ Goes(d, "drain", "return")
    /\ UNCHANGED <<opened, done, reaper, token, requests, world>>

\* The five seconds are over.
GraceOver(d) ==
    /\ Goes(d, "drain", "return")
    /\ over' = over \cup {d}
    /\ UNCHANGED <<opened, done, reaper, token, working, parked, world>>

\* Accepting fails for good; Serve closes the listener.
ServeFails(d) ==
    /\ Fault /\ Goes(d, "serve", "return")
    /\ port' = Nobody /\ over' = over \cup {d}
    /\ UNCHANGED <<opened, done, reaper, token, working, parked, file, unit, raced>>

\* Mutant: only a signal cancels the context.
NoCancel(d) ==
    /\ Goes(d, "return", "join")
    /\ UNCHANGED <<opened, done, reaper, token, requests, world>>

\* The deferred function: cancel(), ...
Cancel(d) ==
    /\ Goes(d, "return", "join")
    /\ done' = done \cup {d}
    /\ UNCHANGED <<opened, reaper, token, requests, world>>

\* Mutant: the store is closed first.
CloseFirst(d) ==
    /\ Goes(d, "join", "exit")
    /\ opened' = opened \ {d}
    /\ UNCHANGED <<done, reaper, token, requests, world>>

\* ... the three Waits, and the store's Close.
Close(d) ==
    /\ \A r \in Reapers : reaper[d][r] = "gone"
    /\ Goes(d, "join", "exit")
    /\ opened' = opened \ {d}
    /\ UNCHANGED <<done, reaper, token, requests, world>>

Exit(d) ==
    /\ pc[d] = "exit" /\ Ends(d)
    /\ UNCHANGED <<file, unit, faults>>

-----------------------------------------------------------------------------
(* Reapers: select on the context and on the ticker *)

Reaps(d, r, from, to) ==
    /\ reaper[d][r] = from /\ reaper' = [reaper EXCEPT ![d][r] = to]
    /\ UNCHANGED <<pc, opened, done, token, requests, world>>

\* A tick may win against a context that is cancelled.
Sweep(d, r)    == Reaps(d, r, "idle", "sweep")
SweepEnd(d, r) == Reaps(d, r, "sweep", "idle")
Leaves(d, r)   == d \in done /\ Reaps(d, r, "idle", "gone")

-----------------------------------------------------------------------------
(* Signals, crashes and the service *)

\* SIGINT or SIGTERM.  Until the process asks to be notified, they kill it.
Stop(d) ==
    /\ pc[d] \notin {"off", "open"} /\ d \notin done /\ Fault
    /\ done' = done \cup {d}
    /\ UNCHANGED <<pc, opened, reaper, token, requests, port, file, unit, raced>>

Kill(d) ==
    /\ pc[d] # "off" /\ Fault /\ Ends(d)
    /\ UNCHANGED <<file, unit>>

\* install-service writes the unit, ...
WriteUnit ==
    /\ unit = "absent" /\ unit' = "written"
    /\ UNCHANGED <<process, requests, port, file, faults, raced>>

\* ... and then enables it, where there is a systemctl.
EnableUnit ==
    /\ unit = "written" /\ unit' = "enabled"
    /\ UNCHANGED <<process, requests, port, file, faults, raced>>

\* uninstall-service: "disable --now" stops the process, if it runs.
Uninstall ==
    /\ unit # "absent" /\ unit' = "absent"
    /\ IF pc[Service] = "open"
       THEN Ends(Service)
       ELSE /\ done' = IF pc[Service] = "off" THEN done ELSE done \cup {Service}
            /\ UNCHANGED <<pc, opened, reaper, token, requests, port, raced>>
    /\ UNCHANGED <<file, faults>>

-----------------------------------------------------------------------------

\* What the process does of its own accord.
Main(d) ==
    \/ Open(d) \/ ReadToken(d) \/ CreateFile(d) \/ WriteFile(d) \/ Bind(d) \/ Probe(d)
    \/ Shutdown(d) \/ Drained(d) \/ GraceOver(d) \/ Cancel(d) \/ Close(d) \/ Exit(d)

Serves(d, c) == Accept(d, c) \/ Park(d, c) \/ Wake(d, c) \/ Answer(d, c)

Fails(d) == OpenFails(d) \/ StartFails(d) \/ ServeFails(d) \/ Stop(d) \/ Kill(d)

Next ==
    \/ \E d \in Procs : Launch(d) \/ Main(d) \/ Fails(d)
    \/ \E d \in Procs, c \in Clients : Serves(d, c)
    \/ \E d \in Procs, r \in Reapers : Sweep(d, r) \/ SweepEnd(d, r) \/ Leaves(d, r)
    \/ WriteUnit \/ EnableUnit \/ Uninstall

Spec == Init /\ [][Next]_vars

\* Processes and sweeps go on, whoever waits on a parked request.  Between two
\* ticks a reaper's select has but the context to choose, so one that comes back
\* to it forever sees the context cancelled.  "Restart=always" starts the
\* service's process again.
Fairness ==
    /\ \A d \in Procs : WF_vars(Main(d))
    /\ \A d \in Procs, r \in Reapers : WF_vars(SweepEnd(d, r)) /\ SF_vars(Leaves(d, r))
    /\ WF_vars(Launch(Service))

FairSpec == Spec /\ Fairness

-----------------------------------------------------------------------------
(* Properties *)

Places == {"off", "open", "token", "mint", "write", "bind", "probe", "serve", "drain",
           "return", "join", "exit"}

\* Every variable has its type; whoever listens serves, and nobody else does.
TypeOK ==
    /\ pc \in [Procs -> Places]
    /\ opened \subseteq Procs /\ done \subseteq Procs /\ over \subseteq Procs
    /\ reaper \in [Procs -> [Reapers -> {"off", "idle", "sweep", "gone"}]]
    /\ token \in [Procs -> Procs \cup {Empty}]
    /\ working \in [Procs -> SUBSET Clients] /\ parked \in [Procs -> SUBSET Clients]
    /\ port \in Procs \cup {Nobody} /\ file \in Procs \cup {NoFile, Empty}
    /\ unit \in {"absent", "written", "enabled"} /\ faults \in Nat /\ raced \subseteq Procs
    /\ \A d \in Procs : pc[d] = "serve" <=> port = d

\* "Joining before Close guarantees no reaper is mid-query when the DB
\* connection is torn down" (main.go:108), whatever made runDaemon return.
NoReaperMidQuery == \A d \in Procs, r \in Reapers : reaper[d][r] = "sweep" => d \in opened

\* A shutdown closes the store under no request that is in progress, unless it
\* waited for five seconds or the server had failed.
GraceKept ==
    [][\A d \in Procs :
          (pc[d] = "join" /\ d \in opened \ opened') => Calls(d) = {} \/ d \in over]_vars

\* Who reads the token file gets past the serving process: processes that start
\* besides it, lose the port to it, or crash, leave its token in the file.  Only
\* processes that start while the first token is minted may disagree.
ServesFile ==
    \A d \in Procs : pc[d] \in {"serve", "drain"} => token[d] = file \/ d \in raced

\* A process that was told to stop, or that lost the port, does go: it "avoids
\* blocking forever on Wait" (main.go:113), whatever its requests wait for.
Stops == \A d \in Procs : (d \in done \/ pc[d] \in {"probe", "return"}) ~> pc[d] = "off"

\* An installed service comes back: some process serves again.
Returns == unit = "enabled" ~> (port # Nobody \/ unit # "enabled")
===============================================================================
