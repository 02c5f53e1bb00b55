------------------------------- MODULE ToolCalls -------------------------------
(***************************************************************************)
(* From an HTTP request to a manager: the transport's checks (server.go),  *)
(* the JSON-RPC methods (handler.go), and the tools (tools.go): what their *)
(* schemas declare, what their handlers insist on, and how arguments are   *)
(* made into Go ints.  Behind the tools of locks and of presence there is  *)
(* the row of one lock and who is registered; behind the others, the       *)
(* managers of the other modules.                                          *)
(*                                                                         *)
(* Go's int is scaled down to -MaxInt-1..MaxInt, 60 to Minute, and 2^53 to *)
(* Exact.  A request is one action here, and the next is sent when its     *)
(* answer has been read; how requests interleave is LockManager's and      *)
(* Presence's business, and so is when a registration runs out.            *)
(***************************************************************************)
EXTENDS Integers, Sequences

CONSTANTS
    MaxInt, Minute, Exact,
    DefaultTTL,      \* defaultLockTTLSeconds
    Numbers,         \* JSON numbers that clients send
    Names,           \* what the texts they send say: 1.., and 0 for ""
    MaxGrants, MaxClock   \* bounds

ASSUME ToolConstants ==
    /\ {MaxInt, Minute, DefaultTTL, MaxClock} \subseteq Nat \ {0} /\ DefaultTTL + MaxClock <= MaxInt
    /\ Exact \in Nat /\ Numbers \subseteq Int /\ Names \subseteq Nat \ {0} /\ MaxGrants \in Nat

VARIABLES
    saturates, \* the build makes the nearest int of a float that has none
    clock,
    row,       \* table locks, the row of the one name
    grants,    \* tokens made so far
    registered,\* the agents of table agents
    until,     \* when the lifetime the holder asked for is over (a history)
    reply      \* the answer on its way, and what it answers

vars == <<saturates, clock, row, grants, registered, until, reply>>

NoRow == [agent |-> 0, token |-> 0, expires |-> 0]

NoReply == [status |-> 0, body |-> {}, method |-> "none", tool |-> "none",
            accepted |-> FALSE, conforms |-> FALSE, lacks |-> FALSE]

Init ==
    /\ saturates \in BOOLEAN /\ clock = 0 /\ row = NoRow /\ grants = 0 /\ until = 0
    /\ registered = {} /\ reply = NoReply

-----------------------------------------------------------------------------
(* Arguments.  A value is of some JSON kind; null counts as another kind. *)

Value(kind, n) == [kind |-> kind, n |-> n]

Texts == {Value("text", n) : n \in Names \cup {0}}
Absent == Value("absent", 0)
Other == Value("other", 0)

Given(args, k) == args[k] # Absent

\* The text, or "".
ArgStr(args, k) == IF args[k].kind = "text" THEN args[k].n ELSE 0

MinInt == -MaxInt - 1

\* int arithmetic
Wrap(n) == ((n - MinInt) % (MaxInt - MinInt + 1)) + MinInt

\* A JSON number is read into a float64, which beyond Exact holds only every
\* second integer: the odd ones go to the neighbour that is a multiple of four.
Double(n) ==
    IF n \in (-Exact)..Exact \/ n % 2 = 0 THEN n
    ELSE IF n % 4 = 1 THEN n - 1 ELSE n + 1

\* int(n) of a float64: what an n that is out of range becomes is up to the build.
ToInt(n) ==
    IF n \in MinInt..MaxInt THEN n
    ELSE IF ~saturates THEN MinInt
    ELSE IF n > 0 THEN MaxInt ELSE MinInt

\* A fraction here is one between 0 and 1.
ArgInt(args, k, def) ==
    CASE args[k].kind = "number"   -> ToInt(Double(args[k].n))
      [] args[k].kind = "fraction" -> 0
      [] OTHER                     -> def

\* Mutant: the alias wins.
MinutesFirst(args, def) ==
    IF Given(args, "ttl_minutes") THEN Wrap(ArgInt(args, "ttl_minutes", 0) * Minute)
    ELSE IF Given(args, "ttl_seconds") THEN ArgInt(args, "ttl_seconds", def)
    ELSE def

ttlSeconds(args, def) ==
    IF Given(args, "ttl_seconds") THEN ArgInt(args, "ttl_seconds", def)
    ELSE IF Given(args, "ttl_minutes") THEN Wrap(ArgInt(args, "ttl_minutes", 0) * Minute)
    ELSE def

-----------------------------------------------------------------------------
(* The tools: what tools/list says they require, and what their handlers     *)
(* refuse to go without, in the order they look                              *)

LockSchema ==
    [lock_resource |-> {"name", "agent_id"}, unlock_resource |-> {"name"},
     renew_lock |-> {"name"}, list_locks |-> {}, lock_resources |-> {"names", "agent_id"}]

\* Mutant: a lock for nobody.
AnyoneLocks ==
    [lock_resource |-> <<"name">>, unlock_resource |-> <<"name">>,
     renew_lock |-> <<"name", "lock_token or agent_id">>, list_locks |-> <<>>,
     lock_resources |-> <<"names", "agent_id">>]

LockHandlers ==
    [lock_resource |-> <<"name", "agent_id">>, unlock_resource |-> <<"name">>,
     renew_lock |-> <<"name", "lock_token or agent_id">>, list_locks |-> <<>>,
     lock_resources |-> <<"names", "agent_id">>]

NoteSchema ==
    [set_note |-> {"key", "value"}, get_note |-> {"key"}, list_notes |-> {},
     delete_note |-> {"key"}, set_note_if |-> {"key", "expected_value", "new_value"},
     increment_counter |-> {"name"}]

NoteHandlers ==
    [set_note |-> <<"key", "value">>, get_note |-> <<"key">>, list_notes |-> <<>>,
     delete_note |-> <<"key">>, set_note_if |-> <<"key", "expected_value", "new_value">>,
     increment_counter |-> <<"name">>]

AgentSchema ==
    [register_agent |-> {"agent_id"}, unregister_agent |-> {"agent_id"}, list_agents |-> {},
     signal_event |-> {"name"}, wait_for_event |-> {"name"}, clear_event |-> {"name"}]

AgentHandlers ==
    [register_agent |-> <<"agent_id">>, unregister_agent |-> <<"agent_id">>,
     list_agents |-> <<>>, signal_event |-> <<"name">>, wait_for_event |-> <<"name">>,
     clear_event |-> <<"name">>]

TaskSchema ==
    [push_task |-> {"queue", "payload"}, claim_next_task |-> {"queue", "agent_id"},
     complete_task |-> {"id", "lease_token"}, fail_task |-> {"id", "lease_token"},
     list_tasks |-> {"queue"}]

\* Mutant: a claim by nobody.
AnyoneClaims ==
    [push_task |-> <<"queue", "payload">>, claim_next_task |-> <<"queue">>,
     complete_task |-> <<"id", "lease_token">>, fail_task |-> <<"id", "lease_token">>,
     list_tasks |-> <<"queue">>]

TaskHandlers ==
    [push_task |-> <<"queue", "payload">>, claim_next_task |-> <<"queue", "agent_id">>,
     complete_task |-> <<"id", "lease_token">>, fail_task |-> <<"id", "lease_token">>,
     list_tasks |-> <<"queue">>]

\* What f has, and what g has.
And(f, g) == [t \in DOMAIN f \cup DOMAIN g |-> IF t \in DOMAIN f THEN f[t] ELSE g[t]]

Schema   == And(And(LockSchema, NoteSchema), And(AgentSchema, TaskSchema))
Handlers == And(And(LockHandlers, NoteHandlers), And(AgentHandlers, TaskHandlers))
Tools    == DOMAIN Schema

\* Payloads may be empty, and of any kind: only identifiers are insisted on.
Payloads == {"value", "expected_value", "new_value", "payload"}

Has(args, k) ==
    CASE k \in Payloads -> Given(args, k)
      [] k = "id"       -> args[k].kind \in {"number", "fraction"}
      [] k = "names"    -> args[k].kind = "list" /\ args[k].n > 0
      [] k = "lock_token or agent_id" -> ArgStr(args, "lock_token") # 0 \/ ArgStr(args, "agent_id") # 0
      [] OTHER          -> ArgStr(args, k) # 0

\* The handler goes on to its manager.
Accepts(tool, args) == \A i \in DOMAIN Handlers[tool] : Has(args, Handlers[tool][i])

-----------------------------------------------------------------------------
(* The managers, as far as locks and registrations go *)

Same == UNCHANGED <<row, grants, until, registered>>

Live == row # NoRow /\ row.expires > clock

\* The number as it was read, or nothing.
Asked(arg) == IF arg.kind = "number" THEN Double(arg.n) ELSE 0

\* What the schema promises for these arguments, as long as the end of it is an int;
\* beyond that the code keeps no promise, and none is stated.
Promise(args) ==
    LET seconds == IF Given(args, "ttl_seconds") THEN Asked(args["ttl_seconds"])
                   ELSE IF Given(args, "ttl_minutes") THEN Asked(args["ttl_minutes"]) * Minute
                   ELSE DefaultTTL
    IN IF clock + seconds <= MaxInt THEN clock + seconds ELSE 0

\* Lock without waiting, and LockMany of one name.
Lock(agent, args) ==
    LET ttl == ttlSeconds(args, DefaultTTL)
    IN IF ttl > 0 /\ ~Live
       THEN /\ grants < MaxGrants /\ grants' = grants + 1
            /\ row' = [agent |-> agent, token |-> grants + 1, expires |-> Wrap(clock + ttl)]
            /\ until' = Promise(args) /\ UNCHANGED registered
       ELSE Same

\* By the token if there is one, else by the agent.
Owns(args) ==
    IF ArgStr(args, "lock_token") # 0
    THEN row.token = ArgStr(args, "lock_token")
    ELSE row.agent = ArgStr(args, "agent_id")

Drop == row' = NoRow /\ until' = 0 /\ UNCHANGED grants

Unlock(args) ==
    IF row # NoRow /\ Owns(args) THEN Drop /\ UNCHANGED registered ELSE Same

Renew(args) ==
    LET ttl == ttlSeconds(args, DefaultTTL)
    IN IF ttl > 0 /\ Live /\ Owns(args)
       THEN /\ row' = [row EXCEPT !.expires = Wrap(clock + ttl)]
            /\ until' = Promise(args) /\ UNCHANGED <<grants, registered>>
       ELSE Same

Register(args) ==
    /\ registered' = IF ArgInt(args, "ttl_seconds", Minute) > 0
                     THEN registered \cup {ArgStr(args, "agent_id")} ELSE registered
    /\ UNCHANGED <<row, grants, until>>

\* The agent's lock goes, however long it has left.
ReleaseAgentLocks(agent) ==
    IF row # NoRow /\ row.agent = agent THEN Drop ELSE UNCHANGED <<row, grants, until>>

Unregister(agent) == ReleaseAgentLocks(agent) /\ registered' = registered \ {agent}

\* Of the other tools, what matters is whether they are reached.  A manager whose
\* transaction fails changes nothing.
Reach(tool, args) ==
    CASE tool \in {"lock_resource", "lock_resources"} -> Lock(ArgStr(args, "agent_id"), args)
      [] tool = "unlock_resource" -> Unlock(args)
      [] tool = "renew_lock"      -> Renew(args)
      [] tool = "register_agent"  -> Register(args)
      [] tool = "unregister_agent" -> Unregister(ArgStr(args, "agent_id"))
      [] OTHER                    -> Same

-----------------------------------------------------------------------------
(* Requests *)

\* Handle: what of the envelope is there.  A nil result is left out of it, so that
\* a notification sent with an id is answered with neither.
Envelope(method) ==
    CASE method \in {"initialize", "tools/list", "tools/call"} -> {"result"}
      [] method = "notifications/initialized" -> {}
      [] OTHER -> {"error"}

\* The checks of handleRoot, in their order, and the status of those who fail.
Checks   == <<"path", "method", "host", "origin", "type", "token", "size", "json", "version">>
Statuses == <<404, 405, 403, 403, 415, 401, 413, 200, 200>>

Answer(status, method, body) ==
    reply' = [NoReply EXCEPT !.status = status, !.method = method, !.body = body]

\* The first check that fails answers; the last two with a parse error.
Refused(bad) ==
    \E i \in DOMAIN Checks :
       /\ Checks[i] \in bad /\ \A j \in 1..(i - 1) : Checks[j] \notin bad
       /\ Answer(Statuses[i], "none", IF Statuses[i] = 200 THEN {"error"} ELSE {})
       /\ Same

\* Any method but a call.  A notification without an id is not handled at all.
Method(method, id) ==
    /\ IF method = "notifications/initialized" /\ ~id
       THEN Answer(202, "notification", {})
       ELSE Answer(200, method, Envelope(method))
    /\ Same

\* A call whose params cannot be read.
BadParams == Answer(200, "tools/call", {"error"}) /\ Same

\* Its result says so: it is not an error of JSON-RPC.
UnknownTool == Answer(200, "tools/call", Envelope("tools/call")) /\ Same

\* Whether the client keeps to the schema: everything that is required, of the
\* declared kind, and identifiers that are not empty; whether it leaves one out.
Conforms(tool, args) ==
    \A k \in Schema[tool] :
       \/ k \in Payloads /\ args[k].kind = "text"
       \/ k \notin Payloads /\ Has(args, k) /\ args[k].kind # "fraction"
Lacks(tool, args) == \E k \in Schema[tool] : ~Given(args, k)

Call(tool, args) ==
    /\ IF Accepts(tool, args) THEN Reach(tool, args) \/ Same ELSE Same
    /\ reply' = [status |-> 200, body |-> Envelope("tools/call"), method |-> "tools/call",
                 tool |-> tool, accepted |-> Accepts(tool, args),
                 conforms |-> Conforms(tool, args), lacks |-> Lacks(tool, args)]

Spans == {Absent, Other, Value("fraction", 0)} \cup {Value("number", n) : n \in Numbers}

Choices(k) ==
    CASE k = "id" -> {Absent, Other, Value("fraction", 0), Value("number", 1)}
      [] k = "names" -> {Absent, Other, Value("list", 0), Value("list", 1)}
      [] k \in {"ttl_seconds", "ttl_minutes"} -> Spans
      [] k \in {"agent_id", "lock_token"} -> {Absent, Other} \cup Texts
      [] OTHER -> {Absent, Other, Value("text", 0), Value("text", 1)}

\* The arguments that make a difference here: the required ones, and those of locks.
Keys(tool) ==
    Schema[tool] \cup
    CASE tool \in {"lock_resource", "lock_resources"} -> {"ttl_seconds", "ttl_minutes"}
      [] tool = "unlock_resource" -> {"lock_token", "agent_id"}
      [] tool = "renew_lock" -> {"lock_token", "agent_id", "ttl_seconds", "ttl_minutes"}
      [] tool = "register_agent" -> {"ttl_seconds"}
      [] OTHER -> {}

AllKeys == (UNION {Schema[t] : t \in Tools}) \cup {"lock_token", "ttl_seconds", "ttl_minutes"}

\* Every combination of the arguments of a tool that make a difference.
Arguments ==
    [t \in Tools |->
        {[k \in AllKeys |-> IF k \in Keys(t) THEN f[k] ELSE Absent] :
            f \in {g \in [Keys(t) -> UNION {Choices(k) : k \in Keys(t)}] :
                      \A k \in Keys(t) : g[k] \in Choices(k)}}]

Request ==
    /\ reply = NoReply /\ UNCHANGED <<saturates, clock>>
    /\ \/ \E bad \in SUBSET {Checks[i] : i \in DOMAIN Checks} : Refused(bad)
       \/ \E method \in {"initialize", "tools/list", "notifications/initialized", "unknown"},
             id \in BOOLEAN : Method(method, id)
       \/ BadParams
       \/ UnknownTool
       \/ \E tool \in Tools : \E args \in Arguments[tool] : Call(tool, args)

\* The client reads the answer.
Received ==
    reply # NoReply /\ reply' = NoReply /\ UNCHANGED <<saturates, clock>> /\ Same

\* The lock reaper finds the row expired.
Expires ==
    /\ reply = NoReply /\ row # NoRow /\ row.expires <= clock
    /\ Drop /\ UNCHANGED <<saturates, clock, registered, reply>>

\* The presence reaper finds that an agent's registration has run out.
AgentReaped ==
    /\ reply = NoReply /\ UNCHANGED <<saturates, clock, reply>>
    /\ \E agent \in registered : Unregister(agent)

Tick ==
    /\ reply = NoReply /\ clock < MaxClock /\ clock' = clock + 1
    /\ UNCHANGED <<saturates, reply>> /\ Same

Next == Request \/ Received \/ Expires \/ AgentReaped \/ Tick

Spec == Init /\ [][Next]_vars

-----------------------------------------------------------------------------
(* Properties *)

\* Types.  A lock in the table and a registration always belong to an agent with a
\* name, never to the empty agent_id, and a lock has a token that was made for it:
\* no argument gets past the handlers' guards without (lockResource, lockResources,
\* registerAgent).
TypeOK ==
    /\ saturates \in BOOLEAN /\ clock \in 0..MaxClock /\ grants \in 0..MaxGrants
    /\ until \in Int /\ registered \subseteq Names
    /\ row = NoRow \/ row \in [agent : Names, token : 1..grants, expires : Int]
    /\ reply.status \in {0, 200, 202} \cup {Statuses[i] : i \in DOMAIN Statuses}
    /\ reply.body \subseteq {"result", "error"}

\* The schemas of tools/list and the handlers, kept by hand in two places, agree: a
\* call that keeps to its schema reaches its manager, and one that leaves out
\* something required does not.  Only renew_lock insists on more than it declares,
\* on a token or an agent (toolDefs, and the guards of every handler).
SchemaMatches ==
    /\ reply.conforms /\ reply.tool # "renew_lock" => reply.accepted
    /\ reply.lacks => ~reply.accepted

\* A lock is not lost before the lifetime its holder asked for, in the words of the
\* schema, is over, but to unlock_resource, to unregister_agent, or to the presence
\* reaper when its agent's registration runs out: nobody else gets it before, and the
\* lock reaper does not end it.  ttl_seconds wins over ttl_minutes, and minutes become
\* seconds.  Lifetimes whose end leaves 64 bits are excepted: the sum with the clock
\* wraps, and the code does cut those short (ttlSeconds, argInt, tryAcquire, Renew,
\* RenewByAgent, reapOnce).
LifetimeKept ==
    [][row # NoRow /\ row'.token # row.token
           => \/ clock >= until
              \/ reply'.tool \in {"unlock_resource", "unregister_agent"}
              \/ row.agent \in registered \ registered']_vars
===============================================================================
