---------------------------- MODULE ToolCallsProofs ----------------------------
(***************************************************************************)
(* Proofs about the way from a request to a manager, for any width of Go's *)
(* int, any numbers and names that clients send, and any number of grants. *)
(*                                                                         *)
(* The schemas and the handlers are data, so that they agree is proved     *)
(* tool by tool; what a request leads to is proved for any arguments.      *)
(***************************************************************************)
EXTENDS ToolCalls, TLAPS

-----------------------------------------------------------------------------
(* Go's int *)

\* Arithmetic on ints gives an int, and the exact result when that is one.
LEMMA WrapInt ==
    /\ \A n \in Int : Wrap(n) \in MinInt..MaxInt
    /\ \A n \in MinInt..MaxInt : Wrap(n) = n
<1> DEFINE width == MaxInt - MinInt + 1
<1>1. width \in Nat \ {0} /\ MinInt \in Int /\ MaxInt \in Int
  BY ToolConstants DEF MinInt
<1>2. MaxInt = MinInt + width - 1
  BY <1>1
<1> HIDE DEF width
<1>3. ASSUME NEW n \in Int
      PROVE  Wrap(n) \in MinInt..MaxInt
  <2> DEFINE m == n - MinInt
  <2>1. m \in Int
    BY <1>1
  <2> HIDE DEF m
  <2>2. m % width \in 0..(width - 1)
    BY <1>1, <2>1
  <2>3. Wrap(n) = (m % width) + MinInt
    BY DEF Wrap, width, m
  <2>. QED  BY <1>1, <1>2, <2>2, <2>3
<1>4. ASSUME NEW n \in MinInt..MaxInt
      PROVE  Wrap(n) = n
  <2> DEFINE m == n - MinInt
  <2>1. m \in 0..(width - 1)
    BY <1>1, <1>2
  <2>2. Wrap(n) = (m % width) + MinInt
    BY DEF Wrap, width
  <2>3. n = m + MinInt
    BY <1>1
  <2> HIDE DEF m
  <2>4. m % width = m
    BY <1>1, <2>1
  <2>. QED  BY <1>1, <2>1, <2>2, <2>3, <2>4
<1>. QED  BY <1>3, <1>4

\* So does the conversion of a number, whatever the build makes of one too large.
LEMMA ToIntInt ==
    /\ \A n \in Int : ToInt(n) \in MinInt..MaxInt
    /\ \A n \in MinInt..MaxInt : ToInt(n) = n
BY ToolConstants DEF ToInt, MinInt

\* A float64 with an integer in it is one.
LEMMA DoubleInt == \A n \in Int : Double(n) \in Int
BY DEF Double

\* A product with Minute that is a positive int has a factor that is one.
LEMMA Minutes ==
    ASSUME NEW n \in Int, n * Minute > 0
    PROVE  n * Minute \in Int /\ n > 0 /\ n <= n * Minute
BY ToolConstants

-----------------------------------------------------------------------------
(* Arguments *)

Lengths == {"ttl_seconds", "ttl_minutes"}

\* The numbers among the arguments of locks are integers, and their agents are
\* texts that clients send, or nothing.
WellTyped(args) ==
    /\ \A k \in Lengths : args[k].kind = "number" => args[k].n \in Int
    /\ ArgStr(args, "agent_id") \in Names \cup {0}

\* Every call has arguments like that.
LEMMA ArgumentsTyped ==
    ASSUME NEW tool \in Tools, NEW args \in Arguments[tool]
    PROVE  WellTyped(args)
<1>1. Lengths \cup {"agent_id"} \subseteq AllKeys
  <2>1. "lock_resource" \in Tools /\ "agent_id" \in Schema["lock_resource"]
    BY DEF Tools, Schema, And, LockSchema
  <2>. QED  BY <2>1 DEF AllKeys, Lengths
<1>2. \A k \in AllKeys : args[k] = Absent \/ args[k] \in Choices(k)
  BY DEF Arguments
<1>3. ASSUME NEW k \in Lengths
      PROVE  args[k].kind = "number" => args[k].n \in Int
  <2>1. args[k] = Absent \/ args[k] \in Spans
    BY <1>1, <1>2 DEF Choices, Lengths
  <2>. QED  BY <2>1, ToolConstants DEF Spans, Absent, Other, Value
<1>4. ArgStr(args, "agent_id") \in Names \cup {0}
  <2>1. args["agent_id"] \in {Absent, Other} \cup Texts
    BY <1>1, <1>2 DEF Choices
  <2>. QED  BY <2>1 DEF ArgStr, Texts, Absent, Other, Value
<1>. QED  BY <1>3, <1>4 DEF WellTyped

\* The lifetime a handler computes from them is an int.
LEMMA SpanInt ==
    ASSUME NEW args, WellTyped(args)
    PROVE  ttlSeconds(args, DefaultTTL) \in MinInt..MaxInt
<1>1. DefaultTTL \in MinInt..MaxInt /\ 0 \in MinInt..MaxInt
  BY ToolConstants DEF MinInt
<1>2. \A k \in Lengths, d \in {0, DefaultTTL} : ArgInt(args, k, d) \in MinInt..MaxInt
  BY <1>1, ToIntInt, DoubleInt DEF ArgInt, WellTyped
<1>3. \A n \in MinInt..MaxInt : n * Minute \in Int
  BY ToolConstants DEF MinInt
<1>. QED  BY <1>1, <1>2, <1>3, WrapInt DEF ttlSeconds, Lengths

\* What is promised is over by the time that the expiry computed from the same
\* arguments comes: the promise is cut short nowhere, or there is none.
LEMMA PromiseKept ==
    ASSUME NEW args, WellTyped(args), clock \in 0..MaxClock, ttlSeconds(args, DefaultTTL) > 0
    PROVE  /\ Promise(args) \in Int
           /\ \/ Promise(args) <= clock
              \/ Promise(args) = Wrap(clock + ttlSeconds(args, DefaultTTL))
<1> DEFINE ttl == ttlSeconds(args, DefaultTTL)
           Ended(s) == IF clock + s <= MaxInt THEN clock + s ELSE 0
<1>1. MinInt \in Int /\ MaxInt \in Nat /\ clock \in Nat /\ MinInt < 0 /\ Minute \in Nat
  BY ToolConstants DEF MinInt
<1>2. ASSUME NEW s \in Int
      PROVE  /\ Ended(s) \in Int
             /\ s <= 0 => Ended(s) <= clock
             /\ \/ Ended(s) <= clock
                \/ s > 0 /\ s \in MinInt..MaxInt /\ Ended(s) = clock + s /\ Wrap(clock + s) = clock + s
  BY <1>1, WrapInt
<1>3. CASE Given(args, "ttl_seconds")
  <2> DEFINE s == Asked(args["ttl_seconds"])
  <2>1. s \in Int /\ Promise(args) = Ended(s)
    BY <1>3, DoubleInt DEF Promise, Asked, WellTyped, Lengths
  <2>2. CASE args["ttl_seconds"].kind = "number"
    <3>1. ttl = ToInt(s)
      BY <1>3, <2>2 DEF ttlSeconds, ArgInt, Asked
    <3> HIDE DEF s
    <3>. QED  BY <1>2, <2>1, <3>1, ToIntInt
  <2>3. CASE args["ttl_seconds"].kind # "number"
    <3>1. s = 0
      BY <2>3 DEF Asked
    <3> HIDE DEF s
    <3>. QED  BY <1>2, <2>1, <3>1
  <2>. QED  BY <2>2, <2>3
<1>4. CASE ~Given(args, "ttl_seconds") /\ Given(args, "ttl_minutes")
  <2> DEFINE n == Double(args["ttl_minutes"].n)
  <2>1. CASE args["ttl_minutes"].kind = "number"
    <3>1. n \in Int /\ n * Minute \in Int /\ Promise(args) = Ended(n * Minute)
      <4>1. n \in Int /\ Promise(args) = Ended(n * Minute)
        BY <1>4, <2>1, DoubleInt DEF Promise, Asked, WellTyped, Lengths
      <4> HIDE DEF n
      <4>. QED  BY <1>1, <4>1
    <3>2. ttl = Wrap(ToInt(n) * Minute)
      BY <1>4, <2>1 DEF ttlSeconds, ArgInt
    <3> HIDE DEF ttl, n, Ended
    <3>3. CASE Ended(n * Minute) <= clock
      BY <1>2, <3>1, <3>3
    <3>4. CASE ~(Ended(n * Minute) <= clock)
      <4>1. /\ n * Minute > 0 /\ n * Minute \in MinInt..MaxInt
            /\ Ended(n * Minute) = clock + n * Minute
            /\ Wrap(clock + n * Minute) = clock + n * Minute
        BY <1>2, <3>1, <3>4
      <4>2. n \in MinInt..MaxInt
        <5>1. n > 0 /\ n <= n * Minute
          BY <3>1, <4>1, Minutes
        <5>. QED  BY <1>1, <3>1, <4>1, <5>1
      <4>3. ttl = n * Minute
        BY <3>2, <4>1, <4>2, ToIntInt, WrapInt
      <4>. QED  BY <1>2, <3>1, <4>1, <4>3 DEF ttl
    <3>. QED  BY <3>3, <3>4
  <2>2. CASE args["ttl_minutes"].kind # "number"
    <3>1. 0 * Minute = 0
      BY <1>1
    <3>2. Promise(args) = Ended(0)
      BY <1>4, <2>2, <3>1 DEF Promise, Asked
    <3>. QED  BY <1>2, <3>2
  <2>. QED  BY <2>1, <2>2
<1>5. CASE ~Given(args, "ttl_seconds") /\ ~Given(args, "ttl_minutes")
  <2>1. ttl = DefaultTTL /\ Promise(args) = Ended(DefaultTTL)
    BY <1>5 DEF ttlSeconds, Promise
  <2>. QED  BY <1>2, <2>1, ToolConstants
<1>. QED  BY <1>3, <1>4, <1>5

-----------------------------------------------------------------------------
(* The schemas and the handlers *)

Insisted(handler) == {handler[i] : i \in DOMAIN handler}

\* What a schema requires, its handler insists on; and all that it insists on,
\* except for renew_lock, the schema requires.
AgreeOn(t, required, handler) ==
    /\ required \subseteq Insisted(handler)
    /\ t # "renew_lock" => Insisted(handler) \subseteq required
    /\ "lock_token or agent_id" \notin required

Agree(schema, handlers) ==
    /\ DOMAIN handlers = DOMAIN schema
    /\ \A t \in DOMAIN schema : AgreeOn(t, schema[t], handlers[t])

\* What the handlers' lists have in them.
LEMMA Elements ==
    /\ Insisted(<< >>) = {}
    /\ \A k : Insisted(<<k>>) = {k}
    /\ \A k, l : Insisted(<<k, l>>) = {k, l}
    /\ \A k, l, m : Insisted(<<k, l, m>>) = {k, l, m}
<1>1. /\ DOMAIN << >> = {}
      /\ \A k : DOMAIN <<k>> = {1} /\ <<k>>[1] = k
      /\ \A k, l : DOMAIN <<k, l>> = {1, 2} /\ <<k, l>>[1] = k /\ <<k, l>>[2] = l
      /\ \A k, l, m : DOMAIN <<k, l, m>> = {1, 2, 3}
                      /\ <<k, l, m>>[1] = k /\ <<k, l, m>>[2] = l /\ <<k, l, m>>[3] = m
  OBVIOUS
<1>. QED  BY <1>1 DEF Insisted

\* Each of the four lists of schemas agrees with its list of handlers.
LEMMA ListsAgree ==
    /\ Agree(LockSchema, LockHandlers) /\ Agree(NoteSchema, NoteHandlers)
    /\ Agree(AgentSchema, AgentHandlers) /\ Agree(TaskSchema, TaskHandlers)
<1>1. Agree(LockSchema, LockHandlers)
  <2>1. /\ DOMAIN LockHandlers = DOMAIN LockSchema
        /\ DOMAIN LockSchema =
                   {"lock_resource", "lock_resources", "unlock_resource",
                    "renew_lock", "list_locks"}
    BY DEF LockSchema, LockHandlers
  <2>2. AgreeOn("lock_resource", LockSchema["lock_resource"], LockHandlers["lock_resource"])
    BY Elements DEF AgreeOn, LockSchema, LockHandlers
  <2>3. AgreeOn("lock_resources", LockSchema["lock_resources"], LockHandlers["lock_resources"])
    BY Elements DEF AgreeOn, LockSchema, LockHandlers
  <2>4. AgreeOn("unlock_resource", LockSchema["unlock_resource"], LockHandlers["unlock_resource"])
    BY Elements DEF AgreeOn, LockSchema, LockHandlers
  <2>5. AgreeOn("renew_lock", LockSchema["renew_lock"], LockHandlers["renew_lock"])
    <3>1. /\ LockSchema["renew_lock"] = {"name"}
          /\ LockHandlers["renew_lock"] = <<"name", "lock_token or agent_id">>
      BY DEF LockSchema, LockHandlers
    <3>2. Insisted(LockHandlers["renew_lock"]) = {"name", "lock_token or agent_id"}
      BY <3>1, Elements
    <3>. QED  BY <3>1, <3>2 DEF AgreeOn
  <2>6. AgreeOn("list_locks", LockSchema["list_locks"], LockHandlers["list_locks"])
    BY Elements DEF AgreeOn, LockSchema, LockHandlers
  <2>. QED  BY <2>1, <2>2, <2>3, <2>4, <2>5, <2>6 DEF Agree
<1>2. Agree(NoteSchema, NoteHandlers)
  <2>1. /\ DOMAIN NoteHandlers = DOMAIN NoteSchema
        /\ DOMAIN NoteSchema =
                   {"set_note", "get_note", "delete_note",
                    "list_notes", "set_note_if", "increment_counter"}
    BY DEF NoteSchema, NoteHandlers
  <2>2. AgreeOn("set_note", NoteSchema["set_note"], NoteHandlers["set_note"])
    BY Elements DEF AgreeOn, NoteSchema, NoteHandlers
  <2>3. AgreeOn("get_note", NoteSchema["get_note"], NoteHandlers["get_note"])
    BY Elements DEF AgreeOn, NoteSchema, NoteHandlers
  <2>4. AgreeOn("delete_note", NoteSchema["delete_note"], NoteHandlers["delete_note"])
    BY Elements DEF AgreeOn, NoteSchema, NoteHandlers
  <2>5. AgreeOn("list_notes", NoteSchema["list_notes"], NoteHandlers["list_notes"])
    BY Elements DEF AgreeOn, NoteSchema, NoteHandlers
  <2>6. AgreeOn("set_note_if", NoteSchema["set_note_if"], NoteHandlers["set_note_if"])
    BY Elements DEF AgreeOn, NoteSchema, NoteHandlers
  <2>7. AgreeOn("increment_counter", NoteSchema["increment_counter"], NoteHandlers["increment_counter"])
    BY Elements DEF AgreeOn, NoteSchema, NoteHandlers
  <2>. QED  BY <2>1, <2>2, <2>3, <2>4, <2>5, <2>6, <2>7 DEF Agree
<1>3. Agree(AgentSchema, AgentHandlers)
  <2>1. /\ DOMAIN AgentHandlers = DOMAIN AgentSchema
        /\ DOMAIN AgentSchema =
                   {"register_agent", "unregister_agent", "list_agents",
                    "signal_event", "wait_for_event", "clear_event"}
    BY DEF AgentSchema, AgentHandlers
  <2>2. AgreeOn("register_agent", AgentSchema["register_agent"], AgentHandlers["register_agent"])
    BY Elements DEF AgreeOn, AgentSchema, AgentHandlers
  <2>3. AgreeOn("unregister_agent", AgentSchema["unregister_agent"], AgentHandlers["unregister_agent"])
    BY Elements DEF AgreeOn, AgentSchema, AgentHandlers
  <2>4. AgreeOn("list_agents", AgentSchema["list_agents"], AgentHandlers["list_agents"])
    BY Elements DEF AgreeOn, AgentSchema, AgentHandlers
  <2>5. AgreeOn("signal_event", AgentSchema["signal_event"], AgentHandlers["signal_event"])
    BY Elements DEF AgreeOn, AgentSchema, AgentHandlers
  <2>6. AgreeOn("wait_for_event", AgentSchema["wait_for_event"], AgentHandlers["wait_for_event"])
    BY Elements DEF AgreeOn, AgentSchema, AgentHandlers
  <2>7. AgreeOn("clear_event", AgentSchema["clear_event"], AgentHandlers["clear_event"])
    BY Elements DEF AgreeOn, AgentSchema, AgentHandlers
  <2>. QED  BY <2>1, <2>2, <2>3, <2>4, <2>5, <2>6, <2>7 DEF Agree
<1>4. Agree(TaskSchema, TaskHandlers)
  <2>1. /\ DOMAIN TaskHandlers = DOMAIN TaskSchema
        /\ DOMAIN TaskSchema =
                   {"push_task", "claim_next_task", "complete_task",
                    "fail_task", "list_tasks"}
    BY DEF TaskSchema, TaskHandlers
  <2>2. AgreeOn("push_task", TaskSchema["push_task"], TaskHandlers["push_task"])
    BY Elements DEF AgreeOn, TaskSchema, TaskHandlers
  <2>3. AgreeOn("claim_next_task", TaskSchema["claim_next_task"], TaskHandlers["claim_next_task"])
    BY Elements DEF AgreeOn, TaskSchema, TaskHandlers
  <2>4. AgreeOn("complete_task", TaskSchema["complete_task"], TaskHandlers["complete_task"])
    BY Elements DEF AgreeOn, TaskSchema, TaskHandlers
  <2>5. AgreeOn("fail_task", TaskSchema["fail_task"], TaskHandlers["fail_task"])
    BY Elements DEF AgreeOn, TaskSchema, TaskHandlers
  <2>6. AgreeOn("list_tasks", TaskSchema["list_tasks"], TaskHandlers["list_tasks"])
    BY Elements DEF AgreeOn, TaskSchema, TaskHandlers
  <2>. QED  BY <2>1, <2>2, <2>3, <2>4, <2>5, <2>6 DEF Agree
<1>. QED  BY <1>1, <1>2, <1>3, <1>4

\* Lists that agree still do when they are put together.
LEMMA AgreeTogether ==
    ASSUME NEW f, NEW fh, NEW g, NEW gh, Agree(f, fh), Agree(g, gh)
    PROVE  Agree(And(f, g), And(fh, gh))
<1>1. DOMAIN And(f, g) = DOMAIN f \cup DOMAIN g /\ DOMAIN And(fh, gh) = DOMAIN And(f, g)
  BY DEF Agree, And
<1>2. \A t \in DOMAIN f : And(f, g)[t] = f[t] /\ And(fh, gh)[t] = fh[t]
  BY DEF Agree, And
<1>3. \A t \in DOMAIN g \ DOMAIN f : And(f, g)[t] = g[t] /\ And(fh, gh)[t] = gh[t]
  BY DEF Agree, And
<1>. QED  BY <1>1, <1>2, <1>3 DEF Agree

\* So the schemas and the handlers do, tool by tool.
LEMMA SchemasAgree == Agree(Schema, Handlers)
BY ListsAgree, AgreeTogether DEF Schema, Handlers

\* A call that keeps to its schema has all that its handler insists on, and what
\* is left out, the handler misses.
LEMMA CallsMatch ==
    ASSUME NEW tool \in Tools, NEW args
    PROVE  /\ Conforms(tool, args) /\ tool # "renew_lock" => Accepts(tool, args)
           /\ Lacks(tool, args) => ~Accepts(tool, args)
<1>1. ASSUME NEW k \in Payloads
      PROVE  Has(args, k) <=> Given(args, k)
  BY DEF Has, Payloads
<1>2. ASSUME NEW k, k \notin Payloads
      PROVE  /\ k = "id" => (Has(args, k) <=> args[k].kind \in {"number", "fraction"})
             /\ k = "names" => (Has(args, k) <=> args[k].kind = "list" /\ args[k].n > 0)
             /\ k \notin {"id", "names", "lock_token or agent_id"}
                   => (Has(args, k) <=> ArgStr(args, k) # 0)
  BY <1>2 DEF Has, Payloads
<1>3. ASSUME NEW k, args[k].kind = "text"
      PROVE  Given(args, k)
  BY <1>3 DEF Given, Absent, Value
<1>4. ASSUME NEW k, k # "lock_token or agent_id", ~Given(args, k)
      PROVE  ~Has(args, k)
  <2>1. args[k].kind = "absent"
    <3>1. args[k] = Absent
      BY <1>4 DEF Given
    <3>. QED  BY <3>1 DEF Absent, Value
  <2>. QED  BY <1>1, <1>2, <1>4, <2>1 DEF ArgStr
<1>5. /\ \A k \in Schema[tool] : \E i \in DOMAIN Handlers[tool] : Handlers[tool][i] = k
      /\ tool # "renew_lock" => \A i \in DOMAIN Handlers[tool] : Handlers[tool][i] \in Schema[tool]
      /\ "lock_token or agent_id" \notin Schema[tool]
  BY SchemasAgree DEF Agree, AgreeOn, Insisted, Tools
<1>6. ASSUME Conforms(tool, args), tool # "renew_lock"
      PROVE  Accepts(tool, args)
  <2>1. ASSUME NEW k \in Schema[tool]
        PROVE  Has(args, k)
    BY <1>1, <1>3, <1>6 DEF Conforms
  <2>. QED  BY <1>5, <1>6, <2>1 DEF Accepts
<1>7. ASSUME Lacks(tool, args)
      PROVE  ~Accepts(tool, args)
  <2>1. PICK k \in Schema[tool] : ~Given(args, k)
    BY <1>7 DEF Lacks
  <2>2. ~Has(args, k)
    BY <1>4, <1>5, <2>1
  <2>. QED  BY <1>5, <2>2 DEF Accepts
<1>. QED  BY <1>6, <1>7

-----------------------------------------------------------------------------
(* Steps *)

\* The row outlives what was promised, as long as there is one.
Outlives == row # NoRow => until <= clock \/ until <= row.expires

IInv == TypeOK /\ SchemaMatches /\ Outlives

\* Answers on their way have a status and a body that answers have, and come from
\* a handler that agrees with its schema.
AnswerOK(r) ==
    /\ r.status \in {0, 200, 202} \cup {Statuses[i] : i \in DOMAIN Statuses}
    /\ r.body \subseteq {"result", "error"}
    /\ r.conforms /\ r.tool # "renew_lock" => r.accepted
    /\ r.lacks => ~r.accepted

\* Every request is answered like that.
LEMMA RequestAnswered == Request => AnswerOK(reply')
<1> SUFFICES ASSUME Request PROVE AnswerOK(reply')
  OBVIOUS
<1>1. ASSUME NEW status \in {200, 202}, NEW method, NEW body \in {{"result"}, {"error"}, {}},
             Answer(status, method, body)
      PROVE  AnswerOK(reply')
  BY <1>1 DEF Answer, AnswerOK, NoReply
<1>2. \A method : Envelope(method) \in {{"result"}, {"error"}, {}}
  BY DEF Envelope
<1>3. ASSUME NEW bad, Refused(bad)
      PROVE  AnswerOK(reply')
  <2>1. PICK i \in DOMAIN Checks :
           Answer(Statuses[i], "none", IF Statuses[i] = 200 THEN {"error"} ELSE {})
    BY <1>3 DEF Refused
  <2>2. i \in DOMAIN Statuses
    BY DEF Checks, Statuses
  <2>. QED  BY <2>1, <2>2 DEF Answer, AnswerOK, NoReply
<1>4. ASSUME NEW method, NEW id \in BOOLEAN, Method(method, id)
      PROVE  AnswerOK(reply')
  <2>1. \/ Answer(202, "notification", {})
        \/ Answer(200, method, Envelope(method))
    BY <1>4 DEF Method
  <2>. QED  BY <1>1, <1>2, <2>1
<1>5. CASE BadParams \/ UnknownTool
  <2>1. \/ Answer(200, "tools/call", {"error"})
        \/ Answer(200, "tools/call", Envelope("tools/call"))
    BY <1>5 DEF BadParams, UnknownTool
  <2>. QED  BY <1>1, <1>2, <2>1
<1>6. ASSUME NEW tool \in Tools, NEW args, Call(tool, args)
      PROVE  AnswerOK(reply')
  <2>1. Envelope("tools/call") = {"result"}
    BY DEF Envelope
  <2>. QED  BY <1>6, <2>1, CallsMatch DEF Call, AnswerOK
<1>. QED  BY <1>3, <1>4, <1>5, <1>6 DEF Request

\* The part of the invariant that is about the tables.
Table == /\ grants \in 0..MaxGrants /\ until \in Int /\ registered \subseteq Names
         /\ row = NoRow \/ row \in [agent : Names, token : 1..grants, expires : Int]
         /\ Outlives

\* Who gets past a handler that insists on an agent_id has a name.
LEMMA Named ==
    ASSUME NEW tool \in {"lock_resource", "lock_resources", "register_agent"},
           NEW args \in Arguments[tool], Accepts(tool, args)
    PROVE  ArgStr(args, "agent_id") \in Names
<1>1. tool \in Tools /\ "agent_id" \in Schema[tool]
  BY DEF Tools, Schema, And, LockSchema, NoteSchema, AgentSchema, TaskSchema
<1>2. PICK i \in DOMAIN Handlers[tool] : Handlers[tool][i] = "agent_id"
  BY <1>1, SchemasAgree DEF Agree, AgreeOn, Insisted, Tools
<1>3. Has(args, "agent_id")
  BY <1>2 DEF Accepts
<1>4. ArgStr(args, "agent_id") # 0
  BY <1>3 DEF Has, Payloads
<1>. QED  BY <1>1, <1>4, ArgumentsTyped DEF WellTyped

\* Taking the row, and renewing it, writes an int that outlives the promise.
LEMMA Granted ==
    ASSUME Table, clock \in 0..MaxClock, clock' = clock,
           NEW tool \in Tools, NEW args \in Arguments[tool],
           \/ Lock(ArgStr(args, "agent_id"), args) /\ ArgStr(args, "agent_id") \in Names
           \/ Renew(args)
    PROVE  Table'
<1> DEFINE ttl == ttlSeconds(args, DefaultTTL)
<1>1. CASE Same
  BY <1>1 DEF Table, Same, Outlives, NoRow
<1>2. CASE /\ ttl > 0 /\ until' = Promise(args) /\ registered' = registered
           /\ \/ /\ grants < MaxGrants /\ grants' = grants + 1
                 /\ ArgStr(args, "agent_id") \in Names
                 /\ row' = [agent |-> ArgStr(args, "agent_id"), token |-> grants + 1,
                            expires |-> Wrap(clock + ttl)]
              \/ /\ row # NoRow /\ grants' = grants
                 /\ row' = [row EXCEPT !.expires = Wrap(clock + ttl)]
  <2>1. WellTyped(args) /\ ttl \in MinInt..MaxInt
    BY ArgumentsTyped, SpanInt
  <2>2. until' \in Int /\ (until' <= clock \/ until' = Wrap(clock + ttl))
    BY <1>2, <2>1, PromiseKept
  <2>3. Wrap(clock + ttl) \in Int
    <3>1. clock + ttl \in Int
      BY <2>1, ToolConstants DEF MinInt
    <3>. QED  BY <3>1, WrapInt, ToolConstants DEF MinInt
  <2> HIDE DEF ttl
  <2>4. row'.expires = Wrap(clock + ttl) /\ grants' \in 0..MaxGrants
        /\ row' \in [agent : Names, token : 1..grants', expires : Int]
    BY <1>2, <2>3, ToolConstants DEF Table
  <2>5. Outlives'
    BY <2>2, <2>3, <2>4 DEF Outlives
  <2>. QED  BY <1>2, <2>2, <2>4, <2>5 DEF Table
<1>. QED  BY <1>1, <1>2 DEF Lock, Renew, Live

\* Taking the row away leaves nothing to outlive.
LEMMA Gone ==
    ASSUME Table, row' = NoRow, until' = 0, grants' = grants, registered' \subseteq Names
    PROVE  Table'
BY DEF Table, Outlives

LEMMA UnregisterTable ==
    ASSUME Table, clock' = clock, NEW agent, Unregister(agent)
    PROVE  Table'
<1>1. registered' \subseteq Names
  BY DEF Unregister, Table
<1>2. CASE Drop
  BY <1>1, <1>2, Gone DEF Drop
<1>3. CASE UNCHANGED <<row, grants, until>>
  BY <1>1, <1>3 DEF Table, Outlives, NoRow
<1>. QED  BY <1>2, <1>3 DEF Unregister, ReleaseAgentLocks

\* No request takes the tables out of their types.
LEMMA RequestTable ==
    ASSUME Table, clock \in 0..MaxClock, Request
    PROVE  Table'
<1>1. clock' = clock
  BY DEF Request
<1>2. CASE Same
  BY <1>1, <1>2 DEF Table, Same, Outlives, NoRow
<1>3. ASSUME NEW tool \in Tools, NEW args \in Arguments[tool], Accepts(tool, args), Reach(tool, args)
      PROVE  Table'
  <2>1. CASE tool \in {"lock_resource", "lock_resources"}
    <3>1. Lock(ArgStr(args, "agent_id"), args) /\ ArgStr(args, "agent_id") \in Names
      BY <1>3, <2>1, Named DEF Reach
    <3>. QED  BY <1>1, <3>1, Granted
  <2>2. CASE tool = "renew_lock"
    <3>1. Renew(args)
      BY <1>3, <2>2 DEF Reach
    <3>. QED  BY <1>1, <3>1, Granted
  <2>3. CASE tool = "unlock_resource"
    <3>1. Same \/ (Drop /\ UNCHANGED registered)
      BY <1>3, <2>3 DEF Reach, Unlock
    <3>. QED  BY <1>2, <3>1, Gone DEF Drop, Table
  <2>4. CASE tool = "register_agent"
    <3>1. Register(args) /\ ArgStr(args, "agent_id") \in Names
      BY <1>3, <2>4, Named DEF Reach
    <3>. QED  BY <1>1, <3>1 DEF Register, Table, Outlives, NoRow
  <2>5. CASE tool = "unregister_agent"
    <3>1. Unregister(ArgStr(args, "agent_id"))
      BY <1>3, <2>5 DEF Reach
    <3>. QED  BY <1>1, <3>1, UnregisterTable
  <2>. QED  BY <1>2, <1>3, <2>1, <2>2, <2>3, <2>4, <2>5 DEF Reach
<1>4. ASSUME NEW tool \in Tools, NEW args \in Arguments[tool], Call(tool, args)
      PROVE  Table'
  BY <1>2, <1>3, <1>4 DEF Call
<1>. QED  BY <1>2, <1>4 DEF Request, Refused, Method, BadParams, UnknownTool

\* The initial state satisfies the inductive invariant.
LEMMA InitInv == Init => IInv
BY ToolConstants DEF Init, IInv, TypeOK, SchemaMatches, Outlives, NoReply

\* Every step keeps it.
LEMMA StepInv == IInv /\ [Next]_vars => IInv'
<1> SUFFICES ASSUME IInv, [Next]_vars PROVE IInv'
  OBVIOUS
<1>1. /\ IInv <=> /\ saturates \in BOOLEAN /\ clock \in 0..MaxClock
                  /\ Table /\ AnswerOK(reply)
      /\ IInv' <=> /\ saturates' \in BOOLEAN /\ clock' \in 0..MaxClock
                   /\ Table' /\ AnswerOK(reply')
  BY DEF IInv, TypeOK, Table, AnswerOK, SchemaMatches
<1>2. CASE Request
  BY <1>1, <1>2, RequestTable, RequestAnswered DEF Request
<1>3. CASE Received
  BY <1>1, <1>3 DEF Received, Same, Table, Outlives, NoRow, AnswerOK, NoReply
<1>4. CASE Expires
  <2>1. registered' \subseteq Names
    BY <1>1, <1>4 DEF Expires, Table
  <2>. QED  BY <1>1, <1>4, <2>1, Gone DEF Expires, Drop
<1>5. CASE AgentReaped
  <2>1. clock' = clock /\ Table'
    BY <1>1, <1>5, UnregisterTable DEF AgentReaped
  <2>. QED  BY <1>1, <1>5, <2>1 DEF AgentReaped
<1>6. CASE Tick
  <2>1. clock' \in 0..MaxClock /\ clock \in 0..MaxClock /\ clock' = clock + 1
    BY <1>1, <1>6, ToolConstants DEF Tick
  <2>2. Outlives'
    BY <1>1, <1>6, <2>1, ToolConstants DEF Tick, Same, Table, Outlives
  <2>3. Table'
    BY <1>1, <1>6, <2>2 DEF Tick, Same, Table, NoRow
  <2>. QED  BY <1>1, <1>6, <2>1, <2>3 DEF Tick
<1>7. CASE UNCHANGED vars
  BY <1>1, <1>7 DEF vars, Table, Outlives, NoRow
<1>. QED  BY <1>2, <1>3, <1>4, <1>5, <1>6, <1>7 DEF Next

-----------------------------------------------------------------------------

\* Only agents with a name hold the lock or are registered, whatever arguments are
\* left out, mistyped or empty, and a lock has a token that was made for it.
THEOREM TypeCorrect == Spec => []TypeOK
<1>1. IInv => TypeOK
  BY DEF IInv
<1>. QED  BY InitInv, StepInv, <1>1, PTL DEF Spec

\* The guard of no handler (tools.go) refuses a call that keeps to its schema, but
\* for renew_lock, and none lets a call pass that leaves out what is required.
THEOREM SchemasMatch == Spec => []SchemaMatches
<1>1. IInv => SchemaMatches
  BY DEF IInv
<1>. QED  BY InitInv, StepInv, <1>1, PTL DEF Spec

\* No step from the schema's words to the row cuts a lifetime short whose end is an
\* int: before it is over, the lock ends by unlock_resource, unregister_agent or the
\* presence reaper only.
THEOREM LifetimesKept == Spec => LifetimeKept
<1> DEFINE Kept == row # NoRow /\ row'.token # row.token
                      => \/ clock >= until
                         \/ reply'.tool \in {"unlock_resource", "unregister_agent"}
                         \/ row.agent \in registered \ registered'
<1>1. ASSUME IInv, Next
      PROVE  Kept
  <2> SUFFICES ASSUME row # NoRow, row'.token # row.token,
                      reply'.tool \notin {"unlock_resource", "unregister_agent"},
                      row.agent \notin registered \ registered'
               PROVE  clock >= until
    OBVIOUS
  <2>1. /\ row.expires \in Int /\ clock \in Int /\ until \in Int
        /\ until <= clock \/ until <= row.expires
    BY <1>1, ToolConstants DEF IInv, TypeOK, Outlives
  <2>2. row.expires <= clock
    <3>1. CASE Expires
      BY <3>1 DEF Expires
    <3>2. CASE Request
      <4>1. ~Same
        BY DEF Same
      <4>2. PICK tool \in Tools : \E args \in Arguments[tool] : Call(tool, args) /\ Reach(tool, args)
        BY <3>2, <4>1 DEF Request, Refused, Method, BadParams, UnknownTool, Call
      <4>3. PICK args \in Arguments[tool] : Call(tool, args) /\ Reach(tool, args)
        BY <4>2
      <4>4. tool \notin {"unlock_resource", "unregister_agent"}
        BY <4>3 DEF Call
      <4>5. ~Renew(args) /\ ~Register(args)
        BY <1>1, <4>1 DEF Renew, Register, IInv, TypeOK
      <4>6. Lock(ArgStr(args, "agent_id"), args)
        BY <4>1, <4>3, <4>4, <4>5 DEF Reach
      <4>7. ~Live
        BY <4>1, <4>6 DEF Lock
      <4>. QED  BY <2>1, <4>7 DEF Live
    <3>3. ~AgentReaped
      <4> SUFFICES ASSUME NEW agent \in registered, Unregister(agent) PROVE FALSE
        BY DEF AgentReaped
      <4>1. row.agent # agent
        BY DEF Unregister
      <4>. QED  BY <4>1 DEF Unregister, ReleaseAgentLocks
    <3>4. ~Received /\ ~Tick
      BY DEF Received, Tick, Same
    <3>. QED  BY <1>1, <3>1, <3>2, <3>3, <3>4 DEF Next
  <2>. QED  BY <2>1, <2>2
<1>2. IInv /\ [Next]_vars => [Kept]_vars
  BY <1>1
<1>. QED  BY <1>2, InitInv, StepInv, PTL DEF Spec, LifetimeKept
===============================================================================
