-------------------------- MODULE LockManagerProofs --------------------------
(***************************************************************************)
(* Proofs about the lock manager, for any names, agents, requests and      *)
(* bounds.  The inductive invariant is IInv; from it follow the            *)
(* implementation of the abstract lease and OwnerEndsLease.  At the end,   *)
(* that a request which waits keeps its slot (KeepsPlace).                 *)
(***************************************************************************)
EXTENDS LockManager, FiniteSetTheorems, TLAPS

IInv == TypeOK /\ TokensOwned /\ ArgsValid

\* The pieces of state that the handlers pass around have their types.
LEMMA Types ==
    /\ NoArgs \in Args
    /\ \A n \in Names, a \in Agents, g \in Nat, e \in Nat :
          [agent |-> a, token |-> <<n, g>>, expires |-> e] \in Row
    /\ NoRow \notin Row
BY LockConstants DEF NoArgs, With, Args, Token, Row

\* The initial state satisfies the inductive invariant.
LEMMA InitInv == Init => IInv
BY Types, LockConstants
   DEF Init, IInv, TypeOK, TableType, QueueType, RequestType, ReaperType, ClocksBehind,
       TokensOwned, ArgsValid, Places

\* A handler that returns leaves well-typed local variables.
LEMMA ReturnType ==
    ASSUME RequestType, ClocksBehind, TableType, NEW p \in Requests, Return(p)
    PROVE  RequestType' /\ \A q \in Requests : now'[q] <= clock
<1>1. NoArgs \in Args
  BY Types
<1>2. pc' \in [Requests -> Places]
  BY DEF RequestType, Return, Goto, Places
<1>3. arg' \in [Requests -> Args]
  BY <1>1 DEF RequestType, Return
<1>4. /\ now' \in [Requests -> Nat]
      /\ slot' \in [Requests -> Nat]
      /\ deadline' \in [Requests -> Nat]
  BY DEF RequestType, Return
<1>5. freed' \in [Requests -> SUBSET Names]
  BY DEF RequestType, Return
<1>6. \A q \in Requests : now'[q] <= clock
  BY DEF RequestType, Return, ClocksBehind, TableType
<1>. QED  BY <1>2, <1>3, <1>4, <1>5, <1>6 DEF RequestType

\* What a return or a move within a call does to the requests' half of IInv.
LEMMA ReturnInv ==
    ASSUME TypeOK, ArgsValid, NEW p \in Requests, Return(p), UNCHANGED <<clock, rnow>>
    PROVE  RequestType' /\ ClocksBehind' /\ ArgsValid'
<1>1. RequestType' /\ \A q \in Requests : now'[q] <= clock
  BY ReturnType DEF TypeOK
<1>2. ArgsValid'
  BY DEF Return, Goto, ArgsValid, TypeOK, RequestType
<1>. QED  BY <1>1, <1>2 DEF ClocksBehind, TypeOK

LEMMA ProceedInv ==
    ASSUME TypeOK, ArgsValid, NEW p \in Requests, NEW place \in Places, Proceed(p, place),
           UNCHANGED <<clock, rnow>>, arg[p].ttl \in TTLs
    PROVE  RequestType' /\ ClocksBehind' /\ ArgsValid'
BY DEF TypeOK, RequestType, ClocksBehind, ArgsValid, Proceed, Goto, local

\* A write of fresh leases keeps the table typed and its tokens owned.
LEMMA AcquireInv ==
    ASSUME TableType, RequestType, TokensOwned, NEW p \in Requests,
           NEW S \in SUBSET Names, Acquire(p, S)
    PROVE  /\ row' \in [Names -> Row \cup {NoRow}]
           /\ grants' \in Nat
           /\ told' \in [Agents -> SUBSET Token]
           /\ TokensOwned'
<1> DEFINE a == AgentOf[p]
           fresh == {<<n, grants + 1>> : n \in S}
<1>1. a \in Agents /\ now[p] + arg[p].ttl \in Nat
  BY LockConstants DEF RequestType, Args
<1>2. grants' = grants + 1 /\ grants' \in Nat
  BY DEF Acquire, TableType
<1>3. row' \in [Names -> Row \cup {NoRow}]
  BY <1>1, <1>2, Types DEF Acquire, TableType
<1>4. fresh \subseteq Token
  BY <1>2 DEF Token
<1>5. told' = [told EXCEPT ![a] = told[a] \cup fresh]
  BY DEF Acquire
<1>6. told' \in [Agents -> SUBSET Token]
  BY <1>1, <1>4, <1>5 DEF TableType
<1>7. \A b \in Agents : told'[b] = IF b = a THEN told[b] \cup fresh ELSE told[b]
  BY <1>5 DEF TableType
<1>8. \A b \in Agents : \A t \in told[b] : t[2] \in Nat /\ t[2] <= grants /\ t \notin fresh
  BY <1>2 DEF TokensOwned, TableType, Token
<1>9. \A b \in Agents : \A t \in told'[b] : t[2] <= grants'
  <2>1. \A t \in fresh : t[2] = grants'
    BY <1>2
  <2>2. \A b \in Agents : \A t \in told[b] : t[2] <= grants'
    BY <1>2, <1>8 DEF TableType
  <2>3. grants' <= grants'
    BY <1>2
  <2> HIDE DEF fresh
  <2>. QED  BY <1>7, <2>1, <2>2, <2>3
<1>10. \A b, c \in Agents : b # c => told'[b] \cap told'[c] = {}
  BY <1>7, <1>8 DEF TokensOwned
<1>11. ASSUME NEW n \in Names, row'[n] # NoRow
       PROVE  row'[n].token \in told'[row'[n].agent]
  <2>1. CASE n \in S
    <3>1. row'[n].agent = a /\ row'[n].token = <<n, grants + 1>>
      BY <2>1 DEF Acquire
    <3>2. row'[n].token \in fresh
      BY <2>1, <3>1
    <3> HIDE DEF fresh, a
    <3>. QED  BY <3>1, <3>2, <1>1, <1>7
  <2>2. CASE n \notin S
    <3>1. row'[n] = row[n]
      BY <2>2 DEF Acquire, TableType
    <3>2. row[n] \in Row
      BY <3>1, <1>11 DEF TableType
    <3>3. row[n].agent \in Agents /\ row[n].token \in told[row[n].agent]
      BY <3>1, <3>2, <1>11 DEF TokensOwned, Row
    <3> HIDE DEF fresh, a
    <3>. QED  BY <3>1, <3>3, <1>7
  <2>. QED  BY <2>1, <2>2
<1>. QED  BY <1>2, <1>3, <1>6, <1>9, <1>10, <1>11 DEF TokensOwned

\* So does the deletion of rows.
LEMMA DeleteInv ==
    ASSUME TableType, TokensOwned, NEW S, Delete(S)
    PROVE  /\ row' \in [Names -> Row \cup {NoRow}]
           /\ grants' = grants /\ told' = told
           /\ TokensOwned'
<1>1. row' \in [Names -> Row \cup {NoRow}]
  BY DEF Delete, TableType
<1>2. \A n \in Names : row'[n] # NoRow => row'[n] = row[n]
  BY DEF Delete, TableType
<1>. QED  BY <1>1, <1>2 DEF Delete, TokensOwned

\* Every step keeps the inductive invariant.
LEMMA StepInv == IInv /\ [Next]_vars => IInv'
<1> SUFFICES ASSUME IInv, [Next]_vars PROVE IInv'
  OBVIOUS
<1> USE DEF IInv, TypeOK
<1>1. ASSUME NEW p \in Requests, LockCall(p) \/ LockManyCall(p) \/ RenewCall(p)
      PROVE  IInv'
  <2>1. PICK place \in Places, args \in Args :
           Begin(p, place, args) /\ args.ttl \in TTLs
    <3>1. CASE LockCall(p)
      <4>1. PICK n \in Names, ttl \in TTLs, wait \in Waits, wake \in wakes[AgentOf[p]] \cup {0} :
               Begin(p, "first", With({n}, ttl, Clamp(wait), wake, NoToken))
        BY <3>1 DEF LockCall
      <4>2. Clamp(wait) \in Nat /\ wake \in Nat /\ ttl \in Nat
        BY LockConstants DEF Clamp, TableType
      <4>. QED  BY <4>1, <4>2 DEF Args, With, Places
    <3>2. CASE LockManyCall(p)
      <4>1. PICK S \in SUBSET Names, ttl \in TTLs :
               Begin(p, "many", With(S, ttl, 0, 0, NoToken))
        BY <3>2 DEF LockManyCall
      <4>. QED  BY <4>1, LockConstants DEF Args, With, Places
    <3>3. CASE RenewCall(p)
      <4>1. PICK n \in Names, ttl \in TTLs, tok \in told[AgentOf[p]] \cup {NoToken} :
               Begin(p, "renew", With({n}, ttl, 0, 0, tok))
        BY <3>3 DEF RenewCall
      <4>2. tok \in Token \cup {NoToken} /\ ttl \in Nat
        BY LockConstants DEF TableType
      <4>. QED  BY <4>1, <4>2 DEF Args, With, Places
    <3>. QED  BY <1>1, <3>1, <3>2, <3>3
  <2>2. UNCHANGED <<clock, row, grants, told, wakes, queue, horizon, pending, tickets, slot,
                    deadline, freed, rpc, rnow, heads, rslot>>
    BY <2>1 DEF Begin, table, waits, reaper
  <2>3. RequestType' /\ ClocksBehind'
    BY <2>1, <2>2 DEF Begin, Goto, RequestType, ClocksBehind, TableType
  <2>4. ArgsValid'
    BY <2>1 DEF Begin, Goto, RequestType, ArgsValid
  <2>. QED  BY <2>2, <2>3, <2>4 DEF TableType, QueueType, ReaperType, TokensOwned
<1>2. ASSUME NEW p \in Requests, NEW n \in Names, LockFirst(p, n)
      PROVE  IInv'
  <2>1. UNCHANGED <<clock, wakes, queue, horizon, pending, tickets, rpc, rnow, heads, rslot>>
    BY <1>2 DEF LockFirst, waits, reaper
  <2>2. CASE Acquire(p, {n}) /\ Return(p)
    BY <2>1, <2>2, AcquireInv, ReturnInv DEF TableType, QueueType, ReaperType
  <2>3. CASE UNCHANGED table /\ Return(p)
    BY <2>1, <2>3, ReturnInv DEF table, TableType, QueueType, ReaperType, TokensOwned
  <2>4. CASE UNCHANGED table /\ Proceed(p, "enqueue")
    <3>1. arg[p].ttl \in TTLs /\ "enqueue" \in Places
      BY <1>2 DEF LockFirst, ArgsValid, Places
    <3>. QED  BY <2>1, <2>4, <3>1, ProceedInv
              DEF table, TableType, QueueType, ReaperType, TokensOwned
  <2>. QED  BY <1>2, <2>2, <2>3, <2>4 DEF LockFirst
<1>3. ASSUME NEW p \in Requests, NEW n \in Names, Enqueue(p, n)
      PROVE  IInv'
  <2>1. /\ arg[p].ttl \in Nat /\ arg[p].wait \in Nat /\ arg[p].wake \in Nat
        /\ clock \in Nat /\ tickets \in Nat
    BY DEF RequestType, Args, TableType, QueueType
  <2>2. clock + WaiterHorizon(arg[p].ttl, arg[p].wait) \in Nat /\ clock + arg[p].wait \in Nat
    BY <2>1, LockConstants DEF WaiterHorizon
  <2> DEFINE w == IF arg[p].wake \in queue[n] THEN arg[p].wake ELSE tickets + 1
  <2>3. /\ w \in Nat
        /\ queue' = [queue EXCEPT ![n] = @ \cup {w}]
        /\ horizon' = [horizon EXCEPT ![w] = clock + WaiterHorizon(arg[p].ttl, arg[p].wait)]
        /\ slot' = [slot EXCEPT ![p] = w]
        /\ tickets' \in Nat
    BY <1>3, <2>1 DEF Enqueue
  <2> HIDE DEF w
  <2>4. QueueType'
    <3>1. queue' \in [Names -> SUBSET Nat]
      BY <2>3 DEF QueueType
    <3>2. horizon' \in [1..MaxTickets -> Nat]
      BY <2>2, <2>3 DEF QueueType
    <3>. QED  BY <1>3, <2>3, <3>1, <3>2 DEF Enqueue, QueueType
  <2>5. RequestType' /\ ArgsValid'
    <3>1. slot' \in [Requests -> Nat] /\ deadline' \in [Requests -> Nat]
      BY <1>3, <2>2, <2>3 DEF Enqueue, RequestType
    <3>2. pc' \in [Requests -> Places]
      BY <1>3 DEF Enqueue, Goto, RequestType, Places
    <3>3. ArgsValid'
      BY <1>3 DEF Enqueue, Goto, RequestType, ArgsValid
    <3>. QED  BY <1>3, <3>1, <3>2, <3>3 DEF Enqueue, RequestType
  <2>. QED  BY <1>3, <2>4, <2>5
            DEF Enqueue, table, reaper, TableType, ReaperType, ClocksBehind, TokensOwned
<1>4. ASSUME NEW p \in Requests, NEW n \in Names, CheckHead(p, n)
      PROVE  IInv'
  <2>1. RequestType' /\ ArgsValid' /\ ClocksBehind'
    BY <1>4 DEF CheckHead, Goto, RequestType, Places, ArgsValid, ClocksBehind, TableType, reaper
  <2>. QED  BY <1>4, <2>1
            DEF CheckHead, table, waits, reaper, TableType, QueueType, ReaperType, TokensOwned
<1>5. ASSUME NEW p \in Requests, NEW n \in Names, LockRetry(p, n)
      PROVE  IInv'
  <2>1. UNCHANGED <<clock, wakes, queue, horizon, pending, tickets, rpc, rnow, heads, rslot>>
    BY <1>5 DEF LockRetry, waits, reaper
  <2>2. arg[p].ttl \in TTLs /\ {"dequeue", "parked"} \subseteq Places
    BY <1>5 DEF LockRetry, ArgsValid, Places
  <2>3. CASE Acquire(p, {n}) /\ Proceed(p, "dequeue")
    BY <2>1, <2>2, <2>3, AcquireInv, ProceedInv DEF TableType, QueueType, ReaperType
  <2>4. CASE UNCHANGED table /\ Proceed(p, "parked")
    BY <2>1, <2>2, <2>4, ProceedInv DEF table, TableType, QueueType, ReaperType, TokensOwned
  <2>. QED  BY <1>5, <2>3, <2>4 DEF LockRetry
<1>6. ASSUME NEW p \in Requests, NEW n \in Names, Dequeue(p, n)
      PROVE  IInv'
  <2>1. RequestType' /\ ArgsValid' /\ ClocksBehind'
    BY <1>6, ReturnInv DEF Dequeue, reaper
  <2>2. QueueType'
    BY <1>6 DEF Dequeue, QueueType
  <2>. QED  BY <1>6, <2>1, <2>2
            DEF Dequeue, table, reaper, TableType, ReaperType, TokensOwned
<1>7. ASSUME NEW p \in Requests, NEW n \in Names, ReportPosition(p, n)
      PROVE  IInv'
  <2>1. RequestType' /\ ArgsValid' /\ ClocksBehind'
    BY <1>7, ReturnInv DEF ReportPosition, reaper
  <2>2. wakes' \in [Agents -> SUBSET Nat]
    BY <1>7, LockConstants DEF ReportPosition, TableType, RequestType
  <2>. QED  BY <1>7, <2>1, <2>2
            DEF ReportPosition, table, waits, reaper, TableType, QueueType, ReaperType, TokensOwned
<1>8. ASSUME NEW p \in Requests, Disconnect(p) \/ Released(p) \/ TxFails(p)
      PROVE  IInv'
  <2>1. Return(p) /\ UNCHANGED <<clock, table, wakes, waits, reaper>>
    BY <1>8 DEF Disconnect, Released, TxFails
  <2>2. RequestType' /\ ArgsValid' /\ ClocksBehind'
    BY <2>1, ReturnInv DEF reaper
  <2>. QED  BY <2>1, <2>2
            DEF table, waits, reaper, TableType, QueueType, ReaperType, TokensOwned
<1>9. ASSUME NEW p \in Requests, Woken(p) \/ Timeout(p)
      PROVE  IInv'
  <2>1. PICK place \in {"head", "position"} :
           /\ pc[p] = "parked" /\ Proceed(p, place)
           /\ pending' \subseteq pending
           /\ UNCHANGED <<clock, table, wakes, queue, horizon, tickets, reaper>>
    BY <1>9 DEF Woken, Timeout, waits
  <2>2. arg[p].ttl \in TTLs /\ place \in Places
    BY <2>1 DEF ArgsValid, Places
  <2>3. RequestType' /\ ArgsValid' /\ ClocksBehind'
    BY <2>1, <2>2, ProceedInv DEF reaper
  <2>. QED  BY <2>1, <2>3
            DEF table, reaper, TableType, QueueType, ReaperType, TokensOwned
<1>10. ASSUME NEW p \in Requests, LockMany(p)
       PROVE  IInv'
  <2>1. RequestType' /\ ArgsValid' /\ ClocksBehind'
    BY <1>10, ReturnInv DEF LockMany, reaper
  <2>2. CASE Acquire(p, arg[p].names)
    <3>1. arg[p].names \in SUBSET Names
      BY DEF RequestType, Args
    <3>. QED  BY <1>10, <2>1, <2>2, <3>1, AcquireInv
              DEF LockMany, waits, reaper, TableType, QueueType, ReaperType
  <2>3. CASE UNCHANGED table
    BY <1>10, <2>1, <2>3
       DEF LockMany, table, waits, reaper, TableType, QueueType, ReaperType, TokensOwned
  <2>. QED  BY <1>10, <2>2, <2>3 DEF LockMany
<1>11. ASSUME NEW p \in Requests, Unlock(p) \/ \E a \in Agents : ReleaseAgentLocks(p, a)
       PROVE  IInv'
  <2>1. PICK S \in SUBSET Names :
           /\ pc[p] = "idle" /\ Goto(p, "wake")
           /\ Delete(S) /\ freed' = [freed EXCEPT ![p] = S]
           /\ UNCHANGED <<clock, wakes, waits, arg, now, slot, deadline, reaper>>
    BY <1>11 DEF Unlock, ReleaseAgentLocks, Held
  <2>2. RequestType' /\ ArgsValid' /\ ClocksBehind'
    BY <2>1 DEF Goto, RequestType, Places, ArgsValid, ClocksBehind, reaper
  <2>. QED  BY <2>1, <2>2, DeleteInv DEF waits, reaper, TableType, QueueType, ReaperType
<1>12. ASSUME NEW p \in Requests, NEW n \in Names, WakeHead(p, n)
       PROVE  IInv'
  <2>1. PICK w \in Nat, place \in {"send", "wake"} :
           /\ pc[p] = "wake" /\ Goto(p, place)
           /\ slot' = [slot EXCEPT ![p] = w]
    <3>1. CASE \E w \in queue[n] : slot' = [slot EXCEPT ![p] = w] /\ Goto(p, "send")
      BY <1>12, <3>1 DEF WakeHead, QueueType
    <3>2. CASE UNCHANGED <<slot, pc>>
      <4>1. slot' = [slot EXCEPT ![p] = slot[p]] /\ pc' = [pc EXCEPT ![p] = "wake"]
        BY <1>12, <3>2 DEF WakeHead, RequestType
      <4>. QED  BY <1>12, <4>1 DEF WakeHead, Goto, RequestType
    <3>. QED  BY <1>12, <3>1, <3>2 DEF WakeHead
  <2>2. RequestType' /\ ArgsValid' /\ ClocksBehind'
    BY <1>12, <2>1 DEF WakeHead, Goto, RequestType, Places, ArgsValid, ClocksBehind, reaper
  <2>. QED  BY <1>12, <2>2
            DEF WakeHead, table, waits, reaper, TableType, QueueType, ReaperType, TokensOwned
<1>13. ASSUME NEW p \in Requests, Signal(p)
       PROVE  IInv'
  <2>1. RequestType' /\ ArgsValid' /\ ClocksBehind'
    BY <1>13 DEF Signal, Goto, RequestType, Places, ArgsValid, ClocksBehind, reaper
  <2>2. pending' \subseteq Nat
    BY <1>13 DEF Signal, RequestType, QueueType
  <2>. QED  BY <1>13, <2>1, <2>2
            DEF Signal, table, reaper, TableType, QueueType, ReaperType, TokensOwned
<1>14. ASSUME NEW p \in Requests, NEW n \in Names, Renew(p, n)
       PROVE  IInv'
  <2>1. RequestType' /\ ArgsValid' /\ ClocksBehind'
    BY <1>14, ReturnInv DEF Renew, reaper
  <2>2. /\ row' \in [Names -> Row \cup {NoRow}]
        /\ \A m \in Names : row'[m] # NoRow =>
              row[m] # NoRow /\ row'[m].agent = row[m].agent /\ row'[m].token = row[m].token
    <3>1. CASE ~FreeAt(n, now[p]) /\ Authorised(p, n, arg[p].token)
      <4>1. row[n] # NoRow /\ row[n] \in Row
        BY <3>1 DEF Authorised, TableType
      <4>2. now[p] + arg[p].ttl \in Nat
        BY DEF RequestType, Args
      <4>3. [agent |-> row[n].agent, token |-> row[n].token,
             expires |-> now[p] + arg[p].ttl] \in Row
        BY <4>1, <4>2 DEF Row
      <4>. QED  BY <1>14, <3>1, <4>1, <4>3 DEF Renew, TableType
    <3>2. CASE row' = row
      BY <3>2 DEF TableType
    <3>. QED  BY <1>14, <3>1, <3>2 DEF Renew
  <2>. QED  BY <1>14, <2>1, <2>2
            DEF Renew, waits, reaper, TableType, QueueType, ReaperType, TokensOwned
<1>15. CASE ReapDelete \/ SecondDaemon
  <2>1. PICK S : Delete(S) /\ UNCHANGED <<clock, wakes, waits, pc, local, rnow, heads, rslot>>
    <3>1. UNCHANGED table => Delete({})
      BY DEF table, Delete, TableType
    <3>. QED  BY <1>15, <3>1 DEF ReapDelete, SecondDaemon, reaper
  <2>2. rpc' \in {"sweep", rpc}
    BY <1>15 DEF ReapDelete, SecondDaemon, reaper
  <2>. QED  BY <2>1, <2>2, DeleteInv
            DEF waits, local, TableType, QueueType, RequestType, ReaperType, ClocksBehind,
                ArgsValid
<1>16. CASE ReapSweep
  <2>1. QueueType' /\ ReaperType'
    <3>1. queue' \in [Names -> SUBSET Nat] /\ horizon' \in [1..MaxTickets -> Nat]
      BY <1>16 DEF ReapSweep, QueueType
    <3>2. 1..MaxTickets \subseteq Nat
      BY LockConstants
    <3>3. heads' \subseteq Names \X Nat
      BY <1>16, <3>2 DEF ReapSweep
    <3>. QED  BY <1>16, <3>1, <3>3 DEF ReapSweep, QueueType, ReaperType
  <2>. QED  BY <1>16, <2>1
            DEF ReapSweep, table, local, TableType, RequestType, ClocksBehind, ArgsValid, TokensOwned
<1>17. CASE ReapStart \/ ReapProbe \/ ReapSignal \/ ReapEnd
  <2>1. ReaperType' /\ QueueType'
    <3>1. CASE ReapStart
      BY <3>1 DEF ReapStart, waits, ReaperType, QueueType, TableType
    <3>2. CASE ReapEnd
      BY <3>2 DEF ReapEnd, waits, ReaperType, QueueType
    <3>3. CASE ReapProbe
      <4>1. PICK e \in heads : /\ heads' = heads \ {e}
                               /\ rslot' = e[2] \/ rslot' = rslot
                               /\ rpc' \in {"signal", "probe"}
        BY <3>3 DEF ReapProbe
      <4>2. e[2] \in Nat
        BY DEF ReaperType
      <4>. QED  BY <3>3, <4>1, <4>2 DEF ReapProbe, waits, ReaperType, QueueType
    <3>4. CASE ReapSignal
      BY <3>4 DEF ReapSignal, ReaperType, QueueType
    <3>. QED  BY <1>17, <3>1, <3>2, <3>3, <3>4
  <2>2. rnow' <= clock
    BY <1>17 DEF ReapStart, ReapProbe, ReapSignal, ReapEnd, ClocksBehind, TableType
  <2>. QED  BY <1>17, <2>1, <2>2
            DEF ReapStart, ReapProbe, ReapSignal, ReapEnd, table, local, TableType, RequestType,
                ClocksBehind, ArgsValid, TokensOwned
<1>18. CASE Crash
  BY <1>18, Types, LockConstants
     DEF Crash, table, TableType, QueueType, RequestType, ReaperType, ClocksBehind, TokensOwned,
         ArgsValid, Places
<1>19. CASE Tick
  BY <1>19 DEF Tick, table, waits, local, reaper, TableType, QueueType, RequestType, ReaperType,
               ClocksBehind, TokensOwned, ArgsValid
<1>20. CASE UNCHANGED vars
  BY <1>20 DEF vars, table, waits, local, reaper, TableType, QueueType, RequestType, ReaperType,
               ClocksBehind, TokensOwned, ArgsValid
<1>. QED
  BY <1>1, <1>2, <1>3, <1>4, <1>5, <1>6, <1>7, <1>8, <1>9, <1>10, <1>11, <1>12, <1>13, <1>14,
     <1>15, <1>16, <1>17, <1>18, <1>19, <1>20
     DEF Next, Calls, Steps, Reap

\* Every variable of the lock manager keeps its type, and no handler and no
\* reaper ever holds a second from the future.
THEOREM TypeCorrect == Spec => []TypeOK
<1>1. Spec => []IInv
  BY InitInv, StepInv, PTL DEF Spec
<1>2. IInv => TypeOK
  BY DEF IInv
<1>. QED  BY <1>1, <1>2, PTL

\* A lease token never opens another agent's lease: requireTokenOwner
\* (locks.go:840-860) compares agent and token, and no token has two owners.
THEOREM Secrets == Spec => []TokensOwned
<1>1. Spec => []IInv
  BY InitInv, StepInv, PTL DEF Spec
<1>2. IInv => TokensOwned
  BY DEF IInv
<1>. QED  BY <1>1, <1>2, PTL

\* What the steps do to the table.  These four, and the clock, are all that
\* the abstract lease sees.
Granted(p, S) ==
    /\ \A n \in S : FreeAt(n, now[p])
    /\ arg[p].ttl \in TTLs
    /\ Acquire(p, S)

Renewed(p, n) ==
    /\ row[n] # NoRow /\ arg[p].ttl \in TTLs
    /\ row' = [row EXCEPT ![n] = [agent |-> row[n].agent, token |-> row[n].token,
                                  expires |-> now[p] + arg[p].ttl]]
    /\ grants' = grants

GivenUp(p, S) ==
    /\ p \notin Reapers
    /\ \A n \in S : row[n] # NoRow /\ row[n].agent = AgentOf[p]
    /\ pc[p] = "idle" /\ pc'[p] = "wake" /\ freed'[p] = S
    /\ Delete(S)

Reaped(S) == Delete(S) /\ \E t \in 0..clock : \A n \in S : FreeAt(n, t)

\* A step of the lock manager leaves the table alone, or grants, renews, gives
\* up, buries or reaps leases.
LEMMA TableSteps ==
    ASSUME IInv, [Next]_vars
    PROVE  \/ UNCHANGED <<row, grants>> /\ clock' \in {clock, clock + 1}
           \/ /\ clock' = clock
              /\ \/ \E p \in Requests, S \in SUBSET Names : Granted(p, S)
                 \/ \E p \in Requests, n \in Names : Renewed(p, n)
                 \/ \E p \in Requests, S \in SUBSET Names : GivenUp(p, S)
                 \/ \E a \in Agents : Buried(a) /\ grants' = grants
                 \/ \E S \in SUBSET Names : Reaped(S)
<1> USE DEF IInv, TypeOK
<1>1. ASSUME NEW p \in Requests, Calls(p)
      PROVE  \/ UNCHANGED <<row, grants>> /\ clock' = clock
             \/ clock' = clock /\ \E S \in SUBSET Names : GivenUp(p, S)
             \/ clock' = clock /\ \E a \in Agents : Buried(a) /\ grants' = grants
  <2>1. CASE LockCall(p) \/ LockManyCall(p) \/ RenewCall(p)
    BY <2>1 DEF LockCall, LockManyCall, RenewCall, Begin, table
  <2>2. CASE p \notin Reapers /\ Unlock(p)
    <3>1. PICK n \in Names, tok \in told[AgentOf[p]] \cup {NoToken} :
             Authorised(p, n, tok) /\ Delete({n}) /\ freed' = [freed EXCEPT ![p] = {n}]
      BY <2>2 DEF Unlock
    <3>2. row[n] # NoRow /\ row[n].agent = AgentOf[p]
      <4>1. CASE tok = NoToken
        BY <3>1, <4>1 DEF Authorised
      <4>2. CASE tok # NoToken
        <5>1. row[n] # NoRow /\ tok = row[n].token /\ tok \in told[AgentOf[p]]
          BY <3>1, <4>2 DEF Authorised
        <5>2. row[n].agent \in Agents /\ AgentOf[p] \in Agents
          BY <5>1, LockConstants DEF TableType, Row
        <5>. QED  BY <5>1, <5>2 DEF TokensOwned
      <4>. QED  BY <4>1, <4>2
    <3>. QED  BY <2>2, <3>1, <3>2 DEF Unlock, GivenUp, Goto, RequestType
  <2>3. ASSUME NEW a \in Agents, ReleaseAgentLocks(p, a)
        PROVE  \/ GivenUp(p, Held(a)) /\ clock' = clock
               \/ Buried(a) /\ UNCHANGED <<clock, grants>>
    <3>1. CASE p \notin Reapers
      BY <2>3, <3>1 DEF ReleaseAgentLocks, Buries, Held, GivenUp, Goto, RequestType
    <3>2. CASE p \in Reapers
      BY <2>3, <3>2 DEF ReleaseAgentLocks, Delete, Buried, Goto, RequestType, reaper
    <3>. QED  BY <3>1, <3>2
  <2>4. \A a \in Agents : Held(a) \in SUBSET Names
    BY DEF Held
  <2>. QED  BY <1>1, <2>1, <2>2, <2>3, <2>4 DEF Calls
<1>2. ASSUME NEW p \in Requests, Steps(p)
      PROVE  \/ UNCHANGED <<row, grants>> /\ clock' = clock
             \/ clock' = clock /\ \E S \in SUBSET Names : Granted(p, S)
             \/ clock' = clock /\ \E n \in Names : Renewed(p, n)
  <2>1. ASSUME NEW n \in Names, LockFirst(p, n) \/ LockRetry(p, n)
        PROVE  \/ UNCHANGED <<row, grants>> /\ clock' = clock
               \/ clock' = clock /\ Granted(p, {n})
    BY <2>1 DEF LockFirst, LockRetry, Granted, ArgsValid, table
  <2>2. ASSUME NEW n \in Names,
               Enqueue(p, n) \/ CheckHead(p, n) \/ Dequeue(p, n) \/ ReportPosition(p, n)
                  \/ WakeHead(p, n)
        PROVE  UNCHANGED <<row, grants>> /\ clock' = clock
    BY <2>2 DEF Enqueue, CheckHead, Dequeue, ReportPosition, WakeHead, table
  <2>3. ASSUME NEW n \in Names, Renew(p, n)
        PROVE  \/ UNCHANGED <<row, grants>> /\ clock' = clock
               \/ clock' = clock /\ Renewed(p, n)
    BY <2>3 DEF Renew, Renewed, Authorised, ArgsValid
  <2>4. CASE LockMany(p)
    <3>1. arg[p].names \in SUBSET Names
      BY DEF RequestType, Args
    <3>. QED  BY <2>4, <3>1 DEF LockMany, Granted, ArgsValid, table
  <2>5. CASE Signal(p) \/ Released(p)
    BY <2>5 DEF Signal, Released, table
  <2>. QED  BY <1>2, <2>1, <2>2, <2>3, <2>4, <2>5 DEF Steps
<1>3. ASSUME NEW p \in Requests, Woken(p) \/ Timeout(p) \/ Disconnect(p) \/ TxFails(p)
      PROVE  UNCHANGED <<row, grants>> /\ clock' = clock
  BY <1>3 DEF Woken, Timeout, Disconnect, TxFails, table
<1>4. CASE Reap
  <2>1. CASE ReapDelete
    BY <2>1 DEF ReapDelete, Reaped, table, ReaperType, ClocksBehind, TableType
  <2>2. CASE ReapStart \/ ReapSweep \/ ReapProbe \/ ReapSignal \/ ReapEnd
    BY <2>2 DEF ReapStart, ReapSweep, ReapProbe, ReapSignal, ReapEnd, table
  <2>. QED  BY <1>4, <2>1, <2>2 DEF Reap
<1>5. CASE Crash \/ Tick \/ UNCHANGED vars
  BY <1>5 DEF Crash, Tick, vars, table
<1>6. CASE SecondDaemon
  BY <1>6 DEF SecondDaemon, Reaped, Buried, Delete, reaper
<1>. QED  BY <1>1, <1>2, <1>3, <1>4, <1>5, <1>6 DEF Next

\* A lease that has not expired ends only when a request of its holder gives it
\* up, or when a presence reaper ends all that the holder has and nothing else,
\* for any number of agents, requests, reapers and restarts.
THEOREM OwnerEnds == Spec => OwnerEndsLease
<1>1. ASSUME IInv, [Next]_vars, NEW n \in Names,
             row[n] # NoRow, row[n].expires > clock,
             row'[n] = NoRow \/ row'[n].token # row[n].token
      PROVE  \/ \E p \in Requests \ Reapers :
                   /\ AgentOf[p] = row[n].agent
                   /\ pc[p] = "idle" /\ pc'[p] = "wake" /\ n \in freed'[p]
             \/ Buried(row[n].agent)
  <2> USE DEF IInv, TypeOK
  <2>1. row[n].expires \in Nat /\ clock \in Nat
    BY <1>1 DEF TableType, Row
  <2>2. \A t \in Nat : t <= clock => ~FreeAt(n, t)
    BY <1>1, <2>1 DEF FreeAt
  <2>3. CASE UNCHANGED <<row, grants>>
    BY <1>1, <2>3
  <2>4. ASSUME NEW p \in Requests, NEW S \in SUBSET Names, Granted(p, S)
        PROVE  FALSE
    <3>1. ~FreeAt(n, now[p])
      BY <1>1, <2>2 DEF RequestType, ClocksBehind
    <3>2. n \notin S
      BY <2>4, <3>1 DEF Granted
    <3>. QED  BY <1>1, <2>4, <3>2 DEF Granted, Acquire
  <2>5. ASSUME NEW p \in Requests, NEW m \in Names, Renewed(p, m)
        PROVE  FALSE
    BY <1>1, <2>5, Types DEF Renewed, TableType, RequestType, Args, Row
  <2>6. ASSUME NEW p \in Requests, NEW S \in SUBSET Names, GivenUp(p, S)
        PROVE  /\ p \notin Reapers /\ AgentOf[p] = row[n].agent
               /\ pc[p] = "idle" /\ pc'[p] = "wake" /\ n \in freed'[p]
    BY <1>1, <2>6 DEF GivenUp, Delete
  <2>7. ASSUME NEW S \in SUBSET Names, Reaped(S)
        PROVE  FALSE
    BY <1>1, <2>1, <2>2, <2>7 DEF Reaped, Delete
  <2>8. ASSUME NEW a \in Agents, Buried(a)
        PROVE  a = row[n].agent
    BY <1>1, <2>8 DEF Buried, Held
  <2>. QED  BY <1>1, <2>3, <2>4, <2>5, <2>6, <2>7, <2>8, TableSteps
<1>2. IInv /\ [Next]_vars =>
         [\A n \in Names :
             (/\ row[n] # NoRow /\ row[n].expires > clock
              /\ row'[n] = NoRow \/ row'[n].token # row[n].token)
             => \/ \E p \in Requests \ Reapers :
                      /\ AgentOf[p] = row[n].agent
                      /\ pc[p] = "idle" /\ pc'[p] = "wake" /\ n \in freed'[p]
                \/ Buried(row[n].agent)]_vars
  BY <1>1
<1>. QED  BY <1>2, InitInv, StepInv, PTL DEF Spec, OwnerEndsLease

\* The lock manager implements the abstract lease: nothing the queues, the
\* stale clocks, the faults or the reaper do shows in the table as anything
\* but a grant of free names, an extension, a release or an expiry.
THEOREM Refines == Spec => LeaseRefined
<1>1. Init => Lease!LeaseInit
  BY DEF Init, Lease!LeaseInit
<1>2. IInv /\ [Next]_vars => [Lease!LeaseNext]_(Lease!leaseVars)
  <2> SUFFICES ASSUME IInv, [Next]_vars PROVE [Lease!LeaseNext]_(Lease!leaseVars)
    OBVIOUS
  <2> USE DEF IInv, TypeOK
  <2>1. CASE UNCHANGED <<row, grants>> /\ clock' \in {clock, clock + 1}
    BY <2>1 DEF Lease!LeaseNext, Lease!Advance, Lease!leaseVars
  <2>2. ASSUME clock' = clock, NEW p \in Requests, NEW S \in SUBSET Names, Granted(p, S)
        PROVE  Lease!LeaseNext
    <3>1. AgentOf[p] \in Agents /\ now[p] \in 0..clock /\ arg[p].ttl \in TTLs
      BY <2>2, LockConstants DEF Granted, RequestType, ClocksBehind, TableType
    <3>2. \A n \in S : row[n] # NoRow => row[n].expires <= clock
      BY <2>2 DEF Granted, FreeAt, RequestType, ClocksBehind, TableType, Row
    <3>3. Lease!Grant(S, AgentOf[p], now[p], arg[p].ttl)
      BY <2>2, <3>2 DEF Granted, Acquire, Lease!Grant
    <3>. QED  BY <3>1, <3>3 DEF Lease!LeaseNext
  <2>3. ASSUME clock' = clock, NEW p \in Requests, NEW n \in Names, Renewed(p, n)
        PROVE  Lease!LeaseNext
    <3>1. now[p] \in 0..clock /\ arg[p].ttl \in TTLs
      BY <2>3 DEF Renewed, RequestType, ClocksBehind, TableType
    <3>2. Lease!Extend(n, now[p], arg[p].ttl)
      BY <2>3 DEF Renewed, Lease!Extend
    <3>. QED  BY <3>1, <3>2 DEF Lease!LeaseNext
  <2>4. ASSUME clock' = clock, NEW p \in Requests, NEW S \in SUBSET Names, GivenUp(p, S)
        PROVE  Lease!LeaseNext
    <3>1. AgentOf[p] \in Agents
      BY LockConstants
    <3>2. Lease!Release(S, AgentOf[p])
      BY <2>4 DEF GivenUp, Delete, Lease!Release
    <3>. QED  BY <3>1, <3>2 DEF Lease!LeaseNext
  <2>5. ASSUME clock' = clock, NEW S \in SUBSET Names, Reaped(S)
        PROVE  Lease!LeaseNext
    <3> DEFINE T == {n \in S : row[n] # NoRow}
    <3>1. \A n \in T : row[n] # NoRow /\ row[n].expires <= clock
      BY <2>5 DEF Reaped, FreeAt, TableType, Row
    <3>2. row' = [n \in Names |-> IF n \in T THEN NoRow ELSE row[n]]
      BY <2>5 DEF Reaped, Delete
    <3>3. Lease!Expire(T)
      BY <2>5, <3>1, <3>2 DEF Reaped, Delete, Lease!Expire
    <3>. QED  BY <3>3 DEF Lease!LeaseNext
  <2>6. ASSUME clock' = clock, NEW a \in Agents, Buried(a), grants' = grants
        PROVE  Lease!LeaseNext
    <3>1. Lease!Release(Held(a), a) /\ Held(a) \in SUBSET Names
      BY <2>6 DEF Buried, Held, Lease!Release
    <3>. QED  BY <3>1 DEF Lease!LeaseNext
  <2>. QED  BY <2>1, <2>2, <2>3, <2>4, <2>5, <2>6, TableSteps
<1>. QED  BY <1>1, <1>2, InitInv, StepInv, PTL DEF Spec, LeaseRefined, Lease!LeaseSpec

-----------------------------------------------------------------------------
(* A request keeps its place in the queue: the proof of AttachedKeepsPlace,  *)
(* when each agent has one call in flight at a time.                         *)
(*                                                                           *)
(* Slots are not tied to requests by the code: a slot is found again by the  *)
(* wake token, and a dequeue or a sweep removes whatever carries it.  So the *)
(* invariant says who knows a slot: at most one agent, through its wake      *)
(* tokens or through the request attached to it.                             *)

OneCallEach == \A p, q \in Requests : AgentOf[p] = AgentOf[q] => p = q

AttachedPlaces == {"head", "retry", "dequeue", "parked", "position"}

\* Slots come from the counter, and every call that may need one has one left.
TicketsKnown ==
    /\ \A n \in Names : queue[n] \subseteq 1..tickets
    /\ \A a \in Agents : wakes[a] \subseteq 1..tickets
    /\ \A p \in Requests : pc[p] \in AttachedPlaces => slot[p] \in 1..tickets
    /\ tickets + Cardinality(Arriving) <= MaxTickets

\* No slot is known to two agents.
SlotsOwned ==
    /\ \A p, q \in Requests :
          (pc[p] \in AttachedPlaces /\ pc[q] \in AttachedPlaces /\ slot[p] = slot[q]) => p = q
    /\ \A p \in Requests, a \in Agents :
          (pc[p] \in AttachedPlaces /\ slot[p] \in wakes[a]) => a = AgentOf[p]
    /\ \A a, b \in Agents : a # b => wakes[a] \cap wakes[b] = {}
    /\ \A p \in Requests :
          pc[p] \in {"first", "enqueue"} => arg[p].wake \in wakes[AgentOf[p]] \cup {0}

\* An attached request that is not late holds its slot, and no sweep takes it
\* before the request is late.
InTime(p, n) ==
    pc[p] \in AttachedPlaces /\ arg[p].names = {n} /\ clock < deadline[p] + Slack

Holds(p, n) == slot[p] \in queue[n] /\ horizon[slot[p]] >= deadline[p] + Slack

InFront(p, n) == \A v \in queue[n] : slot[p] <= v

PlacesKept ==
    \A p \in Requests, n \in Names :
        InTime(p, n) => /\ Holds(p, n)
                        /\ pc[p] \in {"retry", "dequeue"} => InFront(p, n)

PlaceInv == TicketsKnown /\ SlotsOwned /\ PlacesKept

\* The finite set of the requests that may still need a slot.
LEMMA ArrivingFinite == IsFiniteSet(Arriving) /\ Cardinality(Arriving) \in Nat
<1>1. IsFiniteSet(Arriving)
  BY LockConstants, FS_Subset DEF Arriving
<1>. QED  BY <1>1, FS_CardinalityType

\* Most steps: no slot is made or told, and whoever is attached afterwards was
\* attached before, to the same slot, and has not lost it.
Steady ==
    /\ wakes' = wakes /\ tickets' = tickets /\ clock' \in {clock, clock + 1}
    /\ \A n \in Names : queue'[n] \subseteq queue[n]
    /\ \A q \in Requests :
          /\ pc'[q] \in AttachedPlaces =>
                /\ pc[q] \in AttachedPlaces
                /\ slot'[q] = slot[q] /\ arg'[q] = arg[q] /\ deadline'[q] = deadline[q]
          /\ pc'[q] \in {"first", "enqueue"} =>
                pc[q] \in {"first", "enqueue"} /\ arg'[q].wake = arg[q].wake
          /\ pc'[q] \in {"retry", "dequeue"} =>
                \/ pc[q] \in {"retry", "dequeue"}
                \/ \A n \in Names : arg[q].names = {n} => InFront(q, n)
    /\ \A q \in Requests, n \in Names :
          (pc'[q] \in AttachedPlaces /\ InTime(q, n) /\ Holds(q, n)) => Holds(q, n)'

\* Such a step keeps every request in its place.
LEMMA SteadyInv ==
    ASSUME TypeOK, PlaceInv, Steady
    PROVE  PlaceInv'
<1>1. clock \in Nat /\ tickets \in Nat
  BY DEF TypeOK, TableType, QueueType
<1>2. TicketsKnown'
  <2>1. Arriving' \subseteq Arriving
    BY DEF Steady, Arriving
  <2>2. Cardinality(Arriving') <= Cardinality(Arriving) /\ Cardinality(Arriving') \in Nat
    BY <2>1, ArrivingFinite, FS_Subset, FS_CardinalityType
  <2>3. tickets' + Cardinality(Arriving') <= MaxTickets
    BY <1>1, <2>2, ArrivingFinite, LockConstants DEF PlaceInv, TicketsKnown, Steady
  <2>4. tickets' + Cardinality(Arriving)' <= MaxTickets
    BY <2>3
  <2>. QED  BY <2>4 DEF PlaceInv, TicketsKnown, Steady
<1>3. SlotsOwned'
  BY DEF PlaceInv, SlotsOwned, Steady
<1>4. ASSUME NEW p \in Requests, NEW n \in Names, InTime(p, n)'
      PROVE  /\ Holds(p, n)'
             /\ pc'[p] \in {"retry", "dequeue"} => InFront(p, n)'
  <2>1. pc'[p] \in AttachedPlaces /\ slot'[p] = slot[p] /\ arg'[p] = arg[p]
        /\ deadline'[p] = deadline[p] /\ pc[p] \in AttachedPlaces
    BY <1>4 DEF InTime, Steady
  <2>2. deadline[p] \in Nat /\ Slack \in Nat
    BY LockConstants DEF TypeOK, RequestType
  <2>3. InTime(p, n)
    BY <1>1, <1>4, <2>1, <2>2 DEF InTime, Steady
  <2>4. Holds(p, n)'
    BY <2>1, <2>3 DEF PlaceInv, PlacesKept, Steady
  <2>5. ASSUME pc'[p] \in {"retry", "dequeue"} PROVE InFront(p, n)
    BY <2>3, <2>5 DEF PlaceInv, PlacesKept, Steady, InTime
  <2>. QED  BY <2>1, <2>4, <2>5 DEF InFront, Steady
<1>. QED  BY <1>2, <1>3, <1>4 DEF PlaceInv, PlacesKept

\* Requests whose step leaves the queues alone: they stay as they are, or one
\* of them moves on or answers.
LEMMA QuietInv ==
    ASSUME TypeOK, PlaceInv,
           UNCHANGED <<wakes, queue, horizon, tickets>>, clock' \in {clock, clock + 1},
           NEW p \in Requests, NEW place,
           pc' = [pc EXCEPT ![p] = place],
           \A q \in Requests \ {p} :
              slot'[q] = slot[q] /\ arg'[q] = arg[q] /\ deadline'[q] = deadline[q],
           place \in AttachedPlaces =>
              /\ pc[p] \in AttachedPlaces
              /\ slot'[p] = slot[p] /\ arg'[p] = arg[p] /\ deadline'[p] = deadline[p],
           place \in {"first", "enqueue"} =>
              pc[p] \in {"first", "enqueue"} /\ arg'[p].wake = arg[p].wake,
           place \in {"retry", "dequeue"} =>
              \/ pc[p] \in {"retry", "dequeue"}
              \/ \A n \in Names : arg[p].names = {n} => InFront(p, n)
    PROVE  PlaceInv'
<1>1. \A q \in Requests : pc'[q] = IF q = p THEN place ELSE pc[q]
  BY DEF TypeOK, RequestType
<1>2. ASSUME NEW q \in Requests, pc'[q] \in AttachedPlaces
      PROVE  /\ pc[q] \in AttachedPlaces
             /\ slot'[q] = slot[q] /\ arg'[q] = arg[q] /\ deadline'[q] = deadline[q]
  BY <1>1, <1>2
<1>3. ASSUME NEW q \in Requests, NEW n \in Names, pc'[q] \in AttachedPlaces, Holds(q, n)
      PROVE  Holds(q, n)'
  BY <1>2, <1>3 DEF Holds
<1>4. Steady
  BY <1>1, <1>2, <1>3 DEF Steady
<1>. QED  BY <1>4, SteadyInv

\* A slot that its own request gives up is nobody else's.
LEMMA DequeueInv ==
    ASSUME TypeOK, PlaceInv, NEW p \in Requests, NEW m \in Names, Dequeue(p, m)
    PROVE  PlaceInv'
<1>1. \A q \in Requests : pc'[q] = IF q = p THEN "idle" ELSE pc[q]
  BY DEF Dequeue, Return, Goto, TypeOK, RequestType
<1>2. \A q \in Requests \ {p} :
         slot'[q] = slot[q] /\ arg'[q] = arg[q] /\ deadline'[q] = deadline[q]
  BY DEF Dequeue, Return
<1>3. ASSUME NEW q \in Requests, NEW n \in Names, pc'[q] \in AttachedPlaces, Holds(q, n)
      PROVE  Holds(q, n)'
  <2>1. q # p /\ pc[q] \in AttachedPlaces
    BY <1>1, <1>3 DEF AttachedPlaces
  <2>2. pc[p] \in AttachedPlaces
    BY DEF Dequeue, AttachedPlaces
  <2>3. slot[q] # slot[p]
    BY <2>1, <2>2 DEF PlaceInv, SlotsOwned
  <2>4. slot[q] \in queue'[n] /\ horizon'[slot[q]] = horizon[slot[q]]
    BY <1>3, <2>3 DEF Holds, Dequeue, TypeOK, QueueType
  <2>. QED  BY <1>2, <1>3, <2>1, <2>4 DEF Holds
<1>4. \A n \in Names : queue'[n] \subseteq queue[n]
  BY DEF Dequeue, TypeOK, QueueType
<1>5. UNCHANGED <<clock, wakes, tickets>>
  BY DEF Dequeue
<1>6. Steady
  BY <1>1, <1>2, <1>3, <1>4, <1>5 DEF Steady, AttachedPlaces
<1>. QED  BY <1>6, SteadyInv

\* The sweep takes a slot only once its horizon is past, and by then its
\* request is late.
LEMMA SweepInv ==
    ASSUME TypeOK, PlaceInv, ReapSweep
    PROVE  PlaceInv'
<1>1. UNCHANGED <<clock, wakes, tickets, pc, arg, slot, deadline>>
  BY DEF ReapSweep, local
<1>2. ASSUME NEW q \in Requests, NEW n \in Names, InTime(q, n), Holds(q, n)
      PROVE  Holds(q, n)'
  <2>1. slot[q] \in 1..MaxTickets
    <3>1. slot[q] \in 1..tickets /\ tickets + Cardinality(Arriving) <= MaxTickets
      BY <1>2 DEF InTime, PlaceInv, TicketsKnown
    <3>. QED  BY <3>1, ArrivingFinite, LockConstants DEF TypeOK, QueueType
  <2>2. horizon[slot[q]] > rnow /\ horizon[slot[q]] \in Nat
    <3>1. horizon[slot[q]] \in Nat /\ deadline[q] \in Nat /\ rnow \in Nat /\ clock \in Nat
      BY <2>1 DEF TypeOK, QueueType, RequestType, ReaperType, TableType
    <3>2. rnow <= clock /\ clock < deadline[q] + Slack /\ horizon[slot[q]] >= deadline[q] + Slack
      BY <1>2 DEF InTime, Holds, TypeOK, ClocksBehind
    <3>. QED  BY <3>1, <3>2, LockConstants
  <2>3. slot[q] \in queue'[n] /\ horizon'[slot[q]] = horizon[slot[q]]
    BY <1>2, <2>1, <2>2 DEF Holds, ReapSweep
  <2>. QED  BY <1>1, <1>2, <2>3 DEF Holds
<1>3. \A n \in Names : queue'[n] \subseteq queue[n]
  BY DEF ReapSweep
<1>4. Steady
  BY <1>1, <1>2, <1>3 DEF Steady
<1>. QED  BY <1>4, SteadyInv

\* A new call may take a ticket later: the bound has room for it.
LEMMA CallInv ==
    ASSUME TypeOK, PlaceInv, NEW p \in Requests, LockCall(p)
    PROVE  PlaceInv'
<1>1. PICK n \in Names, ttl \in TTLs, wait \in Waits, wake \in wakes[AgentOf[p]] \cup {0} :
         Begin(p, "first", With({n}, ttl, Clamp(wait), wake, NoToken))
  BY DEF LockCall
<1>2. /\ UNCHANGED <<clock, wakes, queue, horizon, tickets, slot, deadline>>
      /\ pc[p] = "idle" /\ pc' = [pc EXCEPT ![p] = "first"]
      /\ \A q \in Requests \ {p} : arg'[q] = arg[q]
      /\ arg'[p].wake \in wakes[AgentOf[p]] \cup {0}
  BY <1>1 DEF Begin, Goto, waits, With, TypeOK, RequestType
<1>3. \A q \in Requests : pc'[q] = IF q = p THEN "first" ELSE pc[q]
  BY <1>2 DEF TypeOK, RequestType
<1>4. TicketsKnown'
  <2>1. Arriving' = Arriving \cup {p}
    BY <1>3 DEF Arriving
  <2>2. Cardinality(Arriving') = Cardinality(Arriving) + 1
    <3>1. p \notin Arriving
      BY <1>2 DEF Arriving
    <3>2. Cardinality(Arriving \cup {p}) = Cardinality(Arriving) + 1
      BY <3>1, ArrivingFinite, FS_AddElement
    <3>. QED  BY <2>1, <3>2
  <2>3. tickets + Cardinality(Arriving) < MaxTickets
    BY DEF LockCall, Room
  <2>4. tickets' + Cardinality(Arriving)' <= MaxTickets
    BY <1>2, <2>2, <2>3, ArrivingFinite, LockConstants DEF TypeOK, QueueType
  <2>. QED  BY <1>2, <1>3, <2>4 DEF PlaceInv, TicketsKnown, AttachedPlaces
<1>5. SlotsOwned'
  BY <1>2, <1>3 DEF PlaceInv, SlotsOwned, AttachedPlaces
<1>6. PlacesKept'
  <2>1. ASSUME NEW q \in Requests, NEW m \in Names, InTime(q, m)'
        PROVE  InTime(q, m) /\ pc'[q] = pc[q]
    BY <1>2, <1>3, <2>1 DEF InTime, AttachedPlaces
  <2>. QED  BY <1>2, <2>1 DEF PlaceInv, PlacesKept, Holds, InFront
<1>. QED  BY <1>4, <1>5, <1>6 DEF PlaceInv

\* The wake token is told to the agent whose request held the slot.
LEMMA ReportInv ==
    ASSUME TypeOK, PlaceInv, OneCallEach, NEW p \in Requests, NEW n \in Names,
           ReportPosition(p, n)
    PROVE  PlaceInv'
<1>1. /\ UNCHANGED <<clock, queue, horizon, tickets>>
      /\ pc[p] \in AttachedPlaces /\ AgentOf[p] \in Agents
      /\ \A q \in Requests : pc'[q] = IF q = p THEN "idle" ELSE pc[q]
      /\ \A q \in Requests \ {p} :
            slot'[q] = slot[q] /\ arg'[q] = arg[q] /\ deadline'[q] = deadline[q]
  BY LockConstants
     DEF ReportPosition, Return, Goto, waits, AttachedPlaces, TypeOK, RequestType
<1>2. \A a \in Agents : wakes'[a] = wakes[a] \/ (a = AgentOf[p] /\ wakes'[a] = wakes[a] \cup {slot[p]})
  BY <1>1 DEF ReportPosition, TypeOK, TableType
<1>3. TicketsKnown'
  <2>1. Arriving' = Arriving
    BY <1>1 DEF Arriving, AttachedPlaces
  <2>2. tickets' + Cardinality(Arriving)' <= MaxTickets
    BY <1>1, <2>1 DEF PlaceInv, TicketsKnown
  <2>. QED  BY <1>1, <1>2, <2>2 DEF PlaceInv, TicketsKnown, AttachedPlaces
<1>4. SlotsOwned'
  <2>1. \A q, r \in Requests :
           (pc'[q] \in AttachedPlaces /\ pc'[r] \in AttachedPlaces /\ slot'[q] = slot'[r]) => q = r
    BY <1>1 DEF PlaceInv, SlotsOwned, AttachedPlaces
  <2>2. ASSUME NEW q \in Requests, NEW a \in Agents,
               pc'[q] \in AttachedPlaces, slot'[q] \in wakes'[a]
        PROVE  a = AgentOf[q]
    <3>1. q # p /\ pc[q] \in AttachedPlaces /\ slot'[q] = slot[q]
      BY <1>1, <2>2 DEF AttachedPlaces
    <3>2. slot[q] # slot[p]
      BY <1>1, <3>1 DEF PlaceInv, SlotsOwned
    <3>. QED  BY <1>2, <2>2, <3>1, <3>2 DEF PlaceInv, SlotsOwned
  <2>3. ASSUME NEW a \in Agents, NEW b \in Agents, a # b
        PROVE  wakes'[a] \cap wakes'[b] = {}
    <3>1. \A c \in Agents : slot[p] \in wakes[c] => c = AgentOf[p]
      BY <1>1 DEF PlaceInv, SlotsOwned
    <3>2. wakes[a] \cap wakes[b] = {}
      BY <2>3 DEF PlaceInv, SlotsOwned
    <3>. QED  BY <1>2, <2>3, <3>1, <3>2
  <2>4. ASSUME NEW q \in Requests, pc'[q] \in {"first", "enqueue"}
        PROVE  arg'[q].wake \in wakes'[AgentOf[q]] \cup {0}
    <3>1. q # p /\ pc[q] \in {"first", "enqueue"} /\ arg'[q] = arg[q] /\ AgentOf[q] \in Agents
      BY <1>1, <2>4, LockConstants
    <3>. QED  BY <1>2, <3>1 DEF PlaceInv, SlotsOwned
  <2>. QED  BY <2>1, <2>2, <2>3, <2>4 DEF SlotsOwned
<1>5. PlacesKept'
  <2>1. ASSUME NEW q \in Requests, NEW m \in Names, InTime(q, m)'
        PROVE  q # p /\ InTime(q, m) /\ pc'[q] = pc[q]
    BY <1>1, <2>1 DEF InTime, AttachedPlaces
  <2>. QED  BY <1>1, <2>1 DEF PlaceInv, PlacesKept, Holds, InFront
<1>. QED  BY <1>3, <1>4, <1>5 DEF PlaceInv

\* A request resumes a slot of its own agent, or takes a slot no one has.
LEMMA EnqueueInv ==
    ASSUME TypeOK, PlaceInv, OneCallEach, NEW p \in Requests, NEW m \in Names,
           Enqueue(p, m)
    PROVE  PlaceInv'
<1> DEFINE w == IF arg[p].wake \in queue[m] THEN arg[p].wake ELSE tickets + 1
<1>1. /\ clock \in Nat /\ tickets \in Nat /\ arg[p].wait \in Nat /\ arg[p].ttl \in Nat
      /\ AgentOf[p] \in Agents /\ arg[p].names = {m} /\ pc[p] = "enqueue"
  BY LockConstants DEF Enqueue, TypeOK, TableType, QueueType, RequestType, Args
<1>2. \/ w \in wakes[AgentOf[p]] /\ w \in queue[m] /\ tickets' = tickets
      \/ w = tickets + 1 /\ tickets' = tickets + 1
  <2>1. arg[p].wake \in wakes[AgentOf[p]] \cup {0}
    BY <1>1 DEF PlaceInv, SlotsOwned
  <2>2. 0 \notin queue[m]
    BY <1>1 DEF PlaceInv, TicketsKnown
  <2>. QED  BY <2>1, <2>2 DEF Enqueue
<1>3. /\ queue' = [queue EXCEPT ![m] = @ \cup {w}]
      /\ horizon' = [horizon EXCEPT ![w] = clock + WaiterHorizon(arg[p].ttl, arg[p].wait)]
      /\ slot' = [slot EXCEPT ![p] = w]
      /\ deadline' = [deadline EXCEPT ![p] = clock + arg[p].wait]
      /\ UNCHANGED <<clock, wakes, arg>>
  BY DEF Enqueue
<1>4. \A q \in Requests : pc'[q] = IF q = p THEN "head" ELSE pc[q]
  BY DEF Enqueue, Goto, TypeOK, RequestType
<1> HIDE DEF w
<1>5. w \in 1..tickets' /\ tickets' \in {tickets, tickets + 1}
  BY <1>1, <1>2 DEF PlaceInv, TicketsKnown
<1>6. tickets' + Cardinality(Arriving') <= MaxTickets /\ tickets' <= MaxTickets
  <2>1. Arriving' = Arriving \ {p} /\ p \in Arriving
    BY <1>1, <1>4 DEF Arriving
  <2>2. Cardinality(Arriving') = Cardinality(Arriving) - 1 /\ Cardinality(Arriving') \in Nat
    BY <2>1, ArrivingFinite, FS_RemoveElement, FS_CardinalityType
  <2>3. tickets + Cardinality(Arriving) <= MaxTickets
    BY DEF PlaceInv, TicketsKnown
  <2>. QED  BY <1>1, <1>5, <2>2, <2>3, ArrivingFinite, LockConstants
<1>7. \A q \in Requests \ {p} : pc[q] \in AttachedPlaces => slot[q] # w /\ slot[q] \in 1..tickets
  <2>1. SUFFICES ASSUME NEW q \in Requests \ {p}, pc[q] \in AttachedPlaces
                 PROVE  slot[q] # w /\ slot[q] \in 1..tickets
    OBVIOUS
  <2>2. slot[q] \in 1..tickets
    BY <2>1 DEF PlaceInv, TicketsKnown
  <2>3. CASE w = tickets + 1
    BY <1>1, <2>2, <2>3
  <2>4. CASE w \in wakes[AgentOf[p]]
    BY <1>1, <2>1, <2>2, <2>4 DEF PlaceInv, SlotsOwned, OneCallEach
  <2>. QED  BY <1>2, <2>2, <2>3, <2>4
<1>8. TicketsKnown'
  <2>1. \A n \in Names : queue'[n] \subseteq 1..tickets'
    BY <1>1, <1>3, <1>5 DEF PlaceInv, TicketsKnown, TypeOK, QueueType
  <2>2. \A a \in Agents : wakes'[a] \subseteq 1..tickets'
    BY <1>1, <1>3, <1>5 DEF PlaceInv, TicketsKnown
  <2>3. \A q \in Requests : pc'[q] \in AttachedPlaces => slot'[q] \in 1..tickets'
    BY <1>1, <1>3, <1>4, <1>5, <1>7 DEF TypeOK, RequestType
  <2>4. tickets' + Cardinality(Arriving)' <= MaxTickets
    BY <1>6
  <2>. QED  BY <2>1, <2>2, <2>3, <2>4 DEF TicketsKnown
<1>9. SlotsOwned'
  <2>1. \A q \in Requests : slot'[q] = IF q = p THEN w ELSE slot[q]
    BY <1>3 DEF TypeOK, RequestType
  <2>2. \A q, r \in Requests :
           (pc'[q] \in AttachedPlaces /\ pc'[r] \in AttachedPlaces /\ slot'[q] = slot'[r]) => q = r
    BY <1>4, <1>7, <2>1 DEF PlaceInv, SlotsOwned
  <2>3. ASSUME NEW a \in Agents, w \in wakes[a] PROVE a = AgentOf[p]
    <3>1. w # tickets + 1
      BY <1>1, <2>3 DEF PlaceInv, TicketsKnown
    <3>. QED  BY <1>1, <1>2, <2>3, <3>1 DEF PlaceInv, SlotsOwned
  <2>4. \A q \in Requests, a \in Agents :
           (pc'[q] \in AttachedPlaces /\ slot'[q] \in wakes'[a]) => a = AgentOf[q]
    BY <1>3, <1>4, <2>1, <2>3 DEF PlaceInv, SlotsOwned
  <2>. QED  BY <1>3, <1>4, <2>2, <2>4 DEF PlaceInv, SlotsOwned
<1>10. ASSUME NEW q \in Requests, NEW n \in Names, InTime(q, n)'
       PROVE  /\ Holds(q, n)'
              /\ pc'[q] \in {"retry", "dequeue"} => InFront(q, n)'
  <2>1. CASE q = p
    <3>1. n = m /\ pc'[p] = "head"
      BY <1>1, <1>3, <1>4, <1>10, <2>1 DEF InTime
    <3>2. slot'[p] = w /\ deadline'[p] = clock + arg[p].wait /\ w \in queue'[m]
      BY <1>3 DEF TypeOK, RequestType, QueueType
    <3>3. w \in 1..MaxTickets
      BY <1>1, <1>5, <1>6, LockConstants
    <3>4. horizon'[w] = clock + WaiterHorizon(arg[p].ttl, arg[p].wait)
      BY <1>3, <3>3 DEF TypeOK, QueueType
    <3>5. horizon'[w] >= deadline'[p] + Slack
      BY <1>1, <3>2, <3>4, LockConstants DEF WaiterHorizon
    <3>. QED  BY <2>1, <3>1, <3>2, <3>5 DEF Holds
  <2>2. CASE q # p
    <3>1. /\ slot'[q] = slot[q] /\ deadline'[q] = deadline[q] /\ pc'[q] = pc[q]
          /\ InTime(q, n)
      BY <1>3, <1>4, <1>10, <2>2 DEF InTime, TypeOK, RequestType
    <3>2. slot[q] # w /\ slot[q] \in 1..tickets
      BY <1>7, <2>2, <3>1 DEF InTime
    <3>3. Holds(q, n) /\ (pc[q] \in {"retry", "dequeue"} => InFront(q, n))
      BY <3>1 DEF PlaceInv, PlacesKept
    <3>4. Holds(q, n)'
      BY <1>3, <3>1, <3>2, <3>3 DEF Holds, TypeOK, QueueType
    <3>5. queue'[n] = queue[n] \/ queue'[n] = queue[n] \cup {tickets + 1}
      BY <1>2, <1>3 DEF TypeOK, QueueType
    <3>6. InFront(q, n) => InFront(q, n)'
      BY <1>1, <3>1, <3>2, <3>5 DEF InFront
    <3>. QED  BY <3>1, <3>3, <3>4, <3>6
  <2>. QED  BY <2>1, <2>2
<1>. QED  BY <1>8, <1>9, <1>10 DEF PlaceInv, PlacesKept

\* Every step keeps the requests in their places.
LEMMA PlaceStep ==
    ASSUME IInv, PlaceInv, OneCallEach, [Next]_vars
    PROVE  PlaceInv'
<1> USE DEF IInv
<1>1. ASSUME NEW p \in Requests, Calls(p) PROVE PlaceInv'
  <2>1. CASE LockCall(p)
    BY <2>1, CallInv
  <2>2. ASSUME LockManyCall(p) \/ RenewCall(p) PROVE PlaceInv'
    <3>1. PICK place \in {"many", "renew"} : \E args : Begin(p, place, args)
      BY <2>2 DEF LockManyCall, RenewCall
    <3>2. PICK args : Begin(p, place, args)
      BY <3>1
    <3>3. pc' = [pc EXCEPT ![p] = place] /\ \A q \in Requests \ {p} : arg'[q] = arg[q]
      BY <3>2 DEF Begin, Goto, TypeOK, RequestType
    <3>. QED  BY <3>2, <3>3, QuietInv DEF Begin, waits, AttachedPlaces, TypeOK, TableType
  <2>3. CASE Unlock(p) \/ \E a \in Agents : ReleaseAgentLocks(p, a)
    BY <2>3, QuietInv
       DEF Unlock, ReleaseAgentLocks, Goto, waits, AttachedPlaces, TypeOK, TableType
  <2>. QED  BY <1>1, <2>1, <2>2, <2>3 DEF Calls
<1>2. ASSUME NEW p \in Requests, NEW place, Proceed(p, place),
             UNCHANGED <<clock, wakes, queue, horizon, tickets>>,
             \/ place = "enqueue" /\ pc[p] = "first"
             \/ place = "dequeue" /\ pc[p] = "retry"
             \/ place \in {"parked", "head", "position"} /\ pc[p] \in AttachedPlaces
      PROVE  PlaceInv'
  BY <1>2, QuietInv DEF Proceed, Goto, local, AttachedPlaces, TypeOK, TableType
<1>3. ASSUME NEW p \in Requests, Return(p),
             UNCHANGED <<clock, wakes, queue, horizon, tickets>>
      PROVE  PlaceInv'
  BY <1>3, QuietInv DEF Return, Goto, AttachedPlaces, TypeOK, TableType, RequestType
<1>4. ASSUME NEW p \in Requests, Steps(p) PROVE PlaceInv'
  <2>1. ASSUME NEW n \in Names, LockFirst(p, n) \/ LockRetry(p, n) PROVE PlaceInv'
    <3>1. UNCHANGED <<clock, wakes, queue, horizon, tickets>>
      BY <2>1 DEF LockFirst, LockRetry, waits
    <3>2. CASE LockFirst(p, n)
      BY <1>2, <1>3, <3>1, <3>2 DEF LockFirst
    <3>3. CASE LockRetry(p, n)
      BY <1>2, <3>1, <3>3 DEF LockRetry, AttachedPlaces
    <3>. QED  BY <2>1, <3>2, <3>3
  <2>2. ASSUME NEW n \in Names, Enqueue(p, n) PROVE PlaceInv'
    BY <2>2, EnqueueInv
  <2>3. ASSUME NEW n \in Names, CheckHead(p, n) PROVE PlaceInv'
    <3>1. UNCHANGED <<clock, wakes, queue, horizon, tickets, arg, slot, deadline>>
      BY <2>3 DEF CheckHead, waits
    <3>2. PICK place \in {"retry", "parked"} :
             /\ pc' = [pc EXCEPT ![p] = place]
             /\ place = "retry" => IsHead(n, slot[p])
      BY <2>3 DEF CheckHead, Goto
    <3>3. \A m \in Names : arg[p].names = {m} => m = n
      BY <2>3 DEF CheckHead
    <3>4. place = "retry" => \A m \in Names : arg[p].names = {m} => InFront(p, m)
      BY <3>2, <3>3 DEF IsHead, InFront
    <3>. QED  BY <2>3, <3>1, <3>2, <3>4, QuietInv DEF CheckHead, AttachedPlaces, TypeOK, TableType
  <2>4. ASSUME NEW n \in Names, Dequeue(p, n) PROVE PlaceInv'
    BY <2>4, DequeueInv
  <2>5. ASSUME NEW n \in Names, ReportPosition(p, n) PROVE PlaceInv'
    BY <2>5, ReportInv
  <2>6. ASSUME NEW n \in Names, WakeHead(p, n) PROVE PlaceInv'
    <3>1. UNCHANGED <<clock, wakes, queue, horizon, tickets, arg, deadline>>
          /\ \A q \in Requests \ {p} : slot'[q] = slot[q]
      BY <2>6 DEF WakeHead, waits, TypeOK, RequestType
    <3>2. PICK place \in {"send", "wake"} : pc' = [pc EXCEPT ![p] = place]
      BY <2>6 DEF WakeHead, Goto, TypeOK, RequestType
    <3>. QED  BY <3>1, <3>2, QuietInv DEF AttachedPlaces, TypeOK, TableType
  <2>7. ASSUME NEW n \in Names, Renew(p, n) PROVE PlaceInv'
    BY <1>3, <2>7 DEF Renew, waits
  <2>8. CASE LockMany(p) \/ Released(p)
    BY <1>3, <2>8 DEF LockMany, Released, waits
  <2>9. CASE Signal(p)
    BY <2>9, QuietInv DEF Signal, Goto, AttachedPlaces, TypeOK, TableType, RequestType
  <2>. QED  BY <1>4, <2>1, <2>2, <2>3, <2>4, <2>5, <2>6, <2>7, <2>8, <2>9 DEF Steps
<1>5. ASSUME NEW p \in Requests, Woken(p) \/ Timeout(p) PROVE PlaceInv'
  BY <1>2, <1>5 DEF Woken, Timeout, waits, AttachedPlaces
<1>6. ASSUME NEW p \in Requests, Disconnect(p) \/ TxFails(p) PROVE PlaceInv'
  BY <1>3, <1>6 DEF Disconnect, TxFails, waits
<1>7. CASE ReapSweep
  BY <1>7, SweepInv
<1>8. CASE Crash
  <2>1. /\ UNCHANGED <<clock, wakes, tickets>>
        /\ \A q \in Requests : pc'[q] = "idle"
        /\ \A n \in Names : queue'[n] \subseteq queue[n]
    BY <1>8 DEF Crash
  <2>2. Steady
    BY <2>1 DEF Steady, AttachedPlaces
  <2>. QED  BY <2>2, SteadyInv
<1>9. ASSUME UNCHANGED <<wakes, queue, horizon, tickets, pc, local>>, clock' \in {clock, clock + 1}
      PROVE  PlaceInv'
  <2>1. Steady
    BY <1>9 DEF Steady, local, Holds
  <2>. QED  BY <2>1, SteadyInv
<1>10. CASE \/ ReapStart \/ ReapDelete \/ ReapProbe \/ ReapSignal \/ ReapEnd
            \/ SecondDaemon \/ Tick \/ UNCHANGED vars
  BY <1>9, <1>10
     DEF ReapStart, ReapDelete, ReapProbe, ReapSignal, ReapEnd, SecondDaemon, Tick, vars, waits
<1>. QED
  BY <1>1, <1>4, <1>5, <1>6, <1>7, <1>8, <1>10 DEF Next, Reap

\* The queues start empty.
LEMMA PlaceInit == Init => PlaceInv
<1> SUFFICES ASSUME Init PROVE PlaceInv
  OBVIOUS
<1>1. Arriving = {}
  BY DEF Init, Arriving
<1>2. tickets + Cardinality(Arriving) <= MaxTickets
  BY <1>1, FS_EmptySet, LockConstants DEF Init
<1>. QED
  BY <1>2 DEF Init, PlaceInv, TicketsKnown, SlotsOwned, PlacesKept, AttachedPlaces, InTime

\* A request that is served within its window plus the slack (locks.go:343-363)
\* still has its slot, and still is the head when it acquires as the head,
\* whatever the sweeps, the other requests and the failures did meanwhile.
THEOREM KeepsPlace == OneCallEach => (Spec => []AttachedKeepsPlace)
<1>. SUFFICES ASSUME OneCallEach PROVE Spec => []AttachedKeepsPlace
  OBVIOUS
<1>1. Init => IInv /\ PlaceInv
  BY InitInv, PlaceInit
<1>2. (IInv /\ PlaceInv) /\ [Next]_vars => (IInv /\ PlaceInv)'
  BY StepInv, PlaceStep
<1>3. IInv /\ PlaceInv => AttachedKeepsPlace
  <2>1. SUFFICES ASSUME PlaceInv, IInv, NEW p \in Requests, NEW n \in Names, InTime(p, n)
                 PROVE  /\ slot[p] \in queue[n]
                        /\ pc[p] \in {"retry", "dequeue"} => IsHead(n, slot[p])
    BY DEF AttachedKeepsPlace, InTime, AttachedPlaces
  <2>. QED  BY <2>1 DEF PlaceInv, PlacesKept, Holds, InFront, IsHead
<1>. QED  BY <1>1, <1>2, <1>3, PTL DEF Spec
=============================================================================
