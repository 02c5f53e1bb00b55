------------------------------ MODULE TasksProofs ------------------------------
(***************************************************************************)
(* Proofs about the work queue, for any number of clients and tasks: types *)
(* and ownership of tokens first, then that the table implements WorkQueue *)
(* (ImplementsWorkQueue), with the stronger invariant WorkInv.             *)
(***************************************************************************)
EXTENDS Tasks, TLAPS

\* Lease tokens are fresh, and one client at most knows the token of a task.
\* A call shows a claim that its client was told of.
TokensOwned ==
    /\ \A a \in Agents : \A c \in told[a] : c[2] <= claims
    /\ \A i \in Ids, a \in Agents : <<i, task[i].token>> \in told[a] => a = task[i].agent
    /\ \A a \in Agents : pc[a] \in {"finish", "requeue", "renew"} => claim[a] \in told[a]

\* A NULL token is 0, and no client was told of it.
TokensPositive == \A a \in Agents : \A c \in told[a] : c[2] # 0

IInv == TypeOK /\ OneFinish /\ TokensOwned /\ TokensPositive

USE DEF Ids, Claims, States

\* The initial state satisfies the inductive invariant.
LEMMA InitInv == Init => IInv
BY TaskConstants DEF Init, IInv, TypeOK, OneFinish, TokensOwned, TokensPositive, Absent, Record,
   NoClaim, Row

\* A call that returns leaves its variables empty.
LEMMA ReturnType ==
    ASSUME TypeOK, NEW a \in Agents, Return(a), clock' = clock
    PROVE  /\ pc' \in [Agents -> {"idle", "claim", "finish", "requeue", "renew"}]
           /\ now' \in [Agents -> Nat] /\ span' \in [Agents -> Nat]
           /\ claim' \in [Agents -> Claims \cup {NoClaim}]
           /\ \A b \in Agents : now'[b] <= clock'
           /\ \A b \in Agents : pc'[b] \in {"finish", "requeue", "renew"}
                                   => pc[b] = pc'[b] /\ claim'[b] = claim[b]
BY DEF TypeOK, Return

\* A call that begins reads the present second.
LEMMA BeginInv ==
    ASSUME IInv, NEW a \in Agents, NEW s \in Nat, NEW c, NEW place, Begin(a, place, c, s),
           \/ place = "claim" /\ c = NoClaim
           \/ place \in {"finish", "requeue", "renew"} /\ c \in told[a]
    PROVE  IInv'
<1> USE DEF IInv
<1>1. c \in Claims \cup {NoClaim}
  BY DEF TypeOK
<1>2. TypeOK'
  BY <1>1 DEF Begin, TypeOK, table, clients, reaper
<1>3. OneFinish' /\ TokensPositive'
  BY DEF Begin, OneFinish, TokensPositive, table, clients
<1>4. TokensOwned'
  BY DEF Begin, TokensOwned, TypeOK, table, clients
<1>. QED  BY <1>2, <1>3, <1>4

\* A step that puts rows back to pending, or leaves them alone, or lets a lease
\* run longer, keeps the invariant of the table.
LEMMA TableInv ==
    ASSUME IInv, UNCHANGED <<clock, agents, claims, finished, told, alive>>,
           task' \in [Ids -> Row],
           \A i \in Ids :
              \/ task'[i] = task[i]
              \/ task[i].state # "done" /\ \E p \in Nat : task'[i] = Pending(p)
              \/ /\ task[i].state = "claimed" /\ task'[i].state = "claimed"
                 /\ task'[i].agent = task[i].agent /\ task'[i].token = task[i].token,
           \A b \in Agents : pc'[b] \in {"finish", "requeue", "renew"}
                                => pc[b] = pc'[b] /\ claim'[b] = claim[b]
    PROVE  /\ OneFinish' /\ TokensOwned' /\ TokensPositive'
           /\ \A i \in Ids : task'[i].agent \in Agents <=> task'[i].state \in {"claimed", "done"}
<1> USE DEF IInv
<1>1. \A p \in Nat : /\ Pending(p).state = "pending" /\ Pending(p).token = 0
                   /\ Pending(p).agent = NoAgent
  BY DEF Pending, Record
<1>2. ASSUME NEW i \in Ids
      PROVE  /\ task'[i].state = "done" <=> task[i].state = "done"
             /\ task'[i].agent \in Agents <=> task'[i].state \in {"claimed", "done"}
  <2>0. task[i].agent \in Agents <=> task[i].state \in {"claimed", "done"}
    BY DEF TypeOK
  <2>1. CASE task'[i] = task[i]
    BY <2>0, <2>1
  <2>2. CASE task[i].state # "done" /\ \E p \in Nat : task'[i] = Pending(p)
    <3>1. task'[i].state = "pending" /\ task'[i].agent = NoAgent
      BY <1>1, <2>2
    <3>. QED  BY <2>2, <3>1, TaskConstants
  <2>3. CASE /\ task[i].state = "claimed" /\ task'[i].state = "claimed"
             /\ task'[i].agent = task[i].agent
    BY <2>0, <2>3
  <2>. QED  BY <2>1, <2>2, <2>3
<1>3. TokensPositive'
  BY DEF TokensPositive
<1>4. ASSUME NEW i \in Ids, NEW a \in Agents, <<i, task'[i].token>> \in told[a]
      PROVE  a = task'[i].agent
  BY <1>1, <1>4 DEF TokensOwned, TokensPositive
<1>5. TokensOwned'
  BY <1>4 DEF TokensOwned
<1>6. OneFinish'
  BY <1>2 DEF OneFinish
<1>. QED  BY <1>2, <1>3, <1>5, <1>6

\* What the rows written by the actions look like.
LEMMA Rows ==
    /\ \A p \in Nat : Pending(p) \in Row
    /\ \A s \in States, p \in Nat, a \in Agents \cup {NoAgent}, n \in Nat, e \in Nat :
          Record(s, p, a, n, e) \in Row
    /\ \A s, p, a, n, e : /\ Record(s, p, a, n, e).state = s
                          /\ Record(s, p, a, n, e).agent = a
                          /\ Record(s, p, a, n, e).token = n
                          /\ Record(s, p, a, n, e).priority = p
    /\ \A p : Pending(p).priority = p
    /\ Absent.state = "absent"
    /\ \A r \in Row : /\ r.state \in States /\ r.priority \in Nat /\ r.token \in Nat
                      /\ r.agent \in Agents \cup {NoAgent} /\ r.expires \in Nat
BY DEF Pending, Record, Absent, Row

\* Pushes, requeues, renewals and the reaper's update keep the invariant.
LEMMA RewriteInv ==
    ASSUME IInv, Push \/ ReapUpdate \/ \E a \in Agents : Requeue(a) \/ RenewLease(a)
    PROVE  IInv'
<1> USE DEF IInv
<1>1. CASE Push
  <2>1. PICK i \in Ids, p \in Priorities : task[i] = Absent /\ task' = [task EXCEPT ![i] = Pending(p)]
    BY <1>1 DEF Push
  <2>2. task' \in [Ids -> Row]
    BY <2>1, Rows, TaskConstants DEF TypeOK
  <2>3. \A j \in Ids :
           \/ task'[j] = task[j]
           \/ task[j].state # "done" /\ \E q \in Nat : task'[j] = Pending(q)
    <3>1. p \in Nat /\ task[i].state # "done" /\ task \in [Ids -> Row]
      BY <2>1, Rows, TaskConstants DEF TypeOK
    <3>2. task'[i] = Pending(p) /\ \A j \in Ids \ {i} : task'[j] = task[j]
      BY <2>1, <3>1
    <3>. QED  BY <3>1, <3>2
  <2>4. UNCHANGED <<clock, agents, claims, finished, told, alive, pc, now, claim, span, rpc, rnow>>
    BY <1>1 DEF Push, clients, calls, reaper
  <2>5. OneFinish' /\ TokensOwned' /\ TokensPositive'
        /\ \A j \in Ids : task'[j].agent \in Agents <=> task'[j].state \in {"claimed", "done"}
    BY <2>2, <2>3, <2>4, TableInv
  <2>. QED  BY <2>2, <2>4, <2>5 DEF TypeOK
<1>2. CASE ReapUpdate
  <2>1. task' \in [Ids -> Row]
    <3>1. CASE task' = task
      BY <3>1 DEF TypeOK
    <3>2. CASE task' = [i \in Ids |-> IF Lapsed(i) THEN Pending(task[i].priority) ELSE task[i]]
      BY <3>2, Rows DEF TypeOK
    <3>. QED  BY <1>2, <3>1, <3>2 DEF ReapUpdate
  <2>2. \A j \in Ids :
           \/ task'[j] = task[j]
           \/ task[j].state # "done" /\ \E q \in Nat : task'[j] = Pending(q)
    <3>1. \A j \in Ids : task[j].priority \in Nat
      BY Rows DEF TypeOK
    <3>. QED  BY <1>2, <3>1 DEF ReapUpdate, Lapsed
  <2>3. UNCHANGED <<clock, agents, claims, finished, told, alive, pc, now, claim, span>>
    BY <1>2 DEF ReapUpdate, clients, calls
  <2>4. OneFinish' /\ TokensOwned' /\ TokensPositive'
        /\ \A j \in Ids : task'[j].agent \in Agents <=> task'[j].state \in {"claimed", "done"}
    BY <2>1, <2>2, <2>3, TableInv
  <2>. QED  BY <1>2, <2>1, <2>3, <2>4 DEF TypeOK, ReapUpdate
<1>3. ASSUME NEW a \in Agents, Requeue(a) \/ RenewLease(a)
      PROVE  IInv'
  <2>1. UNCHANGED <<clock, agents, claims, finished, told, alive, rpc, rnow>> /\ Return(a)
    BY <1>3 DEF Requeue, RenewLease, clients, reaper
  <2> DEFINE i == claim[a][1]
  <2>2. pc[a] \in {"requeue", "renew"} /\ claim[a] \in told[a] /\ i \in Ids
    BY <1>3 DEF Requeue, RenewLease, TokensOwned, TypeOK
  <2>3. \/ task' = task
        \/ /\ task[i].state = "claimed"
           /\ task' = [task EXCEPT ![i] = Pending(@.priority)]
        \/ /\ task[i].state = "claimed"
           /\ task' = [task EXCEPT ![i] = Record("claimed", @.priority, @.agent, @.token,
                                                 now[a] + span[a])]
    BY <1>3 DEF Requeue, RenewLease, Held
  <2>4. task[i].priority \in Nat /\ task[i].agent \in Agents \cup {NoAgent} /\ task[i].token \in Nat
        /\ now[a] + span[a] \in Nat /\ task \in [Ids -> Row]
    <3>1. task[i] \in Row /\ now[a] \in Nat /\ span[a] \in Nat /\ task \in [Ids -> Row]
      BY <2>2 DEF TypeOK
    <3>2. now[a] + span[a] \in Nat
      BY <3>1
    <3>3. /\ task[i].priority \in Nat /\ task[i].agent \in Agents \cup {NoAgent}
          /\ task[i].token \in Nat
      BY <3>1, Rows, Zenon
    <3>. QED  BY <3>1, <3>2, <3>3
  <2> HIDE DEF i
  <2>5. task' \in [Ids -> Row]
    <3>1. Pending(task[i].priority) \in Row
      BY <2>4, Rows
    <3>2. Record("claimed", task[i].priority, task[i].agent, task[i].token, now[a] + span[a]) \in Row
      BY <2>4, Rows
    <3>. QED  BY <2>2, <2>3, <2>4, <3>1, <3>2
  <2>6. \A j \in Ids :
           \/ task'[j] = task[j]
           \/ task[j].state # "done" /\ \E q \in Nat : task'[j] = Pending(q)
           \/ /\ task[j].state = "claimed" /\ task'[j].state = "claimed"
              /\ task'[j].agent = task[j].agent /\ task'[j].token = task[j].token
    <3>1. CASE task' = task
      BY <3>1
    <3>2. CASE /\ task[i].state = "claimed"
               /\ task' = [task EXCEPT ![i] = Pending(@.priority)]
      <4>1. task'[i] = Pending(task[i].priority) /\ \A j \in Ids \ {i} : task'[j] = task[j]
        BY <2>2, <2>4, <3>2
      <4>. QED  BY <2>4, <3>2, <4>1
    <3>3. CASE /\ task[i].state = "claimed"
               /\ task' = [task EXCEPT ![i] = Record("claimed", @.priority, @.agent, @.token,
                                                     now[a] + span[a])]
      <4>1. /\ task'[i] = Record("claimed", task[i].priority, task[i].agent, task[i].token,
                                now[a] + span[a])
            /\ \A j \in Ids \ {i} : task'[j] = task[j]
        BY <2>2, <2>4, <3>3
      <4>. QED  BY <3>3, <4>1, Rows
    <3>. QED  BY <2>3, <3>1, <3>2, <3>3
  <2>7. OneFinish' /\ TokensOwned' /\ TokensPositive'
        /\ \A j \in Ids : task'[j].agent \in Agents <=> task'[j].state \in {"claimed", "done"}
    BY <2>1, <2>5, <2>6, TableInv, ReturnType
  <2>. QED  BY <2>1, <2>5, <2>7, ReturnType DEF TypeOK
<1>. QED  BY <1>1, <1>2, <1>3

\* A claim gives a pending task a token that nobody knew before.
LEMMA ClaimInv ==
    ASSUME IInv, NEW a \in Agents, ClaimNext(a)
    PROVE  IInv'
<1> USE DEF IInv
<1>1. UNCHANGED <<clock, agents, finished, alive, rpc, rnow>> /\ Return(a) /\ pc[a] = "claim"
  BY DEF ClaimNext, reaper
<1>2. CASE UNCHANGED <<task, claims, told>>
  <2>1. OneFinish' /\ TokensPositive' /\ TokensOwned'
    BY <1>1, <1>2, ReturnType DEF OneFinish, TokensPositive, TokensOwned
  <2>. QED  BY <1>1, <1>2, <2>1, ReturnType DEF TypeOK
<1>3. ASSUME NEW i \in Ids, task[i].state = "pending",
             task' = [task EXCEPT ![i] = Record("claimed", task[i].priority, a,
                                                claims + 1, now[a] + span[a])],
             claims' = claims + 1,
             \/ told' = [told EXCEPT ![a] = @ \cup {<<i, claims + 1>>}]
             \/ UNCHANGED told
      PROVE  IInv'
  <2> DEFINE r == Record("claimed", task[i].priority, a, claims + 1, now[a] + span[a])
  <2>1. task[i] \in Row /\ now[a] \in Nat /\ span[a] \in Nat /\ claims \in Nat
        /\ task \in [Ids -> Row] /\ told \in [Agents -> SUBSET (Ids \X Nat)]
    BY DEF TypeOK
  <2>2. task[i].priority \in Nat
    BY <2>1, Rows, Zenon
  <2>3. now[a] + span[a] \in Nat /\ claims + 1 \in Nat
    BY <2>1
  <2>4. r \in Row /\ r.state = "claimed" /\ r.agent = a /\ r.token = claims + 1
    <3>1. "claimed" \in States /\ a \in Agents \cup {NoAgent}
      OBVIOUS
    <3>2. r \in Row
      BY <2>2, <2>3, <3>1, Rows, Zenon
    <3>. QED  BY <3>2 DEF Record
  <2>5. task' = [task EXCEPT ![i] = r]
    BY <1>3
  <2> HIDE DEF r
  <2>6. task' \in [Ids -> Row]
    BY <2>1, <2>4, <2>5
  <2>7. \A b \in Agents : /\ told'[b] \in SUBSET (Ids \X Nat)
                          /\ told[b] \subseteq told'[b]
                          /\ b # a => told'[b] = told[b]
                          /\ \A c \in told'[b] : c \in told[b] \/ (b = a /\ c = <<i, claims + 1>>)
    BY <1>3, <2>1
  <2>8. told' \in [Agents -> SUBSET (Ids \X Nat)]
    BY <1>3, <2>1
  <2>9. OneFinish'
    BY <1>1, <1>3, <2>1, <2>4, <2>5 DEF OneFinish
  <2>10. TokensPositive'
    BY <2>1, <2>7 DEF TokensPositive
  <2>11. ASSUME NEW j \in Ids, NEW b \in Agents, <<j, task'[j].token>> \in told'[b]
         PROVE  b = task'[j].agent
    <3>1. CASE j = i
      <4>1. task'[j].token = claims + 1 /\ task'[j].agent = a
        BY <2>1, <2>4, <2>5, <3>1
      <4>2. <<j, claims + 1>> \notin told[b]
        BY <2>1 DEF TokensOwned
      <4>. QED  BY <2>7, <2>11, <4>1, <4>2
    <3>2. CASE j # i
      <4>1. task'[j] = task[j]
        BY <2>1, <2>5, <3>2
      <4>. QED  BY <2>7, <2>11, <3>2, <4>1 DEF TokensOwned
    <3>. QED  BY <3>1, <3>2
  <2>12. ASSUME NEW b \in Agents, NEW c \in told'[b]
         PROVE  c[2] <= claims'
    BY <1>3, <2>1, <2>7 DEF TokensOwned
  <2>13. ASSUME NEW b \in Agents, pc'[b] \in {"finish", "requeue", "renew"}
         PROVE  claim'[b] \in told'[b]
    BY <1>1, <2>7, <2>13, ReturnType DEF TokensOwned
  <2>14. TokensOwned'
    BY <2>11, <2>12, <2>13 DEF TokensOwned
  <2>15. \A j \in Ids : task'[j].agent \in Agents <=> task'[j].state \in {"claimed", "done"}
    BY <2>1, <2>4, <2>5 DEF TypeOK
  <2>16. TypeOK'
    BY <1>1, <1>3, <2>3, <2>6, <2>8, <2>15, ReturnType DEF TypeOK
  <2>. QED  BY <2>9, <2>10, <2>14, <2>16
<1>. QED  BY <1>2, <1>3 DEF ClaimNext, First

\* Whoever finishes a task is the first to.
LEMMA FinishInv ==
    ASSUME IInv, NEW a \in Agents, Finish(a)
    PROVE  IInv'
<1> USE DEF IInv
<1> DEFINE i == claim[a][1]
           r == Record("done", task[i].priority, task[i].agent, task[i].token, task[i].expires)
<1>1. UNCHANGED <<clock, agents, claims, told, alive, rpc, rnow>> /\ Return(a) /\ pc[a] = "finish"
  BY DEF Finish, clients, reaper
<1>2. claim[a] \in told[a] /\ i \in Ids /\ task[i] \in Row /\ task \in [Ids -> Row]
  BY <1>1 DEF TokensOwned, TypeOK
<1>3. \/ UNCHANGED <<task, finished>>
      \/ /\ task[i].state = "claimed" /\ task' = [task EXCEPT ![i] = r]
         /\ finished' = [finished EXCEPT ![i] = @ + 1]
  BY DEF Finish, Held
<1>4. /\ task[i].priority \in Nat /\ task[i].agent \in Agents \cup {NoAgent}
      /\ task[i].token \in Nat /\ task[i].expires \in Nat
  BY <1>2, Rows, Zenon
<1>5. r \in Row /\ r.state = "done" /\ r.agent = task[i].agent /\ r.token = task[i].token
  <2>1. "done" \in States
    OBVIOUS
  <2>2. r \in Row
    BY <1>4, <2>1, Rows, Zenon
  <2>. QED  BY <2>2 DEF Record
<1> HIDE DEF i, r
<1>6. CASE UNCHANGED <<task, finished>>
  <2>1. OneFinish' /\ TokensPositive' /\ TokensOwned'
    BY <1>1, <1>6, ReturnType DEF OneFinish, TokensPositive, TokensOwned
  <2>. QED  BY <1>1, <1>6, <2>1, ReturnType DEF TypeOK
<1>7. CASE /\ task[i].state = "claimed" /\ task' = [task EXCEPT ![i] = r]
           /\ finished' = [finished EXCEPT ![i] = @ + 1]
  <2>1. /\ task' \in [Ids -> Row] /\ task'[i] = r
        /\ \A j \in Ids \ {i} : task'[j] = task[j]
    BY <1>2, <1>5, <1>7
  <2>2. finished' \in [Ids -> Nat] /\ finished'[i] = finished[i] + 1
        /\ \A j \in Ids \ {i} : finished'[j] = finished[j]
    <3>1. finished \in [Ids -> Nat]
      BY DEF TypeOK
    <3>. QED  BY <1>2, <1>7, <3>1
  <2>3. finished[i] = 0
    <3>1. finished[i] \in Nat /\ finished[i] <= 1 /\ finished[i] # 1
      BY <1>2, <1>7 DEF OneFinish, TypeOK
    <3>. QED  BY <3>1
  <2>4. OneFinish'
    BY <1>2, <1>5, <2>1, <2>2, <2>3 DEF OneFinish
  <2>5. \A j \in Ids : task'[j].token = task[j].token /\ task'[j].agent = task[j].agent
    BY <1>5, <2>1
  <2>6. TokensOwned' /\ TokensPositive'
    BY <1>1, <2>5, ReturnType DEF TokensOwned, TokensPositive
  <2>7. \A j \in Ids : task'[j].agent \in Agents <=> task'[j].state \in {"claimed", "done"}
    BY <1>2, <1>5, <1>7, <2>1 DEF TypeOK
  <2>8. TypeOK'
    BY <1>1, <2>1, <2>2, <2>7, ReturnType DEF TypeOK
  <2>. QED  BY <2>4, <2>6, <2>8
<1>. QED  BY <1>3, <1>6, <1>7

\* Every step keeps the inductive invariant.
LEMMA StepInv == IInv /\ [Next]_vars => IInv'
<1> SUFFICES ASSUME IInv, [Next]_vars PROVE IInv'
  OBVIOUS
<1>1. CASE Push \/ ReapUpdate
  BY <1>1, RewriteInv
<1>2. ASSUME NEW a \in Agents, Steps(a)
      PROVE  IInv'
  BY <1>2, RewriteInv, ClaimInv, FinishInv DEF Steps
<1>3. ASSUME NEW a \in Agents, ClaimCall(a) \/ TransitionCall(a) \/ RenewCall(a)
      PROVE  IInv'
  <2>1. CASE ClaimCall(a)
    BY <2>1, BeginInv, TaskConstants DEF ClaimCall
  <2>2. CASE TransitionCall(a) \/ RenewCall(a)
    BY <2>2, BeginInv, TaskConstants DEF TransitionCall, RenewCall
  <2>. QED  BY <1>3, <2>1, <2>2
<1>4. ASSUME NEW a \in Agents, Heartbeat(a) \/ Departs(a) \/ Dies(a)
      PROVE  IInv'
  <2>1. UNCHANGED <<clock, table, told, calls, reaper>>
    BY <1>4 DEF Heartbeat, Departs, Dies, clients
  <2>2. agents' \in [Agents -> Nat] /\ alive' \subseteq Agents
    <3>1. agents \in [Agents -> Nat] /\ alive \subseteq Agents /\ clock \in Nat
      BY DEF IInv, TypeOK
    <3>2. CASE Heartbeat(a)
      <4>1. PICK t \in 0..clock, ttl \in TTLs : agents' = [agents EXCEPT ![a] = t + ttl]
        BY <3>2 DEF Heartbeat
      <4>2. t + ttl \in Nat
        BY <3>1, <4>1, TaskConstants
      <4>. QED  BY <3>1, <3>2, <4>1, <4>2 DEF Heartbeat, clients
    <3>3. CASE Departs(a) \/ Dies(a)
      BY <3>1, <3>3 DEF Departs, Dies, clients
    <3>. QED  BY <1>4, <3>2, <3>3
  <2>. QED  BY <2>1, <2>2 DEF IInv, TypeOK, OneFinish, TokensOwned, TokensPositive, table, calls, reaper
<1>5. ASSUME NEW a \in Agents, TxFails(a)
      PROVE  IInv'
  <2>1. UNCHANGED <<clock, agents, table, clients, reaper>> /\ Return(a)
    BY <1>5 DEF TxFails
  <2>. QED  BY <2>1, ReturnType
            DEF IInv, TypeOK, OneFinish, TokensOwned, TokensPositive, table, clients, reaper
<1>6. CASE ReapStart \/ Tick \/ UNCHANGED vars
  <2>1. UNCHANGED <<agents, table, clients, calls>>
    BY <1>6 DEF ReapStart, Tick, vars
  <2>2. clock' \in Nat /\ clock' >= clock /\ rpc' \in {"idle", "update"} /\ rnow' \in Nat
        /\ rnow' <= clock'
    BY <1>6 DEF ReapStart, Tick, vars, reaper, IInv, TypeOK
  <2>3. OneFinish' /\ TokensOwned' /\ TokensPositive'
    BY <2>1 DEF IInv, OneFinish, TokensOwned, TokensPositive, table, clients, calls
  <2>4. TypeOK'
    BY <2>1, <2>2 DEF IInv, TypeOK, table, clients, calls
  <2>. QED  BY <2>3, <2>4 DEF IInv
<1>7. CASE Restart
  BY <1>7 DEF Restart, IInv, TypeOK, OneFinish, TokensOwned, TokensPositive, table, clients,
              NoClaim
<1>. QED  BY <1>1, <1>2, <1>3, <1>4, <1>5, <1>6, <1>7 DEF Next, Reap

\* Every reachable state has its types.
THEOREM TypeCorrect == Spec => []TypeOK
<1>1. IInv => TypeOK
  BY DEF IInv
<1>. QED  BY InitInv, StepInv, <1>1, PTL DEF Spec

\* However claims lapse, are taken over, retried and lost in restarts, at most
\* one call is told that it finished a task, and a finished task stays so.
THEOREM FinishedOnce == Spec => []OneFinish
<1>1. IInv => OneFinish
  BY DEF IInv
<1>. QED  BY InitInv, StepInv, <1>1, PTL DEF Spec

\* A token of an earlier claim opens nothing, and the reaper (tasks.go:101-116)
\* takes no claim whose lease and whose claimant's registration both run.
THEOREM ClaimsKept == Spec => ClaimEnds
<1> DEFINE Kept(i) ==
       Ends(i) =>
          \/ /\ rpc = "update" /\ rpc' = "idle"
             /\ task[i].expires <= clock \/ agents[task[i].agent] <= clock
          \/ /\ pc[task[i].agent] \in {"finish", "requeue"} /\ pc'[task[i].agent] = "idle"
             /\ claim[task[i].agent] = <<i, task[i].token>>
<1>1. ASSUME IInv, [Next]_vars, NEW i \in Ids
      PROVE  Kept(i)
  <2> SUFFICES ASSUME Ends(i) PROVE Kept(i)
    OBVIOUS
  <2> USE <1>1 DEF IInv
  <2>1. /\ task \in [Ids -> Row] /\ task[i].state = "claimed" /\ task[i].agent \in Agents
        /\ task' # task
    BY DEF Ends, TypeOK
  <2>2. CASE Push
    BY <2>1, <2>2, Rows DEF Push, Ends
  <2>3. CASE ReapUpdate
    <3>1. Lapsed(i)
      BY <1>1, <2>1, <2>3 DEF ReapUpdate, Ends
    <3>2. /\ rnow \in Nat /\ clock \in Nat /\ rnow <= clock
          /\ agents[task[i].agent] \in Nat /\ task[i].expires \in Nat
      <4>1. task[i] \in Row
        BY <2>1
      <4>. QED  BY <2>1, <4>1, Rows DEF TypeOK
    <3>. QED  BY <2>3, <3>1, <3>2 DEF Lapsed, ReapUpdate
  <2>4. ASSUME NEW a \in Agents, Finish(a) \/ Requeue(a)
        PROVE  Kept(i)
    <3>1. pc[a] \in {"finish", "requeue"} /\ pc'[a] = "idle"
      BY <2>4 DEF Finish, Requeue, Return, TypeOK
    <3>2. claim[a] \in told[a] /\ claim[a] \in Ids \X Nat
      BY <3>1 DEF TokensOwned, TypeOK
    <3>3. claim[a][1] = i /\ Held(claim[a])
      BY <2>1, <2>4, <3>2 DEF Finish, Requeue, Ends
    <3>4. claim[a] = <<i, task[i].token>>
      BY <3>2, <3>3 DEF Held
    <3>5. a = task[i].agent
      BY <3>2, <3>4 DEF TokensOwned
    <3>. QED  BY <3>1, <3>4, <3>5
  <2>5. ASSUME NEW a \in Agents, ClaimNext(a)
        PROVE  Kept(i)
    BY <2>1, <2>5 DEF ClaimNext, First, Ends
  <2>6. ASSUME NEW a \in Agents, RenewLease(a)
        PROVE  Kept(i)
    <3>1. claim[a] \in Ids \X Nat
      BY <2>6 DEF RenewLease, TokensOwned, TypeOK
    <3>2. task'[i].state = "claimed" /\ task'[i].token = task[i].token
      <4> DEFINE k == claim[a][1]
                 r == Record("claimed", task[k].priority, task[k].agent, task[k].token,
                             now[a] + span[a])
      <4>1. r.state = "claimed" /\ r.token = task[k].token
        BY DEF Record
      <4>2. task' = task \/ task' = [task EXCEPT ![k] = r]
        BY <2>6 DEF RenewLease
      <4> HIDE DEF k, r
      <4>. QED  BY <2>1, <4>1, <4>2
    <3>. QED  BY <3>2 DEF Ends
  <2>. QED
    BY <2>1, <2>2, <2>3, <2>4, <2>5, <2>6
       DEF Next, Steps, Reap, ReapStart, ClaimCall, TransitionCall, RenewCall, Begin, Heartbeat,
           Departs, TxFails, Dies, Restart, Tick, vars, table
<1>2. IInv /\ [Next]_vars => [\A i \in Ids : Kept(i)]_vars
  BY <1>1
<1>. QED  BY <1>2, InitInv, StepInv, PTL DEF Spec, ClaimEnds

-----------------------------------------------------------------------------
(* The table implements the abstract queue. *)

\* A row that is absent is as it was made, and leases are as long as was asked.
RowsReal == \A i \in Ids : task[i].state = "absent" => task[i] = Absent

SpansAsked == \A a \in Agents : pc[a] \in {"claim", "renew"} => span[a] \in Lengths

WorkInv == IInv /\ RowsReal /\ SpansAsked

\* Calls in flight keep the length they asked for.
LEMMA SpansInv ==
    ASSUME TypeOK, SpansAsked, [Next]_vars
    PROVE  SpansAsked'
<1>1. ASSUME NEW a \in Agents, Return(a)
      PROVE  SpansAsked'
  BY <1>1 DEF Return, SpansAsked, TypeOK
<1>2. ASSUME NEW a \in Agents, ClaimCall(a) \/ TransitionCall(a) \/ RenewCall(a)
      PROVE  SpansAsked'
  <2>1. ASSUME NEW place, NEW c, NEW s, Begin(a, place, c, s),
               place \in {"claim", "renew"} => s \in Lengths
        PROVE  SpansAsked'
    BY <2>1 DEF Begin, SpansAsked, TypeOK
  <2>2. CASE ClaimCall(a)
    <3>1. PICK s \in Leases : Begin(a, "claim", NoClaim, IF s = 0 THEN DefaultLease ELSE s)
      BY <2>2 DEF ClaimCall
    <3>2. (IF s = 0 THEN DefaultLease ELSE s) \in Lengths
      BY DEF Lengths
    <3>. QED  BY <2>1, <3>1, <3>2
  <2>3. CASE TransitionCall(a)
    <3>1. PICK c \in told[a], place \in {"finish", "requeue"} : Begin(a, place, c, 0)
      BY <2>3 DEF TransitionCall
    <3>. QED  BY <2>1, <3>1
  <2>4. CASE RenewCall(a)
    <3>1. PICK c \in told[a], s \in Leases \ {0} : Begin(a, "renew", c, s)
      BY <2>4 DEF RenewCall
    <3>. QED  BY <2>1, <3>1 DEF Lengths
  <2>. QED  BY <1>2, <2>2, <2>3, <2>4
<1>3. CASE UNCHANGED calls
  BY <1>3 DEF calls, SpansAsked
<1>4. CASE Restart
  BY <1>4 DEF Restart, SpansAsked
<1>. QED
  BY <1>1, <1>2, <1>3, <1>4
     DEF Next, vars, Push, Reap, ReapStart, ReapUpdate, Tick, Steps, ClaimNext, Finish, Requeue,
         RenewLease, Heartbeat, Departs, TxFails, Dies

\* What a rewritten row does to what the abstract queue sees of the table.
LEMMA OneRow ==
    ASSUME TypeOK, NEW i \in Ids, NEW r \in Row, task' = [task EXCEPT ![i] = r]
    PROVE  /\ Waiting' = IF r.state = "pending" THEN Waiting \cup {i} ELSE Waiting \ {i}
           /\ Done' = IF r.state = "done" THEN Done \cup {i} ELSE Done \ {i}
           /\ Priority' = [Priority EXCEPT ![i] = r.priority]
           /\ Leased' = [Leased EXCEPT ![i] = LeaseOf(r)]
<1>1. task'[i] = r /\ \A j \in Ids \ {i} : task'[j] = task[j]
  BY DEF TypeOK
<1>2. Waiting' = IF r.state = "pending" THEN Waiting \cup {i} ELSE Waiting \ {i}
  BY <1>1 DEF Waiting
<1>3. Done' = IF r.state = "done" THEN Done \cup {i} ELSE Done \ {i}
  <2>1. \A j : j \in Done' <=> j \in Ids /\ task'[j].state = "done"
    BY DEF Done
  <2>2. \A j : j \in Done <=> j \in Ids /\ task[j].state = "done"
    BY DEF Done
  <2>. QED  BY <1>1, <2>1, <2>2
<1>4. Priority' = [Priority EXCEPT ![i] = r.priority]
  <2>1. Priority' = [j \in Ids |-> IF j = i THEN r.priority ELSE task[j].priority]
    BY <1>1 DEF Priority
  <2>. QED  BY <2>1 DEF Priority
<1>5. Leased' = [Leased EXCEPT ![i] = LeaseOf(r)]
  BY <1>1 DEF Leased, LeaseOf
<1>. QED  BY <1>2, <1>3, <1>4, <1>5

\* The leases of rows: a task is leased if and only if it is claimed.
LEMMA LeasesOfRows ==
    ASSUME TypeOK
    PROVE  /\ \A i \in Ids : Work!Leased(i) <=> task[i].state = "claimed"
           /\ \A i \in Ids : task[i].state = "claimed" =>
                 /\ Leased[i].agent = task[i].agent /\ Leased[i].token = task[i].token
                 /\ Leased[i].expires = task[i].expires
           /\ \A r : r.state # "claimed" => LeaseOf(r) = Work!NoLease
           /\ \A r : r.state = "claimed" => LeaseOf(r) = Work!Lease(r.agent, r.token, r.expires)
<1>1. \A r : r.state # "claimed" => LeaseOf(r) = Work!NoLease
  BY DEF LeaseOf, Work!NoLease, Work!Lease
<1>2. \A r : r.state = "claimed" => LeaseOf(r) = Work!Lease(r.agent, r.token, r.expires)
  BY DEF LeaseOf, Work!Lease
<1>3. ASSUME NEW i \in Ids, task[i].state = "claimed"
      PROVE  /\ Leased[i].agent = task[i].agent /\ Leased[i].token = task[i].token
             /\ Leased[i].expires = task[i].expires /\ Leased[i] # Work!NoLease
  <2>1. task[i].agent # NoAgent
    BY <1>3, TaskConstants DEF TypeOK
  <2>. QED  BY <1>2, <1>3, <2>1 DEF Leased, Work!Lease, Work!NoLease
<1>4. \A i \in Ids : task[i].state # "claimed" => Leased[i] = Work!NoLease
  BY <1>1 DEF Leased
<1>. QED  BY <1>1, <1>2, <1>3, <1>4 DEF Work!Leased

\* A push adds the task after the last.
LEMMA PushRefined ==
    ASSUME WorkInv, Push
    PROVE  \E i \in Ids, p \in Priorities : Work!Add(i, p)
<1> USE DEF WorkInv, IInv
<1>1. PICK i \in Ids, p \in Priorities :
         /\ task[i] = Absent /\ \A j \in Ids : j < i => task[j] # Absent
         /\ task' = [task EXCEPT ![i] = Pending(p)]
  BY DEF Push
<1>2. p \in Nat /\ Pending(p) \in Row /\ Pending(p).state = "pending" /\ Pending(p).priority = p
  BY <1>1, Rows, TaskConstants DEF Pending, Record
<1>3. task[i].state = "absent"
  BY <1>1, Rows
<1>4. /\ Waiting' = Waiting \cup {i} /\ Done' = Done \ {i}
      /\ Priority' = [Priority EXCEPT ![i] = p]
      /\ Leased' = [Leased EXCEPT ![i] = LeaseOf(Pending(p))]
  <2>1. "pending" # "done"
    OBVIOUS
  <2>. QED  BY <1>1, <1>2, <2>1, OneRow
<1>5. Leased' = Leased /\ Done' = Done
  <2>1. LeaseOf(Pending(p)) = Work!NoLease /\ Leased[i] = Work!NoLease
    BY <1>2, <1>3, LeasesOfRows DEF Leased
  <2>2. i \notin Done
    BY <1>3 DEF Done
  <2>. QED  BY <1>4, <2>1, <2>2 DEF Leased
<1>6. ~Work!Pushed(i) /\ \A j \in Ids : j < i => Work!Pushed(j)
  <2>1. \A j \in Ids : Work!Pushed(j) <=> task[j].state # "absent"
    <3>1. \A j \in Ids : task[j].state \in States
      BY DEF TypeOK, Row
    <3>. QED  BY <3>1, LeasesOfRows DEF Work!Pushed, Waiting, Done
  <2>2. \A j \in Ids : task[j] # Absent => task[j].state # "absent"
    BY DEF RowsReal
  <2>. QED  BY <1>1, <1>3, <2>1, <2>2
<1>7. UNCHANGED <<clock, agents, claims, told>>
  BY DEF Push, clients
<1>. QED  BY <1>1, <1>4, <1>5, <1>6, <1>7 DEF Work!Add, Work!Ids

\* A claim takes the foremost task, for the length that was asked for.
LEMMA ClaimRefined ==
    ASSUME WorkInv, NEW a \in Agents, ClaimNext(a)
    PROVE  \/ \E i \in Ids, t \in 0..clock, s \in Lengths : Work!Claim(i, a, t, s)
           \/ UNCHANGED <<clock, agents, task, claims, told>>
<1> USE DEF WorkInv, IInv
<1>1. UNCHANGED <<clock, agents>> /\ pc[a] = "claim"
  BY DEF ClaimNext
<1>2. CASE UNCHANGED <<task, claims, told>>
  BY <1>1, <1>2
<1>3. ASSUME NEW i \in Ids, First(i),
             task' = [task EXCEPT ![i] = Record("claimed", task[i].priority, a,
                                                claims + 1, now[a] + span[a])],
             claims' = claims + 1,
             \/ told' = [told EXCEPT ![a] = @ \cup {<<i, claims + 1>>}]
             \/ UNCHANGED told
      PROVE  Work!Claim(i, a, now[a], span[a]) /\ now[a] \in 0..clock /\ span[a] \in Lengths
  <2> DEFINE r == Record("claimed", task[i].priority, a, claims + 1, now[a] + span[a])
  <2>1. /\ now[a] \in 0..clock /\ span[a] \in Lengths /\ now[a] \in Nat /\ span[a] \in Nat
        /\ claims + 1 \in Nat /\ task[i] \in Row /\ task[i].priority \in Nat
    BY <1>1 DEF TypeOK, SpansAsked, Row
  <2>2. /\ r \in Row /\ r.state = "claimed" /\ r.agent = a /\ r.token = claims + 1
        /\ r.expires = now[a] + span[a] /\ r.priority = task[i].priority
    <3>1. now[a] + span[a] \in Nat /\ "claimed" \in States /\ a \in Agents \cup {NoAgent}
      BY <2>1
    <3>2. r \in Row
      BY <2>1, <3>1, Rows, Zenon
    <3>. QED  BY <3>2 DEF Record
  <2>3. task' = [task EXCEPT ![i] = r]
    BY <1>3
  <2> HIDE DEF r
  <2>4. /\ Waiting' = Waiting \ {i} /\ Done' = Done \ {i}
        /\ Priority' = [Priority EXCEPT ![i] = task[i].priority]
        /\ Leased' = [Leased EXCEPT ![i] = Work!Lease(a, claims + 1, now[a] + span[a])]
    <3>1. LeaseOf(r) = Work!Lease(a, claims + 1, now[a] + span[a])
      BY <2>2, LeasesOfRows
    <3>2. /\ Waiting' = Waiting \ {i} /\ Done' = Done \ {i}
          /\ Priority' = [Priority EXCEPT ![i] = r.priority]
          /\ Leased' = [Leased EXCEPT ![i] = LeaseOf(r)]
      BY <2>2, <2>3, OneRow
    <3>. QED  BY <2>2, <3>1, <3>2
  <2>5. Done' = Done /\ Priority' = Priority
    BY <1>3, <2>4 DEF First, Done, Priority
  <2>6. Work!Foremost(i)
    BY <1>3 DEF Work!Foremost, First, Waiting, Priority
  <2>. QED  BY <1>1, <1>3, <2>1, <2>4, <2>5, <2>6 DEF Work!Claim
<1>. QED  BY <1>2, <1>3 DEF ClaimNext

\* The other calls act for a claimant that knows its token, or do nothing.
LEMMA CallRefined ==
    ASSUME WorkInv, NEW a \in Agents, Finish(a) \/ Requeue(a) \/ RenewLease(a)
    PROVE  \/ \E i \in Ids : Work!Complete(i) \/ Work!GiveBack(i)
           \/ \E i \in Ids, t \in 0..clock, s \in Lengths : Work!Extend(i, t, s)
           \/ UNCHANGED <<clock, agents, task, claims, told>>
<1> USE DEF WorkInv, IInv
<1>1. UNCHANGED <<clock, agents, claims, told>>
  BY DEF Finish, Requeue, RenewLease, clients
<1> DEFINE i == claim[a][1]
<1>2. claim[a] \in told[a] /\ i \in Ids /\ claim[a] = <<i, claim[a][2]>>
  BY DEF Finish, Requeue, RenewLease, TokensOwned, TypeOK
<1>3. CASE task' = task
  BY <1>1, <1>3
<1>4. CASE task' # task
  <2>1. Held(claim[a])
    BY <1>4 DEF Finish, Requeue, RenewLease
  <2>2. task[i].state = "claimed" /\ <<i, task[i].token>> \in told[a]
    BY <1>2, <2>1 DEF Held
  <2>3. a = task[i].agent
    BY <1>2, <2>2 DEF TokensOwned
  <2> HIDE DEF i
  <2>4. Work!Known(i)
    BY <1>2, <2>2, <2>3, LeasesOfRows DEF Work!Known
  <2>5. /\ task[i] \in Row /\ task[i].priority \in Nat /\ task[i].agent \in Agents \cup {NoAgent}
        /\ task[i].token \in Nat /\ task[i].expires \in Nat
    BY <1>2 DEF TypeOK, Row
  <2>6. Priority[i] = task[i].priority /\ i \notin Waiting /\ i \notin Done
    BY <1>2, <2>2 DEF Priority, Waiting, Done
  <2>7. \A n : n = Priority[i] => [Priority EXCEPT ![i] = n] = Priority
    BY DEF Priority
  <2>8. CASE Finish(a)
    <3> DEFINE r == Record("done", task[i].priority, task[i].agent, task[i].token, task[i].expires)
    <3>1. task' = [task EXCEPT ![i] = r]
      BY <1>4, <2>8 DEF Finish, i
    <3>2. r \in Row /\ r.state = "done" /\ r.priority = task[i].priority
      <4>1. "done" \in States
        OBVIOUS
      <4>2. r \in Row
        BY <2>5, <4>1, Rows, Zenon
      <4>. QED  BY <4>2 DEF Record
    <3> HIDE DEF r
    <3>3. /\ Waiting' = Waiting \ {i} /\ Done' = Done \cup {i}
          /\ Priority' = [Priority EXCEPT ![i] = task[i].priority]
          /\ Leased' = [Leased EXCEPT ![i] = Work!NoLease]
      <4>1. LeaseOf(r) = Work!NoLease
        BY <3>2, LeasesOfRows
      <4>2. /\ Waiting' = Waiting \ {i} /\ Done' = Done \cup {i}
            /\ Priority' = [Priority EXCEPT ![i] = r.priority]
            /\ Leased' = [Leased EXCEPT ![i] = LeaseOf(r)]
        BY <1>2, <3>1, <3>2, OneRow
      <4>. QED  BY <3>2, <4>1, <4>2
    <3>4. Work!Complete(i)
      BY <1>1, <2>4, <2>6, <2>7, <3>3 DEF Work!Complete
    <3>. QED  BY <1>2, <3>4
  <2>9. CASE Requeue(a)
    <3> DEFINE r == Pending(task[i].priority)
    <3>1. task' = [task EXCEPT ![i] = r]
      BY <1>4, <2>9 DEF Requeue, i
    <3>2. r \in Row /\ r.state = "pending" /\ r.priority = task[i].priority
      BY <2>5, Rows DEF Pending, Record
    <3> HIDE DEF r
    <3>3. /\ Waiting' = Waiting \cup {i} /\ Done' = Done \ {i}
          /\ Priority' = [Priority EXCEPT ![i] = task[i].priority]
          /\ Leased' = [Leased EXCEPT ![i] = Work!NoLease]
      <4>1. LeaseOf(r) = Work!NoLease
        BY <3>2, LeasesOfRows
      <4>2. /\ Waiting' = Waiting \cup {i} /\ Done' = Done \ {i}
            /\ Priority' = [Priority EXCEPT ![i] = r.priority]
            /\ Leased' = [Leased EXCEPT ![i] = LeaseOf(r)]
        BY <1>2, <3>1, <3>2, OneRow
      <4>. QED  BY <3>2, <4>1, <4>2
    <3>4. Work!GiveBack(i)
      BY <1>1, <2>4, <2>6, <2>7, <3>3 DEF Work!GiveBack
    <3>. QED  BY <1>2, <3>4
  <2>10. CASE RenewLease(a)
    <3> DEFINE e == now[a] + span[a]
               r == Record("claimed", task[i].priority, task[i].agent, task[i].token, e)
    <3>1. task[i].expires > now[a] /\ task' = [task EXCEPT ![i] = r] /\ pc[a] = "renew"
      BY <1>4, <2>10 DEF RenewLease, i
    <3>2. now[a] \in 0..clock /\ span[a] \in Lengths /\ e \in Nat
      BY <3>1 DEF TypeOK, SpansAsked
    <3> HIDE DEF e
    <3>3. /\ r \in Row /\ r.state = "claimed" /\ r.priority = task[i].priority
          /\ r.agent = task[i].agent /\ r.token = task[i].token /\ r.expires = e
      <4>1. "claimed" \in States
        OBVIOUS
      <4>2. r \in Row
        BY <2>5, <3>2, <4>1, Rows, Zenon
      <4>. QED  BY <4>2 DEF Record
    <3> HIDE DEF r
    <3>4. /\ Waiting' = Waiting \ {i} /\ Done' = Done \ {i}
          /\ Priority' = [Priority EXCEPT ![i] = task[i].priority]
          /\ Leased' = [Leased EXCEPT ![i] = LeaseOf(r)]
      BY <1>2, <3>1, <3>3, OneRow
    <3>5. Leased' = [Leased EXCEPT ![i].expires = e]
      <4>1. Leased[i] = [agent |-> task[i].agent, token |-> task[i].token, expires |-> task[i].expires]
        BY <1>2, <2>2 DEF Leased, LeaseOf
      <4>2. LeaseOf(r) = [agent |-> task[i].agent, token |-> task[i].token, expires |-> e]
        BY <3>3 DEF LeaseOf
      <4>3. LeaseOf(r) = [Leased[i] EXCEPT !.expires = e]
        BY <4>1, <4>2
      <4>. QED  BY <3>4, <4>3
    <3>6. Leased[i].expires > now[a]
      BY <1>2, <2>2, <3>1, LeasesOfRows
    <3>7. Work!Extend(i, now[a], span[a])
      BY <1>1, <2>4, <2>6, <2>7, <3>4, <3>5, <3>6 DEF Work!Extend, e
    <3>. QED  BY <1>2, <3>2, <3>7
  <2>. QED  BY <2>8, <2>9, <2>10
<1>. QED  BY <1>3, <1>4

\* The reaper takes leases that have lapsed, and only those.
LEMMA ReapRefined ==
    ASSUME WorkInv, ReapUpdate, task' # task
    PROVE  \E S \in SUBSET Ids : Work!Lapse(S)
<1> USE DEF WorkInv, IInv
<1> DEFINE S == {i \in Ids : Lapsed(i)}
<1>1. UNCHANGED <<clock, agents, claims, told>>
      /\ task' = [i \in Ids |-> IF Lapsed(i) THEN Pending(task[i].priority) ELSE task[i]]
  BY DEF ReapUpdate, clients
<1>2. \A p : Pending(p).state = "pending" /\ Pending(p).priority = p
  BY DEF Pending, Record
<1>3. \A i \in S : task[i].state = "claimed" /\ (task[i].expires <= clock \/ agents[task[i].agent] <= clock)
  <2>1. ASSUME NEW i \in S
        PROVE  /\ rnow \in Nat /\ clock \in Nat /\ rnow <= clock /\ task[i].expires \in Nat
               /\ task[i].state = "claimed" => agents[task[i].agent] \in Nat
    BY DEF TypeOK, Row
  <2>. QED  BY <2>1 DEF Lapsed
<1>4. \A i \in S : Work!Leased(i) /\ (Leased[i].expires <= clock \/ agents[Leased[i].agent] <= clock)
  BY <1>3, LeasesOfRows
<1>5. Waiting' = Waiting \cup S
  BY <1>1, <1>2 DEF Waiting
<1>6. Done' = Done
  BY <1>1, <1>2, <1>3 DEF Done
<1>7. Priority' = Priority
  BY <1>1, <1>2 DEF Priority
<1>8. Leased' = [i \in Ids |-> IF i \in S THEN Work!NoLease ELSE Leased[i]]
  BY <1>1, <1>2, LeasesOfRows DEF Leased
<1>9. Work!Lapse(S)
  BY <1>1, <1>4, <1>5, <1>6, <1>7, <1>8 DEF Work!Lapse, Work!Ids
<1>. QED  BY <1>9

\* What the abstract queue is told of a table that nobody touches.
LEMMA Untouched ==
    UNCHANGED <<clock, agents, task, claims, told>> => UNCHANGED Work!workVars
BY DEF Work!workVars, Waiting, Done, Priority, Leased, LeaseOf

\* Every step is one of the abstract queue.
LEMMA StepRefined == WorkInv /\ [Next]_vars => [Work!WorkNext]_(Work!workVars)
<1> SUFFICES ASSUME WorkInv, [Next]_vars PROVE Work!WorkNext \/ UNCHANGED Work!workVars
  BY Zenon
<1> USE DEF Work!Ids
<1>1. CASE UNCHANGED <<clock, agents, task, claims, told>>
  BY <1>1, Untouched
<1>2. CASE Push
  BY <1>2, PushRefined, Zenon DEF Work!WorkNext
<1>3. ASSUME NEW a \in Agents, Steps(a)
      PROVE  Work!WorkNext \/ UNCHANGED Work!workVars
  <2>1. CASE ClaimNext(a)
    BY <1>1, <2>1, ClaimRefined, Zenon DEF Work!WorkNext
  <2>2. CASE Finish(a) \/ Requeue(a) \/ RenewLease(a)
    BY <1>1, <2>2, CallRefined, Zenon DEF Work!WorkNext
  <2>. QED  BY <1>3, <2>1, <2>2 DEF Steps
<1>4. CASE ReapUpdate
  <2>1. CASE task' = task
    BY <1>1, <1>4, <2>1 DEF ReapUpdate, clients
  <2>2. CASE task' # task
    BY <1>4, <2>2, ReapRefined, Zenon DEF Work!WorkNext
  <2>. QED  BY <2>1, <2>2
<1>5. CASE Tick
  <2>1. clock' = clock + 1 /\ UNCHANGED <<agents, task, claims, told>>
    BY <1>5 DEF Tick, table, clients
  <2>2. Work!Advance
    BY <2>1 DEF Work!Advance, Waiting, Done, Priority, Leased, LeaseOf
  <2>. QED  BY <2>2 DEF Work!WorkNext
<1>6. ASSUME NEW a \in Agents, Heartbeat(a) \/ Departs(a)
      PROVE  Work!WorkNext
  <2>1. UNCHANGED <<clock, task, claims, told>>
    BY <1>6 DEF Heartbeat, Departs, table, clients
  <2>2. agents' \in [Agents -> Nat]
    <3>1. IInv'
      BY StepInv DEF WorkInv
    <3>. QED  BY <3>1 DEF IInv, TypeOK
  <2>3. Work!ComeAndGo
    BY <2>1, <2>2 DEF Work!ComeAndGo, Waiting, Done, Priority, Leased, LeaseOf
  <2>. QED  BY <2>3 DEF Work!WorkNext
<1>. QED
  BY <1>1, <1>2, <1>3, <1>4, <1>5, <1>6
     DEF Next, vars, Reap, ReapStart, ClaimCall, TransitionCall, RenewCall, Begin, TxFails, Dies,
         Restart, table, clients

\* Rows that are absent stay as they were made, or are pushed.
LEMMA RowsRealInv ==
    ASSUME WorkInv, [Next]_vars
    PROVE  RowsReal'
<1> USE DEF WorkInv, IInv
<1>1. \A s, p, a, n, e : Record(s, p, a, n, e).state = s
  BY DEF Record
<1>2. \A p : Pending(p).state = "pending"
  BY DEF Pending, Record
<1>3. ASSUME NEW i \in Ids, task'[i].state = "absent"
      PROVE  task'[i] = task[i]
  <2>1. CASE Push
    BY <1>2, <1>3, <2>1 DEF Push, TypeOK
  <2>2. CASE ReapUpdate
    BY <1>2, <1>3, <2>2 DEF ReapUpdate
  <2>3. ASSUME NEW a \in Agents, Steps(a)
        PROVE  task'[i] = task[i]
    <3>1. \/ task' = task
          \/ \E j, r : task' = [task EXCEPT ![j] = r] /\ r.state # "absent"
      <4> DEFINE Written(j, r) == task' = [task EXCEPT ![j] = r] /\ r.state # "absent"
                 k == claim[a][1]
      <4>1. CASE ClaimNext(a)
        <5>1. ASSUME NEW j, task' = [task EXCEPT ![j] = Record("claimed", task[j].priority, a,
                                                               claims + 1, now[a] + span[a])]
              PROVE  Written(j, Record("claimed", task[j].priority, a, claims + 1, now[a] + span[a]))
          <6>1. "claimed" # "absent"
            OBVIOUS
          <6>. QED  BY <1>1, <5>1, <6>1, Zenon
        <5>. QED  BY <4>1, <5>1 DEF ClaimNext
      <4>2. CASE Finish(a)
        <5>1. task' = task \/ Written(k, Record("done", task[k].priority, task[k].agent,
                                                task[k].token, task[k].expires))
          BY <1>1, <4>2 DEF Finish
        <5>. QED  BY <5>1
      <4>3. CASE Requeue(a)
        <5>1. task' = task \/ Written(k, Pending(task[k].priority))
          BY <1>2, <4>3 DEF Requeue
        <5>. QED  BY <5>1
      <4>4. CASE RenewLease(a)
        <5>1. task' = task \/ Written(k, Record("claimed", task[k].priority, task[k].agent,
                                                task[k].token, now[a] + span[a]))
          BY <1>1, <4>4 DEF RenewLease
        <5>. QED  BY <5>1
      <4>. QED  BY <2>3, <4>1, <4>2, <4>3, <4>4 DEF Steps
    <3>. QED  BY <1>3, <3>1 DEF TypeOK
  <2>. QED
    BY <2>1, <2>2, <2>3
       DEF Next, vars, Reap, ReapStart, ClaimCall, TransitionCall, RenewCall, Begin, TxFails, Dies,
           Restart, Tick, Heartbeat, Departs, table
<1>. QED  BY <1>3 DEF RowsReal

\* The initial state is one of the abstract queue.
LEMMA InitRefined == Init => WorkInv /\ Work!WorkInit
<1> SUFFICES ASSUME Init PROVE WorkInv /\ Work!WorkInit
  OBVIOUS
<1>1. WorkInv
  BY InitInv DEF Init, WorkInv, RowsReal, SpansAsked
<1>2. Work!WorkInit
  BY Rows DEF Init, Work!WorkInit, Work!Ids, Work!NoLease, Work!Lease, Waiting, Done, Priority, Leased,
              LeaseOf, Absent, Record
<1>. QED  BY <1>1, <1>2

\* Every step keeps what the refinement rests on.
LEMMA WorkStepInv == WorkInv /\ [Next]_vars => WorkInv'
BY StepInv, SpansInv, RowsRealInv DEF WorkInv, IInv

\* The tasks table, with calls that work with a second of the past and tokens that
\* may be stale, with lost answers, failed transactions and restarts, is the
\* abstract queue (tasks.go).
THEOREM ImplementsWorkQueue == Spec => WorkRefined
BY InitRefined, StepRefined, WorkStepInv, PTL DEF Spec, WorkRefined, Work!WorkSpec
===============================================================================
