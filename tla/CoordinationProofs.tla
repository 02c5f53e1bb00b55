-------------------------- MODULE CoordinationProofs --------------------------
(***************************************************************************)
(* Proofs about the managers side by side.  The composition is, on the     *)
(* variables of Presence, an execution of Presence, and on those of Tasks  *)
(* one of Tasks: the two invariants proved apart hold together, and what   *)
(* neither manager can promise alone follows from both.                    *)
(***************************************************************************)
EXTENDS Coordination, PresenceProofs

TP == INSTANCE TasksProofs WITH
        Joiners <- Agents, TTLs <- Spans \ {0}, NoAgent <- Nobody,
        Faults <- TaskFaults, LastCall <- LastWork,
        pc <- tpc, now <- tnow, span <- lease, rpc <- trpc, rnow <- trnow

\* The instance is one that Tasks allows.
LEMMA TaskConstantsHold == T!TaskConstants
BY PresenceConstants, CoordinationConstants DEF T!TaskConstants

-----------------------------------------------------------------------------
(* TP is T: the names of one, for the other *)

\* The type invariant of tasks, under both names.
LEMMA SameTypes == TP!TypeOK <=> T!TypeOK
BY DEF TP!TypeOK, T!TypeOK, TP!Row, T!Row, TP!States, T!States, TP!Ids, T!Ids,
       TP!Claims, T!Claims, TP!NoClaim, T!NoClaim

\* The steps of tasks, under both names.
LEMMA SameSteps == [T!Next]_(T!vars) <=> [TP!Next]_(TP!vars)
<1> USE DEF T!vars, TP!vars, T!table, TP!table, T!clients, TP!clients, T!calls, TP!calls,
            T!reaper, TP!reaper, T!Ids, TP!Ids, T!Record, TP!Record, T!Pending, TP!Pending,
            T!Absent, TP!Absent, T!NoClaim, TP!NoClaim
<1>1. (T!Push <=> TP!Push) /\ (T!Restart <=> TP!Restart) /\ (T!Tick <=> TP!Tick)
  BY DEF T!Push, TP!Push, T!Restart, TP!Restart, T!Tick, TP!Tick
<1>2. T!Reap <=> TP!Reap
  BY DEF T!Reap, TP!Reap, T!ReapStart, TP!ReapStart, T!ReapUpdate, TP!ReapUpdate,
         T!Lapsed, TP!Lapsed
<1>3. ASSUME NEW a \in Agents
      PROVE  /\ T!ClaimCall(a) <=> TP!ClaimCall(a)
             /\ T!TransitionCall(a) <=> TP!TransitionCall(a)
             /\ T!RenewCall(a) <=> TP!RenewCall(a)
  <2>1. ASSUME NEW p, NEW c, NEW s
        PROVE  T!Begin(a, p, c, s) <=> TP!Begin(a, p, c, s)
    BY DEF T!Begin, TP!Begin
  <2>2. T!Room <=> TP!Room
    BY DEF T!Room, TP!Room, T!Cardinality, TP!Cardinality
  <2>3. T!ClaimCall(a) <=> TP!ClaimCall(a)
    BY <2>1, <2>2, Zenon DEF T!ClaimCall, TP!ClaimCall
  <2>4. T!TransitionCall(a) <=> TP!TransitionCall(a)
    BY <2>1, Zenon DEF T!TransitionCall, TP!TransitionCall
  <2>5. T!RenewCall(a) <=> TP!RenewCall(a)
    BY <2>1, Zenon DEF T!RenewCall, TP!RenewCall
  <2>. QED  BY <2>3, <2>4, <2>5
<1>4. ASSUME NEW a \in Agents
      PROVE  T!Steps(a) <=> TP!Steps(a)
  <2> USE DEF T!Return, TP!Return, T!Held, TP!Held
  <2>1. T!ClaimNext(a) <=> TP!ClaimNext(a)
    <3>1. ASSUME NEW i PROVE T!First(i) <=> TP!First(i)
      BY DEF T!First, TP!First
    <3>. QED  BY <3>1, Zenon DEF T!ClaimNext, TP!ClaimNext
  <2>2. T!Finish(a) <=> TP!Finish(a)
    BY DEF T!Finish, TP!Finish
  <2>3. T!Requeue(a) <=> TP!Requeue(a)
    BY DEF T!Requeue, TP!Requeue
  <2>4. T!RenewLease(a) <=> TP!RenewLease(a)
    BY DEF T!RenewLease, TP!RenewLease
  <2>. QED  BY <2>1, <2>2, <2>3, <2>4 DEF T!Steps, TP!Steps
<1>5. ASSUME NEW a \in Agents
      PROVE  /\ T!Heartbeat(a) <=> TP!Heartbeat(a)
             /\ T!Departs(a) <=> TP!Departs(a)
             /\ T!TxFails(a) <=> TP!TxFails(a)
             /\ T!Dies(a) <=> TP!Dies(a)
  <2>1. T!Heartbeat(a) <=> TP!Heartbeat(a)
    BY DEF T!Heartbeat, TP!Heartbeat
  <2>2. T!Departs(a) <=> TP!Departs(a)
    BY DEF T!Departs, TP!Departs
  <2>3. T!TxFails(a) <=> TP!TxFails(a)
    BY DEF T!TxFails, TP!TxFails, T!Return, TP!Return
  <2>4. T!Dies(a) <=> TP!Dies(a)
    BY DEF T!Dies, TP!Dies
  <2>. QED  BY <2>1, <2>2, <2>3, <2>4
<1>6. T!Next <=> TP!Next
  BY <1>1, <1>2, <1>3, <1>4, <1>5, Zenon DEF T!Next, TP!Next
<1>7. T!vars = TP!vars
  OBVIOUS
<1>8. T!vars' = TP!vars'
  OBVIOUS
<1>. QED  BY <1>6, <1>7, <1>8, Zenon

\* The initial states of tasks, under both names.
LEMMA SameInit == T!Init => TP!Init
BY DEF T!Init, TP!Init, T!Ids, TP!Ids, T!Absent, TP!Absent, T!Record, TP!Record,
       T!NoClaim, TP!NoClaim

\* So the inductive invariant of Tasks serves here.
LEMMA TasksInitInv == T!Init => TP!IInv
BY TaskConstantsHold, SameInit, TP!InitInv DEF T!TaskConstants, TP!TaskConstants

\* And every step of tasks keeps it.
LEMMA TasksStepInv == TP!IInv /\ [T!Next]_(T!vars) => TP!IInv'
BY TaskConstantsHold, SameSteps, TP!StepInv DEF T!TaskConstants, TP!TaskConstants

-----------------------------------------------------------------------------
(* What the two tables have to do with each other *)

\* A registration in flight is for some time, a member on its way out is one no
\* more, and a member has a row unless its registration ever lapsed.
Members ==
    /\ member \subseteq Agents
    /\ \A a \in Agents : pc[a] = "register" => span[a] \in Spans \ {0}
    /\ \A a \in Agents : pc[a] = "leave" => a \notin member
    /\ \A a \in member : a \in lapsed \/ agents[a] # 0

CoordInv == IInv /\ TP!IInv /\ Members

\* The task queue leaves the rest alone.
LEMMA TasksAside == TaskStep => UNCHANGED <<vars, member>>
<1>1. T!Push \/ T!Reap => UNCHANGED <<clock, agents, alive>>
  BY DEF T!Push, T!Reap, T!ReapStart, T!ReapUpdate, T!clients
<1>2. ASSUME NEW a \in Agents,
             T!ClaimCall(a) \/ T!TransitionCall(a) \/ T!Steps(a) \/ T!TxFails(a)
      PROVE  UNCHANGED <<clock, agents, alive>>
  BY <1>2 DEF T!ClaimCall, T!TransitionCall, T!Begin, T!Steps, T!ClaimNext, T!Finish, T!Requeue,
              T!RenewLease, T!TxFails, T!clients
<1>3. TaskStep => UNCHANGED <<clock, agents, alive>>
  BY <1>1, <1>2 DEF TaskStep
<1>. QED  BY <1>3 DEF TaskStep, own, vars

\* Steps of the composition are steps of Presence.
LEMMA PresenceInside == [CoordNext]_all => [Next]_vars
<1>1. PresenceStep \/ CommonStep => Next
  BY DEF PresenceStep, CommonStep, Next
<1>. QED  BY <1>1, TasksAside DEF CoordNext, all

\* Steps of the composition are steps of Tasks.
LEMMA TasksInside == CoordInv /\ [CoordNext]_all => [T!Next]_(T!vars)
<1> SUFFICES ASSUME CoordInv, [CoordNext]_all PROVE [T!Next]_(T!vars)
  OBVIOUS
<1> USE DEF T!vars, T!table, T!clients, T!calls, T!reaper, work
<1>1. CASE TaskStep
  BY <1>1 DEF TaskStep, T!Next
<1>2. CASE UNCHANGED all
  BY <1>2 DEF all, vars
<1>3. CASE Restart /\ T!Restart
  BY <1>3 DEF T!Next
<1>4. CASE Tick /\ UNCHANGED work
  <2>1. T!Tick
    BY <1>4 DEF Tick, T!Tick
  <2>. QED  BY <2>1 DEF T!Next
<1>5. ASSUME NEW a \in Agents, Dies(a), UNCHANGED work
      PROVE  T!Next
  <2>1. T!Dies(a)
    BY <1>5, CoordinationConstants DEF Dies, T!Dies
  <2>. QED  BY <2>1 DEF T!Next
<1>6. ASSUME UNCHANGED work, Reap \/ LockExpires
      PROVE  T!Next \/ UNCHANGED T!vars
  <2>1. CASE ReapRemove
    <3>1. UNCHANGED <<clock, alive>> /\ victim \in Agents /\ agents \in [Agents -> Nat]
      BY <2>1 DEF ReapRemove, Fails, CoordInv, IInv, TypeOK, locks
    <3>2. agents' = agents \/ agents' = [agents EXCEPT ![victim] = 0]
      BY <2>1 DEF ReapRemove, Fails
    <3>3. CASE agents[victim] = 0 \/ agents' = agents
      <4>1. agents' = agents
        BY <3>1, <3>2, <3>3
      <4>. QED  BY <1>6, <3>1, <4>1
    <3>4. CASE agents[victim] # 0 /\ agents' = [agents EXCEPT ![victim] = 0]
      <4>1. T!Departs(victim)
        BY <1>6, <3>1, <3>4 DEF T!Departs
      <4>. QED  BY <3>1, <4>1 DEF T!Next
    <3>. QED  BY <3>2, <3>3, <3>4
  <2>2. CASE ~ReapRemove
    <3>1. UNCHANGED <<clock, agents, alive>>
      BY <1>6, <2>2 DEF Reap, ReapStart, ReapQuery, ReapRelease, ReapEnd, LockExpires, Fails,
                        Lease!Release, Lease!Expire
    <3>. QED  BY <1>6, <3>1
  <2>. QED  BY <2>1, <2>2
<1>7. ASSUME NEW a \in Agents, Calls(a), UNCHANGED work
      PROVE  T!Next \/ UNCHANGED T!vars
  <2>1. CASE Register(a)
    <3>1. now[a] \in 0..clock /\ span[a] \in Spans \ {0}
      BY <2>1 DEF Register, CoordInv, IInv, TypeOK, Members
    <3>2. T!Heartbeat(a)
      BY <1>7, <2>1, <3>1 DEF Register, T!Heartbeat
    <3>. QED  BY <3>2 DEF T!Next
  <2>2. CASE Leave(a)
    <3>1. CASE agents[a] = 0
      <4>1. agents' = agents
        BY <2>2, <3>1 DEF Leave, CoordInv, IInv, TypeOK
      <4>. QED  BY <1>7, <2>2, <4>1 DEF Leave
    <3>2. CASE agents[a] # 0
      <4>1. T!Departs(a)
        BY <1>7, <2>2, <3>2 DEF Leave, T!Departs
      <4>. QED  BY <4>1 DEF T!Next
    <3>. QED  BY <3>1, <3>2
  <2>3. CASE ~Register(a) /\ ~Leave(a)
    <3>1. UNCHANGED <<clock, agents, alive>>
      BY <1>7, <2>3 DEF Calls, RegisterCall, Unregister, CallFails, Fails, LockCall, Granted,
                        Refused, LockAnswer, Unlock, Lease!Release, Lease!Grant
    <3>. QED  BY <1>7, <3>1
  <2>. QED  BY <2>1, <2>2, <2>3
<1>. QED
  BY <1>1, <1>2, <1>3, <1>4, <1>5, <1>6, <1>7 DEF CoordNext, PresenceStep, CommonStep

\* The invariant holds at first.
LEMMA CoordInitInv == CoordInit => CoordInv
BY InitInv, TasksInitInv DEF CoordInit, CoordInv, Members, Init

\* Membership changes with a step of Presence only.
LEMMA MembersInv == CoordInv /\ [CoordNext]_all => Members'
<1> SUFFICES ASSUME CoordInv, [CoordNext]_all PROVE Members'
  OBVIOUS
<1>1. CASE UNCHANGED <<agents, pc, span, lapsed, member>>
  BY <1>1 DEF CoordInv, Members
<1>2. CASE TaskStep \/ UNCHANGED all
  BY <1>1, <1>2, TasksAside DEF all, vars, calls
<1>3. CASE CommonStep
  <2>1. CASE Restart /\ UNCHANGED member
    BY <2>1 DEF Restart, CoordInv, Members
  <2>2. CASE Tick /\ UNCHANGED member
    BY <2>2 DEF Tick, calls, CoordInv, Members
  <2>3. CASE (\E a \in Agents : Dies(a)) /\ UNCHANGED member
    BY <1>1, <2>3 DEF Dies, calls
  <2>. QED  BY <1>3, <2>1, <2>2, <2>3 DEF CommonStep
<1>4. CASE PresenceStep
  <2>1. TypeOK /\ LapsesKnown /\ Members
    BY DEF CoordInv, IInv
  <2>2. /\ member' \subseteq Agents
        /\ \A a \in member' : (a \in member \/ Register(a)) /\ ~Unregister(a)
    BY <1>4 DEF PresenceStep
  <2>3. \A b \in lapsed : b \in lapsed' \/ Register(b)
    <3>1. ASSUME NEW a \in Agents, Calls(a)
          PROVE  \A b \in lapsed : b \in lapsed' \/ Register(b)
      <4>1. CASE Register(a)
        BY <4>1 DEF Register, Back
      <4>2. CASE ~Register(a)
        <5>1. lapsed' = lapsed
          BY <3>1, <4>2 DEF Calls, RegisterCall, Unregister, Leave, CallFails, LockCall, Granted,
                            Refused, LockAnswer, Unlock
        <5>. QED  BY <5>1
      <4>. QED  BY <4>1, <4>2
    <3>2. ASSUME Reap \/ LockExpires
          PROVE  lapsed' = lapsed
      BY <3>2 DEF Reap, ReapStart, ReapQuery, ReapRelease, ReapRemove, ReapEnd, LockExpires
    <3>. QED  BY <1>4, <3>1, <3>2 DEF PresenceStep
  <2>4. ASSUME Reap \/ LockExpires
        PROVE  Members'
    <3>1. UNCHANGED <<pc, span>>
      BY <2>4 DEF Reap, ReapStart, ReapQuery, ReapRelease, ReapRemove, ReapEnd, LockExpires, calls
    <3>2. \A a \in Agents : ~Register(a)
      BY <2>1, <3>1 DEF Register, Return, TypeOK
    <3>3. \A a \in Agents : agents'[a] = agents[a] \/ a \in lapsed
      BY <2>1, <2>4 DEF Reap, ReapStart, ReapQuery, ReapRelease, ReapRemove, ReapEnd, LockExpires,
                        Fails, TypeOK, LapsesKnown
    <3>. QED  BY <2>1, <2>2, <2>3, <3>1, <3>2, <3>3 DEF Members
  <2>5. ASSUME NEW a \in Agents, Calls(a)
        PROVE  Members'
    <3>1. CASE RegisterCall(a)
      <4>1. \A b \in Agents : ~Register(b)
        BY <2>1, <3>1 DEF RegisterCall, Register, Return, TypeOK
      <4>. QED  BY <2>1, <2>2, <3>1, <4>1, PresenceConstants DEF RegisterCall, Members, TypeOK
    <3>2. CASE Register(a)
      <4>1. \A b \in Agents \ {a} : ~Register(b)
        BY <2>1, <3>2 DEF Register, Return, TypeOK
      <4>2. agents'[a] # 0 /\ \A b \in Agents \ {a} : agents'[b] = agents[b]
        BY <2>1, <3>2, PresenceConstants DEF Register, TypeOK, Members
      <4>3. /\ pc'[a] = "idle"
            /\ \A b \in Agents \ {a} : pc'[b] = pc[b] /\ span'[b] = span[b]
        BY <2>1, <3>2 DEF Register, Return, TypeOK
      <4>. QED  BY <2>1, <2>2, <2>3, <4>1, <4>2, <4>3 DEF Members
    <3>3. CASE Unregister(a)
      <4>1. \A b \in Agents : ~Register(b)
        BY <2>1, <3>3 DEF Unregister, Register, Return, TypeOK
      <4>. QED  BY <2>1, <2>2, <3>3, <4>1 DEF Unregister, Members, TypeOK
    <3>4. CASE Leave(a)
      <4>1. pc[a] = "leave" /\ a \notin member
        BY <2>1, <3>4 DEF Leave, Members
      <4>2. \A b \in Agents : ~Register(b)
        BY <2>1, <3>4, <4>1 DEF Leave, Register, Return, TypeOK
      <4>3. pc'[a] = "idle" /\ \A b \in Agents \ {a} :
               pc'[b] = pc[b] /\ span'[b] = span[b] /\ agents'[b] = agents[b]
        BY <2>1, <3>4 DEF Leave, Return, TypeOK
      <4>. QED  BY <2>1, <2>2, <2>3, <4>1, <4>2, <4>3 DEF Members
    <3>5. CASE CallFails(a)
      <4>1. UNCHANGED agents /\ pc'[a] = "idle"
            /\ \A b \in Agents \ {a} : pc'[b] = pc[b] /\ span'[b] = span[b]
        BY <2>1, <3>5 DEF CallFails, Fails, Return, TypeOK
      <4>2. \A b \in Agents : ~Register(b)
        BY <2>1, <3>5 DEF CallFails, Fails, Register, reaper, TypeOK
      <4>. QED  BY <2>1, <2>2, <2>3, <4>1, <4>2 DEF Members
    <3>6. CASE LockCall(a) \/ Granted(a) \/ Refused(a) \/ Unlock(a)
      <4>1. UNCHANGED <<pc, span, agents>>
        BY <3>6 DEF LockCall, Granted, Refused, LockAnswer, Unlock, calls
      <4>2. \A b \in Agents : ~Register(b)
        BY <2>1, <4>1 DEF Register, Return, TypeOK
      <4>. QED  BY <2>1, <2>2, <2>3, <4>1, <4>2 DEF Members
    <3>. QED  BY <2>5, <3>1, <3>2, <3>3, <3>4, <3>5, <3>6 DEF Calls
  <2>. QED  BY <1>4, <2>4, <2>5 DEF PresenceStep
<1>. QED  BY <1>2, <1>3, <1>4 DEF CoordNext

\* Every step keeps the invariant.
LEMMA CoordStepInv == CoordInv /\ [CoordNext]_all => CoordInv'
BY PresenceInside, StepInv, TasksInside, TasksStepInv, MembersInv DEF CoordInv

-----------------------------------------------------------------------------
(* What follows *)

\* Every reachable state of the composition has its types.
THEOREM CoordTypeCorrect == CoordSpec => []CoordTypeOK
<1>1. CoordInv => CoordTypeOK
  BY SameTypes DEF CoordInv, CoordTypeOK, IInv, TP!IInv, Members
<1>. QED  BY <1>1, CoordInitInv, CoordStepInv, PTL DEF CoordSpec

\* With the task queue beside it, the reaper of presence.go:67-98 still takes
\* nothing from an agent whose present registration has not lapsed, unless it was
\* on its way for an earlier one.
THEOREM LocksKept == CoordSpec => TimelyKeepsLocks
<1>1. CoordInit => Init
  BY DEF CoordInit
<1>2. CoordSpec => Spec
  BY <1>1, PresenceInside, PTL DEF CoordSpec, Spec
<1>. QED  BY <1>2, TimelyKept, PTL

\* The agents table, as registrations, reapers and failures leave it, is one of
\* those that Tasks allows, so what TasksProofs says of tasks it says here.
THEOREM Environment == CoordSpec => TasksEnvironment
<1>1. CoordInit => T!Init
  BY DEF CoordInit
<1>. QED  BY <1>1, TasksInside, CoordInitInv, CoordStepInv, PTL DEF CoordSpec, TasksEnvironment, T!Spec

\* A row that the presence reaper deleted late (presence.go:93) never costs an
\* agent its tasks (tasks.go:101-116) while its registration runs, unless that
\* sweep had found an earlier registration lapsed.
THEOREM WorkKept == CoordSpec => TimelyKeepsWork
<1> DEFINE Kept(i) ==
       (T!Ends(i) /\ trpc = "update" /\ trpc' = "idle") =>
          task[i].expires <= clock \/ task[i].agent \notin member \ lapsed
<1>1. ASSUME CoordInv, [CoordNext]_all, NEW i \in T!Ids
      PROVE  Kept(i)
  <2> SUFFICES ASSUME T!Ends(i), trpc = "update", trpc' = "idle",
                      task[i].agent \in member \ lapsed
               PROVE  task[i].expires <= clock
    OBVIOUS
  <2>1. T!TypeOK /\ TypeOK /\ LapsesKnown /\ Members
    BY <1>1, SameTypes DEF CoordInv, IInv, TP!IInv
  <2>2. task' # task
    BY DEF T!Ends
  <2>3. T!ReapUpdate
    <3>1. TaskStep
      BY <1>1, <2>2 DEF CoordNext, PresenceStep, CommonStep, work, all, Restart, T!Restart, T!table
    <3>2. ~T!Push /\ ~T!ReapStart
      BY DEF T!Push, T!ReapStart, T!reaper
    <3>3. \A a \in Agents : ~(T!ClaimCall(a) \/ T!TransitionCall(a) \/ T!Steps(a) \/ T!TxFails(a))
      BY DEF T!ClaimCall, T!TransitionCall, T!Begin, T!Steps, T!ClaimNext, T!Finish, T!Requeue,
             T!RenewLease, T!TxFails, T!reaper
    <3>. QED  BY <3>1, <3>2, <3>3 DEF TaskStep, T!Reap
  <2>4. task \in [T!Ids -> T!Row] /\ trnow \in Nat /\ clock \in Nat /\ trnow <= clock
    BY <2>1 DEF T!TypeOK
  <2>5. T!Lapsed(i)
    BY <1>1, <2>3, <2>4 DEF T!ReapUpdate, T!Ends
  <2>6. task[i].expires \in Nat
    BY <1>1, <2>4 DEF T!Row
  <2>7. task[i].agent \in Agents /\ agents[task[i].agent] \in Nat \ {0}
        /\ ~(agents[task[i].agent] <= clock)
    BY <2>1 DEF Members, LapsesKnown, TypeOK
  <2>. QED  BY <2>4, <2>5, <2>6, <2>7 DEF T!Lapsed
<1>2. CoordInv /\ [CoordNext]_all => [\A i \in T!Ids : Kept(i)]_all
  BY <1>1
<1>. QED  BY <1>2, CoordInitInv, CoordStepInv, PTL DEF CoordSpec, TimelyKeepsWork

\* The abstract queue behind tasks, under both names.
LEMMA SameWork ==
    /\ TP!Work!WorkInit => T!Work!WorkInit
    /\ [TP!Work!WorkNext]_(TP!Work!workVars) => [T!Work!WorkNext]_(T!Work!workVars)
<1> USE DEF T!Ids, TP!Ids, T!Work!Ids, TP!Work!Ids, T!Waiting, TP!Waiting, T!Done, TP!Done,
            T!Priority, TP!Priority, T!Leased, TP!Leased, T!LeaseOf, TP!LeaseOf,
            T!Lengths, TP!Lengths, T!Work!Lease, TP!Work!Lease, T!Work!NoLease, TP!Work!NoLease
<1>1. TP!Work!WorkInit => T!Work!WorkInit
  BY DEF TP!Work!WorkInit, T!Work!WorkInit
<1>2. (TP!Work!Advance <=> T!Work!Advance) /\ (TP!Work!ComeAndGo <=> T!Work!ComeAndGo)
  BY DEF TP!Work!Advance, T!Work!Advance, TP!Work!ComeAndGo, T!Work!ComeAndGo
<1>3. ASSUME NEW i, NEW p
      PROVE  TP!Work!Add(i, p) <=> T!Work!Add(i, p)
  BY DEF TP!Work!Add, T!Work!Add, TP!Work!Pushed, T!Work!Pushed, TP!Work!Leased, T!Work!Leased
<1>4. ASSUME NEW i, NEW a, NEW t, NEW s
      PROVE  TP!Work!Claim(i, a, t, s) <=> T!Work!Claim(i, a, t, s)
  BY DEF TP!Work!Claim, T!Work!Claim, TP!Work!Foremost, T!Work!Foremost
<1>5. ASSUME NEW i
      PROVE  TP!Work!Known(i) <=> T!Work!Known(i)
  BY DEF TP!Work!Known, T!Work!Known, TP!Work!Leased, T!Work!Leased
<1>6. ASSUME NEW i, NEW t, NEW s
      PROVE  TP!Work!Extend(i, t, s) <=> T!Work!Extend(i, t, s)
  BY <1>5 DEF TP!Work!Extend, T!Work!Extend
<1>7. ASSUME NEW i
      PROVE  /\ TP!Work!Complete(i) <=> T!Work!Complete(i)
             /\ TP!Work!GiveBack(i) <=> T!Work!GiveBack(i)
  BY <1>5 DEF TP!Work!Complete, T!Work!Complete, TP!Work!GiveBack, T!Work!GiveBack
<1>8. ASSUME NEW S
      PROVE  TP!Work!Lapse(S) <=> T!Work!Lapse(S)
  BY DEF TP!Work!Lapse, T!Work!Lapse, TP!Work!Leased, T!Work!Leased
<1>9. TP!Work!WorkNext <=> T!Work!WorkNext
  BY <1>2, <1>3, <1>4, <1>6, <1>7, <1>8, Zenon DEF TP!Work!WorkNext, T!Work!WorkNext
<1>10. TP!Work!workVars = T!Work!workVars /\ TP!Work!workVars' = T!Work!workVars'
  BY DEF TP!Work!workVars, T!Work!workVars
<1>. QED  BY <1>1, <1>9, <1>10, Zenon

\* So the task queue keeps, over the agents table of presence.go, the promise that
\* WorkQueue states: what registrations, reapers and restarts do to that table is no
\* excuse.
THEOREM WorkPromised == CoordSpec => T!WorkRefined
<1>1. T!Init => TP!Init
  BY SameInit
<1>2. T!Spec => TP!Spec
  BY <1>1, SameSteps, PTL DEF T!Spec, TP!Spec
<1>3. TP!Spec => TP!WorkRefined
  BY TaskConstantsHold, TP!ImplementsWorkQueue DEF T!TaskConstants, TP!TaskConstants
<1>4. TP!WorkRefined => T!WorkRefined
  BY SameWork, PTL DEF TP!WorkRefined, T!WorkRefined, TP!Work!WorkSpec, T!Work!WorkSpec
<1>. QED  BY <1>2, <1>3, <1>4, Environment, PTL DEF TasksEnvironment
===============================================================================
