---------------------------- MODULE PresenceProofs ----------------------------
(***************************************************************************)
(* Proofs about the presence manager, for any number of agents and locks.  *)
(***************************************************************************)
EXTENDS Presence, TLAPS

\* Whatever the reaper has on its list, or in hand, did lapse, and is not back
\* for it; and no lapse goes unnoticed.
LapsesKnown ==
    /\ \A a \in Agents : (agents[a] # 0 /\ agents[a] <= clock) => a \in lapsed
    /\ doomed \subseteq lapsed
    /\ rpc = "remove" => victim \in lapsed

IInv == TypeOK /\ LapsesKnown

\* The initial state satisfies the inductive invariant.
LEMMA InitInv == Init => IInv
BY PresenceConstants DEF Init, IInv, TypeOK, LapsesKnown

\* What a release of an agent's locks does to the table.
LEMMA ReleaseRows ==
    ASSUME NEW a \in Agents, NEW S \in SUBSET Names, row \in [Names -> Lease!Row \cup {NoRow}],
           Lease!Release(S, a)
    PROVE  /\ row' \in [Names -> Lease!Row \cup {NoRow}]
           /\ \A n \in Names : row'[n] # row[n] => row[n] # NoRow /\ row[n].agent = a
           /\ UNCHANGED <<clock, grants>>
BY DEF Lease!Release

\* The calls of the agents keep the invariant.
LEMMA CallInv ==
    ASSUME IInv, NEW a \in Agents,
           \/ RegisterCall(a) \/ Register(a) \/ Unregister(a) \/ Leave(a)
           \/ CallFails(a) \/ Dies(a)
    PROVE  IInv'
<1> USE DEF IInv
<1>1. CASE RegisterCall(a)
  BY <1>1, PresenceConstants DEF RegisterCall, TypeOK, LapsesKnown, locks, reaper
<1>2. CASE Register(a)
  <2>1. now[a] + span[a] \in Nat
    BY DEF TypeOK
  <2>2. agents' \in [Agents -> Nat] /\ lapsed' \subseteq Agents
        /\ \A b \in lapsed : b # a \/ a \in doomed \cup {victim} => b \in lapsed'
    BY <1>2, <2>1 DEF Register, Back, TypeOK
  <2>3. \A b \in Agents : (agents'[b] # 0 /\ agents'[b] <= clock) => b \in lapsed'
    BY <1>2, <2>1 DEF Register, Back, TypeOK, LapsesKnown
  <2>4. LapsesKnown'
    BY <1>2, <2>2, <2>3 DEF Register, LapsesKnown, reaper
  <2>5. TypeOK'
    BY <1>2, <2>2 DEF Register, Return, TypeOK, locks, reaper
  <2>. QED  BY <2>4, <2>5
<1>3. CASE Unregister(a)
  <2>1. row' \in [Names -> Lease!Row \cup {NoRow}] /\ UNCHANGED <<clock, grants>>
    BY <1>3, ReleaseRows DEF Unregister, Held, TypeOK
  <2>. QED  BY <1>3, <2>1 DEF Unregister, TypeOK, LapsesKnown, reaper
<1>4. CASE Leave(a)
  BY <1>4 DEF Leave, Return, TypeOK, LapsesKnown, locks, reaper
<1>5. CASE Dies(a)
  BY <1>5 DEF Dies, TypeOK, LapsesKnown, locks, calls, reaper
<1>6. CASE CallFails(a)
  BY <1>6 DEF CallFails, Fails, Return, TypeOK, LapsesKnown, locks, reaper
<1>. QED  BY <1>1, <1>2, <1>3, <1>4, <1>5, <1>6

\* What the agents and the lock manager do to the locks keeps the invariant.
LEMMA LockInv ==
    ASSUME IInv, LockExpires \/ \E a \in Agents : LockCall(a) \/ Granted(a) \/ Refused(a) \/ Unlock(a)
    PROVE  IInv'
<1> USE DEF IInv
<1>1. ASSUME NEW a \in Agents, LockCall(a)
      PROVE  IInv'
  BY <1>1 DEF LockCall, TypeOK, LapsesKnown, locks, calls, reaper
<1>2. ASSUME NEW a \in Agents, Granted(a)
      PROVE  IInv'
  <2>1. PICK n \in Names, t \in since[a]..clock, ttl \in TTLs : Lease!Grant({n}, a, t, ttl)
    BY <1>2 DEF Granted
  <2>2. t + ttl \in Nat /\ grants + 1 \in Nat
    BY PresenceConstants DEF TypeOK
  <2> DEFINE r(m) == [agent |-> a, token |-> <<m, grants + 1>>, expires |-> t + ttl]
  <2>3. \A m \in Names : r(m) \in Lease!Row
    BY <2>2 DEF Lease!Row, Lease!Token
  <2>4. row' = [m \in Names |-> IF m \in {n} THEN r(m) ELSE row[m]]
    BY <2>1 DEF Lease!Grant
  <2> HIDE DEF r
  <2>5. row' \in [Names -> Lease!Row \cup {NoRow}]
    BY <2>3, <2>4 DEF TypeOK
  <2>6. grants' \in Nat /\ clock' = clock
    BY <2>1, <2>2 DEF Lease!Grant
  <2>. QED  BY <1>2, <2>5, <2>6 DEF Granted, LockAnswer, TypeOK, LapsesKnown, calls, reaper
<1>3. ASSUME NEW a \in Agents, Refused(a)
      PROVE  IInv'
  BY <1>3 DEF Refused, LockAnswer, TypeOK, LapsesKnown, locks, calls, reaper
<1>4. ASSUME NEW a \in Agents, Unlock(a)
      PROVE  IInv'
  <2>1. row' \in [Names -> Lease!Row \cup {NoRow}] /\ UNCHANGED <<clock, grants>>
    BY <1>4, ReleaseRows DEF Unlock, Held, TypeOK
  <2>. QED  BY <1>4, <2>1 DEF Unlock, TypeOK, LapsesKnown, calls, reaper
<1>5. CASE LockExpires
  <2>1. row' \in [Names -> Lease!Row \cup {NoRow}] /\ UNCHANGED <<clock, grants>>
    BY <1>5 DEF LockExpires, Lease!Expire, TypeOK
  <2>. QED  BY <1>5, <2>1 DEF LockExpires, TypeOK, LapsesKnown, calls, reaper
<1>. QED  BY <1>1, <1>2, <1>3, <1>4, <1>5

\* The reaper's steps keep the invariant.
LEMMA ReapInv ==
    ASSUME IInv, Reap
    PROVE  IInv'
<1> USE DEF IInv
<1>1. CASE ReapStart
  BY <1>1 DEF ReapStart, TypeOK, LapsesKnown, locks, calls
<1>2. CASE ReapQuery
  <2>1. CASE rpc' = "next"
    BY <1>2, <2>1 DEF ReapQuery, TypeOK, LapsesKnown, locks, calls
  <2>2. CASE rpc' = "idle" /\ Fails
    BY <1>2, <2>2 DEF ReapQuery, Fails, TypeOK, LapsesKnown, locks, calls
  <2>. QED  BY <1>2, <2>1, <2>2 DEF ReapQuery
<1>3. CASE ReapRelease
  <2>1. PICK a \in doomed :
           /\ doomed' = doomed \ {a} /\ victim' = a
           /\ \/ Lease!Release(Held(a), a) /\ UNCHANGED <<agents, fails>>
              \/ Fails
    BY <1>3 DEF ReapRelease
  <2>2. a \in Agents /\ a \in lapsed
    BY DEF TypeOK, LapsesKnown
  <2>3. /\ row' \in [Names -> Lease!Row \cup {NoRow}] /\ UNCHANGED <<clock, grants, agents>>
        /\ fails' \in Nat
    <3>1. CASE Lease!Release(Held(a), a) /\ UNCHANGED <<agents, fails>>
      BY <2>2, <3>1, ReleaseRows DEF Held, TypeOK
    <3>2. CASE Fails
      BY <3>2 DEF Fails, locks, TypeOK
    <3>. QED  BY <2>1, <3>1, <3>2
  <2>. QED  BY <1>3, <2>1, <2>2, <2>3 DEF ReapRelease, TypeOK, LapsesKnown, calls
<1>4. CASE ReapRemove
  <2>1. /\ UNCHANGED <<clock, row, grants>> /\ fails' \in Nat
        /\ agents' = agents \/ agents' = [agents EXCEPT ![victim] = 0]
    BY <1>4 DEF ReapRemove, Fails, locks, TypeOK
  <2>. QED  BY <1>4, <2>1 DEF ReapRemove, TypeOK, LapsesKnown, calls
<1>5. CASE ReapEnd
  BY <1>5 DEF ReapEnd, TypeOK, LapsesKnown, locks, calls
<1>. QED  BY <1>1, <1>2, <1>3, <1>4, <1>5 DEF Reap

\* Every step keeps the inductive invariant.
LEMMA StepInv == IInv /\ [Next]_vars => IInv'
<1> SUFFICES ASSUME IInv, [Next]_vars PROVE IInv'
  OBVIOUS
<1>1. CASE Tick
  BY <1>1 DEF Tick, IInv, TypeOK, LapsesKnown, locks, calls, reaper
<1>2. CASE UNCHANGED vars
  BY <1>2 DEF vars, IInv, TypeOK, LapsesKnown, locks, calls, reaper
<1>3. CASE Restart
  BY <1>3, PresenceConstants DEF Restart, IInv, TypeOK, LapsesKnown, locks
<1>. QED  BY <1>1, <1>2, <1>3, CallInv, LockInv, ReapInv DEF Next, Calls

\* Every reachable state has its types.
THEOREM TypeCorrect == Spec => []TypeOK
<1>1. IInv => TypeOK
  BY DEF IInv
<1>. QED  BY InitInv, StepInv, <1>1, PTL DEF Spec

\* The reaper of presence.go:67-98 looks once and acts later; still, it never
\* takes anything from an agent whose present registration has not lapsed, unless
\* it found an earlier one lapsed and was on its way already.
THEOREM TimelyKept == Spec => TimelyKeepsLocks
<1> DEFINE Kept ==
       Reaping => /\ \A n \in Names : row'[n] # row[n] => row[n].agent \in lapsed
                  /\ \A a \in Agents : agents'[a] # agents[a] => a \in lapsed
<1>1. ASSUME IInv, [Next]_vars
      PROVE  Kept
  <2> SUFFICES ASSUME Reaping PROVE Kept
    OBVIOUS
  <2> USE <1>1 DEF IInv
  <2>1. CASE ReapRelease
    <3>1. PICK a \in doomed :
             \/ Lease!Release(Held(a), a) /\ UNCHANGED <<agents, fails>>
             \/ Fails
      BY <2>1 DEF ReapRelease
    <3>2. a \in Agents /\ a \in lapsed
      BY DEF TypeOK, LapsesKnown
    <3>3. CASE Lease!Release(Held(a), a) /\ UNCHANGED <<agents, fails>>
      BY <3>2, <3>3, ReleaseRows DEF Held, TypeOK
    <3>4. CASE Fails
      BY <3>4 DEF Fails, locks
    <3>. QED  BY <3>1, <3>3, <3>4
  <2>2. CASE ReapRemove
    <3>1. row' = row /\ (agents' = agents \/ agents' = [agents EXCEPT ![victim] = 0])
      BY <2>2 DEF ReapRemove, Fails, locks
    <3>. QED  BY <2>2, <3>1 DEF ReapRemove, TypeOK, LapsesKnown
  <2>3. CASE ReapEnd
    BY <2>3 DEF ReapEnd, locks
  <2>4. CASE Restart
    BY <2>4 DEF Restart, locks
  <2>5. ReapRelease \/ ReapRemove \/ ReapEnd \/ Restart
    <3>1. ASSUME NEW a \in Agents, Calls(a) \/ Dies(a) PROVE rpc' = rpc
      BY <3>1 DEF Calls, RegisterCall, Register, Unregister, Leave, CallFails, LockCall, Granted,
                  Refused, LockAnswer, Unlock, Dies, reaper
    <3>2. LockExpires \/ Tick \/ UNCHANGED vars => rpc' = rpc
      BY DEF LockExpires, Tick, vars, reaper
    <3>3. ~ReapStart /\ ~ReapQuery
      BY DEF Reaping, ReapStart, ReapQuery
    <3>. QED  BY <3>1, <3>2, <3>3 DEF Reaping, Next, Reap
  <2>. QED  BY <2>1, <2>2, <2>3, <2>4, <2>5
<1>2. IInv /\ [Next]_vars => [Kept]_vars
  BY <1>1
<1>. QED  BY <1>2, InitInv, StepInv, PTL DEF Spec, TimelyKeepsLocks
=============================================================================
