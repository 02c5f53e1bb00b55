----------------------------- MODULE EventsProofs -----------------------------
(***************************************************************************)
(* Proofs about events, for any number of clients and notifiers.           *)
(***************************************************************************)
EXTENDS Events, TLAPS

\* A client that was told a generation since the last clear, but not of a later
\* signal, was told an older generation, and went to sleep before the signal.
NewsAhead ==
    \A w \in Waiters \ stale :
        /\ last[w] <= known[w] /\ known[w] <= gen
        /\ wpc[w] = "blocked" => seen[w] <= gen
        /\ w \in news => /\ known[w] < gen
                         /\ wpc[w] = "blocked" => seen[w] < gen

IInv == TypeOK /\ NoLostWakeup /\ NewsAhead

\* The initial state satisfies the inductive invariant.
LEMMA InitInv == Init => IInv
BY EventConstants DEF Init, IInv, TypeOK, NoLostWakeup, NewsAhead

\* Every step keeps the types.
LEMMA StepType == TypeOK /\ [Next]_vars => TypeOK'
<1> SUFFICES ASSUME TypeOK, [Next]_vars PROVE TypeOK'
  OBVIOUS
<1> USE DEF TypeOK
<1>1. ASSUME NEW s \in Notifiers, Signal(s) \/ Clear(s) \/ Broadcast(s)
      PROVE  TypeOK'
  BY <1>1 DEF Signal, Clear, Broadcast
<1>2. ASSUME NEW w \in Waiters, Wait(w) \/ Capture(w) \/ Woken(w)
      PROVE  TypeOK'
  BY <1>2 DEF Wait, Capture, Woken
<1>3. ASSUME NEW w \in Waiters, NEW g \in Nat, Answer(w, g),
             gen' = gen, npc' = npc, news' \subseteq Waiters, stale' \subseteq Waiters
      PROVE  TypeOK'
  BY <1>3 DEF Answer
<1>4. ASSUME NEW w \in Waiters, Read(w) \/ ReadFails(w) \/ Timeout(w) \/ Disconnect(w)
      PROVE  TypeOK'
  <2>1. CASE Block(w) /\ UNCHANGED <<gen, npc>>
    BY <2>1 DEF Block
  <2>. QED  BY <1>3, <1>4, <2>1 DEF Read, ReadFails, Tell, Timeout, Disconnect
<1>5. CASE Restart
  BY <1>5 DEF Restart
<1>6. CASE UNCHANGED vars
  BY <1>6 DEF vars
<1>. QED  BY <1>1, <1>2, <1>4, <1>5, <1>6 DEF Next

\* No step makes a waiter sleep through a signal.
LEMMA StepWakeup == TypeOK /\ NoLostWakeup /\ [Next]_vars => NoLostWakeup'
<1> SUFFICES ASSUME TypeOK, NoLostWakeup, [Next]_vars PROVE NoLostWakeup'
  OBVIOUS
<1> USE DEF TypeOK, NoLostWakeup, BroadcastDue
<1>1. ASSUME NEW s \in Notifiers, Signal(s) \/ Clear(s)
      PROVE  NoLostWakeup'
  <2>1. npc'[s] = "broadcast"
    BY <1>1 DEF Signal, Clear
  <2>. QED  BY <2>1
<1>2. ASSUME NEW s \in Notifiers, Broadcast(s)
      PROVE  NoLostWakeup'
  BY <1>2 DEF Broadcast
<1>3. ASSUME NEW w \in Waiters, Wait(w) \/ Capture(w) \/ Woken(w)
      PROVE  NoLostWakeup'
  BY <1>3 DEF Wait, Capture, Woken
<1>4. ASSUME NEW w \in Waiters, NEW g \in Nat, Answer(w, g), gen' = gen, npc' = npc
      PROVE  NoLostWakeup'
  BY <1>4 DEF Answer
<1>5. ASSUME NEW w \in Waiters, Read(w) \/ ReadFails(w) \/ Timeout(w) \/ Disconnect(w)
      PROVE  NoLostWakeup'
  <2>1. CASE gen <= last[w] /\ Block(w) /\ UNCHANGED <<gen, npc>>
    BY <2>1 DEF Block
  <2>. QED  BY <1>4, <1>5, <2>1 DEF Read, ReadFails, Tell, Timeout, Disconnect
<1>6. CASE Restart \/ UNCHANGED vars
  BY <1>6 DEF Restart, vars
<1>. QED  BY <1>1, <1>2, <1>3, <1>5, <1>6 DEF Next

\* No step but a clear lets a client forget a signal it was not told of.
LEMMA StepNews ==
    ASSUME TypeOK, NewsAhead, [Next]_vars
    PROVE  NewsAhead'
<1> USE DEF TypeOK, NewsAhead
<1>1. ASSUME NEW s \in Notifiers, Signal(s)
      PROVE  NewsAhead'
  BY <1>1 DEF Signal
<1>2. ASSUME NEW s \in Notifiers, Clear(s) \/ Broadcast(s)
      PROVE  NewsAhead'
  BY <1>2 DEF Clear, Broadcast
<1>3. ASSUME NEW w \in Waiters, Wait(w) \/ Capture(w) \/ Woken(w)
      PROVE  NewsAhead'
  BY <1>3 DEF Wait, Capture, Woken
<1>4. ASSUME NEW w \in Waiters, NEW g \in Nat, Answer(w, g), gen' = gen,
             news' \subseteq news, stale \ {w} \subseteq stale',
             w \notin stale' => g <= gen /\ (w \in news' => g < gen)
      PROVE  NewsAhead'
  BY <1>4 DEF Answer
<1>5. ASSUME NEW w \in Waiters, Read(w)
      PROVE  NewsAhead'
  <2>1. CASE gen > last[w] /\ Tell(w, {w}) /\ gen' = gen
    BY <1>4, <2>1 DEF Tell
  <2>2. CASE gen <= last[w] /\ gen' = gen
    <3>1. w \notin news \/ w \in stale
      BY <2>2
    <3>2. CASE Tell(w, {w} \cap stale)
      BY <1>4, <2>2, <3>1, <3>2 DEF Tell
    <3>3. CASE Block(w)
      BY <2>2, <3>1, <3>3 DEF Block
    <3>. QED  BY <1>5, <2>2, <3>2, <3>3 DEF Read
  <2>. QED  BY <1>5, <2>1, <2>2 DEF Read
<1>6. ASSUME NEW w \in Waiters, ReadFails(w) \/ Timeout(w) \/ Disconnect(w)
      PROVE  NewsAhead'
  <2>1. CASE Timeout(w)
    BY <1>4, <2>1 DEF Timeout
  <2>2. CASE ReadFails(w) \/ Disconnect(w)
    BY <1>4, <2>2 DEF ReadFails, Disconnect
  <2>. QED  BY <1>6, <2>1, <2>2
<1>7. CASE Restart \/ UNCHANGED vars
  BY <1>7 DEF Restart, vars
<1>. QED  BY <1>1, <1>2, <1>3, <1>5, <1>6, <1>7 DEF Next

\* Every step keeps the inductive invariant.
LEMMA StepInv == IInv /\ [Next]_vars => IInv'
BY StepType, StepWakeup, StepNews DEF IInv

\* Every reachable state has its types.
THEOREM TypeCorrect == Spec => []TypeOK
<1>1. IInv => TypeOK
  BY DEF IInv
<1>. QED  BY InitInv, StepInv, <1>1, PTL DEF Spec

\* However waits, signals and clears interleave, the capture of the channel
\* before the read (events.go:133-139) leaves no waiter asleep behind a signal
\* that nobody is about to announce.
THEOREM NeverLost == Spec => []NoLostWakeup
<1>1. IInv => NoLostWakeup
  BY DEF IInv
<1>. QED  BY InitInv, StepInv, <1>1, PTL DEF Spec

\* A client that passes back what it was told since the last clear misses no
\* signal that fired between its calls.
THEOREM NeverMissed == Spec => []NoMissedSignal
<1>1. IInv => NoMissedSignal
  <2> SUFFICES ASSUME IInv, NEW w \in (listening \cap news) \ stale,
                      wpc[w] = "blocked", last[w] = known[w]
               PROVE  BroadcastDue
    BY DEF NoMissedSignal
  <2>1. w \in Waiters /\ gen > last[w]
    BY DEF IInv, TypeOK, NewsAhead
  <2>. QED  BY <2>1 DEF IInv, NoLostWakeup
<1>. QED  BY InitInv, StepInv, <1>1, PTL DEF Spec
=============================================================================
